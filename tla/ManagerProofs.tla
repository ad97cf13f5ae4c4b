---------------------------- MODULE ManagerProofs ----------------------------
(***************************************************************************)
(* Proofs of the Manager's safety properties for every number of ids,      *)
(* sessions and callers.                                                   *)
(***************************************************************************)
EXTENDS ManagerProperties, FiniteSetTheorems, TLAPS

(* The definitions that group variables or name a common step.              *)
USE DEF reqVars, tables, sessVars, stopVars, watchVars, sinkVars, resVars,
        waitVars, attachVars, sendVars, clientVars, coreVars, vars,
        StartStep, WatchStep, WaitStep, AttachStep, SendStep, ShutdownStep

(* The initial state is well typed.                                         *)
LEMMA TypeInit == Init => TypeOK
<1> SUFFICES ASSUME Init PROVE TypeOK
  OBVIOUS
<1>1. /\ idOf \in [Starts -> Ids] /\ attachable \in [Starts -> BOOLEAN]
      /\ registry \in [Ids -> Starts \cup {None}]
      /\ results \in [Ids -> Starts \cup {None}]
      /\ code \in [Starts -> Codes] /\ resCode \in [Starts -> Codes]
      /\ recorded \in [Starts -> {"created", "launching", "running"} \cup Terminal]
      /\ row \in [Ids -> {"created", "launching", "running"} \cup Terminal]
      /\ attachCount \in [Starts -> Nat]
  BY DEF Init, Codes
<1>2. /\ stopReq \in [Starts -> BOOLEAN] /\ killing \in [Starts -> BOOLEAN]
      /\ sawKilling \in [Starts -> BOOLEAN]
      /\ brokerClosed \in [Starts -> BOOLEAN] /\ resDone \in [Starts -> BOOLEAN]
      /\ stopped \in BOOLEAN /\ panicked \in BOOLEAN
  BY DEF Init
<1> QED
  BY <1>1, <1>2 DEF Init, TypeOK

(* Updating one counter leaves a function of counters.                      *)
LEMMA CountTyped ==
  ASSUME NEW f \in [Starts -> Nat], NEW x, NEW k \in Nat
  PROVE  [f EXCEPT ![x] = k] \in [Starts -> Nat]
OBVIOUS

(* No step of a Start call, a watch goroutine, a session or a client breaks *)
(* the types.                                                               *)
LEMMA TypeStep == TypeOK /\ [Next]_vars => TypeOK'
<1> SUFFICES ASSUME TypeOK, [Next]_vars PROVE TypeOK'
  OBVIOUS
<1>21. CASE UNCHANGED vars
  BY <1>21 DEF TypeOK
<1> USE ManagerAssumption DEF TypeOK, Codes, Terminal
<1>1. ASSUME NEW s \in Starts, StartCheck(s) PROVE TypeOK'
  BY <1>1 DEF StartCheck
<1>2. ASSUME NEW s \in Starts, StartLaunching(s) PROVE TypeOK'
  BY <1>2 DEF StartLaunching, Record
<1>3. ASSUME NEW s \in Starts, StartSpawned(s) PROVE TypeOK'
  BY <1>3 DEF StartSpawned
<1>4. ASSUME NEW s \in Starts, StartFailed(s) PROVE TypeOK'
  BY <1>4 DEF StartFailed, Record, CloseBroker
<1>5. ASSUME NEW s \in Starts, StartRunning(s) PROVE TypeOK'
  BY <1>5 DEF StartRunning, Record
<1>6. ASSUME NEW s \in Starts, StartRegister(s) PROVE TypeOK'
  BY <1>6 DEF StartRegister, Insert
<1>7. ASSUME NEW s \in Starts, StartRefused(s) PROVE TypeOK'
  BY <1>7 DEF StartRefused
<1>8. ASSUME NEW s \in Starts, StartAbandon(s) PROVE TypeOK'
  BY <1>8 DEF StartAbandon, CloseBroker
<1>9. ASSUME NEW s \in Starts, SessionExit(s) PROVE TypeOK'
  BY <1>9 DEF SessionExit
<1>10. ASSUME NEW s \in Starts, WatchReap(s) PROVE TypeOK'
  BY <1>10 DEF WatchReap, Unregister
<1>11. ASSUME NEW s \in Starts, WatchRecord(s) PROVE TypeOK'
  BY <1>11 DEF WatchRecord, Record, Verdict
<1>12. ASSUME NEW s \in Starts, WatchCloseBroker(s) PROVE TypeOK'
  BY <1>12 DEF WatchCloseBroker, CloseBroker
<1>13. ASSUME NEW s \in Starts, WatchDeliver(s) PROVE TypeOK'
  <2>1. CASE target[s] = None
    BY <1>13, <2>1 DEF WatchDeliver
  <2>2. CASE target[s] # None
    <3>1. target[s] \in Starts
      BY <2>2
    <3>2. resDone[target[s]] \in BOOLEAN
      BY <3>1
    <3>3. panicked' = resDone[target[s]]
      BY <1>13, <2>2 DEF WatchDeliver
    <3>4. panicked' \in BOOLEAN
      BY <3>2, <3>3, Zenon
    <3>5. /\ watch' = [watch EXCEPT ![s] = "delivered"]
          /\ resCode' = [resCode EXCEPT ![target[s]] = code[s]]
          /\ resDone' = [resDone EXCEPT ![target[s]] = TRUE]
          /\ UNCHANGED <<clientVars, stopped, start, sessVars, stopVars, tables,
                         sawKilling, target, sinkVars, brokerClosed>>
      BY <1>13, <2>2 DEF WatchDeliver
    <3> QED
      BY <3>1, <3>4, <3>5
  <2> QED
    BY <2>1, <2>2
<1>14. ASSUME NEW s \in Starts, WatchDone(s) PROVE TypeOK'
  BY <1>14 DEF WatchDone
<1>15. ASSUME NEW id \in Ids, StopMark(id) PROVE TypeOK'
  <2>1. registry[id] \in Starts
    BY <1>15 DEF StopMark
  <2> QED
    BY <1>15, <2>1 DEF StopMark
<1>16. ASSUME NEW s \in Starts, StopSession(s) PROVE TypeOK'
  BY <1>16 DEF StopSession
<1> HIDE DEF TypeOK
<1>17. ASSUME NEW w \in Waiters, WaitNext(w) PROVE TypeOK'
  <2>1. waitPC' \in [Waiters -> {"idle", "blocked", "returned", "cancelled"}]
    BY <1>17 DEF WaitNext, WaitLookup, WaitReturn, WaitCancel, TypeOK
  <2>2. waitOn' \in [Waiters -> Starts \cup {None}]
    <3>1. ASSUME NEW id \in Ids, WaitLookup(w, id)
          PROVE  waitOn' \in [Waiters -> Starts \cup {None}]
      <4>1. results[id] \in Starts \cup {None}
        BY DEF TypeOK
      <4> QED
        BY <3>1, <4>1 DEF WaitLookup, TypeOK
    <3>2. CASE waitOn' = waitOn
      BY <3>2 DEF TypeOK
    <3> QED
      BY <1>17, <3>1, <3>2 DEF WaitNext, WaitReturn, WaitCancel
  <2>3. UNCHANGED <<coreVars, stopped, attachVars, sendVars, shutPC>>
    BY <1>17 DEF WaitNext, WaitLookup, WaitReturn, WaitCancel
  <2> QED
    BY <2>1, <2>2, <2>3 DEF TypeOK
<1>18. ASSUME NEW t \in Attachers, AttachNext(t) PROVE TypeOK'
  <2>1. attPC' \in [Attachers -> {"idle", "found", "streaming", "leaving"}]
    BY <1>18 DEF AttachNext, AttachLookup, AttachEnter, AttachEOF, AttachBreak,
                 AttachLeave, TypeOK
  <2>2. attOn' \in [Attachers -> Starts \cup {None}]
    <3>1. ASSUME NEW id \in Ids, AttachLookup(t, id)
          PROVE  attOn' \in [Attachers -> Starts \cup {None}]
      <4>1. registry[id] \in Starts \cup {None}
        BY DEF TypeOK
      <4> QED
        BY <3>1, <4>1 DEF AttachLookup, TypeOK
    <3>2. CASE attOn' = attOn \/ attOn' = [attOn EXCEPT ![t] = None]
      BY <3>2 DEF TypeOK
    <3>3. \/ \E id \in Ids : AttachLookup(t, id)
          \/ attOn' = attOn \/ attOn' = [attOn EXCEPT ![t] = None]
      BY <1>18 DEF AttachNext, AttachEnter, AttachEOF, AttachBreak, AttachLeave
    <3> QED
      BY <3>1, <3>2, <3>3
  <2>3. attachCount' \in [Starts -> Nat]
    <3>1. attachCount \in [Starts -> Nat] /\ attOn[t] \in Starts \cup {None}
      BY DEF TypeOK
    <3>2. ASSUME NEW k \in Nat, attachCount' = [attachCount EXCEPT ![attOn[t]] = k]
          PROVE  attachCount' \in [Starts -> Nat]
      BY <3>1, <3>2, CountTyped
    <3>3. CASE attOn[t] \in Starts
      <4>1. attachCount[attOn[t]] \in Nat
        BY <3>1, <3>3
      <4>2. attachCount[attOn[t]] + 1 \in Nat /\ Decremented(attachCount[attOn[t]]) \in Nat
        BY <4>1 DEF Decremented
      <4>3. \/ attachCount' = [attachCount EXCEPT ![attOn[t]] = @ + 1]
            \/ attachCount' = [attachCount EXCEPT ![attOn[t]] = Decremented(@)]
            \/ attachCount' = attachCount
        BY <1>18 DEF AttachNext, AttachLookup, AttachEnter, AttachEOF, AttachBreak,
                     AttachLeave
      <4> QED
        BY <3>1, <3>2, <4>2, <4>3
    <3>4. CASE attOn[t] \notin Starts
      <4>1. \/ \E k : attachCount' = [attachCount EXCEPT ![attOn[t]] = k]
            \/ attachCount' = attachCount
        BY <1>18 DEF AttachNext, AttachLookup, AttachEnter, AttachEOF, AttachBreak,
                     AttachLeave
      <4> QED
        BY <3>1, <3>4, <4>1
    <3> QED
      BY <3>3, <3>4
  <2>4. UNCHANGED <<coreVars, stopped, waitVars, sendVars, shutPC>>
    BY <1>18 DEF AttachNext, AttachLookup, AttachEnter, AttachEOF, AttachBreak,
                 AttachLeave
  <2> QED
    BY <2>1, <2>2, <2>3, <2>4 DEF TypeOK
<1>19. ASSUME NEW n \in Senders, SendNext(n) PROVE TypeOK'
  <2>1. sendPC' \in [Senders -> {"idle", "found", "inside"}]
    BY <1>19 DEF SendNext, SendLookup, SendLock, SendUnlock, TypeOK
  <2>2. sendOn' \in [Senders -> Starts \cup {None}]
    <3>1. ASSUME NEW id \in Ids, SendLookup(n, id)
          PROVE  sendOn' \in [Senders -> Starts \cup {None}]
      <4>1. registry[id] \in Starts \cup {None}
        BY DEF TypeOK
      <4> QED
        BY <3>1, <4>1 DEF SendLookup, TypeOK
    <3>2. CASE sendOn' = sendOn \/ sendOn' = [sendOn EXCEPT ![n] = None]
      BY <3>2 DEF TypeOK
    <3> QED
      BY <1>19, <3>1, <3>2 DEF SendNext, SendLock, SendUnlock
  <2>3. inputMu' \in [Starts -> Senders \cup {None}]
    <3>1. \/ inputMu' = inputMu
          \/ inputMu' = [inputMu EXCEPT ![sendOn[n]] = n]
          \/ inputMu' = [inputMu EXCEPT ![sendOn[n]] = None]
      BY <1>19 DEF SendNext, SendLookup, SendLock, SendUnlock
    <3>2. inputMu \in [Starts -> Senders \cup {None}]
      BY DEF TypeOK
    <3> QED
      BY <3>1, <3>2
  <2>4. UNCHANGED <<coreVars, stopped, waitVars, attachVars, shutPC>>
    BY <1>19 DEF SendNext, SendLookup, SendLock, SendUnlock
  <2> QED
    BY <2>1, <2>2, <2>3, <2>4 DEF TypeOK
<1>20. ASSUME NEW h \in Shutters, ShutdownNext(h) PROVE TypeOK'
  <2> USE DEF ShutdownNext, ShutdownFirst, ShutdownAgain, ShutdownDrained,
    ShutdownTimeout
  <2>1. shutPC' \in [Shutters -> {"idle", "draining", "drained", "timedOut", "repeated"}]
    BY <1>20, SMTT(20) DEF TypeOK
  <2>2. stopped' \in BOOLEAN
    BY <1>20 DEF TypeOK
  <2>3. UNCHANGED <<coreVars, waitVars, attachVars, sendVars>>
    BY <1>20
  <2> QED
    BY <2>1, <2>2, <2>3 DEF TypeOK
<1> QED
  BY <1>1, <1>2, <1>3, <1>4, <1>5, <1>6, <1>7, <1>8, <1>9, <1>10, <1>11, <1>12,
     <1>13, <1>14, <1>15, <1>16, <1>17, <1>18, <1>19, <1>20, <1>21
     DEF Next, StartNext, WatchNext

(* Every variable of the Manager keeps its type, for all constants.         *)
THEOREM TypeCorrect == Spec => []TypeOK
BY TypeInit, TypeStep, PTL DEF Spec

-----------------------------------------------------------------------------
(* The inductive invariant behind the safety properties.                    *)

Underway == {"checked", "launching", "spawned", "announced", "refused"}
Pending == {"waiting", "reaped", "recorded", "closed"}

(* How the control points of a Start call, its session, its watch goroutine *)
(* and its result go together.                                              *)
Phases ==
  \A s \in Starts :
    /\ start[s] = "registered" <=> watch[s] # "none"
    /\ start[s] \in {"idle", "checked", "launching", "failed"} => sess[s] = "none"
    /\ start[s] = "rejected" /\ sess[s] # "none" => stopReq[s] = TRUE
    /\ watch[s] \notin {"none", "waiting"} =>
         sess[s] = "exited" /\ target[s] = s /\ sawKilling[s] = killing[s]
    /\ s \in wg <=> watch[s] \in Pending \cup {"delivered"}
    /\ resDone[s] <=> watch[s] \in {"delivered", "done"}

(* What has been written by the time a goroutine stands at a control point. *)
Written ==
  \A s \in Starts :
    /\ start[s] = "announced" \/ watch[s] \in {"waiting", "reaped"}
         => recorded[s] = "running"
    /\ watch[s] \in {"recorded", "closed", "delivered", "done"}
         => recorded[s] = Verdict(s)
    /\ watch[s] \in {"closed", "delivered", "done"}
         => brokerClosed[s] = attachable[s]
    /\ watch[s] \in {"delivered", "done"} => resCode[s] = code[s]

(* A session that still has its id: the discipline on ids admits one.       *)
Holds(s) ==
  \/ start[s] \in Underway
  \/ watch[s] = "waiting"
  \/ IdReuse = "afterWait" /\ watch[s] \in Pending

Exclusive ==
  \A s, o \in Starts : Holds(s) /\ Holds(o) /\ idOf[s] = idOf[o] => s = o

(* A Shutdown that is draining, or has drained, keeps Start out.            *)
Drain ==
  \A h \in Shutters :
    /\ shutPC[h] \in {"draining", "drained"} => stopped = TRUE
    /\ shutPC[h] = "drained" => wg = {}

(* With ids reused after WaitSession only, the row of an id belongs to the  *)
(* session that is about to be, or is, registered under it.                 *)
OwnRow ==
  IdReuse = "afterWait" =>
    \A s \in Starts : start[s] = "announced" \/ watch[s] = "waiting"
                        => row[idOf[s]] = "running"

IInv ==
  /\ TypeOK /\ Phases /\ Written /\ Exclusive /\ RegistryIsLive /\ Drain
  /\ OwnRow /\ NoPanic

(* Writing the row of an id that a session holds touches no other's.        *)
LEMMA RecordKeepsRows ==
  ASSUME TypeOK, Exclusive, OwnRow, NEW s \in Starts, NEW st,
         IdReuse = "afterWait" => Holds(s), Record(s, st),
         st \in {"created", "launching", "running"} \cup Terminal, idOf' = idOf,
         \A o \in Starts \ {s} : start'[o] = start[o] /\ watch'[o] = watch[o],
         start'[s] = "announced" \/ watch'[s] = "waiting" => st = "running"
  PROVE  OwnRow'
<1> SUFFICES ASSUME IdReuse = "afterWait", NEW o \in Starts,
                    start'[o] = "announced" \/ watch'[o] = "waiting"
             PROVE  row'[idOf[o]] = "running"
  BY DEF OwnRow
<1>1. row' = [row EXCEPT ![idOf[s]] = st]
      /\ \A i \in Ids : row'[i] = IF i = idOf[s] THEN st ELSE row[i]
  BY DEF Record, TypeOK
<1>2. idOf[s] \in Ids /\ idOf[o] \in Ids
  BY DEF TypeOK
<1>3. CASE o = s
  BY <1>1, <1>2, <1>3
<1>4. CASE o # s
  <2>1. start[o] = "announced" \/ watch[o] = "waiting"
    BY <1>4
  <2>2. Holds(o) /\ row[idOf[o]] = "running"
    BY <2>1 DEF OwnRow, Holds, Underway
  <2>3. idOf[o] # idOf[s]
    BY <1>4, <2>2 DEF Exclusive
  <2> QED
    BY <1>1, <1>2, <2>2, <2>3
<1> QED
  BY <1>3, <1>4

(* The invariant holds at the start.                                        *)
LEMMA IInit == Init => IInv
<1> SUFFICES ASSUME Init PROVE IInv
  OBVIOUS
<1>1. TypeOK
  BY TypeInit
<1>2. Phases
  BY DEF Init, Phases, Pending
<1>3. Written /\ Exclusive
  BY DEF Init, Written, Exclusive, Holds, Underway, Pending
<1>4. RegistryIsLive /\ Drain /\ OwnRow /\ NoPanic
  BY ManagerAssumption DEF Init, RegistryIsLive, Drain, OwnRow, NoPanic
<1> QED
  BY <1>1, <1>2, <1>3, <1>4 DEF IInv

(* Every step keeps the invariant, when a caller starts an id again only    *)
(* after the earlier session left the registry.                             *)
LEMMA IStep ==
  ASSUME IdReuse # "overlapping", IInv, [Next]_vars
  PROVE  IInv'
<1>0. TypeOK'
  BY TypeStep DEF IInv
<1> USE <1>0, ManagerAssumption DEF IInv, TypeOK
<1>1. ASSUME NEW s \in Starts, StartCheck(s) PROVE IInv'
  <2>1. Phases'
    BY <1>1 DEF StartCheck, Released, Phases, Pending
  <2>2. Written'
    BY <1>1 DEF StartCheck, Released, Written, Verdict
  <2>3. Exclusive'
    <3>1. ASSUME NEW o \in Starts, o # s, idOf[o] = idOf[s] PROVE ~Holds(o)
      <4>1. start[o] \in {"idle", "failed", "rejected"} => ~Holds(o)
        BY DEF Phases, Holds, Underway, Pending
      <4>2. resDone[o] = TRUE => ~Holds(o)
        BY DEF Phases, Holds, Underway, Pending
      <4>3. IdReuse = "afterUnregister" /\ start[o] = "registered"
              /\ registry[idOf[o]] # o => ~Holds(o)
        BY DEF RegistryIsLive, Holds, Underway
      <4> QED
        BY <1>1, <3>1, <4>1, <4>2, <4>3 DEF StartCheck, Released
    <3>2. ASSUME NEW o \in Starts, o # s, Holds(o)' PROVE Holds(o)
      BY <1>1, <3>2 DEF StartCheck, Holds
    <3> QED
      BY <1>1, <3>1, <3>2 DEF StartCheck, Exclusive
  <2>4. OwnRow'
    BY <1>1 DEF StartCheck, Released, OwnRow
  <2>5. RegistryIsLive' /\ Drain' /\ NoPanic'
    BY <1>1 DEF StartCheck, Released, RegistryIsLive, Drain, NoPanic
  <2> QED
    BY <2>1, <2>2, <2>3, <2>4, <2>5
<1>2. ASSUME NEW s \in Starts, StartLaunching(s) PROVE IInv'
  <2>1. Phases'
    BY <1>2 DEF StartLaunching, Record, Phases, Pending
  <2>2. Written'
    BY <1>2 DEF StartLaunching, Record, Written, Verdict, Phases, Pending
  <2>3. Exclusive'
    BY <1>2 DEF StartLaunching, Record, Exclusive, Holds, Underway, Pending
  <2>4. OwnRow'
    <3>1. Record(s, "launching") /\ Holds(s) /\ idOf' = idOf
      BY <1>2 DEF StartLaunching, Holds, Underway, Pending
    <3>2. \A o \in Starts \ {s} : start'[o] = start[o] /\ watch'[o] = watch[o]
      BY <1>2 DEF StartLaunching, TypeOK
    <3>3. start'[s] = "announced" \/ watch'[s] = "waiting" => "launching" = "running"
      BY <1>2 DEF StartLaunching, Phases, TypeOK
    <3> TypeOK /\ Exclusive /\ OwnRow
      OBVIOUS
    <3> HIDE <1>0 DEF IInv, TypeOK
    <3> QED
      BY <3>1, <3>2, <3>3, RecordKeepsRows DEF Terminal
  <2>5. RegistryIsLive' /\ Drain' /\ NoPanic'
    BY <1>2 DEF StartLaunching, Record, RegistryIsLive, Drain, NoPanic
  <2> QED
    BY <2>1, <2>2, <2>3, <2>4, <2>5
<1>3. ASSUME NEW s \in Starts, StartSpawned(s) PROVE IInv'
  <2>1. Phases'
    BY <1>3 DEF StartSpawned, Phases, Pending
  <2>2. Written'
    BY <1>3 DEF StartSpawned, Written, Verdict
  <2>3. Exclusive'
    BY <1>3 DEF StartSpawned, Exclusive, Holds, Underway, Pending
  <2>4. OwnRow'
    BY <1>3 DEF StartSpawned, OwnRow
  <2>5. RegistryIsLive' /\ Drain' /\ NoPanic'
    BY <1>3 DEF StartSpawned, RegistryIsLive, Drain, NoPanic
  <2> QED
    BY <2>1, <2>2, <2>3, <2>4, <2>5
<1>4. ASSUME NEW s \in Starts, StartFailed(s) PROVE IInv'
  <2>1. Phases'
    BY <1>4 DEF StartFailed, Record, CloseBroker, Phases, Pending
  <2>2. Written'
    BY <1>4, SMTT(20) DEF StartFailed, Record, CloseBroker, Written, Verdict,
      Phases,
       Pending
  <2>3. Exclusive'
    BY <1>4 DEF StartFailed, Record, CloseBroker, Exclusive, Holds, Underway,
       Pending
  <2>4. OwnRow'
    <3>1. Record(s, "failed") /\ Holds(s) /\ idOf' = idOf
      BY <1>4 DEF StartFailed, Holds, Underway, Pending
    <3>2. \A o \in Starts \ {s} : start'[o] = start[o] /\ watch'[o] = watch[o]
      BY <1>4 DEF StartFailed, TypeOK
    <3>3. start'[s] = "announced" \/ watch'[s] = "waiting" => "failed" = "running"
      BY <1>4, SMTT(20) DEF StartFailed, Phases, TypeOK
    <3> TypeOK /\ Exclusive /\ OwnRow
      OBVIOUS
    <3> HIDE <1>0 DEF IInv, TypeOK
    <3> QED
      BY <3>1, <3>2, <3>3, RecordKeepsRows DEF Terminal
  <2>5. RegistryIsLive' /\ Drain' /\ NoPanic'
    BY <1>4 DEF StartFailed, Record, CloseBroker, RegistryIsLive, Drain,
       NoPanic
  <2> QED
    BY <2>1, <2>2, <2>3, <2>4, <2>5
<1>5. ASSUME NEW s \in Starts, StartRunning(s) PROVE IInv'
  <2>1. Phases'
    BY <1>5 DEF StartRunning, Record, Phases, Pending
  <2>2. Written'
    BY <1>5, SMTT(20) DEF StartRunning, Record, Written, Verdict, Phases, Pending
  <2>3. Exclusive'
    BY <1>5 DEF StartRunning, Record, Exclusive, Holds, Underway, Pending
  <2>4. OwnRow'
    <3>1. Record(s, "running") /\ Holds(s) /\ idOf' = idOf
      BY <1>5 DEF StartRunning, Holds, Underway, Pending
    <3>2. \A o \in Starts \ {s} : start'[o] = start[o] /\ watch'[o] = watch[o]
      BY <1>5 DEF StartRunning, TypeOK
    <3>3. start'[s] = "announced" \/ watch'[s] = "waiting" => "running" = "running"
      BY <1>5 DEF StartRunning, Phases, TypeOK
    <3> TypeOK /\ Exclusive /\ OwnRow
      OBVIOUS
    <3> HIDE <1>0 DEF IInv, TypeOK
    <3> QED
      BY <3>1, <3>2, <3>3, RecordKeepsRows DEF Terminal
  <2>5. RegistryIsLive' /\ Drain' /\ NoPanic'
    BY <1>5 DEF StartRunning, Record, RegistryIsLive, Drain, NoPanic
  <2> QED
    BY <2>1, <2>2, <2>3, <2>4, <2>5
<1>6. ASSUME NEW s \in Starts, StartRegister(s) PROVE IInv'
  <2>1. Phases'
    BY <1>6 DEF StartRegister, Insert, Phases, Pending
  <2>2. Written'
    BY <1>6 DEF StartRegister, Insert, Written, Verdict
  <2>3. Exclusive'
    BY <1>6 DEF StartRegister, Insert, Exclusive, Holds, Underway, Pending
  <2>4. RegistryIsLive'
    BY <1>6 DEF StartRegister, Insert, RegistryIsLive, Phases, Exclusive,
       Holds, Underway, Pending
  <2>5. Drain'
    BY <1>6 DEF StartRegister, Insert, Drain
  <2>6. OwnRow'
    BY <1>6 DEF StartRegister, Insert, OwnRow
  <2>7. NoPanic'
    BY <1>6 DEF StartRegister, Insert, NoPanic
  <2> QED
    BY <2>1, <2>2, <2>3, <2>4, <2>5, <2>6, <2>7
<1>7. ASSUME NEW s \in Starts, StartRefused(s) PROVE IInv'
  <2>1. Phases'
    BY <1>7 DEF StartRefused, Phases, Pending
  <2>2. Written'
    BY <1>7 DEF StartRefused, Written, Verdict
  <2>3. Exclusive'
    BY <1>7 DEF StartRefused, Exclusive, Holds, Underway, Pending
  <2>4. OwnRow'
    BY <1>7 DEF StartRefused, OwnRow
  <2>5. RegistryIsLive' /\ Drain' /\ NoPanic'
    BY <1>7 DEF StartRefused, RegistryIsLive, Drain, NoPanic
  <2> QED
    BY <2>1, <2>2, <2>3, <2>4, <2>5
<1>8. ASSUME NEW s \in Starts, StartAbandon(s) PROVE IInv'
  <2>1. Phases'
    BY <1>8 DEF StartAbandon, CloseBroker, Phases, Pending
  <2>2. Written'
    BY <1>8 DEF StartAbandon, CloseBroker, Written, Verdict
  <2>3. Exclusive'
    BY <1>8 DEF StartAbandon, CloseBroker, Exclusive, Holds, Underway, Pending
  <2>4. OwnRow'
    BY <1>8 DEF StartAbandon, CloseBroker, OwnRow
  <2>5. RegistryIsLive' /\ Drain' /\ NoPanic'
    BY <1>8 DEF StartAbandon, CloseBroker, RegistryIsLive, Drain, NoPanic
  <2> QED
    BY <2>1, <2>2, <2>3, <2>4, <2>5
<1>9. ASSUME NEW s \in Starts, SessionExit(s) PROVE IInv'
  <2>1. Phases'
    BY <1>9 DEF SessionExit, Phases, Pending
  <2>2. Written'
    BY <1>9 DEF SessionExit, Written, Verdict, Phases, Pending
  <2>3. Exclusive' /\ RegistryIsLive' /\ Drain' /\ OwnRow' /\ NoPanic'
    BY <1>9 DEF SessionExit, Exclusive, Holds, Underway, Pending,
       RegistryIsLive, Drain, OwnRow, NoPanic
  <2> QED
    BY <2>1, <2>2, <2>3
<1>10. ASSUME NEW s \in Starts, WatchReap(s) PROVE IInv'
  <2>1. Phases'
    BY <1>10 DEF WatchReap, Unregister, Phases, Pending, RegistryIsLive
  <2>2. Written'
    BY <1>10 DEF WatchReap, Unregister, Written, Verdict
  <2>3. Exclusive'
    BY <1>10 DEF WatchReap, Unregister, Exclusive, Holds, Underway, Pending
  <2>4. RegistryIsLive'
    BY <1>10 DEF WatchReap, Unregister, RegistryIsLive
  <2>5. OwnRow'
    BY <1>10 DEF WatchReap, Unregister, OwnRow
  <2>6. Drain' /\ NoPanic'
    BY <1>10 DEF WatchReap, Unregister, Drain, NoPanic
  <2> QED
    BY <2>1, <2>2, <2>3, <2>4, <2>5, <2>6
<1>11. ASSUME NEW s \in Starts, WatchRecord(s) PROVE IInv'
  <2>1. Phases'
    BY <1>11 DEF WatchRecord, Record, Phases, Pending
  <2>2. Written'
    BY <1>11 DEF WatchRecord, Record, Written, Verdict, Phases, Pending
  <2>3. Exclusive'
    BY <1>11 DEF WatchRecord, Record, Exclusive, Holds, Underway, Pending
  <2>4. RegistryIsLive'
    BY <1>11 DEF WatchRecord, Record, RegistryIsLive
  <2>5. OwnRow'
    <3>1. (IdReuse = "afterWait" => Holds(s)) /\ Record(s, Verdict(s)) /\ idOf' = idOf
      BY <1>11 DEF WatchRecord, Holds, Underway, Pending
    <3>2. \A o \in Starts \ {s} : start'[o] = start[o] /\ watch'[o] = watch[o]
      BY <1>11 DEF WatchRecord, TypeOK
    <3>3. start'[s] = "announced" \/ watch'[s] = "waiting" => Verdict(s) = "running"
      BY <1>11, SMTT(20) DEF WatchRecord, Phases, TypeOK
    <3> TypeOK /\ Exclusive /\ OwnRow
      OBVIOUS
    <3> HIDE <1>0 DEF IInv, TypeOK
    <3> QED
      BY <3>1, <3>2, <3>3, RecordKeepsRows DEF Terminal, Verdict
  <2>6. Drain' /\ NoPanic'
    BY <1>11 DEF WatchRecord, Record, Drain, NoPanic
  <2> QED
    BY <2>1, <2>2, <2>3, <2>4, <2>5, <2>6
<1>12. ASSUME NEW s \in Starts, WatchCloseBroker(s) PROVE IInv'
  <2>1. Phases'
    BY <1>12 DEF WatchCloseBroker, CloseBroker, Phases, Pending
  <2>2. Written'
    BY <1>12 DEF WatchCloseBroker, CloseBroker, Written, Verdict
  <2>3. Exclusive'
    BY <1>12 DEF WatchCloseBroker, CloseBroker, Exclusive, Holds, Underway,
       Pending
  <2>4. RegistryIsLive'
    BY <1>12 DEF WatchCloseBroker, CloseBroker, RegistryIsLive
  <2>5. OwnRow'
    BY <1>12 DEF WatchCloseBroker, CloseBroker, OwnRow
  <2>6. Drain' /\ NoPanic'
    BY <1>12 DEF WatchCloseBroker, CloseBroker, Drain, NoPanic
  <2> QED
    BY <2>1, <2>2, <2>3, <2>4, <2>5, <2>6
<1>13. ASSUME NEW s \in Starts, WatchDeliver(s) PROVE IInv'
  <2>1. Phases'
    BY <1>13 DEF WatchDeliver, Phases, Pending
  <2>2. Written'
    BY <1>13 DEF WatchDeliver, Written, Verdict, Phases, Pending
  <2>3. Exclusive'
    BY <1>13 DEF WatchDeliver, Exclusive, Holds, Underway, Pending
  <2>4. RegistryIsLive'
    BY <1>13 DEF WatchDeliver, RegistryIsLive
  <2>5. OwnRow'
    BY <1>13 DEF WatchDeliver, OwnRow
  <2>6. NoPanic'
    BY <1>13, SMTT(20) DEF WatchDeliver, NoPanic, Phases, Pending
  <2>7. Drain'
    BY <1>13 DEF WatchDeliver, Drain
  <2> QED
    BY <2>1, <2>2, <2>3, <2>4, <2>5, <2>6, <2>7
<1>14. ASSUME NEW s \in Starts, WatchDone(s) PROVE IInv'
  <2>1. Phases'
    BY <1>14 DEF WatchDone, Phases, Pending
  <2>2. Written'
    BY <1>14 DEF WatchDone, Written, Verdict
  <2>3. Exclusive'
    BY <1>14 DEF WatchDone, Exclusive, Holds, Underway, Pending
  <2>4. RegistryIsLive'
    BY <1>14 DEF WatchDone, RegistryIsLive
  <2>5. Drain'
    BY <1>14 DEF WatchDone, Drain
  <2>6. OwnRow'
    BY <1>14 DEF WatchDone, OwnRow
  <2>7. NoPanic'
    BY <1>14 DEF WatchDone, NoPanic
  <2> QED
    BY <2>1, <2>2, <2>3, <2>4, <2>5, <2>6, <2>7
<1>15. ASSUME NEW id \in Ids, StopMark(id) PROVE IInv'
  <2>1. Phases'
    <3>1. registry[id] \in Starts /\ watch[registry[id]] = "waiting"
      BY <1>15 DEF StopMark, RegistryIsLive
    <3>2. UNCHANGED <<start, watch, sess, stopReq, target, sawKilling, wg, resDone>>
      BY <1>15 DEF StopMark
    <3>3. ASSUME NEW s \in Starts, watch[s] \notin {"none", "waiting"}
          PROVE  sawKilling[s] = killing'[s]
      <4>1. sawKilling[s] = killing[s]
        BY <3>3, Zenon DEF Phases
      <4>2. s # registry[id]
        BY <3>1, <3>3
      <4>3. killing'[s] = killing[s]
        BY <1>15, <3>1, <4>2 DEF StopMark
      <4> QED
        BY <4>1, <4>3, Zenon
    <3> QED
      BY <3>2, <3>3, Zenon DEF Phases
  <2>2. Written' /\ Exclusive' /\ RegistryIsLive' /\ Drain' /\ OwnRow' /\ NoPanic'
    BY <1>15 DEF StopMark, Written, Verdict, Exclusive, Holds, Underway,
       Pending, RegistryIsLive, Drain, OwnRow, NoPanic
  <2> QED
    BY <2>1, <2>2
<1>16. ASSUME NEW s \in Starts, StopSession(s) PROVE IInv'
  <2>1. Phases'
    BY <1>16 DEF StopSession, Phases, Pending
  <2>2. Written' /\ Exclusive' /\ RegistryIsLive' /\ Drain' /\ OwnRow' /\ NoPanic'
    BY <1>16 DEF StopSession, Written, Verdict, Exclusive, Holds, Underway,
       Pending, RegistryIsLive, Drain, OwnRow, NoPanic
  <2> QED
    BY <2>1, <2>2
<1>17. ASSUME NEW h \in Shutters, ShutdownNext(h) PROVE IInv'
  <2>1. Drain'
    BY <1>17 DEF ShutdownNext, ShutdownFirst, ShutdownAgain, ShutdownDrained,
                 ShutdownTimeout, Drain
  <2>2. UNCHANGED coreVars
    BY <1>17 DEF ShutdownNext, ShutdownFirst, ShutdownAgain, ShutdownDrained,
                 ShutdownTimeout
  <2>3. Phases' /\ Written' /\ Exclusive'
    BY <2>2 DEF Phases, Pending, Written, Verdict, Exclusive, Holds, Underway
  <2>4. RegistryIsLive' /\ OwnRow' /\ NoPanic'
    BY <2>2 DEF RegistryIsLive, OwnRow, NoPanic
  <2> QED
    BY <2>1, <2>3, <2>4
<1>18. ASSUME UNCHANGED <<coreVars, stopped, shutPC>> PROVE IInv'
  <2>1. Phases' /\ Written' /\ Exclusive'
    BY <1>18 DEF Phases, Pending, Written, Verdict, Exclusive, Holds, Underway
  <2>2. RegistryIsLive' /\ Drain' /\ OwnRow' /\ NoPanic'
    BY <1>18 DEF RegistryIsLive, Drain, OwnRow, NoPanic
  <2> QED
    BY <2>1, <2>2
<1>19. ASSUME NEW w \in Waiters, WaitNext(w) PROVE IInv'
  BY <1>19, <1>18 DEF WaitNext, WaitLookup, WaitReturn, WaitCancel
<1>20. ASSUME NEW t \in Attachers, AttachNext(t) PROVE IInv'
  <2>1. UNCHANGED <<coreVars, stopped, shutPC>>
    BY <1>20 DEF AttachNext, AttachLookup, AttachEnter, AttachEOF,
                 AttachBreak, AttachLeave
  <2> QED
    BY <2>1, <1>18
<1>21. ASSUME NEW n \in Senders, SendNext(n) PROVE IInv'
  BY <1>21, <1>18 DEF SendNext, SendLookup, SendLock, SendUnlock
<1>22. CASE UNCHANGED vars
  BY <1>22, <1>18
<1> HIDE DEF IInv, TypeOK
<1> QED
  BY <1>1, <1>2, <1>3, <1>4, <1>5, <1>6, <1>7, <1>8, <1>9, <1>10, <1>11, <1>12,
     <1>13, <1>14, <1>15, <1>16, <1>17, <1>19, <1>20, <1>21, <1>22
     DEF Next, StartNext, WatchNext

(* The invariant holds in every behaviour.                                  *)
THEOREM Inductive ==
  ASSUME IdReuse # "overlapping"
  PROVE  Spec => []IInv
<1>1. IInv /\ [Next]_vars => IInv'
  BY IStep
<1> QED
  BY <1>1, IInit, PTL DEF Spec

-----------------------------------------------------------------------------
(* A session whose exit nobody has seen stays reachable under its id, and   *)
(* no other is.                                                             *)
THEOREM RegistryCorrect ==
  ASSUME IdReuse # "overlapping"
  PROVE  Spec => []RegistryIsLive
<1>1. IInv => RegistryIsLive
  BY DEF IInv
<1> QED
  BY <1>1, Inductive, PTL

(* A requested stop is never recorded as a failure, nor a crash as done.    *)
THEOREM VerdictCorrect ==
  ASSUME IdReuse # "overlapping"
  PROVE  Spec => []VerdictHonoursStop
<1>1. IInv => VerdictHonoursStop
  <2> SUFFICES ASSUME IInv, NEW s \in Starts, start[s] = "registered",
                      recorded[s] \in Terminal
               PROVE  recorded[s] = "failed" <=> ~killing[s] /\ code[s] # 0
    BY DEF VerdictHonoursStop
  <2>1. watch[s] \notin {"none", "waiting", "reaped"}
    BY DEF IInv, Phases, Written, Terminal
  <2>2. watch[s] \in {"recorded", "closed", "delivered", "done"}
    BY <2>1 DEF IInv, TypeOK
  <2>3. recorded[s] = Verdict(s)
    BY <2>2 DEF IInv, Written
  <2>4. sawKilling[s] = killing[s]
    BY <2>1, Zenon DEF IInv, Phases
  <2>5. recorded[s] = IF killing[s] \/ code[s] = 0 THEN "done" ELSE "failed"
    BY <2>3, <2>4, Zenon DEF Verdict
  <2> QED
    BY <2>5
<1> QED
  BY <1>1, Inductive, PTL

(* Whoever sees a result delivered sees all that goes with it.              *)
THEOREM DeliveryCorrect ==
  ASSUME IdReuse # "overlapping"
  PROVE  Spec => []DeliveredIsFinal
<1>1. IInv => DeliveredIsFinal
  <2> SUFFICES ASSUME IInv, NEW s \in Starts, resDone[s]
               PROVE  /\ sess[s] = "exited"
                      /\ recorded[s] \in Terminal
                      /\ brokerClosed[s] = attachable[s]
                      /\ registry[idOf[s]] # s
                      /\ resCode[s] = code[s]
    BY DEF DeliveredIsFinal
  <2>1. watch[s] \in {"delivered", "done"}
    BY Zenon DEF IInv, Phases
  <2>2. recorded[s] = Verdict(s) /\ resCode[s] = code[s]
    BY <2>1 DEF IInv, Written
  <2>3. brokerClosed[s] = attachable[s]
    BY <2>1, Zenon DEF IInv, Written
  <2>4. sess[s] = "exited"
    BY <2>1 DEF IInv, Phases
  <2>5. registry[idOf[s]] # s
    BY <2>1, ManagerAssumption DEF IInv, TypeOK, RegistryIsLive
  <2> QED
    BY <2>2, <2>3, <2>4, <2>5 DEF Verdict, Terminal
<1> QED
  BY <1>1, Inductive, PTL

(* Once a Shutdown has drained, nothing it was to wait for is left.         *)
THEOREM DrainCorrect ==
  ASSUME IdReuse # "overlapping"
  PROVE  Spec => []DrainedIsQuiet
<1>1. IInv => DrainedIsQuiet
  <2> SUFFICES ASSUME IInv, NEW h \in Shutters, shutPC[h] = "drained",
                      NEW s \in Starts
               PROVE  /\ start[s] = "registered" => resDone[s]
                      /\ sess[s] = "live" =>
                           \/ start[s] \in {"spawned", "announced", "refused"}
                           \/ stopReq[s]
    BY DEF DrainedIsQuiet
  <2>1. watch[s] \in {"none", "done"}
    BY DEF IInv, Drain, Phases, Pending, TypeOK
  <2>2. start[s] = "registered" => watch[s] = "done"
    BY <2>1 DEF IInv, Phases
  <2>3. watch[s] = "done" => resDone[s] /\ sess[s] = "exited"
    BY DEF IInv, Phases
  <2>4. sess[s] = "live" => start[s] \in {"spawned", "announced", "refused",
                                          "registered"} \/ stopReq[s]
    BY DEF IInv, Phases, TypeOK
  <2> QED
    BY <2>2, <2>3, <2>4
<1> QED
  BY <1>1, Inductive, PTL

(* While a session is registered, its id's row in the sink is its own, when *)
(* ids are reused only once WaitSession can return.                         *)
THEOREM RowCorrect ==
  ASSUME IdReuse = "afterWait"
  PROVE  Spec => []RowIsOwn
<1>1. IInv => RowIsOwn
  BY ManagerAssumption DEF IInv, TypeOK, RegistryIsLive, OwnRow, RowIsOwn
<1>2. IdReuse # "overlapping"
  OBVIOUS
<1> QED
  BY <1>1, <1>2, Inductive, PTL

(* No watch goroutine closes a result twice.                                *)
THEOREM NoDoubleClose ==
  ASSUME IdReuse # "overlapping"
  PROVE  Spec => []NoPanic
<1>1. IInv => NoPanic
  BY DEF IInv
<1> QED
  BY <1>1, Inductive, PTL

-----------------------------------------------------------------------------
(* A SendInput that is past the lock holds it.                              *)
LockHeld ==
  \A n \in Senders :
    /\ sendPC[n] # "idle" => sendOn[n] # None
    /\ sendPC[n] = "inside" => inputMu[sendOn[n]] = n

(* No two SendInput calls write to one session at once.                     *)
THEOREM WritersCorrect == Spec => []OneWriterPerSession
<1>1. Init => LockHeld
  BY DEF Init, LockHeld
<1>2. TypeOK /\ LockHeld /\ [Next]_vars => LockHeld'
  <2> SUFFICES ASSUME TypeOK, LockHeld, [Next]_vars PROVE LockHeld'
    OBVIOUS
  <2> USE ManagerAssumption DEF LockHeld, TypeOK
  <2>1. ASSUME NEW n \in Senders, NEW id \in Ids, SendLookup(n, id) PROVE LockHeld'
    BY <2>1 DEF SendLookup
  <2>2. ASSUME NEW n \in Senders, SendLock(n) PROVE LockHeld'
    BY <2>2 DEF SendLock
  <2>3. ASSUME NEW n \in Senders, SendUnlock(n) PROVE LockHeld'
    BY <2>3 DEF SendUnlock
  <2>4. CASE UNCHANGED sendVars
    BY <2>4
  <2>5. ASSUME NEW s \in Starts,
               StartNext(s) \/ WatchNext(s) \/ SessionExit(s) \/ StopSession(s)
        PROVE  UNCHANGED sendVars
    BY <2>5 DEF StartNext, StartCheck, StartLaunching, StartSpawned, StartFailed,
                StartRunning, StartRegister, StartRefused, StartAbandon, WatchNext,
                WatchReap, WatchRecord, WatchCloseBroker, WatchDeliver, WatchDone,
                SessionExit, StopSession
  <2>6. ASSUME NEW id \in Ids, StopMark(id) PROVE UNCHANGED sendVars
    BY <2>6 DEF StopMark
  <2>7. ASSUME NEW w \in Waiters, WaitNext(w) PROVE UNCHANGED sendVars
    BY <2>7 DEF WaitNext, WaitLookup, WaitReturn, WaitCancel
  <2>8. ASSUME NEW t \in Attachers, AttachNext(t) PROVE UNCHANGED sendVars
    BY <2>8 DEF AttachNext, AttachLookup, AttachEnter, AttachEOF, AttachBreak,
                AttachLeave
  <2>9. ASSUME NEW h \in Shutters, ShutdownNext(h) PROVE UNCHANGED sendVars
    BY <2>9 DEF ShutdownNext, ShutdownFirst, ShutdownAgain, ShutdownDrained,
                ShutdownTimeout
  <2> HIDE DEF LockHeld, TypeOK
  <2> QED
    BY <2>1, <2>2, <2>3, <2>4, <2>5, <2>6, <2>7, <2>8, <2>9 DEF Next, SendNext
<1>3. LockHeld => OneWriterPerSession
  BY DEF LockHeld, OneWriterPerSession
<1> QED
  BY <1>1, <1>2, <1>3, TypeCorrect, PTL DEF Spec

-----------------------------------------------------------------------------
(* The only result a step changes is that of the watch goroutine that       *)
(* delivers it, which nobody has delivered before.                          *)
LEMMA DeliversItsOwn ==
  ASSUME IInv, NEW s \in Starts, WatchDeliver(s)
  PROVE  /\ ~resDone[s]
         /\ resDone' = [resDone EXCEPT ![s] = TRUE]
         /\ resCode' = [resCode EXCEPT ![s] = code[s]]
<1>1. watch[s] = "closed"
  BY DEF WatchDeliver
<1>2. target[s] = s /\ ~resDone[s]
  BY <1>1 DEF IInv, Phases
<1>3. target[s] # None
  BY <1>2, ManagerAssumption
<1> QED
  BY <1>2, <1>3 DEF WatchDeliver

(* What WaitSession returned once, it returns for ever (watch,              *)
(* WaitSession).                                                            *)
THEOREM ResultsCorrect ==
  ASSUME IdReuse # "overlapping"
  PROVE  Spec => ResultIsStable
<1> DEFINE Stable == \A s \in Starts :
             resDone[s] => resDone'[s] /\ resCode'[s] = resCode[s]
<1>1. ASSUME IInv, [Next]_vars PROVE Stable
  <2>1. ASSUME NEW s \in Starts, WatchDeliver(s) PROVE Stable
    <3>1. \A o \in Starts \ {s} : resDone'[o] = resDone[o] /\ resCode'[o] = resCode[o]
      BY <1>1, <2>1, DeliversItsOwn DEF IInv, TypeOK
    <3> QED
      BY <1>1, <2>1, <3>1, DeliversItsOwn
  <2>2. CASE UNCHANGED <<resDone, resCode>>
    BY <2>2
  <2>3. ASSUME NEW s \in Starts, StartNext(s) \/ SessionExit(s) \/ StopSession(s)
        PROVE  UNCHANGED <<resDone, resCode>>
    BY <2>3 DEF StartNext, StartCheck, StartLaunching, StartSpawned, StartFailed,
      StartRunning, StartRegister, StartRefused, StartAbandon, SessionExit,
      StopSession
  <2>4. ASSUME NEW s \in Starts, WatchNext(s)
        PROVE  WatchDeliver(s) \/ UNCHANGED <<resDone, resCode>>
    BY <2>4 DEF WatchNext, WatchReap, WatchRecord, WatchCloseBroker, WatchDone
  <2>5. ASSUME NEW id \in Ids, StopMark(id) PROVE UNCHANGED <<resDone, resCode>>
    BY <2>5 DEF StopMark
  <2>6. ASSUME NEW w \in Waiters, WaitNext(w) PROVE UNCHANGED <<resDone, resCode>>
    BY <2>6 DEF WaitNext, WaitLookup, WaitReturn, WaitCancel
  <2>7. ASSUME NEW t \in Attachers, AttachNext(t) PROVE UNCHANGED <<resDone, resCode>>
    BY <2>7 DEF AttachNext, AttachLookup, AttachEnter, AttachEOF, AttachBreak,
      AttachLeave
  <2>8. ASSUME NEW n \in Senders, SendNext(n) PROVE UNCHANGED <<resDone, resCode>>
    BY <2>8 DEF SendNext, SendLookup, SendLock, SendUnlock
  <2>9. ASSUME NEW h \in Shutters, ShutdownNext(h) PROVE UNCHANGED <<resDone, resCode>>
    BY <2>9 DEF ShutdownNext, ShutdownFirst, ShutdownAgain, ShutdownDrained,
      ShutdownTimeout
  <2>10. CASE UNCHANGED vars
    BY <2>2, <2>10
  <2> HIDE DEF Stable
  <2> QED
    BY <1>1, <2>1, <2>2, <2>3, <2>4, <2>5, <2>6, <2>7, <2>8, <2>9, <2>10 DEF Next
<1>2. IInv /\ [Next]_vars => [Stable]_vars
  BY <1>1
<1> QED
  BY <1>2, Inductive, PTL DEF Spec, ResultIsStable

-----------------------------------------------------------------------------
(* The row of an id, told from the session that stands on it: when none     *)
(* does it is free to be started again, unless Shutdown has come between.   *)
Free(r) == r \in {"created"} \cup Terminal

OnRow(s) ==
  \/ start[s] \in {"launching", "spawned", "announced"}
  \/ watch[s] \in {"waiting", "reaped"}

RowPhase ==
  /\ \A s \in Starts :
       /\ start[s] = "checked" => Free(row[idOf[s]])
       /\ start[s] \in {"launching", "spawned"} => row[idOf[s]] = "launching"
       /\ start[s] = "announced" \/ watch[s] \in {"waiting", "reaped"}
            => row[idOf[s]] = "running"
  /\ \A i \in Ids :
       Free(row[i]) \/ stopped \/ \E s \in Starts : idOf[s] = i /\ OnRow(s)

(* A session moves on without writing its row.                              *)
LEMMA RowStays ==
  ASSUME RowPhase, UNCHANGED <<row, idOf>>, stopped => stopped',
         \A s \in Starts : OnRow(s) => OnRow(s)' \/ stopped',
         \A s \in Starts :
           /\ start'[s] = "checked" => Free(row[idOf[s]])
           /\ start'[s] \in {"launching", "spawned"} =>
                start[s] \in {"launching", "spawned"}
           /\ start'[s] = "announced" \/ watch'[s] \in {"waiting", "reaped"} =>
                start[s] = "announced" \/ watch[s] \in {"waiting", "reaped"}
  PROVE  RowPhase'
<1>1. ASSUME NEW s \in Starts
      PROVE  /\ start'[s] = "checked" => Free(row'[idOf'[s]])
             /\ start'[s] \in {"launching", "spawned"} => row'[idOf'[s]] = "launching"
             /\ start'[s] = "announced" \/ watch'[s] \in {"waiting", "reaped"}
                  => row'[idOf'[s]] = "running"
  BY DEF RowPhase
<1>2. ASSUME NEW i \in Ids
      PROVE  Free(row'[i]) \/ stopped' \/ \E s \in Starts : idOf'[s] = i /\ OnRow(s)'
  BY DEF RowPhase
<1> QED
  BY <1>1, <1>2 DEF RowPhase, Free

(* A session that has its id to itself writes its row.                      *)
LEMMA RowWritten ==
  ASSUME TypeOK, Exclusive, RowPhase, IdReuse = "afterWait", NEW s \in Starts, Holds(s),
         NEW st \in {"created", "launching", "running"} \cup Terminal, Record(s, st),
         UNCHANGED <<idOf, stopped>>,
         \A o \in Starts \ {s} : start'[o] = start[o] /\ watch'[o] = watch[o],
         start'[s] # "checked",
         start'[s] \in {"launching", "spawned"} => st = "launching",
         start'[s] = "announced" \/ watch'[s] \in {"waiting", "reaped"} => st = "running",
         OnRow(s)' \/ Free(st)
  PROVE  RowPhase'
<1>1. /\ idOf \in [Starts -> Ids]
      /\ \A i \in Ids : row'[i] = IF i = idOf[s] THEN st ELSE row[i]
  BY DEF Record, TypeOK
<1>2. ASSUME NEW o \in Starts
      PROVE  /\ start'[o] = "checked" => Free(row'[idOf[o]])
             /\ start'[o] \in {"launching", "spawned"} => row'[idOf[o]] = "launching"
             /\ start'[o] = "announced" \/ watch'[o] \in {"waiting", "reaped"}
                  => row'[idOf[o]] = "running"
  <2>1. CASE o = s
    BY <1>1, <2>1
  <2>2. CASE o # s
    <3>1. start[o] = "checked" \/ start[o] \in {"launching", "spawned", "announced"}
            \/ watch[o] \in {"waiting", "reaped"} => idOf[o] # idOf[s]
      BY <2>2 DEF Exclusive, Holds, Underway, Pending
    <3>2. start'[o] = start[o] /\ watch'[o] = watch[o]
      BY <2>2
    <3>3. idOf[o] # idOf[s] => row'[idOf[o]] = row[idOf[o]]
      BY <1>1
    <3> QED
      BY <3>1, <3>2, <3>3 DEF RowPhase
  <2> QED
    BY <2>1, <2>2
<1>3. ASSUME NEW i \in Ids
      PROVE  Free(row'[i]) \/ stopped' \/ \E o \in Starts : idOf'[o] = i /\ OnRow(o)'
  <2>1. CASE i = idOf[s]
    BY <1>1, <2>1
  <2>2. CASE i # idOf[s]
    <3>1. row'[i] = row[i]
      BY <1>1, <2>2
    <3>2. ASSUME NEW o \in Starts, idOf[o] = i, OnRow(o)
          PROVE  idOf'[o] = i /\ OnRow(o)'
      BY <2>2, <3>2 DEF OnRow
    <3> QED
      BY <3>1, <3>2 DEF RowPhase, Free
  <2> QED
    BY <2>1, <2>2
<1> QED
  BY <1>2, <1>3 DEF RowPhase, Free

(* A row is written by four kinds of steps, each from where the lifecycle   *)
(* has left it.                                                             *)
LEMMA RowStep ==
  ASSUME IdReuse = "afterWait", IInv, RowPhase, [Next]_vars
  PROVE  /\ RowPhase'
         /\ \/ UNCHANGED row
            \/ \E s \in Starts, st \in {"launching", "running"} \cup Terminal :
                 /\ row' = [row EXCEPT ![idOf[s]] = st]
                 /\ \/ Free(row[idOf[s]]) /\ st = "launching"
                    \/ row[idOf[s]] = "launching" /\ st \in {"running", "failed"}
                    \/ row[idOf[s]] = "running" /\ st \in Terminal
<1> DEFINE Goal == RowPhase' /\ UNCHANGED row
<1>0. TypeOK /\ Exclusive /\ Phases
  BY DEF IInv
<1>t. start \in [Starts -> {"idle", "checked", "launching", "spawned", "failed",
                            "announced", "registered", "refused", "rejected"}]
      /\ watch \in [Starts -> {"none", "waiting", "reaped", "recorded", "closed",
                              "delivered", "done"}]
      /\ idOf \in [Starts -> Ids]
  BY <1>0 DEF TypeOK
<1>w. \A s \in Starts : start[s] # "registered" => watch[s] = "none"
  BY <1>0 DEF Phases
<1>c. ASSUME NEW s \in Starts, start[s] = "checked" PROVE Free(row[idOf[s]])
  BY <1>c DEF RowPhase
<1>1. ASSUME NEW s \in Starts, StartCheck(s) PROVE Goal
  <2>1. /\ UNCHANGED <<row, idOf, stopped, watch>> /\ start[s] = "idle"
        /\ start' = [start EXCEPT ![s] = IF stopped THEN "rejected" ELSE "checked"]
    BY <1>1 DEF StartCheck
  <2>2. ASSUME NEW o \in Starts \ {s}, idOf[o] = idOf[s] PROVE ~OnRow(o)
    <3>1. Released(o)
      BY <1>1, <2>2 DEF StartCheck
    <3>2. start[o] \in {"idle", "failed", "rejected"} \/ resDone[o]
      BY <3>1 DEF Released
    <3> QED
      BY <1>0, <3>2 DEF OnRow, Phases
  <2>3. ~OnRow(s)
    BY <1>w, <2>1 DEF OnRow
  <2>4. Free(row[idOf[s]]) \/ stopped
    BY <1>t, <2>2, <2>3 DEF RowPhase
  <2>5. \A o \in Starts : OnRow(o) => OnRow(o)'
    BY <1>t, <2>1 DEF OnRow
  <2>6. ASSUME NEW o \in Starts
        PROVE  /\ start'[o] = "checked" => Free(row[idOf[o]])
               /\ start'[o] \in {"launching", "spawned"} =>
                    start[o] \in {"launching", "spawned"}
               /\ start'[o] = "announced" \/ watch'[o] \in {"waiting", "reaped"} =>
                    start[o] = "announced" \/ watch[o] \in {"waiting", "reaped"}
    BY <1>t, <1>c, <2>1, <2>4
  <2> QED
    BY <2>1, <2>5, <2>6, RowStays
<1>2. ASSUME NEW s \in Starts, StartLaunching(s)
      PROVE  RowPhase' /\ Record(s, "launching") /\ Free(row[idOf[s]])
  <2>1. /\ Record(s, "launching") /\ UNCHANGED <<idOf, stopped, watch>>
        /\ start[s] = "checked" /\ start' = [start EXCEPT ![s] = "launching"]
    BY <1>2 DEF StartLaunching
  <2>2. Holds(s) /\ OnRow(s)' /\ watch[s] = "none"
    BY <1>t, <1>w, <2>1 DEF Holds, OnRow, Underway
  <2> QED
    BY <1>0, <1>t, <1>c, <2>1, <2>2, RowWritten
<1>3. ASSUME NEW s \in Starts, StartSpawned(s) PROVE Goal
  <2>1. /\ UNCHANGED <<row, idOf, stopped, watch>>
        /\ start[s] = "launching" /\ start' = [start EXCEPT ![s] = "spawned"]
    BY <1>3 DEF StartSpawned
  <2>2. \A o \in Starts : OnRow(o) => OnRow(o)'
    BY <1>t, <2>1 DEF OnRow
  <2>3. ASSUME NEW o \in Starts
        PROVE  /\ start'[o] = "checked" => start[o] = "checked"
               /\ start'[o] \in {"launching", "spawned"} =>
                    start[o] \in {"launching", "spawned"}
               /\ start'[o] = "announced" => start[o] = "announced"
    BY <1>t, <2>1
  <2> QED
    BY <1>c, <2>1, <2>2, <2>3, RowStays
<1>4. ASSUME NEW s \in Starts, StartFailed(s)
      PROVE  RowPhase' /\ Record(s, "failed") /\ row[idOf[s]] = "launching"
  <2>1. /\ Record(s, "failed") /\ UNCHANGED <<idOf, stopped, watch>>
        /\ start[s] = "launching" /\ start' = [start EXCEPT ![s] = "failed"]
    BY <1>4 DEF StartFailed
  <2>2. Holds(s) /\ watch[s] = "none" /\ Free("failed")
    BY <1>w, <2>1 DEF Holds, Underway, Free, Terminal
  <2>3. row[idOf[s]] = "launching"
    BY <2>1 DEF RowPhase
  <2> QED
    BY <1>0, <1>t, <2>1, <2>2, <2>3, RowWritten DEF Terminal
<1>5. ASSUME NEW s \in Starts, StartRunning(s)
      PROVE  RowPhase' /\ Record(s, "running") /\ row[idOf[s]] = "launching"
  <2>1. /\ Record(s, "running") /\ UNCHANGED <<idOf, stopped, watch>>
        /\ start[s] = "spawned" /\ start' = [start EXCEPT ![s] = "announced"]
    BY <1>5 DEF StartRunning
  <2>2. Holds(s) /\ watch[s] = "none" /\ OnRow(s)'
    BY <1>t, <1>w, <2>1 DEF Holds, Underway, OnRow
  <2>3. row[idOf[s]] = "launching"
    BY <2>1 DEF RowPhase
  <2> QED
    BY <1>0, <1>t, <2>1, <2>2, <2>3, RowWritten
<1>6. ASSUME NEW s \in Starts, StartRegister(s) PROVE Goal
  <2>1. /\ UNCHANGED <<row, idOf, stopped>>
        /\ start[s] = "announced" /\ start' = [start EXCEPT ![s] = "registered"]
        /\ watch' = [watch EXCEPT ![s] = "waiting"]
    BY <1>6 DEF StartRegister
  <2>2. \A o \in Starts : OnRow(o) => OnRow(o)'
    BY <1>t, <2>1 DEF OnRow
  <2>3. ASSUME NEW o \in Starts
        PROVE  /\ start'[o] = "checked" => start[o] = "checked"
               /\ start'[o] \in {"launching", "spawned"} =>
                    start[o] \in {"launching", "spawned"}
               /\ start'[o] = "announced" \/ watch'[o] \in {"waiting", "reaped"} =>
                    start[o] = "announced" \/ watch[o] \in {"waiting", "reaped"}
    BY <1>t, <2>1
  <2> QED
    BY <1>c, <2>1, <2>2, <2>3, RowStays
<1>7. ASSUME NEW s \in Starts, StartRefused(s) \/ StartAbandon(s) PROVE Goal
  <2>1. /\ UNCHANGED <<row, idOf, stopped, watch>>
        /\ \/ start[s] = "announced" /\ start' = [start EXCEPT ![s] = "refused"] /\ stopped
           \/ start[s] = "refused" /\ start' = [start EXCEPT ![s] = "rejected"]
    BY <1>7 DEF StartRefused, StartAbandon
  <2>2. \A o \in Starts : OnRow(o) => OnRow(o)' \/ stopped'
    BY <1>t, <2>1 DEF OnRow
  <2>3. ASSUME NEW o \in Starts
        PROVE  /\ start'[o] = "checked" => start[o] = "checked"
               /\ start'[o] \in {"launching", "spawned"} =>
                    start[o] \in {"launching", "spawned"}
               /\ start'[o] = "announced" => start[o] = "announced"
    BY <1>t, <2>1
  <2> QED
    BY <1>c, <2>1, <2>2, <2>3, RowStays
<1>8. ASSUME NEW s \in Starts, WatchReap(s) PROVE Goal
  <2>1. /\ UNCHANGED <<row, idOf, stopped, start>>
        /\ watch[s] = "waiting" /\ watch' = [watch EXCEPT ![s] = "reaped"]
    BY <1>8 DEF WatchReap
  <2>2. \A o \in Starts : OnRow(o) => OnRow(o)'
    BY <1>t, <2>1 DEF OnRow
  <2>3. \A o \in Starts : watch'[o] \in {"waiting", "reaped"} =>
                          watch[o] \in {"waiting", "reaped"}
    BY <1>t, <2>1
  <2> QED
    BY <1>c, <2>1, <2>2, <2>3, RowStays
<1>9. ASSUME NEW s \in Starts, WatchRecord(s)
      PROVE  RowPhase' /\ Record(s, Verdict(s)) /\ row[idOf[s]] = "running"
  <2>1. /\ Record(s, Verdict(s)) /\ UNCHANGED <<idOf, stopped, start>>
        /\ watch[s] = "reaped" /\ watch' = [watch EXCEPT ![s] = "recorded"]
    BY <1>9 DEF WatchRecord
  <2>2. /\ Holds(s) /\ start[s] = "registered"
        /\ Verdict(s) \in Terminal /\ Free(Verdict(s))
    BY <1>w, <2>1 DEF Holds, Pending, Verdict, Terminal, Free
  <2>3. row[idOf[s]] = "running"
    BY <2>1 DEF RowPhase
  <2> HIDE DEF Verdict
  <2> QED
    BY <1>0, <1>t, <2>1, <2>2, <2>3, RowWritten
<1>10. ASSUME NEW s \in Starts, WatchCloseBroker(s) \/ WatchDeliver(s) \/ WatchDone(s)
       PROVE  Goal
  <2>1. /\ UNCHANGED <<row, idOf, stopped, start>>
        /\ watch[s] \in {"recorded", "closed", "delivered"}
        /\ \E to \in {"closed", "delivered", "done"} : watch' = [watch EXCEPT ![s] = to]
    BY <1>10 DEF WatchCloseBroker, WatchDeliver, WatchDone
  <2>2. \A o \in Starts : OnRow(o) => OnRow(o)'
    BY <1>t, <2>1 DEF OnRow
  <2>3. \A o \in Starts : watch'[o] \in {"waiting", "reaped"} =>
                          watch[o] \in {"waiting", "reaped"}
    BY <1>t, <2>1
  <2> QED
    BY <1>c, <2>1, <2>2, <2>3, RowStays
<1>11. ASSUME UNCHANGED <<row, idOf, start, watch>>, stopped => stopped' PROVE Goal
  BY <1>11, <1>c, RowStays DEF OnRow
<1>12. ASSUME NEW s \in Starts, SessionExit(s) \/ StopSession(s) PROVE Goal
  BY <1>11, <1>12 DEF SessionExit, StopSession
<1>13. ASSUME NEW id \in Ids, StopMark(id) PROVE Goal
  BY <1>11, <1>13 DEF StopMark
<1>14. ASSUME NEW w \in Waiters, WaitNext(w) PROVE Goal
  BY <1>11, <1>14 DEF WaitNext, WaitLookup, WaitReturn, WaitCancel
<1>15. ASSUME NEW t \in Attachers, AttachNext(t) PROVE Goal
  BY <1>11, <1>15 DEF AttachNext, AttachLookup, AttachEnter, AttachEOF, AttachBreak,
    AttachLeave
<1>16. ASSUME NEW n \in Senders, SendNext(n) PROVE Goal
  BY <1>11, <1>16 DEF SendNext, SendLookup, SendLock, SendUnlock
<1>17. ASSUME NEW h \in Shutters, ShutdownNext(h) PROVE Goal
  BY <1>11, <1>17 DEF ShutdownNext, ShutdownFirst, ShutdownAgain, ShutdownDrained,
    ShutdownTimeout
<1>18. ASSUME UNCHANGED vars PROVE Goal
  BY <1>11, <1>18
<1>19. \A s \in Starts : Verdict(s) \in Terminal
  BY DEF Verdict, Terminal
<1> HIDE DEF Goal
<1> DEFINE Moved == \/ UNCHANGED row
                    \/ \E s \in Starts, st \in {"launching", "running"} \cup Terminal :
                         /\ row' = [row EXCEPT ![idOf[s]] = st]
                         /\ \/ Free(row[idOf[s]]) /\ st = "launching"
                            \/ row[idOf[s]] = "launching" /\ st \in {"running", "failed"}
                            \/ row[idOf[s]] = "running" /\ st \in Terminal
<1>20. Goal => RowPhase' /\ Moved
  BY DEF Goal
<1>21. ASSUME NEW s \in Starts,
              StartLaunching(s) \/ StartFailed(s) \/ StartRunning(s) \/ WatchRecord(s)
       PROVE  RowPhase' /\ Moved
  BY <1>2, <1>4, <1>5, <1>9, <1>19, <1>21 DEF Record, Terminal
<1> HIDE DEF Moved
<1>22. ASSUME NEW s \in Starts, StartNext(s) PROVE RowPhase' /\ Moved
  BY <1>1, <1>3, <1>6, <1>7, <1>20, <1>21, <1>22 DEF StartNext
<1>23. ASSUME NEW s \in Starts, WatchNext(s) PROVE RowPhase' /\ Moved
  BY <1>8, <1>10, <1>20, <1>21, <1>23 DEF WatchNext
<1>24. ASSUME Next PROVE RowPhase' /\ Moved
  <2>1. \/ \E x \in Starts : StartNext(x) \/ WatchNext(x) \/ SessionExit(x) \/ StopSession(x)
        \/ \E id \in Ids : StopMark(id)
        \/ \E w \in Waiters : WaitNext(w)
        \/ \E t \in Attachers : AttachNext(t)
        \/ \E n \in Senders : SendNext(n)
        \/ \E h \in Shutters : ShutdownNext(h)
    BY <1>24 DEF Next
  <2> QED
    BY <2>1, <1>12, <1>13, <1>14, <1>15, <1>16, <1>17, <1>20, <1>22, <1>23
<1>25. RowPhase' /\ Moved
  BY <1>18, <1>20, <1>24
<1> QED
  BY <1>25 DEF Moved

(* The rows of the sink follow the lifecycle (recordState), when ids are    *)
(* reused only once WaitSession can return.                                 *)
THEOREM RowsCorrect ==
  ASSUME IdReuse = "afterWait"
  PROVE  Spec => RowFollowsLifecycle
<1> DEFINE Follows == \A i \in Ids : row'[i] = row[i] \/
             <<row[i], row'[i]>> \in
               {<<"launching", "running">>, <<"launching", "failed">>}
               \cup ({"created"} \cup Terminal) \X {"launching"}
               \cup {"running"} \X Terminal
<1>1. Init => RowPhase
  BY DEF Init, RowPhase, Free
<1>2. IInv /\ RowPhase /\ [Next]_vars => RowPhase'
  BY RowStep
<1>3. ASSUME IInv, RowPhase, [Next]_vars PROVE Follows
  <2>1. CASE UNCHANGED row
    BY <2>1
  <2>2. ASSUME NEW s \in Starts, NEW st \in {"launching", "running"} \cup Terminal,
               row' = [row EXCEPT ![idOf[s]] = st],
               \/ Free(row[idOf[s]]) /\ st = "launching"
               \/ row[idOf[s]] = "launching" /\ st \in {"running", "failed"}
               \/ row[idOf[s]] = "running" /\ st \in Terminal
        PROVE  Follows
    <3>1. \A i \in Ids : row'[i] = IF i = idOf[s] THEN st ELSE row[i]
      BY <1>3, <2>2 DEF IInv, TypeOK
    <3> QED
      BY <2>2, <3>1 DEF Free, Terminal
  <2> HIDE DEF Follows
  <2> QED
    BY <1>3, <2>1, <2>2, RowStep
<1>4. IInv /\ RowPhase /\ [Next]_vars => [Follows]_vars
  BY <1>3
<1>5. IdReuse # "overlapping"
  OBVIOUS
<1> QED
  BY <1>1, <1>2, <1>4, <1>5, Inductive, PTL DEF Spec, RowFollowsLifecycle

-----------------------------------------------------------------------------
(* The clients counted on a session.                                        *)
Attached(s) == {t \in Attachers : attPC[t] \in {"streaming", "leaving"} /\ attOn[t] = s}

Attaching ==
  \A t \in Attachers : attPC[t] # "idle" <=> attOn[t] # None

LEMMA AttachedFinite ==
  \A s : IsFiniteSet(Attached(s)) /\ Cardinality(Attached(s)) \in Nat
<1> TAKE s
<1>1. Attached(s) \in SUBSET Attachers
  BY DEF Attached
<1>2. IsFiniteSet(Attached(s))
  BY <1>1, ManagerAssumption, FS_Subset
<1> QED
  BY <1>2, FS_CardinalityType

(* A client joins the count of its session, or leaves it; the count is      *)
(* above zero before it leaves, so the clamp changes nothing.               *)
LEMMA AttachEnterCounts ==
  ASSUME TypeOK, Attaching, AttachCountExact, NEW t \in Attachers, AttachEnter(t)
  PROVE  AttachCountExact'
<1>1. /\ attPC[t] = "found" /\ attPC' = [attPC EXCEPT ![t] = "streaming"]
      /\ attOn' = attOn
      /\ attachCount' = [attachCount EXCEPT ![attOn[t]] = @ + 1]
      /\ attOn[t] \in Starts
      /\ attPC \in [Attachers -> {"idle", "found", "streaming", "leaving"}]
      /\ attachCount \in [Starts -> Nat]
  BY DEF AttachEnter, TypeOK, Attaching
<1>2. ASSUME NEW s \in Starts PROVE attachCount'[s] = Cardinality(Attached(s)')
  <2>1. attachCount[s] = Cardinality(Attached(s))
    BY DEF AttachCountExact, Attached
  <2>2. CASE s = attOn[t]
    <3>1. Attached(s)' = Attached(s) \cup {t} /\ t \notin Attached(s)
      BY <1>1, <2>2 DEF Attached
    <3>2. Cardinality(Attached(s)') = Cardinality(Attached(s)) + 1
      BY <3>1, AttachedFinite, FS_AddElement
    <3> QED
      BY <1>1, <2>1, <2>2, <3>2
  <2>3. CASE s # attOn[t]
    <3>1. Attached(s)' = Attached(s)
      BY <1>1, <2>3 DEF Attached
    <3> QED
      BY <1>1, <2>1, <2>3, <3>1
  <2> QED
    BY <2>2, <2>3
<1> QED
  BY <1>2 DEF AttachCountExact, Attached

LEMMA AttachLeaveCounts ==
  ASSUME TypeOK, Attaching, AttachCountExact, NEW t \in Attachers, AttachLeave(t)
  PROVE  AttachCountExact'
<1>1. /\ attPC[t] = "leaving" /\ attPC' = [attPC EXCEPT ![t] = "idle"]
      /\ attOn' = [attOn EXCEPT ![t] = None]
      /\ attachCount' = [attachCount EXCEPT ![attOn[t]] = Decremented(@)]
      /\ attOn[t] \in Starts
      /\ attPC \in [Attachers -> {"idle", "found", "streaming", "leaving"}]
      /\ attOn \in [Attachers -> Starts \cup {None}]
      /\ attachCount \in [Starts -> Nat]
  BY DEF AttachLeave, TypeOK, Attaching
<1>2. ASSUME NEW s \in Starts PROVE attachCount'[s] = Cardinality(Attached(s)')
  <2>1. attachCount[s] = Cardinality(Attached(s))
    BY DEF AttachCountExact, Attached
  <2>2. CASE s = attOn[t]
    <3>1. Attached(s)' = Attached(s) \ {t} /\ t \in Attached(s)
      BY <1>1, <2>2, ManagerAssumption DEF Attached
    <3>2. Cardinality(Attached(s)') = Cardinality(Attached(s)) - 1
      BY <3>1, AttachedFinite, FS_RemoveElement
    <3>3. Cardinality(Attached(s)) \in Nat /\ Cardinality(Attached(s)') \in Nat
      BY <3>1, AttachedFinite, FS_RemoveElement, FS_CardinalityType
    <3>4. attachCount'[s] = Decremented(attachCount[s])
      BY <1>1, <2>2
    <3> QED
      BY <2>1, <3>2, <3>3, <3>4 DEF Decremented
  <2>3. CASE s # attOn[t]
    <3>1. Attached(s)' = Attached(s)
      BY <1>1, <2>3, ManagerAssumption DEF Attached
    <3> QED
      BY <1>1, <2>1, <2>3, <3>1
  <2> QED
    BY <2>2, <2>3
<1> QED
  BY <1>2 DEF AttachCountExact, Attached

(* A step that takes nobody into a count or out of one.                     *)
LEMMA CountStays ==
  ASSUME AttachCountExact, attachCount' = attachCount,
         \A s \in Starts : Attached(s)' = Attached(s)
  PROVE  AttachCountExact'
BY DEF AttachCountExact, Attached

LEMMA AttachStepCounts ==
  ASSUME TypeOK, Attaching, AttachCountExact, NEW t \in Attachers, AttachNext(t)
  PROVE  Attaching' /\ AttachCountExact'
<1>1. /\ attPC \in [Attachers -> {"idle", "found", "streaming", "leaving"}]
      /\ attOn \in [Attachers -> Starts \cup {None}]
  BY DEF TypeOK
<1>2. ASSUME NEW id \in Ids, AttachLookup(t, id) PROVE Attaching' /\ AttachCountExact'
  <2>1. /\ attPC[t] = "idle" /\ attPC' = [attPC EXCEPT ![t] = "found"]
        /\ attOn' = [attOn EXCEPT ![t] = registry[id]] /\ registry[id] # None
        /\ attachCount' = attachCount
    BY <1>2 DEF AttachLookup
  <2>2. Attaching'
    BY <1>1, <2>1 DEF Attaching
  <2>3. \A s \in Starts : Attached(s)' = Attached(s)
    BY <1>1, <2>1 DEF Attached
  <2> QED
    BY <2>1, <2>2, <2>3, CountStays
<1>3. CASE AttachEnter(t)
  <2>1. attPC[t] = "found" /\ attPC' = [attPC EXCEPT ![t] = "streaming"] /\ attOn' = attOn
    BY <1>3 DEF AttachEnter
  <2>2. Attaching'
    BY <1>1, <2>1 DEF Attaching
  <2> QED
    BY <1>3, <2>2, AttachEnterCounts
<1>4. CASE AttachEOF(t) \/ AttachBreak(t)
  <2>1. /\ attPC[t] = "streaming" /\ attPC' = [attPC EXCEPT ![t] = "leaving"]
        /\ attOn' = attOn /\ attachCount' = attachCount
    BY <1>4 DEF AttachEOF, AttachBreak
  <2>2. Attaching'
    BY <1>1, <2>1 DEF Attaching
  <2>3. \A s \in Starts : Attached(s)' = Attached(s)
    BY <1>1, <2>1 DEF Attached
  <2> QED
    BY <2>1, <2>2, <2>3, CountStays
<1>5. CASE AttachLeave(t)
  <2>1. attPC[t] = "leaving" /\ attPC' = [attPC EXCEPT ![t] = "idle"]
        /\ attOn' = [attOn EXCEPT ![t] = None]
    BY <1>5 DEF AttachLeave
  <2>2. Attaching'
    BY <1>1, <2>1 DEF Attaching
  <2> QED
    BY <1>5, <2>2, AttachLeaveCounts
<1> QED
  BY <1>2, <1>3, <1>4, <1>5 DEF AttachNext

(* SessionInfo.AttachedClients is the number of clients attached            *)
(* (AttachWith), whatever ids are reused and however clients come and go.   *)
THEOREM CountsCorrect == Spec => []AttachCountExact
<1>1. Init => Attaching /\ AttachCountExact
  <2> SUFFICES ASSUME Init PROVE Attaching /\ AttachCountExact
    OBVIOUS
  <2>1. Attaching
    BY DEF Init, Attaching
  <2>2. ASSUME NEW s \in Starts PROVE attachCount[s] = Cardinality(Attached(s))
    <3>1. Attached(s) = {} /\ attachCount[s] = 0
      BY DEF Init, Attached
    <3> QED
      BY <3>1, FS_EmptySet
  <2> QED
    BY <2>1, <2>2 DEF AttachCountExact, Attached
<1>2. TypeOK /\ Attaching /\ AttachCountExact /\ [Next]_vars
        => Attaching' /\ AttachCountExact'
  <2> SUFFICES ASSUME TypeOK, Attaching, AttachCountExact, [Next]_vars
               PROVE  Attaching' /\ AttachCountExact'
    OBVIOUS
  <2>1. ASSUME NEW t \in Attachers, AttachNext(t) PROVE Attaching' /\ AttachCountExact'
    BY <2>1, AttachStepCounts
  <2>2. CASE UNCHANGED attachVars
    <3>1. Attaching' /\ \A s \in Starts : Attached(s)' = Attached(s)
      BY <2>2 DEF Attaching, Attached
    <3> QED
      BY <2>2, <3>1, CountStays
  <2>3. ASSUME NEW s \in Starts,
               StartNext(s) \/ WatchNext(s) \/ SessionExit(s) \/ StopSession(s)
        PROVE  UNCHANGED attachVars
    BY <2>3 DEF StartNext, StartCheck, StartLaunching, StartSpawned, StartFailed,
                StartRunning, StartRegister, StartRefused, StartAbandon, WatchNext,
                WatchReap, WatchRecord, WatchCloseBroker, WatchDeliver, WatchDone,
                SessionExit, StopSession
  <2>4. ASSUME NEW id \in Ids, StopMark(id) PROVE UNCHANGED attachVars
    BY <2>4 DEF StopMark
  <2>5. ASSUME NEW w \in Waiters, WaitNext(w) PROVE UNCHANGED attachVars
    BY <2>5 DEF WaitNext, WaitLookup, WaitReturn, WaitCancel
  <2>6. ASSUME NEW n \in Senders, SendNext(n) PROVE UNCHANGED attachVars
    BY <2>6 DEF SendNext, SendLookup, SendLock, SendUnlock
  <2>7. ASSUME NEW h \in Shutters, ShutdownNext(h) PROVE UNCHANGED attachVars
    BY <2>7 DEF ShutdownNext, ShutdownFirst, ShutdownAgain, ShutdownDrained,
                ShutdownTimeout
  <2> QED
    BY <2>1, <2>2, <2>3, <2>4, <2>5, <2>6, <2>7 DEF Next
<1> QED
  BY <1>1, <1>2, TypeCorrect, PTL DEF Spec
=============================================================================
