------------------------------- MODULE Manager -------------------------------
(***************************************************************************)
(* The session Manager of agentsessions/manager.go: the registry of        *)
(* running sessions, the watch goroutine of each, and the calls that race  *)
(* on them (Start, Stop, SendInput, AttachWith, WaitSession, Shutdown).    *)
(*                                                                         *)
(* A session is named by the Start call that launched it, so `Starts' is   *)
(* both the set of Start calls and the set of sessions, entries and result *)
(* objects those calls create.  One action is one critical section of m.mu *)
(* or one call to a StateSink, a broker or a Session; what lies between    *)
(* two actions of a goroutine is where another goroutine can run.          *)
(***************************************************************************)
EXTENDS Integers, FiniteSets

CONSTANTS
  Ids,        (* session ids callers use                                    *)
  Starts,     (* Start calls, and the sessions they create                  *)
  Waiters,    (* goroutines calling WaitSession                             *)
  Attachers,  (* goroutines calling AttachWith                              *)
  Senders,    (* goroutines calling SendInput                               *)
  Shutters,   (* goroutines calling Shutdown                                *)
  None,       (* a nil entry, result or lock holder                         *)
  IdReuse     (* when a caller starts an id again: "afterWait" (WaitSession *)
              (* can return), "afterUnregister" (Get no longer finds it) or *)
              (* "overlapping" (at any time)                                *)

ASSUME ManagerAssumption ==
  /\ None \notin Starts \cup Senders
  /\ IsFiniteSet(Attachers)
  /\ IdReuse \in {"afterWait", "afterUnregister", "overlapping"}

VARIABLES
  idOf,         (* StartRequest.ID of each Start call                       *)
  attachable,   (* its StartOptions.AttachEnabled                           *)
  stopped,      (* Manager.stopped                                          *)
  registry,     (* Manager.registry: id -> entry                            *)
  results,      (* Manager.results: id -> sessionResult                     *)
  wg,           (* Manager.wg: watch goroutines that have not called Done   *)
  start,        (* control point of each Start call                         *)
  sess,         (* the Session: "none", "live" or "exited"                  *)
  code,         (* what Session.Wait returns                                *)
  stopReq,      (* Session.Stop was called                                  *)
  killing,      (* entry.killing                                            *)
  stopping,     (* Manager.Stop calls between the unlock and Session.Stop   *)
  watch,        (* control point of each watch goroutine                    *)
  sawKilling,   (* its local `killing'                                      *)
  target,       (* its local `result'                                       *)
  recorded,     (* last state written for each session                      *)
  row,          (* last state the StateSink holds for each id               *)
  brokerClosed, (* attachBroker.closed                                      *)
  resDone,      (* sessionResult.done is closed                             *)
  resCode,      (* sessionResult.exitCode                                   *)
  panicked,     (* a goroutine closed a closed channel                      *)
  waitPC, waitOn,            (* WaitSession calls and their result object   *)
  attPC, attOn, attachCount, (* AttachWith calls, entry, entry.attachCount  *)
  sendPC, sendOn, inputMu,   (* SendInput calls, their entry, entry.inputMu *)
  shutPC                     (* Shutdown calls                              *)

reqVars    == <<idOf, attachable>>
tables     == <<registry, results, wg>>
sessVars   == <<sess, code, stopReq>>
stopVars   == <<killing, stopping>>
watchVars  == <<watch, sawKilling, target>>
sinkVars   == <<recorded, row>>
resVars    == <<resDone, resCode, panicked>>
waitVars   == <<waitPC, waitOn>>
attachVars == <<attPC, attOn, attachCount>>
sendVars   == <<sendPC, sendOn, inputMu>>

(* What Start, the watch goroutines, Stop and the sessions leave alone ...  *)
clientVars == <<reqVars, waitVars, attachVars, sendVars, shutPC>>
(* ... and what the other calls leave alone.                                *)
coreVars   == <<reqVars, tables, start, sessVars, stopVars, watchVars,
                sinkVars, brokerClosed, resVars>>

vars == <<clientVars, coreVars, stopped>>

Codes == {0, 1}
Terminal == {"done", "failed"}

Init ==
  /\ idOf \in [Starts -> Ids]
  /\ attachable \in [Starts -> BOOLEAN]
  /\ stopped = FALSE
  /\ registry = [i \in Ids |-> None]
  /\ results = [i \in Ids |-> None]
  /\ wg = {}
  /\ start = [s \in Starts |-> "idle"]
  /\ sess = [s \in Starts |-> "none"]
  /\ code = [s \in Starts |-> 0]
  /\ stopReq = [s \in Starts |-> FALSE]
  /\ killing = [s \in Starts |-> FALSE]
  /\ stopping = {}
  /\ watch = [s \in Starts |-> "none"]
  /\ sawKilling = [s \in Starts |-> FALSE]
  /\ target = [s \in Starts |-> None]
  /\ recorded = [s \in Starts |-> "created"]
  /\ row = [i \in Ids |-> "created"]
  /\ brokerClosed = [s \in Starts |-> FALSE]
  /\ resDone = [s \in Starts |-> FALSE]
  /\ resCode = [s \in Starts |-> 0]
  /\ panicked = FALSE
  /\ waitPC = [w \in Waiters |-> "idle"]
  /\ waitOn = [w \in Waiters |-> None]
  /\ attPC = [t \in Attachers |-> "idle"]
  /\ attOn = [t \in Attachers |-> None]
  /\ attachCount = [s \in Starts |-> 0]
  /\ sendPC = [n \in Senders |-> "idle"]
  /\ sendOn = [n \in Senders |-> None]
  /\ inputMu = [s \in Starts |-> None]
  /\ shutPC = [h \in Shutters |-> "idle"]

(* recordState: the sink keeps one row per id.                              *)
Record(s, st) ==
  /\ recorded' = [recorded EXCEPT ![s] = st]
  /\ row' = [row EXCEPT ![idOf[s]] = st]

CloseBroker(s) == brokerClosed' = [brokerClosed EXCEPT ![s] = attachable[s]]

(***************************************************************************)
(* Manager.Start.                                                          *)
(***************************************************************************)
StartStep(s, from, to) ==
  /\ start[s] = from
  /\ start' = [start EXCEPT ![s] = to]
  /\ UNCHANGED <<clientVars, stopVars, stopped>>

(* The caller's discipline on ids: when o no longer stands in the way of    *)
(* another Start with its id.  The Manager itself enforces nothing.         *)
Released(o) ==
  \/ start[o] \in {"idle", "failed", "rejected"}
  \/ resDone[o]
  \/ /\ IdReuse = "afterUnregister"
     /\ start[o] = "registered"
     /\ registry[idOf[o]] # o
  \/ IdReuse = "overlapping"

StartCheck(s) ==
  /\ \A o \in Starts \ {s} : idOf[o] = idOf[s] => Released(o)
  /\ StartStep(s, "idle", IF stopped THEN "rejected" ELSE "checked")
  /\ UNCHANGED <<tables, sessVars, watchVars, sinkVars, brokerClosed, resVars>>

StartLaunching(s) ==
  /\ StartStep(s, "checked", "launching")
  /\ Record(s, "launching")
  /\ UNCHANGED <<tables, sessVars, watchVars, brokerClosed, resVars>>

(* Runtime.Start returns a live session ...                                 *)
StartSpawned(s) ==
  /\ StartStep(s, "launching", "spawned")
  /\ sess' = [sess EXCEPT ![s] = "live"]
  /\ UNCHANGED <<tables, code, stopReq, watchVars, sinkVars, brokerClosed,
                 resVars>>

(* ... or an error: the broker is closed and the failure recorded.          *)
StartFailed(s) ==
  /\ StartStep(s, "launching", "failed")
  /\ CloseBroker(s)
  /\ Record(s, "failed")
  /\ UNCHANGED <<tables, sessVars, watchVars, resVars>>

StartRunning(s) ==
  /\ StartStep(s, "spawned", "announced")
  /\ Record(s, "running")
  /\ UNCHANGED <<tables, sessVars, watchVars, brokerClosed, resVars>>

(* Under m.mu: insert the entry and its result and count the watch          *)
(* goroutine in wg, which is spawned then.                                  *)
Insert_NoAdd(s) ==
  /\ registry' = [registry EXCEPT ![idOf[s]] = s]
  /\ results' = [results EXCEPT ![idOf[s]] = s]
  /\ UNCHANGED wg

Insert_KeepsResult(s) ==
  /\ registry' = [registry EXCEPT ![idOf[s]] = s]
  /\ results' = [results EXCEPT ![idOf[s]] = IF @ = None THEN s ELSE @]
  /\ wg' = wg \cup {s}

Insert(s) ==
  /\ registry' = [registry EXCEPT ![idOf[s]] = s]
  /\ results' = [results EXCEPT ![idOf[s]] = s]
  /\ wg' = wg \cup {s}

StartRegister(s) ==
  /\ ~stopped
  /\ StartStep(s, "announced", "registered")
  /\ Insert(s)
  /\ watch' = [watch EXCEPT ![s] = "waiting"]
  /\ UNCHANGED <<sessVars, sawKilling, target, sinkVars, brokerClosed, resVars>>

(* The second look at m.stopped: Shutdown came while the runtime started.   *)
StartRefused(s) ==
  /\ stopped
  /\ StartStep(s, "announced", "refused")
  /\ UNCHANGED <<tables, sessVars, watchVars, sinkVars, brokerClosed, resVars>>

StartAbandon(s) ==
  /\ StartStep(s, "refused", "rejected")
  /\ CloseBroker(s)
  /\ stopReq' = [stopReq EXCEPT ![s] = TRUE]
  /\ UNCHANGED <<tables, sess, code, watchVars, sinkVars, resVars>>

(***************************************************************************)
(* The Session, as the Manager sees it: it may exit at any time.           *)
(***************************************************************************)
SessionExit(s) ==
  /\ sess[s] = "live"
  /\ sess' = [sess EXCEPT ![s] = "exited"]
  /\ \E c \in Codes : code' = [code EXCEPT ![s] = c]
  /\ UNCHANGED <<clientVars, stopped, tables, start, stopReq, stopVars,
                 watchVars, sinkVars, brokerClosed, resVars>>

(***************************************************************************)
(* The watch goroutine.                                                    *)
(***************************************************************************)
WatchStep(s, from, to) ==
  /\ watch[s] = from
  /\ watch' = [watch EXCEPT ![s] = to]
  /\ UNCHANGED <<clientVars, stopped, start, sessVars, stopVars>>

(* Session.Wait returned; the critical section of watch.  The lookup is by  *)
(* id: the entry and the result found are whatever the id names now.        *)
Unregister_KeepsEntry(s) ==
  LET e == registry[idOf[s]] IN
  /\ sawKilling' = [sawKilling EXCEPT ![s] = e # None /\ killing[e]]
  /\ UNCHANGED registry

Unregister(s) ==
  LET e == registry[idOf[s]] IN
  /\ sawKilling' = [sawKilling EXCEPT ![s] = e # None /\ killing[e]]
  /\ registry' = [registry EXCEPT ![idOf[s]] = None]

WatchReap_DeliversFirst(s) ==
  /\ sess[s] = "exited"
  /\ WatchStep(s, "waiting", "reaped")
  /\ Unregister(s)
  /\ resDone' = [resDone EXCEPT ![s] = TRUE]
  /\ resCode' = [resCode EXCEPT ![s] = code[s]]
  /\ UNCHANGED <<results, wg, target, panicked, sinkVars, brokerClosed>>

WatchReap(s) ==
  /\ sess[s] = "exited"
  /\ WatchStep(s, "waiting", "reaped")
  /\ Unregister(s)
  /\ target' = [target EXCEPT ![s] = results[idOf[s]]]
  /\ UNCHANGED <<results, wg, sinkVars, brokerClosed, resVars>>

Verdict_CodeOnly(s) == IF code[s] = 0 THEN "done" ELSE "failed"

Verdict(s) == IF sawKilling[s] \/ code[s] = 0 THEN "done" ELSE "failed"

WatchRecord(s) ==
  /\ WatchStep(s, "reaped", "recorded")
  /\ Record(s, Verdict(s))
  /\ UNCHANGED <<tables, sawKilling, target, brokerClosed, resVars>>

WatchCloseBroker(s) ==
  /\ WatchStep(s, "recorded", "closed")
  /\ CloseBroker(s)
  /\ UNCHANGED <<tables, sawKilling, target, sinkVars, resVars>>

(* Fill in the result and close result.done.  A second close of the same    *)
(* channel panics.                                                          *)
WatchDeliver(s) ==
  LET r == target[s] IN
  /\ WatchStep(s, "closed", "delivered")
  /\ \/ /\ r # None
        /\ resCode' = [resCode EXCEPT ![r] = code[s]]
        /\ resDone' = [resDone EXCEPT ![r] = TRUE]
        /\ panicked' = resDone[r]
     \/ /\ r = None
        /\ UNCHANGED resVars
  /\ UNCHANGED <<tables, sawKilling, target, sinkVars, brokerClosed>>

(* The deferred wg.Done.                                                    *)
WatchDone_Forgotten(s) ==
  /\ WatchStep(s, "delivered", "done")
  /\ UNCHANGED <<tables, sawKilling, target, sinkVars, brokerClosed, resVars>>

WatchDone(s) ==
  /\ WatchStep(s, "delivered", "done")
  /\ wg' = wg \ {s}
  /\ UNCHANGED <<registry, results, sawKilling, target, sinkVars, brokerClosed,
                 resVars>>

(***************************************************************************)
(* Manager.Stop: mark the entry under m.mu, then call Session.Stop.        *)
(***************************************************************************)
StopMark(id) ==
  LET e == registry[id] IN
  /\ e # None
  /\ killing' = [killing EXCEPT ![e] = TRUE]
  /\ stopping' = stopping \cup {e}
  /\ UNCHANGED <<clientVars, stopped, tables, start, sessVars, watchVars,
                 sinkVars, brokerClosed, resVars>>

StopSession(s) ==
  /\ s \in stopping
  /\ stopping' = stopping \ {s}
  /\ stopReq' = [stopReq EXCEPT ![s] = TRUE]
  /\ UNCHANGED <<clientVars, stopped, tables, start, sess, code, killing,
                 watchVars, sinkVars, brokerClosed, resVars>>

(***************************************************************************)
(* Manager.WaitSession.                                                    *)
(***************************************************************************)
WaitStep(w, from, to) ==
  /\ waitPC[w] = from
  /\ waitPC' = [waitPC EXCEPT ![w] = to]
  /\ UNCHANGED <<coreVars, stopped, attachVars, sendVars, shutPC>>

WaitLookup(w, id) ==
  /\ results[id] # None
  /\ WaitStep(w, "idle", "blocked")
  /\ waitOn' = [waitOn EXCEPT ![w] = results[id]]

WaitReturn(w) ==
  /\ waitPC[w] = "blocked"
  /\ resDone[waitOn[w]]
  /\ WaitStep(w, "blocked", "returned")
  /\ UNCHANGED waitOn

WaitCancel(w) ==
  /\ WaitStep(w, "blocked", "cancelled")
  /\ UNCHANGED waitOn

(***************************************************************************)
(* Manager.AttachWith.  The entry found by the first lookup is used to the *)
(* end, whatever happens to the registry meanwhile.  The AttachmentSink    *)
(* calls touch no state of the Manager and are left out.                   *)
(***************************************************************************)
AttachStep(t, from, to) ==
  /\ attPC[t] = from
  /\ attPC' = [attPC EXCEPT ![t] = to]
  /\ UNCHANGED <<coreVars, stopped, waitVars, sendVars, shutPC>>

AttachLookup(t, id) ==
  /\ registry[id] # None
  /\ attachable[registry[id]]
  /\ AttachStep(t, "idle", "found")
  /\ attOn' = [attOn EXCEPT ![t] = registry[id]]
  /\ UNCHANGED attachCount

AttachEnter(t) ==
  /\ AttachStep(t, "found", "streaming")
  /\ attachCount' = [attachCount EXCEPT ![attOn[t]] = @ + 1]
  /\ UNCHANGED attOn

(* copyStream returns because the broker closed the subscriber's channel    *)
AttachEOF(t) ==
  /\ attPC[t] = "streaming"
  /\ brokerClosed[attOn[t]]
  /\ AttachStep(t, "streaming", "leaving")
  /\ UNCHANGED <<attOn, attachCount>>

(* ... or because the context ended or the client's writer failed.          *)
AttachBreak(t) ==
  /\ AttachStep(t, "streaming", "leaving")
  /\ UNCHANGED <<attOn, attachCount>>

Decremented_KeepsLast(k) == IF k > 1 THEN k - 1 ELSE k

Decremented(k) == IF k > 0 THEN k - 1 ELSE k

AttachLeave(t) ==
  /\ AttachStep(t, "leaving", "idle")
  /\ attachCount' = [attachCount EXCEPT ![attOn[t]] = Decremented(@)]
  /\ attOn' = [attOn EXCEPT ![t] = None]

(***************************************************************************)
(* Manager.SendInput.                                                      *)
(***************************************************************************)
SendStep(n, from, to) ==
  /\ sendPC[n] = from
  /\ sendPC' = [sendPC EXCEPT ![n] = to]
  /\ UNCHANGED <<coreVars, stopped, waitVars, attachVars, shutPC>>

SendLookup(n, id) ==
  /\ registry[id] # None
  /\ SendStep(n, "idle", "found")
  /\ sendOn' = [sendOn EXCEPT ![n] = registry[id]]
  /\ UNCHANGED inputMu

SendLock(n) ==
  /\ sendPC[n] = "found"
  /\ inputMu[sendOn[n]] = None
  /\ SendStep(n, "found", "inside")
  /\ inputMu' = [inputMu EXCEPT ![sendOn[n]] = n]
  /\ UNCHANGED sendOn

(* Session.SendInput returned and the deferred unlock ran.                  *)
SendUnlock(n) ==
  /\ SendStep(n, "inside", "idle")
  /\ inputMu' = [inputMu EXCEPT ![sendOn[n]] = None]
  /\ sendOn' = [sendOn EXCEPT ![n] = None]

(***************************************************************************)
(* Manager.Shutdown.                                                       *)
(***************************************************************************)
ShutdownStep(h, from, to) ==
  /\ shutPC[h] = from
  /\ shutPC' = [shutPC EXCEPT ![h] = to]
  /\ UNCHANGED <<coreVars, waitVars, attachVars, sendVars>>

ShutdownFirst(h) ==
  /\ ~stopped
  /\ stopped' = TRUE
  /\ ShutdownStep(h, "idle", "draining")

(* m.stopped is set already: return nil at once.                            *)
ShutdownAgain(h) ==
  /\ stopped
  /\ ShutdownStep(h, "idle", "repeated")
  /\ UNCHANGED stopped

ShutdownDrained(h) ==
  /\ wg = {}
  /\ ShutdownStep(h, "draining", "drained")
  /\ UNCHANGED stopped

ShutdownTimeout(h) ==
  /\ ShutdownStep(h, "draining", "timedOut")
  /\ UNCHANGED stopped

-----------------------------------------------------------------------------
StartNext(s) ==
  \/ StartCheck(s) \/ StartLaunching(s) \/ StartSpawned(s) \/ StartFailed(s)
  \/ StartRunning(s) \/ StartRegister(s) \/ StartRefused(s) \/ StartAbandon(s)

WatchNext(s) ==
  \/ WatchReap(s) \/ WatchRecord(s) \/ WatchCloseBroker(s)
  \/ WatchDeliver(s) \/ WatchDone(s)

WaitNext(w) ==
  (\E id \in Ids : WaitLookup(w, id)) \/ WaitReturn(w) \/ WaitCancel(w)

AttachNext(t) ==
  \/ \E id \in Ids : AttachLookup(t, id)
  \/ AttachEnter(t) \/ AttachEOF(t) \/ AttachBreak(t) \/ AttachLeave(t)

SendNext(n) ==
  (\E id \in Ids : SendLookup(n, id)) \/ SendLock(n) \/ SendUnlock(n)

ShutdownNext(h) ==
  \/ ShutdownFirst(h) \/ ShutdownAgain(h)
  \/ ShutdownDrained(h) \/ ShutdownTimeout(h)

(* A panic in any goroutine ends the process.                               *)
Next ==
  /\ ~panicked
  /\ \/ \E s \in Starts : StartNext(s) \/ WatchNext(s)
                          \/ SessionExit(s) \/ StopSession(s)
     \/ \E id \in Ids : StopMark(id)
     \/ \E w \in Waiters : WaitNext(w)
     \/ \E t \in Attachers : AttachNext(t)
     \/ \E n \in Senders : SendNext(n)
     \/ \E h \in Shutters : ShutdownNext(h)

Spec == Init /\ [][Next]_vars

(***************************************************************************)
(* A goroutine that can run does run; a session that was told to stop      *)
(* exits (the Session.Stop contract of types.go).  Nothing makes a client  *)
(* call, a context end or an undisturbed session exit.                     *)
(***************************************************************************)
Fairness ==
  /\ \A s \in Starts :
       /\ WF_vars(~panicked /\ start[s] # "idle" /\ StartNext(s))
       /\ WF_vars(~panicked /\ WatchNext(s))
       /\ WF_vars(~panicked /\ StopSession(s))
       /\ WF_vars(~panicked /\ stopReq[s] /\ SessionExit(s))
  /\ \A w \in Waiters : WF_vars(~panicked /\ WaitReturn(w))
  /\ \A t \in Attachers : WF_vars(~panicked /\ (AttachEnter(t) \/ AttachEOF(t)
                                                  \/ AttachLeave(t)))
  /\ \A h \in Shutters : WF_vars(~panicked /\ ShutdownDrained(h))

FairSpec == Spec /\ Fairness
=============================================================================
