-------------------------- MODULE ManagerProperties --------------------------
(***************************************************************************)
(* What the Manager promises: the invariants, action properties and        *)
(* liveness properties of Manager, each with the lines of manager.go it is *)
(* about.                                                                  *)
(***************************************************************************)
EXTENDS Manager

-----------------------------------------------------------------------------
(* Every variable keeps its type; a closed-over entry or result is one a    *)
(* Start call created.                                                      *)
TypeOK ==
  /\ idOf \in [Starts -> Ids]
  /\ attachable \in [Starts -> BOOLEAN]
  /\ stopped \in BOOLEAN
  /\ registry \in [Ids -> Starts \cup {None}]
  /\ results \in [Ids -> Starts \cup {None}]
  /\ wg \subseteq Starts
  /\ start \in [Starts -> {"idle", "checked", "launching", "spawned", "failed",
                           "announced", "registered", "refused", "rejected"}]
  /\ sess \in [Starts -> {"none", "live", "exited"}]
  /\ code \in [Starts -> Codes]
  /\ stopReq \in [Starts -> BOOLEAN]
  /\ killing \in [Starts -> BOOLEAN]
  /\ stopping \subseteq Starts
  /\ watch \in [Starts -> {"none", "waiting", "reaped", "recorded", "closed",
                           "delivered", "done"}]
  /\ sawKilling \in [Starts -> BOOLEAN]
  /\ target \in [Starts -> Starts \cup {None}]
  /\ recorded \in [Starts -> {"created", "launching", "running"} \cup Terminal]
  /\ row \in [Ids -> {"created", "launching", "running"} \cup Terminal]
  /\ brokerClosed \in [Starts -> BOOLEAN]
  /\ resDone \in [Starts -> BOOLEAN]
  /\ resCode \in [Starts -> Codes]
  /\ panicked \in BOOLEAN
  /\ waitPC \in [Waiters -> {"idle", "blocked", "returned", "cancelled"}]
  /\ waitOn \in [Waiters -> Starts \cup {None}]
  /\ attPC \in [Attachers -> {"idle", "found", "streaming", "leaving"}]
  /\ attOn \in [Attachers -> Starts \cup {None}]
  /\ attachCount \in [Starts -> Nat]
  /\ sendPC \in [Senders -> {"idle", "found", "inside"}]
  /\ sendOn \in [Senders -> Starts \cup {None}]
  /\ inputMu \in [Starts -> Senders \cup {None}]
  /\ shutPC \in [Shutters -> {"idle", "draining", "drained", "timedOut",
                              "repeated"}]

(* manager.go:258-264, 298-301.  A session whose exit nobody has seen yet   *)
(* stays reachable under its id, and only such a session is: no successor   *)
(* with the same id hides it from Stop, and no entry outlives its watch.    *)
RegistryIsLive ==
  /\ \A s \in Starts : watch[s] = "waiting" =>
       s \in wg /\ registry[idOf[s]] = s /\ results[idOf[s]] = s
  /\ \A i \in Ids : registry[i] # None =>
       idOf[registry[i]] = i /\ watch[registry[i]] = "waiting"

(* manager.go:296-314.  The recorded verdict tells a requested stop from a  *)
(* crash: however Stop races the exit, a session is recorded failed exactly *)
(* when it exited non-zero and no Stop had found it in the registry.        *)
VerdictHonoursStop ==
  \A s \in Starts : start[s] = "registered" /\ recorded[s] \in Terminal =>
    (recorded[s] = "failed" <=> ~killing[s] /\ code[s] # 0)

(* manager.go:314-324 (docs/decisions/0004).  Whoever sees result.done      *)
(* closed also sees the terminal state in the sink, the broker closed, the  *)
(* entry gone and this very session's exit code.                            *)
DeliveredIsFinal ==
  \A s \in Starts : resDone[s] =>
    /\ sess[s] = "exited"
    /\ recorded[s] \in Terminal
    /\ brokerClosed[s] = attachable[s]
    /\ registry[idOf[s]] # s
    /\ resCode[s] = code[s]

(* manager.go:249-261, 571-586.  When a Shutdown returns nil after draining *)
(* every session ever started is over and delivered, or still inside a      *)
(* Start call that will stop it, or was refused and told to stop.           *)
DrainedIsQuiet ==
  (\E h \in Shutters : shutPC[h] = "drained") =>
    \A s \in Starts :
      /\ start[s] = "registered" => resDone[s]
      /\ sess[s] = "live" =>
           start[s] \in {"spawned", "announced", "refused"} \/ stopReq[s]

(* manager.go:235, 314.  While a session is registered, the row of its id   *)
(* says running: no earlier session of that id writes over it.              *)
RowIsOwn ==
  \A i \in Ids : registry[i] # None => row[i] = "running"

(* manager.go:321-323.  No watch goroutine closes a result that another     *)
(* one has closed.                                                          *)
NoPanic == ~panicked

(* manager.go:504-513.  SessionInfo.AttachedClients counts the clients that *)
(* are attached, and the clamp at zero is never what makes it right.        *)
AttachCountExact ==
  \A s \in Starts :
    attachCount[s] = Cardinality({t \in Attachers :
                       attPC[t] \in {"streaming", "leaving"} /\ attOn[t] = s})

(* manager.go:398-400.  Two SendInput calls never write to one session at   *)
(* the same time.                                                           *)
OneWriterPerSession ==
  \A m, n \in Senders :
    sendPC[m] = "inside" /\ sendPC[n] = "inside" /\ sendOn[m] = sendOn[n]
      => m = n

(* manager.go:553-566.  What WaitSession returned once, it returns for      *)
(* ever: a delivered result never changes, whatever is started later.       *)
ResultIsStable ==
  [][\A s \in Starts : resDone[s] => resDone'[s] /\ resCode'[s] = resCode[s]]_vars

(* manager.go:69-72.  The row of an id only ever moves created ->           *)
(* launching -> running -> done|failed, a failed launch excepted, and to    *)
(* launching again once terminal.                                           *)
RowFollowsLifecycle ==
  [][\A i \in Ids : row'[i] = row[i] \/
       <<row[i], row'[i]>> \in
         {<<"launching", "running">>, <<"launching", "failed">>}
         \cup ({"created"} \cup Terminal) \X {"launching"}
         \cup {"running"} \X Terminal]_vars

(* manager.go:294-324, 517-521.  The exit of a registered session reaches   *)
(* everyone who waits for it: its result is delivered, and a client         *)
(* attached to it is let go, also one that subscribed after the exit.       *)
ExitIsDelivered ==
  /\ \A s \in Starts : start[s] = "registered" /\ sess[s] = "exited" ~> resDone[s]
  /\ \A t \in Attachers, s \in Starts :
       attPC[t] \in {"found", "streaming"} /\ attOn[t] = s /\ sess[s] = "exited"
         ~> attPC[t] = "idle"

(* manager.go:250-257, 570-590.  No Start slips in behind a Shutdown: one   *)
(* that is refused by the second look at stopped leaves no session running, *)
(* and a Shutdown returns once every session it waits for has been told to  *)
(* stop.                                                                    *)
ShutdownReturns ==
  /\ \A s \in Starts : stopped /\ start[s] = "spawned" ~> sess[s] = "exited"
  /\ \A h \in Shutters :
       shutPC[h] = "draining" /\ (\A s \in wg : killing[s])
         ~> shutPC[h] # "draining"
=============================================================================
