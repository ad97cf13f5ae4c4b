-------------------------- MODULE ServeHttpSession --------------------------
(***************************************************************************)
(* A serve-http session (serve_http_session.go) from the moment its server *)
(* process has been spawned: the rest of Start, turns sent over HTTP and   *)
(* ended by server-sent events, the two finishers, and Stop.               *)
(*                                                                         *)
(* A request is answered while the server lives, and may fail at any time: *)
(* a refused connection, a status that is not 2xx, the end of a context.   *)
(* Turns and events are counted, because the code does not tell them apart *)
(* either.  Events of other sessions and deltas change nothing here, and   *)
(* the state that Health reports is written and never read: it is left out.*)
(***************************************************************************)
EXTENDS Integers

CONSTANTS
  Senders,     (* callers of SendInput                                      *)
  MaxTurns,    (* bound: turns the server accepts                           *)
  MaxReports   (* bound: end-of-step events of turns that go on             *)

ASSUME ServeHttpAssumption ==
  "start" \notin Senders /\ MaxTurns \in Nat /\ MaxReports \in Nat

VARIABLES
  child,        (* the server: "live", "exited" (unreaped), "reaped"        *)
  exit,         (* its exit code                                            *)
  processDone,  (* the channel: "empty", "full", "closed" (and emptied)     *)
  fin,          (* control point of each finishOnProcessExit                *)
  got,          (* what each of them received                               *)
  code,         (* s.waitCode                                               *)
  done,         (* s.done is closed                                         *)
  alive,        (* s.alive                                                  *)
  url,          (* readyURL holds the printed address                       *)
  known,        (* what Start has learnt: "nothing", "url", "session" id    *)
  startPC,      (* control point of Start                                   *)
  inFlight,     (* s.turnInFlight                                           *)
  sendPC,       (* control point of each SendInput                          *)
  turns,        (* turns accepted so far                                    *)
  running,      (* turns the server is working on                           *)
  reports,      (* end-of-step events of turns that went on                 *)
  stream,       (* control point of runEventStream                          *)
  cancelled,    (* its context has been cancelled                           *)
  events,       (* events on their way that end a turn                      *)
  deaf,         (* such an event was lost                                   *)
  loose,        (* a turn went on although SendInput failed or an event     *)
                (* said that it had ended                                   *)
  stopPC        (* control point of the Stop that won stopOnce              *)

procVars   == <<child, exit, processDone>>
finVars    == <<fin, got, code, done>>
startVars  == <<url, known, startPC>>
serverVars == <<turns, running, reports>>
streamVars == <<stream, cancelled, events, deaf>>

vars == <<procVars, finVars, alive, startVars, inFlight, sendPC, serverVars,
          streamVars, loose, stopPC>>

Finishers == {1, 2}
Callers   == Senders \cup {"start"}

Init ==
  /\ child = "live" /\ exit = 0 /\ processDone = "empty"
  /\ fin = [f \in Finishers |-> IF f = 1 THEN "waiting" ELSE "none"]
  /\ got = [f \in Finishers |-> 0]
  /\ code = 0 /\ done = FALSE
  /\ alive = TRUE
  /\ url = FALSE /\ known = "nothing" /\ startPC = "url"
  /\ inFlight = FALSE /\ sendPC = [c \in Callers |-> "idle"]
  /\ turns = 0 /\ running = 0 /\ reports = 0
  /\ stream = "none" /\ cancelled = FALSE /\ events = 0 /\ deaf = FALSE
  /\ loose = FALSE
  /\ stopPC = "idle"

(***************************************************************************)
(* The server.  An event that nobody listens to is lost.                   *)
(***************************************************************************)
ChildExit ==
  /\ child = "live"
  /\ child' = "exited"
  /\ exit' \in {0, 1}
  /\ UNCHANGED <<processDone, finVars, alive, startVars, inFlight, sendPC,
                 serverVars, streamVars, loose, stopPC>>

(* scanProcessOutput finds the address in a line of the server's output,    *)
(* before or after the process is gone.  Only Start reads it.               *)
ServerPrints ==
  /\ ~url /\ startPC = "url"
  /\ url' = TRUE
  /\ UNCHANGED <<procVars, finVars, alive, known, startPC, inFlight, sendPC,
                 serverVars, streamVars, loose, stopPC>>

Emit ==
  IF stream = "open"
  THEN events' = events + 1 /\ UNCHANGED deaf
  ELSE deaf' = TRUE /\ UNCHANGED events

(* session.idle, session.error.                                             *)
ServerEndsTurn ==
  /\ child = "live" /\ running > 0
  /\ running' = running - 1
  /\ Emit
  /\ UNCHANGED <<procVars, finVars, alive, startVars, inFlight, sendPC, turns,
                 reports, stream, cancelled, loose, stopPC>>

(* session.next.step.ended while the turn goes on.                          *)
ServerEndsStep ==
  /\ child = "live" /\ running > 0 /\ stream = "open" /\ reports < MaxReports
  /\ reports' = reports + 1
  /\ events' = events + 1
  /\ loose' = TRUE
  /\ UNCHANGED <<procVars, finVars, alive, startVars, inFlight, sendPC, turns,
                 running, stream, cancelled, deaf, stopPC>>

(***************************************************************************)
(* The end of the process.  The value of cmd.Wait goes to one receiver of  *)
(* processDone; the other gets nil from the closed channel.                *)
(***************************************************************************)
Reap ==
  /\ child = "exited"
  /\ child' = "reaped"
  /\ processDone' = "full"
  /\ UNCHANGED <<exit, finVars, alive, startVars, inFlight, sendPC, serverVars,
                 streamVars, loose, stopPC>>

FinisherStep(f, from, to) ==
  /\ fin[f] = from
  /\ fin' = [fin EXCEPT ![f] = to]
  /\ UNCHANGED <<child, exit, startVars, inFlight, sendPC, serverVars, streamVars,
                 loose, stopPC>>

FinisherReceives(f) ==
  /\ processDone # "empty"
  /\ FinisherStep(f, "waiting", "received")
  /\ got' = [got EXCEPT ![f] = IF processDone = "full" THEN exit ELSE 0]
  /\ processDone' = "closed"
  /\ alive' = FALSE
  /\ UNCHANGED <<code, done>>

(* waitOnce: the first to come decides, and releases log and boot directory.*)
FinisherJudges(f) ==
  /\ ~done /\ \A g \in Finishers : fin[g] # "judged"
  /\ FinisherStep(f, "received", "judged")
  /\ code' = got[f]
  /\ UNCHANGED <<processDone, got, done, alive>>

FinisherDelivers(f) ==
  /\ FinisherStep(f, "judged", "ended")
  /\ done' = TRUE
  /\ UNCHANGED <<processDone, got, code, alive>>

FinisherSkips(f) ==
  /\ done
  /\ FinisherStep(f, "received", "ended")
  /\ UNCHANGED <<processDone, got, code, done, alive>>

(***************************************************************************)
(* Start.                                                                  *)
(***************************************************************************)
StartStep(from, to) ==
  /\ startPC = from
  /\ startPC' = to
  /\ UNCHANGED <<procVars, got, code, done, alive, url, inFlight, serverVars,
                 cancelled, events, deaf, loose, stopPC>>

StartHasURL ==
  /\ url
  /\ StartStep("url", "health")
  /\ known' = "url"
  /\ UNCHANGED <<fin, sendPC, stream>>

StartSeesExit ==
  /\ done
  /\ StartStep("url", "failed")
  /\ UNCHANGED <<fin, known, sendPC, stream>>

(* The session id is given (SessionIDPreset) or still to be created.        *)
StartHealthy ==
  /\ child = "live"
  /\ \/ StartStep("health", "create") /\ UNCHANGED known
     \/ StartStep("health", "launch") /\ known' = "session"
  /\ UNCHANGED <<fin, sendPC, stream>>

StartCreates ==
  /\ child = "live"
  /\ StartStep("create", "launch")
  /\ known' = "session"
  /\ UNCHANGED <<fin, sendPC, stream>>

StartGivesUp_NoStop ==
  /\ \E pc \in {"url", "health", "create"} : StartStep(pc, "failed")
  /\ UNCHANGED <<fin, known, sendPC, stream>>

(* A deadline, the end of the context, an answer that is an error.          *)
StartGivesUp ==
  /\ \E pc \in {"url", "health", "create"} : StartStep(pc, "stopping")
  /\ UNCHANGED <<fin, known, sendPC, stream>>

(* The event stream and the second finisher; AutoFireFirstTurn or not.      *)
StartLaunches ==
  /\ \/ StartStep("launch", "returned") /\ UNCHANGED sendPC
     \/ StartStep("launch", "firing") /\ sendPC' = [sendPC EXCEPT !["start"] = "called"]
  /\ stream' = "launched"
  /\ fin' = [fin EXCEPT ![2] = "waiting"]
  /\ UNCHANGED known

(* What the SendInput of the first turn makes of Start.                     *)
Answer(c, ok) ==
  startPC' = IF c # "start" THEN startPC ELSE IF ok THEN "returned" ELSE "stopping"

StartFails ==
  /\ stopPC = "done"
  /\ StartStep("stopping", "failed")
  /\ UNCHANGED <<fin, known, sendPC, stream>>

(***************************************************************************)
(* SendInput.                                                              *)
(***************************************************************************)
SendStep(c, from, to) ==
  /\ sendPC[c] = from
  /\ sendPC' = [sendPC EXCEPT ![c] = to]
  /\ UNCHANGED <<procVars, finVars, alive, url, known, reports, streamVars,
                 stopPC>>

SendCall(c) ==
  /\ startPC = "returned"
  /\ SendStep(c, "idle", "called")
  /\ UNCHANGED <<startPC, inFlight, turns, running, loose>>

SendEnter(c) ==
  /\ \/ alive /\ SendStep(c, "called", "entered") /\ UNCHANGED startPC
     \/ ~alive /\ SendStep(c, "called", "idle") /\ Answer(c, FALSE)
  /\ UNCHANGED <<inFlight, turns, running, loose>>

SendClaim_Unchecked(c) ==
  /\ SendStep(c, "entered", "claimed") /\ inFlight' = TRUE
  /\ UNCHANGED <<startPC, turns, running, loose>>

(* Under turnMu.                                                            *)
SendClaim(c) ==
  /\ \/ ~inFlight /\ SendStep(c, "entered", "claimed") /\ inFlight' = TRUE
        /\ UNCHANGED startPC
     \/ inFlight /\ SendStep(c, "entered", "idle") /\ Answer(c, FALSE)
        /\ UNCHANGED inFlight
  /\ UNCHANGED <<turns, running, loose>>

SendPost(c) ==
  /\ child = "live" /\ turns < MaxTurns
  /\ SendStep(c, "claimed", "posted")
  /\ turns' = turns + 1 /\ running' = running + 1
  /\ UNCHANGED <<startPC, inFlight, loose>>

SendAnswered(c) ==
  /\ child = "live"
  /\ SendStep(c, "posted", "idle")
  /\ Answer(c, TRUE)
  /\ UNCHANGED <<inFlight, turns, running, loose>>

SendFails_NoRelease(c) ==
  /\ SendStep(c, "claimed", "idle") \/ SendStep(c, "posted", "idle")
  /\ loose' = (loose \/ sendPC[c] = "posted")
  /\ Answer(c, FALSE)
  /\ UNCHANGED <<inFlight, turns, running>>

(* Before the server has the turn, or after: then it goes on.  markTurnDone.*)
SendFails(c) ==
  /\ SendStep(c, "claimed", "idle") \/ SendStep(c, "posted", "idle")
  /\ loose' = (loose \/ sendPC[c] = "posted")
  /\ inFlight' = FALSE
  /\ Answer(c, FALSE)
  /\ UNCHANGED <<turns, running>>

(***************************************************************************)
(* The event stream.                                                       *)
(***************************************************************************)
StreamStep(from, to) ==
  /\ stream = from
  /\ stream' = to
  /\ UNCHANGED <<procVars, finVars, alive, startVars, sendPC, serverVars,
                 cancelled, loose, stopPC>>

(* streamCancel is set.                                                     *)
StreamArms ==
  /\ StreamStep("launched", "armed")
  /\ UNCHANGED <<inFlight, events, deaf>>

StreamOpens ==
  /\ child = "live" /\ ~cancelled
  /\ StreamStep("armed", "open")
  /\ UNCHANGED <<inFlight, events, deaf>>

(* The connection ends, now or before it is made: the server is gone, the   *)
(* context cancelled, a line too long.  What was on its way is lost.        *)
StreamEnds ==
  /\ StreamStep("armed", "ended") \/ StreamStep("open", "ended")
  /\ events' = 0
  /\ deaf' = (deaf \/ events > 0)
  /\ UNCHANGED <<inFlight>>

(* handleSSEData: markTurnDone, then the event fan-out.                     *)
StreamTakes ==
  /\ events > 0
  /\ StreamStep("open", "open")
  /\ events' = events - 1
  /\ inFlight' = FALSE
  /\ UNCHANGED deaf

(***************************************************************************)
(* Stop, by the caller of a session that was returned or by Start itself.  *)
(***************************************************************************)
StopStep(from, to) ==
  /\ stopPC = from
  /\ stopPC' = to
  /\ UNCHANGED <<exit, processDone, finVars, startVars, inFlight, sendPC,
                 serverVars, stream, events, deaf, loose>>

(* A stream that has not set streamCancel yet is not cancelled.             *)
StopBegin ==
  /\ startPC \in {"returned", "stopping"}
  /\ StopStep("idle", IF known = "nothing" THEN "waiting" ELSE "disposing")
  /\ alive' = FALSE
  /\ cancelled' = (stream \notin {"none", "launched"})
  /\ UNCHANGED child

(* The two requests, answered or failed.                                    *)
StopDisposes ==
  /\ StopStep("disposing", IF known = "session" THEN "aborting" ELSE "waiting")
  /\ UNCHANGED <<child, alive, cancelled>>

StopAborts ==
  /\ StopStep("aborting", "waiting")
  /\ UNCHANGED <<child, alive, cancelled>>

StopSeesDone ==
  /\ done
  /\ StopStep("waiting", "done") \/ StopStep("grace", "done")
  /\ UNCHANGED <<child, alive, cancelled>>

(* SIGTERM: the server may exit (ChildExit) or ignore it; it fails when     *)
(* nothing is left of the process group.                                    *)
StopTerminates ==
  /\ \/ StopStep("waiting", "grace")
     \/ child = "reaped" /\ StopStep("waiting", "done")
  /\ UNCHANGED <<child, alive, cancelled>>

StopKills_Not ==
  /\ StopStep("grace", "done")
  /\ UNCHANGED <<child, alive, cancelled>>

StopKills ==
  /\ stopPC = "grace" /\ stopPC' = "done"
  /\ child' = IF child = "live" THEN "exited" ELSE child
  /\ exit' = IF child = "live" THEN 1 ELSE exit
  /\ UNCHANGED <<processDone, finVars, alive, startVars, inFlight, sendPC,
                 serverVars, streamVars, loose>>

-----------------------------------------------------------------------------
FinisherNext(f) ==
  FinisherReceives(f) \/ FinisherJudges(f) \/ FinisherDelivers(f) \/ FinisherSkips(f)

StartNext ==
  StartHasURL \/ StartSeesExit \/ StartHealthy \/ StartCreates \/ StartGivesUp
  \/ StartLaunches \/ StartFails

SendGoes(c) ==
  SendEnter(c) \/ SendClaim(c) \/ SendPost(c) \/ SendAnswered(c) \/ SendFails(c)

StreamNext ==
  StreamArms \/ StreamOpens \/ StreamTakes

StopNext ==
  StopDisposes \/ StopAborts \/ StopSeesDone \/ StopTerminates \/ StopKills

Next ==
  \/ ChildExit \/ ServerPrints \/ ServerEndsTurn \/ ServerEndsStep
  \/ Reap \/ \E f \in Finishers : FinisherNext(f)
  \/ StartNext
  \/ \E c \in Senders : SendCall(c)
  \/ \E c \in Callers : SendGoes(c)
  \/ StreamNext \/ StreamEnds
  \/ StopBegin \/ StopNext

Spec == Init /\ [][Next]_vars

(***************************************************************************)
(* Goroutines that can run do and timers fire; a request is answered or    *)
(* fails some time, a server that lives ends its turns, and a connection   *)
(* ends when the server has or its context does.                           *)
(***************************************************************************)
FairSpec ==
  /\ Spec
  /\ WF_vars(Reap) /\ \A f \in Finishers : WF_vars(FinisherNext(f))
  /\ WF_vars(StartNext) /\ WF_vars(startPC = "stopping" /\ StopBegin)
  /\ WF_vars(StopNext)
  /\ \A c \in Callers : WF_vars(SendGoes(c))
  /\ WF_vars(StreamNext) /\ WF_vars((child # "live" \/ cancelled) /\ StreamEnds)
  /\ WF_vars(ServerEndsTurn)
=============================================================================
