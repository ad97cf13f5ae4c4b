----------------------------- MODULE TurnSession -----------------------------
(***************************************************************************)
(* Sessions that have no process of their own between turns: an adapter    *)
(* session runs a child for each turn (from_adapter.go), a provider        *)
(* session sends the conversation so far to an API (from_provider.go).     *)
(* SendInput is the turn: it returns when the turn has ended.              *)
(*                                                                         *)
(* The runner, its child and the provider are outside the repository: a    *)
(* run may fail to start, report ids and end either way, and it is killed  *)
(* once its context is cancelled.  A turn stands for its input and answer. *)
(***************************************************************************)
EXTENDS Integers, Sequences

CONSTANTS
  Senders,   (* callers of SendInput                                        *)
  Ids,       (* conversation ids a child may report                         *)
  NoId,      (* none was reported so far                                    *)
  MaxTurns   (* bound: SendInput is called before so many turns have begun  *)

ASSUME TurnAssumption ==
  "start" \notin Senders /\ NoId \notin Ids /\ MaxTurns \in Nat

VARIABLES
  kind,       (* "adapter" or "provider"                                    *)
  startPC,    (* Start: "firing" the first turn, "stopping", "failed",      *)
              (* "returned"                                                 *)
  alive,      (* s.alive                                                    *)
  state,      (* s.state                                                    *)
  inFlight,   (* s.turnInFlight                                             *)
  pc,         (* control point of each SendInput                            *)
  failed,     (* its turn ended with an error                               *)
  cancelled,  (* the context of its turn has ended                          *)
  using,      (* the conversation its child has resumed or begun            *)
  sessionID,  (* s.sessionID                                                *)
  turn,       (* its number, in the order in which turns begin              *)
  answered,   (* its stream has brought text                                *)
  turns,      (* turns begun                                                *)
  messages,   (* s.messages                                                 *)
  exitCode,   (* s.exitCode                                                 *)
  stopPC,     (* Stop: "idle", "stopped", "delivered", "done"               *)
  done,       (* s.done is closed                                           *)
  planted     (* the boot directory exists                                  *)

sendVars  == <<pc, failed, cancelled, using, turn, answered>>
talkVars  == <<sessionID, turns, messages>>
endVars   == <<stopPC, done, planted>>

vars == <<kind, startPC, alive, state, inFlight, sendVars, talkVars, exitCode,
          endVars>>

Callers == Senders \cup {"start"}
Adapter == kind = "adapter"

(* Only an adapter plants a directory and fires a first turn from Start.    *)
Init ==
  /\ kind \in {"adapter", "provider"}
  /\ startPC \in {"firing", "returned"} /\ (startPC = "firing" => Adapter)
  /\ planted \in BOOLEAN /\ (planted => Adapter)
  /\ alive = TRUE /\ state = "idle" /\ inFlight = FALSE
  /\ pc = [c \in Callers |-> "idle"]
  /\ failed = [c \in Callers |-> FALSE] /\ cancelled = [c \in Callers |-> FALSE]
  /\ using = [c \in Callers |-> NoId] /\ sessionID = NoId
  /\ turn = [c \in Callers |-> 0] /\ answered = [c \in Callers |-> FALSE]
  /\ turns = 0 /\ messages = <<>>
  /\ exitCode = 0 /\ stopPC = "idle" /\ done = FALSE

(***************************************************************************)
(* SendInput: alive, the claim of the turn, its beginning.                 *)
(***************************************************************************)
SendStep(c, from, to) ==
  /\ pc[c] = from
  /\ pc' = [pc EXCEPT ![c] = to]
  /\ UNCHANGED <<kind, alive, endVars>>

SendEnter(c) ==
  /\ startPC = IF c = "start" THEN "firing" ELSE "returned"
  /\ alive /\ turns < MaxTurns
  /\ SendStep(c, "idle", "entered")
  /\ UNCHANGED <<startPC, state, inFlight, failed, cancelled, using, turn, answered,
                 talkVars, exitCode>>

SendClaim_CheckThenSet(c) ==
  /\ SendStep(c, "entered", "claimed") /\ inFlight' = TRUE
  /\ UNCHANGED <<startPC, state, failed, cancelled, using, turn, answered, talkVars,
                 exitCode>>

(* CompareAndSwap, or ErrTurnInFlight.                                      *)
SendClaim(c) ==
  /\ IF inFlight THEN SendStep(c, "entered", "idle")
                 ELSE SendStep(c, "entered", "claimed")
  /\ inFlight' = TRUE
  /\ UNCHANGED <<startPC, state, failed, cancelled, using, turn, answered, talkVars,
                 exitCode>>

(* The prompt goes to the conversation last reported, or joins the history  *)
(* that is sent to the provider.                                            *)
TurnBegins(c) ==
  /\ SendStep(c, "claimed", "begun")
  /\ turns' = turns + 1
  /\ turn' = [turn EXCEPT ![c] = turns + 1]
  /\ using' = [using EXCEPT ![c] = sessionID]
  /\ messages' = IF Adapter THEN messages
                 ELSE Append(messages, [role |-> "user", turn |-> turns + 1])
  /\ state' = "processing"
  /\ failed' = [failed EXCEPT ![c] = FALSE]
  /\ cancelled' = [cancelled EXCEPT ![c] = FALSE]
  /\ answered' = [answered EXCEPT ![c] = FALSE]
  /\ UNCHANGED <<startPC, inFlight, sessionID, exitCode>>

(* runner.Run has started the child, StreamChat has returned a stream.      *)
TurnRuns(c) ==
  /\ SendStep(c, "begun", "running")
  /\ UNCHANGED <<startPC, state, inFlight, failed, cancelled, using, turn, answered,
                 talkVars, exitCode>>

(***************************************************************************)
(* A turn under way, and its end.                                          *)
(***************************************************************************)
(* handleRunnerEvent.                                                       *)
ChildReports(c) ==
  /\ Adapter
  /\ SendStep(c, "running", "running")
  /\ \E id \in Ids :
       sessionID' = id /\ using' = [using EXCEPT ![c] = id]
  /\ UNCHANGED <<startPC, state, inFlight, failed, cancelled, turn, answered, turns,
                 messages, exitCode>>

StreamBrings(c) ==
  /\ ~Adapter
  /\ SendStep(c, "running", "running")
  /\ answered' = [answered EXCEPT ![c] = TRUE]
  /\ UNCHANGED <<startPC, state, inFlight, failed, cancelled, using, turn, talkVars,
                 exitCode>>

(* The child has exited with code 0; the stream is at its end.              *)
TurnSucceeds(c) ==
  /\ SendStep(c, "running", "leaving")
  /\ messages' = IF Adapter \/ ~answered[c] THEN messages
                 ELSE Append(messages, [role |-> "assistant", turn |-> turn[c]])
  /\ UNCHANGED <<startPC, state, inFlight, failed, cancelled, using, turn, answered,
                 sessionID, turns, exitCode>>

(* It could not be started, ended with an error or was killed.              *)
TurnFails(c) ==
  /\ SendStep(c, "begun", "leaving") \/ SendStep(c, "running", "leaving")
  /\ failed' = [failed EXCEPT ![c] = TRUE]
  /\ exitCode' = IF Adapter THEN 1 ELSE exitCode
  /\ UNCHANGED <<startPC, state, inFlight, cancelled, using, turn, answered, talkVars>>

(* The caller's context ends, or stopCh is closed: only an adapter's turn   *)
(* looks at that.                                                           *)
TurnCancelled(c) ==
  /\ pc[c] \in {"begun", "running"} /\ ~cancelled[c]
  /\ cancelled' = [cancelled EXCEPT ![c] = TRUE]
  /\ UNCHANGED <<kind, startPC, alive, state, inFlight, pc, failed, using, turn,
                 answered, talkVars, exitCode, endVars>>

(* What Start makes of its first turn.                                      *)
Fired(c) ==
  startPC' = IF c # "start" THEN startPC ELSE IF failed[c] THEN "stopping" ELSE "returned"

TurnLeaves_FlagFirst(c) ==
  /\ \/ SendStep(c, "leaving", "left") /\ inFlight' = FALSE
        /\ UNCHANGED <<state, startPC>>
     \/ SendStep(c, "left", "idle") /\ state' = "idle" /\ Fired(c)
        /\ UNCHANGED inFlight
  /\ UNCHANGED <<failed, cancelled, using, turn, answered, talkVars, exitCode>>

(* The deferred calls: the state, then the claim.                           *)
TurnLeaves(c) ==
  /\ \/ SendStep(c, "leaving", "left") /\ state' = "idle"
        /\ UNCHANGED <<inFlight, startPC>>
     \/ SendStep(c, "left", "idle") /\ inFlight' = FALSE /\ Fired(c)
        /\ UNCHANGED state
  /\ UNCHANGED <<failed, cancelled, using, turn, answered, talkVars, exitCode>>

(***************************************************************************)
(* Stop, and Start's own call of it when the first turn has failed.        *)
(***************************************************************************)
StopStep(from, to) ==
  /\ stopPC = from
  /\ stopPC' = to
  /\ UNCHANGED <<kind, startPC, inFlight, sendVars, talkVars, exitCode>>

StopBegins ==
  /\ startPC \in {"returned", "stopping"}
  /\ StopStep("idle", "stopped")
  /\ alive' = FALSE /\ state' = "stopped"
  /\ UNCHANGED <<done, planted>>

StopDelivers ==
  /\ StopStep("stopped", "delivered")
  /\ done' = TRUE
  /\ UNCHANGED <<alive, state, planted>>

StopCleans ==
  /\ StopStep("delivered", "done")
  /\ planted' = FALSE
  /\ UNCHANGED <<alive, state, done>>

StartFails ==
  /\ startPC = "stopping" /\ stopPC = "done"
  /\ startPC' = "failed"
  /\ UNCHANGED <<kind, alive, state, inFlight, sendVars, talkVars, exitCode, endVars>>

-----------------------------------------------------------------------------
TurnGoes(c) ==
  SendClaim(c) \/ TurnBegins(c) \/ TurnRuns(c) \/ TurnLeaves(c)

Next ==
  \/ \E c \in Callers :
       \/ SendEnter(c) \/ TurnGoes(c) \/ ChildReports(c) \/ StreamBrings(c)
       \/ TurnSucceeds(c) \/ TurnFails(c) \/ TurnCancelled(c)
  \/ StopBegins \/ StopDelivers \/ StopCleans \/ StartFails

Spec == Init /\ [][Next]_vars

CancelsWatched_Signal(c) == Adapter /\ stopPC = "stopped" /\ TurnCancelled(c)

(* The goroutine beside each run: it finds stopCh closed, before or after   *)
(* the turn began.                                                          *)
CancelsWatched(c) == Adapter /\ stopPC # "idle" /\ TurnCancelled(c)

(* The goroutines go on, and the runner kills the child of a context that   *)
(* has been cancelled.  A provider may keep its stream open for ever.       *)
FairSpec ==
  /\ Spec
  /\ \A c \in Callers :
       /\ WF_vars(TurnGoes(c)) /\ WF_vars(CancelsWatched(c))
       /\ WF_vars(Adapter /\ cancelled[c] /\ TurnFails(c))
  /\ WF_vars(startPC = "stopping" /\ StopBegins)
  /\ WF_vars(StopDelivers \/ StopCleans) /\ WF_vars(StartFails)
=============================================================================
