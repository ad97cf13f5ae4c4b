-------------------------- MODULE SingleShotSession --------------------------
(***************************************************************************)
(* A pty or streaming-stdio session without a Supervisor, from the first   *)
(* step of Start (pty_session.go, streaming_stdio_session.go): what Start  *)
(* takes hold of and lets go when a step fails, the boot prompt or first   *)
(* turn, the reader and the waiter, SendInput under its lock, and Stop.    *)
(*                                                                         *)
(* The child is outside the repository: it reads its input unless it is    *)
(* stuck on an output that nobody reads, and it may ignore SIGTERM.        *)
(***************************************************************************)
EXTENDS Integers, Sequences

CONSTANTS Senders   (* callers of SendInput                                 *)

ASSUME SingleShotAssumption == {"start", "free"} \cap Senders = {}

VARIABLES
  kind,       (* "pty" or "streaming"                                       *)
  wants,      (* what the options make Start take hold of                   *)
  first,      (* "none", "prompt" (BootMode stdin), "turn" (AutoFire)       *)
  startPC,    (* control point of Start: a stage, or one of                 *)
              (* "prompt", "launch", "ready", "firing", "stopping",         *)
              (* "returned", "failed"                                       *)
  held,       (* what is held                                               *)
  child,      (* "none", "live", "exited" (unreaped), "reaped"              *)
  stuck,      (* its output is full                                         *)
  reader,     (* "none", "launched", "reading", "ended" (copyDone)          *)
  waiter,     (* control point of spawnWaiterLegacy                         *)
  cleared,    (* s.stdin or s.ptmx is nil                                   *)
  closed,     (* Stop has closed stdin                                      *)
  lock,       (* the SendInput that holds ioLock or ptmxLock, or "free"     *)
  alive,      (* s.alive                                                    *)
  done,       (* s.done is closed                                           *)
  sendPC,     (* control point of each SendInput                            *)
  stopPC      (* control point of the Stop that won stopOnce                *)

options  == <<kind, wants, first>>
procVars == <<child, stuck>>
io       == <<cleared, closed, lock>>

vars == <<options, startPC, held, procVars, reader, waiter, io, alive, done,
          sendPC, stopPC>>

Callers == Senders \cup {"start"}
Always  == {"log", "pipes", "child"}
Wraps   == {"boot", "sandbox", "limits"}
Stages  == <<"boot", "log", "sandbox", "limits", "pipes", "child">>

Init ==
  /\ kind \in {"pty", "streaming"}
  /\ \E w \in SUBSET Wraps : wants = w \cup Always
  /\ first \in {"none", "prompt", "turn"}
  /\ startPC = "boot" /\ held = {}
  /\ child = "none" /\ stuck = FALSE /\ reader = "none" /\ waiter = "none"
  /\ cleared = FALSE /\ closed = FALSE /\ lock = "free"
  /\ alive = TRUE /\ done = FALSE
  /\ sendPC = [c \in Callers |-> "idle"] /\ stopPC = "idle"

(***************************************************************************)
(* The child.                                                              *)
(***************************************************************************)
ChildSticks ==
  /\ child = "live" /\ ~stuck
  /\ stuck' = TRUE
  /\ UNCHANGED <<options, startPC, held, child, reader, waiter, io, alive, done,
                 sendPC, stopPC>>

ChildExit ==
  /\ child = "live"
  /\ child' = "exited" /\ stuck' = FALSE
  /\ UNCHANGED <<options, startPC, held, reader, waiter, io, alive, done, sendPC,
                 stopPC>>

(***************************************************************************)
(* Start.                                                                  *)
(***************************************************************************)
StartStep(from, to) ==
  /\ startPC = from
  /\ startPC' = to
  /\ UNCHANGED <<options, io, alive, done, stopPC>>

AfterSpawn_PromptFirst == IF first = "prompt" THEN "prompt" ELSE "launch"

(* Streaming writes the boot prompt before it launches the reader.          *)
AfterSpawn ==
  IF kind = "streaming" /\ first = "prompt" THEN "prompt" ELSE "launch"

StartTakes ==
  \E i \in 1..Len(Stages) :
    /\ StartStep(Stages[i], IF i < Len(Stages) THEN Stages[i + 1] ELSE AfterSpawn)
    /\ held' = held \cup ({Stages[i]} \cap wants)
    /\ child' = IF i = Len(Stages) THEN "live" ELSE child
    /\ UNCHANGED <<stuck, reader, waiter, sendPC>>

(* What the error branch of a stage lets go: preparePlant its directory,    *)
(* spawnAttempt what it has taken, Start the log and the directory.         *)
LetGo_NoWraps(stage) == IF stage = "boot" THEN {"boot"} ELSE {"boot", "log"}

LetGo(stage) ==
  CASE stage = "boot"    -> {"boot"}
    [] stage = "log"     -> {"boot"}
    [] stage = "sandbox" -> {"boot", "log"}
    [] stage = "limits"  -> {"boot", "log", "sandbox"}
    [] stage = "pipes"   -> {"boot", "log", "sandbox", "limits"}
    [] stage = "child"   -> {"boot", "log", "sandbox", "limits", "pipes"}

StartFailsAt ==
  \E i \in 1..Len(Stages) :
    /\ Stages[i] \in wants
    /\ StartStep(Stages[i], "failed")
    /\ held' = held \ LetGo(Stages[i])
    /\ UNCHANGED <<procVars, reader, waiter, sendPC>>

PromptWritten ==
  /\ child = "live" /\ ~stuck
  /\ StartStep("prompt", "launch")
  /\ UNCHANGED <<held, procVars, reader, waiter, sendPC>>

(* The child is gone or has closed its input: killed, reaped, all let go.   *)
PromptFails ==
  /\ StartStep("prompt", "failed")
  /\ held' = {}
  /\ child' = "reaped" /\ stuck' = FALSE
  /\ UNCHANGED <<reader, waiter, sendPC>>

StartLaunches ==
  /\ StartStep("launch", CASE first = "turn" -> "firing"
                           [] first = "prompt" /\ kind = "pty" -> "ready"
                           [] OTHER -> "returned")
  /\ sendPC' = [sendPC EXCEPT !["start"] = IF first = "turn" THEN "called" ELSE @]
  /\ reader' = "launched" /\ waiter' = "waiting"
  /\ UNCHANGED <<held, procVars>>

(* readerReady, then writeRawInputString.                                   *)
StartReady ==
  /\ reader # "launched"
  /\ StartStep("ready", "firing")
  /\ sendPC' = [sendPC EXCEPT !["start"] = "called"]
  /\ UNCHANGED <<held, procVars, reader, waiter>>

StartCancelled ==
  /\ StartStep("ready", "stopping")
  /\ UNCHANGED <<held, procVars, reader, waiter, sendPC>>

StartFails ==
  /\ stopPC = "done"
  /\ StartStep("stopping", "failed")
  /\ UNCHANGED <<held, procVars, reader, waiter, sendPC>>

(***************************************************************************)
(* SendInput, and Start's own writes.                                      *)
(***************************************************************************)
SendStep(c, from, to) ==
  /\ sendPC[c] = from
  /\ sendPC' = [sendPC EXCEPT ![c] = to]
  /\ UNCHANGED <<options, held, procVars, reader, waiter, cleared, closed, alive,
                 done, stopPC>>

Answer(c, ok) ==
  startPC' = IF c # "start" THEN startPC ELSE IF ok THEN "returned" ELSE "stopping"

SendCall(c) ==
  /\ startPC = "returned"
  /\ SendStep(c, "idle", "called")
  /\ UNCHANGED <<startPC, lock>>

SendEnter(c) ==
  /\ \/ alive /\ SendStep(c, "called", "locking") /\ UNCHANGED startPC
     \/ ~alive /\ SendStep(c, "called", "idle") /\ Answer(c, FALSE)
  /\ UNCHANGED lock

SendLocks(c) ==
  /\ lock = "free"
  /\ \/ ~cleared /\ SendStep(c, "locking", "writing") /\ lock' = c
        /\ UNCHANGED startPC
     \/ cleared /\ SendStep(c, "locking", "idle") /\ Answer(c, FALSE)
        /\ UNCHANGED lock

SendWritten(c) ==
  /\ child = "live" /\ ~stuck /\ ~closed
  /\ SendStep(c, "writing", "idle")
  /\ lock' = "free" /\ Answer(c, TRUE)

SendFails(c) ==
  /\ child # "live" \/ closed
  /\ SendStep(c, "writing", "idle")
  /\ lock' = "free" /\ Answer(c, FALSE)

(***************************************************************************)
(* The reader and the waiter.                                              *)
(***************************************************************************)
ReaderStep(from, to) ==
  /\ reader = from
  /\ reader' = to
  /\ UNCHANGED <<options, startPC, held, child, waiter, io, alive, done, sendPC,
                 stopPC>>

ReaderStarts == ReaderStep("launched", "reading") /\ UNCHANGED stuck

ReaderReads == stuck /\ ReaderStep("reading", "reading") /\ stuck' = FALSE

(* The end of the output, or a line of more than 1 MiB.                     *)
ReaderEnds == ReaderStep("reading", "ended") /\ UNCHANGED stuck

WaiterStep(from, to) ==
  /\ waiter = from
  /\ waiter' = to
  /\ UNCHANGED <<options, startPC, stuck, reader, closed, lock, sendPC, stopPC>>

WaiterReaps ==
  /\ child = "exited"
  /\ WaiterStep("waiting", "reaped")
  /\ child' = "reaped"
  /\ UNCHANGED <<held, cleared, alive, done>>

WaiterClears ==
  /\ lock = "free"
  /\ WaiterStep("reaped", "cleared")
  /\ cleared' = TRUE
  /\ UNCHANGED <<held, child, alive, done>>

WaiterCloses ==
  /\ WaiterStep("cleared", "closed")
  /\ held' = held \ {"pipes", "child"}
  /\ UNCHANGED <<child, cleared, alive, done>>

WaiterJoins_Not ==
  /\ WaiterStep("closed", "joined")
  /\ held' = held \ {"log"}
  /\ alive' = FALSE
  /\ UNCHANGED <<child, cleared, done>>

(* copyDone; then the log is closed.                                        *)
WaiterJoins ==
  /\ reader = "ended"
  /\ WaiterStep("closed", "joined")
  /\ held' = held \ {"log"}
  /\ alive' = FALSE
  /\ UNCHANGED <<child, cleared, done>>

WaiterDelivers ==
  /\ WaiterStep("joined", "delivered")
  /\ done' = TRUE
  /\ UNCHANGED <<held, child, cleared, alive>>

(* legacyCleanup, then the boot directory.                                  *)
WaiterCleans ==
  /\ \/ WaiterStep("delivered", "cleaned") /\ held' = held \ {"sandbox", "limits"}
     \/ WaiterStep("cleaned", "ended") /\ held' = held \ {"boot"}
  /\ UNCHANGED <<child, cleared, alive, done>>

(***************************************************************************)
(* Stop.                                                                   *)
(***************************************************************************)
StopStep(from, to) ==
  /\ stopPC = from
  /\ stopPC' = to
  /\ UNCHANGED <<options, startPC, held, reader, waiter, cleared, lock, done,
                 sendPC>>

StopBegins ==
  /\ startPC \in {"returned", "stopping"}
  /\ StopStep("idle", "locking")
  /\ alive' = FALSE
  /\ UNCHANGED <<procVars, closed>>

(* Streaming closes stdin and gives the child two seconds.                  *)
StopLocks ==
  /\ lock = "free"
  /\ IF kind = "streaming" THEN StopStep("locking", "waiting") /\ closed' = ~cleared
     ELSE StopStep("locking", "signal") /\ UNCHANGED closed
  /\ UNCHANGED <<procVars, alive>>

StopSeesDone ==
  /\ done
  /\ StopStep("waiting", "done") \/ StopStep("grace", "done")
  /\ UNCHANGED <<procVars, closed, alive>>

StopWaited ==
  /\ StopStep("waiting", "signal")
  /\ UNCHANGED <<procVars, closed, alive>>

(* SIGTERM fails when nothing is left of the process group.                 *)
StopTerminates ==
  /\ \/ StopStep("signal", "grace")
     \/ child = "reaped" /\ StopStep("signal", "done")
  /\ UNCHANGED <<procVars, closed, alive>>

StopKills_Not ==
  /\ StopStep("grace", "done")
  /\ UNCHANGED <<procVars, closed, alive>>

StopKills ==
  /\ StopStep("grace", "done")
  /\ child' = IF child = "live" THEN "exited" ELSE child
  /\ stuck' = FALSE
  /\ UNCHANGED <<closed, alive>>

-----------------------------------------------------------------------------
StartNext ==
  \/ StartTakes \/ StartFailsAt \/ PromptWritten \/ StartLaunches \/ StartReady
  \/ StartFails

SendGoes(c) == SendEnter(c) \/ SendLocks(c) \/ SendWritten(c) \/ SendFails(c)

WaiterNext ==
  WaiterReaps \/ WaiterClears \/ WaiterCloses \/ WaiterJoins \/ WaiterDelivers
  \/ WaiterCleans

StopNext == StopLocks \/ StopSeesDone \/ StopWaited \/ StopTerminates \/ StopKills

Next ==
  \/ ChildSticks \/ ChildExit
  \/ StartNext \/ PromptFails \/ StartCancelled
  \/ \E c \in Senders : SendCall(c)
  \/ \E c \in Callers : SendGoes(c)
  \/ ReaderStarts \/ ReaderReads \/ ReaderEnds \/ WaiterNext
  \/ StopBegins \/ StopNext

Spec == Init /\ [][Next]_vars

(***************************************************************************)
(* Goroutines that can run do, timers fire, a child that gets rid of its   *)
(* output again and again reads its input some time, and the reader ends   *)
(* when the waiter has closed the pipe.                                    *)
(***************************************************************************)
FairSpec ==
  /\ Spec
  /\ WF_vars(StartNext) /\ WF_vars(child # "live" /\ PromptFails)
  /\ WF_vars(startPC = "stopping" /\ StopBegins)
  /\ \A c \in Callers : WF_vars(SendGoes(c)) /\ SF_vars(SendWritten(c))
  /\ WF_vars(ReaderStarts) /\ WF_vars(ReaderReads)
  /\ WF_vars(waiter = "closed" /\ ReaderEnds)
  /\ WF_vars(WaiterNext) /\ WF_vars(StopNext)
=============================================================================
