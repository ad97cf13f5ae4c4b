-------------------------- MODULE SupervisedSession --------------------------
(***************************************************************************)
(* A process session with StartOptions.Supervisor set: the restart loop of *)
(* runSupervised and the goroutines around one child (reader, idle-kill,   *)
(* watchdog, stop-watcher), Stop, SendInput and the end of Start.          *)
(*                                                                         *)
(* pty_session.go, streaming_stdio_session.go and jsonrpc_stdio_session.go *)
(* carry this machinery three times; opts.kind says which.  Only the child *)
(* of the current attempt is modelled: a signal to an earlier one, whose   *)
(* process has been reaped, reaches nobody.                                *)
(***************************************************************************)
EXTENDS Integers, FiniteSets

CONSTANTS
  Options,         (* the options Start may be given, see Option            *)
  Lines,           (* lines a child may write                               *)
  Sids,            (* those that announce a session id                      *)
  Preset,          (* StartOptions.SessionIDPreset                          *)
  Writers,         (* goroutines calling SendInput                          *)
  None             (* nil                                                   *)

(* kind: "pty", or "stdio" for the streaming and JSON-RPC runtimes;         *)
(* restartOnCrash, and which of "idle" and "watchdog" are switched on, from *)
(* SupervisorOptions; kickoff: what Start sends the child - a boot "prompt" *)
(* (a stdio session sends it before there is a session), a first "turn" or  *)
(* "none"; resumes: Caps.ProviderSessionID.                                 *)
Option == [kind : {"pty", "stdio"}, restartOnCrash : Int,
           supervisors : SUBSET {"idle", "watchdog"},
           kickoff : {"prompt", "turn", "none"}, resumes : BOOLEAN]

ASSUME SessionAssumption ==
  /\ Options \subseteq Option
  /\ Sids \subseteq Lines
  /\ None \notin Writers \cup Lines \cup {"start"} /\ "start" \notin Writers

VARIABLES
  opts,        (* the options of this session                               *)
  loop,        (* control point of runSupervised                            *)
  attempt,     (* its attempt counter                                       *)
  lastExit,    (* its lastExit; code 0 and no cause is nil                  *)
  child,       (* the current child: "live", "exited" (unreaped), "reaped"  *)
  exitKind,    (* how it exited: "ok", "err" (non-zero) or "sig"            *)
  resume,      (* the session id it was started with                        *)
  cause,       (* supState.cause of this attempt                            *)
  procDone,    (* procDone is closed                                        *)
  guard,       (* control point of idle-kill, watchdog and stop-watcher     *)
  lapsed,      (* supervisors whose threshold the last activity exceeds     *)
  reader,      (* the reader goroutine: "reading" or "done"                 *)
  output,      (* a line the child has written and nobody has read          *)
  outOpen,     (* the pty master, or the stdout pipe, is open               *)
  lastSid,     (* lastSessionID                                             *)
  field,       (* s.ptmx or s.stdin is set                                  *)
  cmdField,    (* attempt whose command s.cmd is                            *)
  holder,      (* who holds ptmxLock or ioLock                              *)
  sendPC,      (* control point of each SendInput                           *)
  startPC,     (* control point of the end of Start                         *)
  booted,      (* supervisorStart is closed                                 *)
  alive,       (* s.alive                                                   *)
  stopReq,     (* stopRequested is closed                                   *)
  ctxDone,     (* the context of Start has ended                            *)
  stopPC,      (* control point of the Stop that won stopOnce               *)
  stopCmd,     (* the attempt whose command it found                        *)
  done,        (* s.done is closed: Wait returns lastExit                   *)
  hit,         (* who has sent the current child a signal while it lived    *)
  lateSpawns   (* children started after Stop or the end of the context     *)

loopVars  == <<attempt, lastExit>>
childVars == <<child, exitKind, hit>>
spawnVars == <<resume, lateSpawns>>
supVars   == <<cause, guard>>
ioVars    == <<reader, output, outOpen, lastSid>>
lockVars  == <<field, cmdField, holder>>
startVars == <<opts, startPC, booted>>
stopVars  == <<stopPC, stopCmd>>
flags     == <<alive, stopReq, ctxDone, done>>

vars == <<loop, loopVars, childVars, spawnVars, supVars, procDone, lapsed,
          ioVars, lockVars, sendPC, startVars, stopVars, flags>>

Guards == {"idle", "watchdog", "stopper"}
Nil == [code |-> 0, cause |-> "none"]
Pty == opts.kind = "pty"
maxRestarts == IF opts.restartOnCrash < 0 THEN 0 ELSE opts.restartOnCrash
Ending == ctxDone \/ stopReq

Init ==
  /\ opts \in Options
  /\ loop = "launched" /\ attempt = 0 /\ lastExit = Nil
  /\ child = "live" /\ exitKind = "none" /\ hit = {}
  /\ resume = Preset /\ lateSpawns = 0
  /\ cause = "none" /\ guard = [g \in Guards |-> "off"]
  /\ procDone = FALSE /\ lapsed = {}
  /\ reader = "reading" /\ output = None /\ outOpen = TRUE
  /\ lastSid = Preset
  /\ field = TRUE /\ cmdField = 0 /\ holder = None
  /\ sendPC = [w \in Writers |-> "idle"]
  /\ startPC = IF Pty /\ opts.kickoff = "prompt" THEN "prompt" ELSE "signal"
  /\ booted = FALSE
  /\ alive = TRUE /\ stopReq = FALSE /\ ctxDone = FALSE /\ done = FALSE
  /\ stopPC = "idle" /\ stopCmd = None

(***************************************************************************)
(* The child.  It may write, exit or be killed; a signal matters only      *)
(* while it lives.                                                         *)
(***************************************************************************)
Exits(kind) ==
  /\ child' = "exited"
  /\ exitKind' = kind

ChildExit ==
  /\ child = "live"
  /\ \E kind \in {"ok", "err", "sig"} : Exits(kind)
  /\ UNCHANGED <<loop, loopVars, hit, spawnVars, supVars, procDone, lapsed,
                 ioVars, lockVars, sendPC, startVars, stopVars, flags>>

ChildWrite ==
  /\ child = "live"
  /\ output = None
  /\ \E line \in Lines : output' = line
  /\ UNCHANGED <<loop, loopVars, childVars, spawnVars, supVars, procDone, lapsed,
                 reader, outOpen, lastSid, lockVars, sendPC, startVars, stopVars,
                 flags>>

(* signalProcessGroup with SIGTERM: the child may exit, or ignore it.       *)
Terminate(who, a) ==
  /\ hit' = IF a = attempt /\ child = "live" THEN hit \cup {who} ELSE hit
  /\ UNCHANGED <<child, exitKind>>

(* ... with SIGKILL.                                                        *)
Kill(who, a) ==
  IF a = attempt /\ child = "live"
  THEN Exits("sig") /\ hit' = hit \cup {who}
  ELSE UNCHANGED childVars

(***************************************************************************)
(* The reader of the attempt.  It may have taken output into its buffer    *)
(* before the descriptor is closed; what it has not taken is lost.         *)
(***************************************************************************)
ReadLine ==
  /\ reader = "reading"
  /\ output # None
  /\ lastSid' = IF output \in Sids THEN output ELSE lastSid
  /\ output' = None
  /\ lapsed' = {}
  /\ UNCHANGED <<loop, loopVars, childVars, spawnVars, supVars, procDone, reader,
                 outOpen, lockVars, sendPC, startVars, stopVars, flags>>

(* End of file, a closed descriptor, or a line too long for the scanner.    *)
ReaderEnds ==
  /\ reader = "reading"
  /\ reader' = "done"
  /\ output' = None
  /\ UNCHANGED <<loop, loopVars, childVars, spawnVars, supVars, procDone, lapsed,
                 outOpen, lastSid, lockVars, sendPC, startVars,
                 stopVars, flags>>

(***************************************************************************)
(* Idle-kill, watchdog and stop-watcher.  A select whose procDone case and *)
(* another are both ready takes either.                                    *)
(***************************************************************************)
GuardStep(g, to) ==
  /\ guard' = [guard EXCEPT ![g] = to]
  /\ UNCHANGED <<loop, loopVars, spawnVars, procDone, lapsed, ioVars, lockVars,
                 sendPC, startVars, stopVars, flags>>

Lapse(g) ==
  /\ guard[g] = "polling"
  /\ g \in opts.supervisors \ lapsed
  /\ lapsed' = lapsed \cup {g}
  /\ UNCHANGED <<loop, loopVars, childVars, spawnVars, supVars, procDone, ioVars,
                 lockVars, sendPC, startVars, stopVars, flags>>

Triggered(g) == IF g = "stopper" THEN Ending ELSE g \in lapsed

GuardSees(g) ==
  /\ guard[g] = "polling"
  /\ Triggered(g)
  /\ GuardStep(g, "fired")
  /\ UNCHANGED <<childVars, cause>>

CauseOf(g) == IF g = "idle" THEN "idle_timeout" ELSE "watchdog_kill"

(* trySetCause and the first signal.                                        *)
SupervisorActs(g) ==
  /\ g # "stopper" /\ guard[g] = "fired" /\ cause = "none"
  /\ cause' = CauseOf(g)
  /\ \/ g = "idle" /\ Terminate(g, attempt) /\ GuardStep(g, "grace")
     \/ g = "watchdog" /\ Kill(g, attempt) /\ GuardStep(g, "done")

SupervisorYields(g) ==
  /\ g # "stopper" /\ guard[g] = "fired" /\ cause # "none"
  /\ GuardStep(g, "done")
  /\ UNCHANGED <<childVars, cause>>

StopperActs ==
  /\ guard["stopper"] = "fired"
  /\ Terminate("stopper", attempt)
  /\ GuardStep("stopper", "grace")
  /\ UNCHANGED cause

(* killWithGrace: the grace period is over.                                 *)
GuardKills_Never(g) ==
  /\ guard[g] = "grace" /\ procDone
  /\ GuardStep(g, "done")
  /\ UNCHANGED <<childVars, cause>>

GuardKills(g) ==
  /\ guard[g] = "grace"
  /\ Kill(g, attempt)
  /\ GuardStep(g, "done")
  /\ UNCHANGED cause

GuardQuits_GraceOnly(g) ==
  /\ guard[g] = "grace" /\ procDone
  /\ GuardStep(g, "done")
  /\ UNCHANGED <<childVars, cause>>

GuardQuits(g) ==
  /\ guard[g] \in {"polling", "grace"}
  /\ procDone
  /\ GuardStep(g, "done")
  /\ UNCHANGED <<childVars, cause>>

(***************************************************************************)
(* runSupervised and waitOnceSupervised.                                   *)
(***************************************************************************)
LoopStep(from, to) ==
  /\ loop = from
  /\ loop' = to
  /\ UNCHANGED <<sendPC, startVars, stopVars, ctxDone, stopReq>>

Gated_PromptOnly == Pty /\ attempt = 0 /\ ~booted

(* Before it arms the supervisors the pty's first attempt waits until Start *)
(* has delivered the boot prompt.                                           *)
Gated == Pty /\ attempt = 0 /\ ~booted /\ ~Ending

Arm ==
  /\ ~Gated
  /\ LoopStep("launched", "waiting")
  /\ guard' = [g \in Guards |-> IF g \in opts.supervisors \cup {"stopper"}
                                THEN "polling" ELSE "off"]
  /\ cause' = "none"
  /\ lapsed' = {}
  /\ UNCHANGED <<loopVars, childVars, spawnVars, procDone, ioVars, lockVars,
                 alive, done>>

(* cmd.Wait returns, which closes the pipes of a stdio session.             *)
Reap ==
  /\ child = "exited"
  /\ LoopStep("waiting", "joining")
  /\ child' = "reaped"
  /\ procDone' = TRUE
  /\ outOpen' = Pty
  /\ UNCHANGED <<loopVars, exitKind, hit, spawnVars, supVars, lapsed, reader,
                 output, lastSid, lockVars, alive, done>>

Join_Not ==
  /\ LoopStep("joining", "clearing")
  /\ UNCHANGED <<loopVars, childVars, spawnVars, supVars, procDone, lapsed, ioVars,
                 lockVars, alive, done>>

(* supWG.Wait and the receive from stopWatcherDone.                         *)
Join ==
  /\ \A g \in Guards : guard[g] \in {"off", "done"}
  /\ LoopStep("joining", "clearing")
  /\ UNCHANGED <<loopVars, childVars, spawnVars, supVars, procDone, lapsed, ioVars,
                 lockVars, alive, done>>

ClearField_NoLock ==
  /\ LoopStep("clearing", "draining")
  /\ field' = FALSE
  /\ outOpen' = FALSE
  /\ UNCHANGED <<loopVars, childVars, spawnVars, supVars, procDone, lapsed,
                 reader, output, lastSid, cmdField, holder, alive, done>>

(* The field is cleared under the lock, then the descriptors are closed.    *)
ClearField ==
  /\ holder = None
  /\ LoopStep("clearing", "draining")
  /\ field' = FALSE
  /\ outOpen' = FALSE
  /\ UNCHANGED <<loopVars, childVars, spawnVars, supVars, procDone, lapsed,
                 reader, output, lastSid, cmdField, holder, alive, done>>

CodeOf(kind) == CASE kind = "ok" -> 0 [] kind = "err" -> 1 [] kind = "sig" -> -1

buildExitError(kind, why) == [code |-> CodeOf(kind), cause |-> why]

restartEligible_AnyCause(x) == x.code # 0

restartEligible(x) == x.cause = "none" /\ x.code # 0

Judgement_StopUnseen(exit) ==
  IF exit = Nil \/ ~restartEligible(exit) THEN [to |-> "final", exit |-> exit]
  ELSE IF attempt >= maxRestarts
  THEN [to |-> "final", exit |-> [exit EXCEPT !.cause = "restart_exhausted"]]
  ELSE [to |-> "backoff", exit |-> exit]

(* What becomes of an attempt that exited so.                               *)
Judgement(exit) ==
  IF Ending \/ exit = Nil \/ ~restartEligible(exit)
  THEN [to |-> "final", exit |-> exit]
  ELSE IF attempt >= maxRestarts
  THEN [to |-> "final", exit |-> [exit EXCEPT !.cause = "restart_exhausted"]]
  ELSE [to |-> "backoff", exit |-> exit]

Judge_Undrained ==
  LET verdict == Judgement(buildExitError(exitKind, cause)) IN
  /\ LoopStep("draining", verdict.to)
  /\ lastExit' = verdict.exit
  /\ UNCHANGED <<attempt, childVars, spawnVars, supVars, procDone, lapsed, ioVars,
                 lockVars, alive, done>>

(* The reader is done: classify the exit and decide.                        *)
Judge ==
  LET verdict == Judgement(buildExitError(exitKind, cause)) IN
  /\ reader = "done"
  /\ LoopStep("draining", verdict.to)
  /\ lastExit' = verdict.exit
  /\ UNCHANGED <<attempt, childVars, spawnVars, supVars, procDone, lapsed, ioVars,
                 lockVars, alive, done>>

BackoffAborted ==
  /\ Ending
  /\ LoopStep("backoff", "final")
  /\ UNCHANGED <<loopVars, childVars, spawnVars, supVars, procDone, lapsed, ioVars,
                 lockVars, alive, done>>

(* The timer fires, or the select prefers it; OnRestart is called.          *)
BackoffOver ==
  /\ LoopStep("backoff", "restarting")
  /\ UNCHANGED <<loopVars, childVars, spawnVars, supVars, procDone, lapsed, ioVars,
                 lockVars, alive, done>>

(* spawnAttempt starts the process ...                                      *)
Respawn ==
  /\ LoopStep("restarting", "publishing")
  /\ attempt' = attempt + 1
  /\ child' = "live" /\ exitKind' = "none" /\ hit' = {}
  /\ resume' = IF opts.resumes /\ lastSid # None THEN lastSid ELSE Preset
  /\ output' = None
  /\ lateSpawns' = IF Ending THEN lateSpawns + 1 ELSE lateSpawns
  /\ UNCHANGED <<lastExit, supVars, procDone, lapsed, reader, outOpen, lastSid,
                 lockVars, alive, done>>

(* ... or fails to ...                                                      *)
RespawnFails ==
  /\ LoopStep("restarting", "final")
  /\ lastExit' = [code |-> -1, cause |-> "restart_exhausted"]
  /\ UNCHANGED <<attempt, childVars, spawnVars, supVars, procDone, lapsed, ioVars,
                 lockVars, alive, done>>

(* ... and then publishes it under the lock; the next attempt begins.       *)
Publish ==
  /\ holder = None
  /\ LoopStep("publishing", "launched")
  /\ field' = TRUE
  /\ cmdField' = attempt
  /\ procDone' = FALSE
  /\ reader' = "reading" /\ outOpen' = TRUE
  /\ UNCHANGED <<loopVars, childVars, spawnVars, supVars, lapsed, output, lastSid,
                 holder, alive, done>>

(* The deferred end: log file closed, no longer alive, ...                  *)
Retire ==
  /\ LoopStep("final", "retired")
  /\ alive' = FALSE
  /\ UNCHANGED <<loopVars, childVars, spawnVars, supVars, procDone, lapsed, ioVars,
                 lockVars, done>>

(* ... the result delivered to Wait; then the boot directory is removed.    *)
Deliver ==
  /\ LoopStep("retired", "ended")
  /\ done' = TRUE
  /\ UNCHANGED <<loopVars, childVars, spawnVars, supVars, procDone, lapsed, ioVars,
                 lockVars, alive>>

(***************************************************************************)
(* SendInput: alive is read before the lock, the field under it; the write *)
(* may block for as long as the child does not read.                       *)
(***************************************************************************)
SendStep(w, from, to) ==
  /\ sendPC[w] = from
  /\ sendPC' = [sendPC EXCEPT ![w] = to]
  /\ UNCHANGED <<loop, loopVars, childVars, spawnVars, supVars, procDone, ioVars,
                 field, cmdField, startVars, stopVars, flags>>

SendCheck(w) ==
  /\ alive
  /\ startPC = "returned"
  /\ SendStep(w, "idle", "checked")
  /\ UNCHANGED <<holder, lapsed>>

SendRefused(w) ==
  /\ holder = None /\ ~field
  /\ SendStep(w, "checked", "idle")
  /\ UNCHANGED <<holder, lapsed>>

SendBegin(w) ==
  /\ holder = None /\ field
  /\ SendStep(w, "checked", "writing")
  /\ holder' = w
  /\ UNCHANGED lapsed

SendEnd(w) ==
  /\ SendStep(w, "writing", "idle")
  /\ holder' = None
  /\ lapsed' \in {lapsed, {}}

(***************************************************************************)
(* The end of Start: the boot prompt or an automatic first turn is written *)
(* under the lock, like an input.                                          *)
(***************************************************************************)
StartStep(from, to) ==
  /\ startPC = from
  /\ startPC' = to
  /\ UNCHANGED <<loop, loopVars, childVars, spawnVars, supVars, procDone, ioVars,
                 field, cmdField, sendPC, opts, stopVars, flags>>

(* No boot prompt: the supervisors may start.                               *)
StartSignals ==
  /\ StartStep("signal", IF opts.kickoff = "turn" THEN "turn" ELSE "returned")
  /\ booted' = TRUE
  /\ UNCHANGED <<holder, lapsed>>

StartCancelled ==
  /\ ctxDone
  /\ StartStep("prompt", "failing")
  /\ booted' = TRUE
  /\ UNCHANGED <<holder, lapsed>>

StartWrites ==
  /\ alive /\ holder = None /\ field
  /\ startPC \in {"prompt", "turn"}
  /\ StartStep(startPC, "writing")
  /\ holder' = "start"
  /\ UNCHANGED <<booted, lapsed>>

StartWritten ==
  /\ \E outcome \in {"returned", "failing"} : StartStep("writing", outcome)
  /\ booted' = TRUE
  /\ holder' = None
  /\ lapsed' \in {lapsed, {}}

(* The child is gone before anything could be written.                      *)
StartRefused ==
  /\ ~alive \/ (holder = None /\ ~field)
  /\ startPC \in {"prompt", "turn"}
  /\ StartStep(startPC, "failing")
  /\ booted' = TRUE
  /\ UNCHANGED <<holder, lapsed>>

(* Start has called Stop for the session it will not return.                *)
StartFailed ==
  /\ stopPC = "done"
  /\ StartStep("failing", "failed")
  /\ UNCHANGED <<booted, holder, lapsed>>

(***************************************************************************)
(* Stop, called by the client or by a failing Start; and the end of the    *)
(* context given to Start.                                                 *)
(***************************************************************************)
StopStep(from, to) ==
  /\ stopPC = from
  /\ stopPC' = to
  /\ UNCHANGED <<loop, loopVars, spawnVars, supVars, procDone, lapsed, ioVars,
                 lockVars, sendPC, startVars, ctxDone, done>>

StopBegin ==
  /\ startPC \in {"returned", "failing"}
  /\ StopStep("idle", "snap")
  /\ alive' = FALSE
  /\ stopReq' = TRUE
  /\ UNCHANGED <<childVars, stopCmd>>

(* Under the lock; a stdio session's stdin is then closed, and its child    *)
(* given time to see the end of its input.                                  *)
StopSnapshot ==
  /\ holder = None
  /\ StopStep("snap", IF Pty THEN "term" ELSE "eof")
  /\ stopCmd' = cmdField
  /\ UNCHANGED <<childVars, alive, stopReq>>

StopEOFGrace ==
  /\ StopStep("eof", "term")
  /\ UNCHANGED <<childVars, stopCmd, alive, stopReq>>

(* SIGTERM.  The signal fails, and Stop returns, when the process has been   *)
(* reaped and nothing is left of its group.                                 *)
StopTerminate ==
  /\ \/ StopStep("term", "grace")
     \/ (stopCmd # attempt \/ child = "reaped") /\ StopStep("term", "done")
  /\ Terminate("stop", stopCmd)
  /\ UNCHANGED <<stopCmd, alive, stopReq>>

(* The grace period, or the context given to Stop, is over.                 *)
StopKills ==
  /\ StopStep("grace", "done")
  /\ Kill("stop", stopCmd)
  /\ UNCHANGED <<stopCmd, alive, stopReq>>

StopReturns ==
  /\ done
  /\ stopPC \in {"eof", "grace"}
  /\ StopStep(stopPC, "done")
  /\ UNCHANGED <<childVars, stopCmd, alive, stopReq>>

ContextEnds ==
  /\ ~ctxDone
  /\ ctxDone' = TRUE
  /\ UNCHANGED <<loop, loopVars, childVars, spawnVars, supVars, procDone, lapsed,
                 ioVars, lockVars, sendPC, startVars, stopVars, alive, stopReq, done>>

-----------------------------------------------------------------------------
GuardNext(g) == GuardSees(g) \/ SupervisorActs(g) \/ SupervisorYields(g)
                \/ (g = "stopper" /\ StopperActs) \/ GuardKills(g) \/ GuardQuits(g)

LoopNext ==
  \/ Arm \/ Reap \/ Join \/ ClearField \/ Judge \/ BackoffAborted \/ BackoffOver
  \/ Respawn \/ RespawnFails \/ Publish \/ Retire \/ Deliver

SendNext(w) == SendCheck(w) \/ SendRefused(w) \/ SendBegin(w) \/ SendEnd(w)

StartGoes == StartSignals \/ StartCancelled \/ StartWrites \/ StartRefused
             \/ StartFailed

StopNext == StopSnapshot \/ StopEOFGrace \/ StopTerminate \/ StopKills
            \/ StopReturns

Next ==
  \/ ChildExit \/ ChildWrite \/ ReadLine \/ ReaderEnds
  \/ \E g \in Guards : Lapse(g) \/ GuardNext(g)
  \/ LoopNext
  \/ \E w \in Writers : SendNext(w)
  \/ StartGoes \/ StartWritten \/ StopBegin \/ StopNext \/ ContextEnds

Spec == Init /\ [][Next]_vars

(***************************************************************************)
(* Goroutines that can run do, timers fire, sync.Mutex starves nobody, and *)
(* a closed descriptor ends its reader.  A blocked write returns once the  *)
(* child is gone.  The child need not exit, write, read or heed SIGTERM,   *)
(* the client need not call Stop, the context need not end.                *)
(***************************************************************************)
Fairness ==
  /\ WF_vars(LoopNext) /\ SF_vars(ClearField \/ Publish)
  /\ \A g \in Guards : WF_vars(GuardNext(g))
  /\ WF_vars(~outOpen /\ ReaderEnds)
  /\ \A w \in Writers : /\ SF_vars(SendRefused(w) \/ SendBegin(w))
                        /\ WF_vars(child # "live" /\ SendEnd(w))
  /\ SF_vars(StartGoes) /\ WF_vars(child # "live" /\ StartWritten)
  /\ WF_vars(startPC = "failing" /\ StopBegin)
  /\ SF_vars(StopNext)

FairSpec == Spec /\ Fairness
=============================================================================
