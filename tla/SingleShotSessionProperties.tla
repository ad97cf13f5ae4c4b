--------------------- MODULE SingleShotSessionProperties ---------------------
(***************************************************************************)
(* What a single-shot session promises, from its start to its last release.*)
(***************************************************************************)
EXTENDS SingleShotSession

(* Every variable keeps its type.                                           *)
TypeOK ==
  /\ kind \in {"pty", "streaming"} /\ first \in {"none", "prompt", "turn"}
  /\ Always \subseteq wants /\ wants \subseteq Always \cup Wraps /\ held \subseteq wants
  /\ startPC \in Always \cup Wraps \cup {"prompt", "launch", "ready", "firing",
                                         "stopping", "returned", "failed"}
  /\ child \in {"none", "live", "exited", "reaped"} /\ stuck \in BOOLEAN
  /\ reader \in {"none", "launched", "reading", "ended"}
  /\ waiter \in {"none", "waiting", "reaped", "cleared", "closed", "joined",
                 "delivered", "cleaned", "ended"}
  /\ cleared \in BOOLEAN /\ closed \in BOOLEAN /\ lock \in Callers \cup {"free"}
  /\ alive \in BOOLEAN /\ done \in BOOLEAN
  /\ sendPC \in [Callers -> {"idle", "called", "locking", "writing"}]
  /\ stopPC \in {"idle", "locking", "waiting", "signal", "grace", "done"}

(* Nobody reads the output of the child although it lives.                  *)
Unread == reader = "ended" /\ child = "live"

(* streaming 281-327, 390-435; pty 342-347, 424-468, 817-853.  Nothing is   *)
(* let go while somebody uses it: the child its sandbox, limits, pipes and  *)
(* boot directory, the reader the log that it writes to, an input the pty   *)
(* master (streaming: cmd.Wait closes stdin, whoever holds ioLock).         *)
HeldWhileUsed ==
  /\ child \in {"live", "exited"} => held = wants
  /\ reader \in {"launched", "reading"} => "log" \in held
  /\ kind = "pty" /\ lock # "free" => "pipes" \in held

(* streaming 245-317, 390-435; pty 303-327, 817-853.  Nothing is left       *)
(* behind: a Start that failed before the launch holds nothing and has no   *)
(* child; when Wait returns the child is reaped, the output read to its end *)
(* and the log closed; and when the waiter ends nothing is held, however    *)
(* Start, the inputs and Stop went.                                         *)
NothingLeft ==
  /\ startPC = "failed" /\ waiter = "none" =>
       held = {} /\ child \in {"none", "reaped"}
  /\ done => held \subseteq Wraps /\ child = "reaped" /\ reader = "ended"
  /\ waiter = "ended" => held = {}

(* streaming 56-125, 245-317; pty 67-165, 303-327; bootdir_planting.go      *)
(* 44-86.  Whichever step of Start fails - planting, opening, wrapping,     *)
(* spawning, the boot prompt, the first turn - nothing remains of it.       *)
RefusedStartLeavesNothing ==
  startPC = "failed" ~> held = {} /\ child \in {"none", "reaped"}

(* pty 111-150.  Start of a pty session returns, also when the child writes *)
(* a lot before it reads the boot prompt.                                   *)
StartReturns ==
  kind = "pty" ~> startPC \in {"returned", "failed"} \/ Unread

(* streaming 669-719, 722-740; pty 771-837.  After Stop the session ends,   *)
(* every SendInput returns and everything is let go, though Stop waits for  *)
(* the lock of a SendInput that waits for the child - unless the reader has *)
(* given the output up before.                                              *)
StopEndsSession ==
  stopPC # "idle" ~>
    \/ done /\ held = {} /\ \A c \in Callers : sendPC[c] \notin {"locking", "writing"}
    \/ Unread
=============================================================================
