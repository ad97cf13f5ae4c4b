------------------------- MODULE MCSupervisedSession -------------------------
(* Instances of SupervisedSession for TLC: the sets of options its runs     *)
(* start sessions with.                                                     *)
EXTENDS SupervisedSessionProperties

With(kind, restarts, supervisors, kickoff) ==
  [kind |-> kind, restartOnCrash |-> restarts, supervisors |-> supervisors,
   kickoff |-> kickoff, resumes |-> kind = "stdio"]

SafetyOptions ==
  { With("pty", 2, {}, "none"), With("pty", 1, {"idle"}, "none"),
    With("pty", 0, {"idle", "watchdog"}, "none"),
    With("pty", 0, {"idle"}, "prompt"),
    With("stdio", 1, {}, "turn"), With("stdio", 0, {"watchdog"}, "turn") }

FairOptions ==
  { With("pty", 0, {"idle"}, "prompt"), With("pty", 1, {}, "none"),
    With("stdio", 0, {}, "turn") }
=============================================================================
