--------------------- MODULE SupervisedSessionProperties ---------------------
(***************************************************************************)
(* What a supervised session promises, with the lines of pty_session.go    *)
(* (the other two files mirror it) and of supervision.go it is about.      *)
(***************************************************************************)
EXTENDS SupervisedSession

ExitErrors == [code : {-1, 0, 1},
           cause : {"none", "idle_timeout", "watchdog_kill", "restart_exhausted"}]

(* Every variable keeps its type, and there are never more attempts than    *)
(* RestartOnCrash allows.                                                   *)
TypeOK ==
  /\ opts \in Options
  /\ loop \in {"launched", "waiting", "joining", "clearing", "draining", "backoff",
               "restarting", "publishing", "final", "retired", "ended"}
  /\ attempt \in 0..maxRestarts
  /\ lastExit \in ExitErrors
  /\ child \in {"live", "exited", "reaped"}
  /\ exitKind \in {"none", "ok", "err", "sig"}
  /\ resume \in Sids \cup {None, Preset}
  /\ cause \in {"none", "idle_timeout", "watchdog_kill"}
  /\ procDone \in BOOLEAN
  /\ guard \in [Guards -> {"off", "polling", "fired", "grace", "done"}]
  /\ lapsed \subseteq opts.supervisors
  /\ reader \in {"reading", "done"}
  /\ output \in Lines \cup {None}
  /\ outOpen \in BOOLEAN /\ field \in BOOLEAN
  /\ lastSid \in Sids \cup {None, Preset}
  /\ cmdField \in 0..maxRestarts
  /\ holder \in Writers \cup {None, "start"}
  /\ sendPC \in [Writers -> {"idle", "checked", "writing"}]
  /\ startPC \in {"signal", "prompt", "turn", "writing", "failing", "failed",
                  "returned"}
  /\ booted \in BOOLEAN /\ alive \in BOOLEAN /\ stopReq \in BOOLEAN
  /\ ctxDone \in BOOLEAN /\ done \in BOOLEAN
  /\ stopPC \in {"idle", "snap", "eof", "term", "grace", "done"}
  /\ stopCmd \in 0..maxRestarts \cup {None}
  /\ hit \subseteq Guards \cup {"stop"}
  /\ lateSpawns \in Nat

(* pty_session.go:541-550, supervision.go:51-53.  A child that the library  *)
(* itself signalled while it lived - idle-kill, watchdog, Stop or the end   *)
(* of the context - is never replaced by another.                           *)
KilledStaysDown == [][attempt' # attempt => hit = {}]_vars

(* pty_session.go:541-568.  However Stop, the end of the context and the    *)
(* backoff timer race, at most one child is started after the request.      *)
OneLateSpawn == lateSpawns <= 1

(* pty_session.go:552, 570.  restart_exhausted is only ever the verdict on  *)
(* a crash: every restart was used, or the last could not be started, and   *)
(* nobody had signalled the child.                                          *)
ExhaustedIsCrash ==
  done /\ lastExit.cause = "restart_exhausted" =>
    hit = {} /\ lastExit.code # 0

(* pty_session.go:498-522, 646-667.  When Wait returns nothing of the       *)
(* session still runs: the child is reaped, reader and supervisors are gone,*)
(* no input is being written and none will be accepted.                     *)
WaitIsLast ==
  done =>
    /\ child = "reaped" /\ reader = "done"
    /\ \A g \in Guards : guard[g] \in {"off", "done"}
    /\ ~field /\ ~alive
    /\ \A w \in Writers : sendPC[w] # "writing"

(* pty_session.go:210-220, 661-666.  Until the descriptor has been taken    *)
(* away under the lock no writer uses one that is closed (the pty; the      *)
(* pipes of a stdio session are closed by cmd.Wait, whatever holds ioLock). *)
WritesToOpen ==
  Pty /\ holder # None => field /\ outOpen

(* pty_session.go:274-284, 646-671; supervision.go:22-23.  The next child   *)
(* resumes the last session id any reader has taken in: no reader of an     *)
(* earlier attempt is still at work when its id is chosen.                  *)
ResumesLatest ==
  loop = "publishing" /\ opts.resumes /\ lastSid # None => resume = lastSid

(* pty_session.go:646-667, 697-759.  Nothing blocks the end of an attempt:  *)
(* a child that has exited is replaced or the session ends, and a           *)
(* supervisor that has claimed an attempt ends it, and with it the session. *)
AttemptsEnd ==
  /\ child = "exited" ~> child = "live" \/ done
  /\ cause # "none" ~> done

(* pty_session.go:137-163, 771-815.  Stop itself returns, and so does Start *)
(* when its context ends.                                                   *)
CallsReturn ==
  /\ stopPC # "idle" ~> stopPC = "done"
  /\ ctxDone ~> startPC \in {"returned", "failed"}

(* types.go:620.  A supervised session is a session (SessionContract): Wait *)
(* returns one result, after the last process, and the session ends once    *)
(* Stop is called or its context ends, whatever a blocked writer, a running *)
(* restart or a child that ignores SIGTERM do.                              *)
Contract == INSTANCE SessionContract WITH
  Results <- ExitErrors, told <- Ending, running <- child # "reaped",
  over <- done, result <- lastExit

IsSession == Contract!LiveSpec
=============================================================================
