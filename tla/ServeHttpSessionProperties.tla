--------------------- MODULE ServeHttpSessionProperties ---------------------
(***************************************************************************)
(* What a serve-http session promises its caller, with the lines of        *)
(* serve_http_session.go it is about.                                      *)
(***************************************************************************)
EXTENDS ServeHttpSession

(* Every variable keeps its type.                                           *)
TypeOK ==
  /\ child \in {"live", "exited", "reaped"} /\ exit \in {0, 1}
  /\ processDone \in {"empty", "full", "closed"}
  /\ fin \in [Finishers -> {"none", "waiting", "received", "judged",
                            "ended"}]
  /\ got \in [Finishers -> {0, 1}] /\ code \in {0, 1} /\ done \in BOOLEAN
  /\ alive \in BOOLEAN
  /\ url \in BOOLEAN /\ known \in {"nothing", "url", "session"}
  /\ startPC \in {"url", "health", "create", "launch", "firing", "stopping",
                  "failed", "returned"}
  /\ inFlight \in BOOLEAN
  /\ sendPC \in [Callers -> {"idle", "called", "entered", "claimed",
                           "posted"}]
  /\ turns \in 0..MaxTurns /\ running \in 0..MaxTurns /\ reports \in 0..MaxReports
  /\ stream \in {"none", "launched", "armed", "open", "ended"}
  /\ cancelled \in BOOLEAN /\ events \in Nat
  /\ deaf \in BOOLEAN /\ loose \in BOOLEAN
  /\ stopPC \in {"idle", "disposing", "aborting", "waiting", "grace", "done"}

(* 415-471, 582-624.  Early answers, late events and failing requests do    *)
(* not put two turns to work at once, as long as every accepted turn was    *)
(* answered and its end reported once.                                      *)
OneTurnAtATime == ~loose => running <= 1

(* 415-471, 505-512, 582-624.  A turn in flight always has somebody who     *)
(* will end it: a SendInput that has not sent it yet, the server, or an     *)
(* event on its way - unless an event was lost with the stream.             *)
FlightIsOwned ==
  inFlight => deaf \/ running > 0 \/ events > 0
                   \/ \E c \in Callers : sendPC[c] = "claimed"

(* The same as progress: the caller may send again.                         *)
TurnsEnd ==
  /\ inFlight ~> ~inFlight \/ deaf \/ child # "live"
  /\ \A c \in Callers : sendPC[c] # "idle" ~> sendPC[c] = "idle"

(* 99-138.  Start returns, with a session or with an error; and after an    *)
(* error the server it had spawned is gone and its resources are released.  *)
StartSettles ==
  /\ <>(startPC \in {"returned", "failed"})
  /\ startPC = "failed" ~> done

(* types.go:620.  A serve-http session is a session (SessionContract),      *)
(* whatever its two finishers, turns under way and a deaf server do.        *)
Contract == INSTANCE SessionContract WITH
  Results <- {0, 1}, told <- stopPC # "idle", running <- child # "reaped",
  over <- done, result <- code

IsSession == Contract!LiveSpec

-----------------------------------------------------------------------------
(* What a comment says and the code does not do.                            *)

(* types.go:621-622: "Wait blocks until the session terminates and returns  *)
(* its exit code."                                                          *)
ExitCodeIsReported == done => code = exit
=============================================================================
