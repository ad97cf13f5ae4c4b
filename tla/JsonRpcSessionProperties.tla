---------------------- MODULE JsonRpcSessionProperties ----------------------
(***************************************************************************)
(* What a JSON-RPC session promises its callers, with the lines of         *)
(* jsonrpc_stdio_session.go it is about.                                   *)
(***************************************************************************)
EXTENDS JsonRpcSession

(* Every variable keeps its type, and ioLock is held by who writes.         *)
TypeOK ==
  /\ child \in {"live", "exited", "reaped"}
  /\ frames \in Seq(Calls \cup {"ask"}) /\ Len(frames) <= Cap
  /\ written \in 0..MaxFrames
  /\ inOpen \in BOOLEAN /\ outOpen \in BOOLEAN /\ field \in BOOLEAN
  /\ holder \in Calls \cup {None, "reader"}
  /\ sent \subseteq Calls /\ pending \subseteq Calls
  /\ taken \in [Takers -> SUBSET Calls]
  /\ box \in [Calls -> Seq({"answer", "closed"})]
  /\ pc \in [Calls -> {"idle", "entered", "registered", "fetched", "writing",
                       "waiting", "leaving", "returned"}]
  /\ reader \in {"reading", "delivering", "responding", "writing", "failing",
                 "gone"}
  /\ waiter \in {"waiting", "clearing", "joining", "joined", "ended"}
  /\ stopPC \in {"idle", "locking", "closing", "taking", "failing", "eof",
                 "grace", "done"}
  /\ alive \in BOOLEAN /\ done \in BOOLEAN /\ cut \in BOOLEAN
  /\ \A c \in Calls : holder = c <=> pc[c] = "writing"
  /\ holder = "reader" <=> reader = "writing"

(* 423-440, 485-494.  However an answer, a second answer, the end of the    *)
(* reader and Stop race for a Call, its channel is sent to and closed once: *)
(* a second send would panic and take the process down.                     *)
AnsweredOnce == \A c \in Calls : Len(box[c]) <= 1

(* 855-912.  The map and the Calls agree: a Call that waits is in the map   *)
(* or about to be sent to by whoever took it out, and a Call that has       *)
(* returned, cancelled or refused included, has left no entry behind.       *)
PendingIsExact ==
  \A c \in Calls :
    /\ pc[c] = "waiting" /\ box[c] = <<>> =>
         c \in pending \cup taken["reader"] \cup taken["stop"]
    /\ pc[c] = "returned" => c \notin pending

(* 784-790.  Once Stop has failed the pending Calls, none waits for what    *)
(* only the child could send, and none begins to: not even one that passed  *)
(* the alive check before Stop cleared it and registered after the map was  *)
(* emptied.                                                                 *)
StopLeavesNoneWaiting ==
  stopPC \in {"eof", "grace", "done"} =>
    \A c \in Calls : pc[c] = "waiting" => box[c] # <<>> \/ c \in taken["reader"]

(* 344-417, 496-543.  When Wait returns the reader is gone with nothing     *)
(* left to hand over, and a Call whose write is still to come cannot reach  *)
(* the child: it holds a pipe that is closed.                               *)
WaitIsLast ==
  done => reader = "gone" /\ taken["reader"] = {} /\ ~field /\ ~inOpen /\ ~alive

NoneUnderWay == \A c \in Calls : pc[c] \in {"idle", "returned"}

(* 412-415, 482-494, 784-789.  Every Call under way returns once Stop is    *)
(* called, and once the child has exited unless its output had ended before.*)
CallsEnd ==
  /\ child # "live" ~> NoneUnderWay \/ cut
  /\ stopPC # "idle" ~> NoneUnderWay

(* 390-410, 451-480.  The reader is never stuck, in an answer to a request  *)
(* of the child either: a child whose output is full can write again.       *)
OutputDrains ==
  Len(frames) = Cap ~> Len(frames) < Cap \/ child # "live" \/ cut

(* types.go:620.  A single-shot session is a session (SessionContract): it  *)
(* ends after its process has, and because Stop was called.                 *)
Contract == INSTANCE SessionContract WITH
  Results <- {0}, told <- stopPC # "idle", running <- child # "reaped",
  over <- done, result <- 0

IsSession == Contract!LiveSpec

-----------------------------------------------------------------------------
(* What comments and documentation say and the code does not do.            *)

(* 482-484: "signalling every blocked Call with the supplied error so they  *)
(* unblock cleanly. Called from runReaderLoop on EOF, and from the          *)
(* lifecycle teardown paths."                                               *)
TeardownUnblocksCalls == done ~> NoneUnderWay

(* types.go:621-622: "Stop will cause Wait to return".                      *)
StopEndsSession == stopPC # "idle" ~> done
=============================================================================
