--------------------------- MODULE JsonRpcSession ---------------------------
(***************************************************************************)
(* A single-shot JSON-RPC session (jsonrpc_stdio_session.go with           *)
(* opts.Supervisor nil): Calls correlated with answers through the pending *)
(* map, the reader that also answers the child's own requests, the waiter  *)
(* of the only child, and Stop.                                            *)
(*                                                                         *)
(* The child's input is a pipe that takes a write at once or blocks it;    *)
(* its output a pipe that holds Cap frames.  A Call is named by its id,    *)
(* which nextID never gives out twice.  SendInput holds ioLock as a Call   *)
(* does while it writes and touches nothing else.  The exit code, written  *)
(* once under waitOnce, is left out.                                       *)
(***************************************************************************)
EXTENDS Integers, Sequences, FiniteSets

CONSTANTS
  Calls,      (* invocations of Call                                        *)
  Cap,        (* frames the child's output holds                            *)
  MaxFrames,  (* bound: frames the child writes                             *)
  None        (* nobody                                                     *)

ASSUME JsonRpcAssumption ==
  /\ Cap \in Nat \ {0} /\ MaxFrames \in Nat
  /\ "ask" \notin Calls /\ {None, "reader"} \cap Calls = {} /\ None # "reader"

VARIABLES
  child,      (* "live", "exited" (unreaped), "reaped"                      *)
  frames,     (* its output: an answer to a Call, or "ask", a request       *)
  written,    (* frames written so far                                      *)
  sent,       (* Calls whose request the child may have received            *)
  inOpen,     (* the write end of its input is open                         *)
  outOpen,    (* the read end of its output is open                         *)
  field,      (* s.stdin is set                                             *)
  holder,     (* who holds ioLock                                           *)
  pending,    (* the Calls in s.pending                                     *)
  taken,      (* Calls taken from the map and not yet sent to, by taker     *)
  box,        (* what was sent on each Call's channel                       *)
  pc,         (* control point of each Call                                 *)
  reader,     (* control point of runReaderLoop                             *)
  waiter,     (* control point of spawnWaiterLegacy                         *)
  stopPC,     (* control point of the Stop that won stopOnce                *)
  alive,      (* s.alive                                                    *)
  done,       (* s.done is closed                                           *)
  cut         (* the reader ended while the child lived                     *)

pipeVars  == <<frames, written, outOpen>>
callVars  == <<pc, sent, box, pending, taken>>
lockVars  == <<field, holder>>
ends      == <<alive, done, cut>>

vars == <<child, pipeVars, inOpen, callVars, lockVars, reader, waiter,
          stopPC, ends>>

Takers == {"reader", "stop"}

Init ==
  /\ child = "live"
  /\ frames = <<>> /\ written = 0
  /\ inOpen = TRUE /\ outOpen = TRUE
  /\ field = TRUE /\ holder = None
  /\ sent = {} /\ pending = {} /\ taken = [t \in Takers |-> {}]
  /\ box = [c \in Calls |-> <<>>]
  /\ pc = [c \in Calls |-> "idle"]
  /\ reader = "reading" /\ waiter = "waiting" /\ stopPC = "idle"
  /\ alive = TRUE /\ done = FALSE /\ cut = FALSE

(***************************************************************************)
(* The child answers a request it may have received, late or twice even,   *)
(* or sends one of its own.  Notifications change nothing here.            *)
(***************************************************************************)
ChildExit ==
  /\ child = "live"
  /\ child' = "exited"
  /\ UNCHANGED <<pipeVars, inOpen, callVars, lockVars, reader, waiter, stopPC,
                 ends>>

ChildWrites ==
  /\ child = "live"
  /\ Len(frames) < Cap /\ written < MaxFrames
  /\ \E f \in sent \cup {"ask"} : frames' = Append(frames, f)
  /\ written' = written + 1
  /\ UNCHANGED <<child, outOpen, inOpen, callVars, lockVars, reader, waiter,
                 stopPC, ends>>

(***************************************************************************)
(* The pending map: a taker removes Calls from it under pendMu, then sends *)
(* to each and closes its channel.                                         *)
(***************************************************************************)
Take_Keep(t, cs) ==
  /\ taken' = [taken EXCEPT ![t] = cs]
  /\ UNCHANGED pending

Take(t, cs) ==
  /\ taken' = [taken EXCEPT ![t] = cs]
  /\ pending' = pending \ cs

Send_Unbuffered(t, message) ==
  \E c \in taken[t] :
    /\ pc[c] = "waiting"
    /\ box' = [box EXCEPT ![c] = Append(@, message)]
    /\ taken' = [taken EXCEPT ![t] = @ \ {c}]
    /\ UNCHANGED pending

Send(t, message) ==
  \E c \in taken[t] :
    /\ box' = [box EXCEPT ![c] = Append(@, message)]
    /\ taken' = [taken EXCEPT ![t] = @ \ {c}]
    /\ UNCHANGED pending

(***************************************************************************)
(* The reader.                                                             *)
(***************************************************************************)
ReaderStep(from, to) ==
  /\ reader = from
  /\ reader' = to
  /\ UNCHANGED <<child, written, outOpen, inOpen, pc, sent, field, waiter, stopPC,
                 alive, done>>

ReadFrame(f) ==
  /\ frames # <<>> /\ Head(frames) = f
  /\ frames' = Tail(frames)
  /\ UNCHANGED <<box, holder, cut>>

(* deliverResponse: an answer nobody waits for is dropped.                  *)
ReadAnswer(c) ==
  /\ ReadFrame(c)
  /\ \/ c \in pending /\ ReaderStep("reading", "delivering") /\ Take("reader", {c})
     \/ c \notin pending /\ ReaderStep("reading", "reading")
        /\ UNCHANGED <<pending, taken>>

DeliverAnswer ==
  /\ ReaderStep("delivering", "reading")
  /\ Send("reader", "answer")
  /\ UNCHANGED <<frames, holder, cut>>

(* respondToServerRequest: the hook has returned; a result that does not    *)
(* encode is not sent.                                                      *)
ReadRequest ==
  /\ ReadFrame("ask")
  /\ \/ ReaderStep("reading", "responding")
     \/ ReaderStep("reading", "reading")
  /\ UNCHANGED <<pending, taken>>

Respond ==
  /\ holder = None
  /\ \/ field /\ ReaderStep("responding", "writing") /\ holder' = "reader"
     \/ ~field /\ ReaderStep("responding", "reading") /\ UNCHANGED holder
  /\ UNCHANGED <<frames, pending, taken, box, cut>>

ReaderEnds_Forgets ==
  /\ ReaderStep("reading", "failing")
  /\ Take("reader", {})
  /\ cut' = (child = "live")
  /\ UNCHANGED <<frames, box, holder>>

(* The scan ends: end of file or a closed pipe; or, at any time, a line too *)
(* long or an output the child has closed.                                  *)
ReaderEnds ==
  /\ ReaderStep("reading", "failing")
  /\ Take("reader", pending)
  /\ cut' = (child = "live")
  /\ UNCHANGED <<frames, box, holder>>

ReaderFails ==
  /\ ReaderStep("failing", "failing")
  /\ Send("reader", "closed")
  /\ UNCHANGED <<frames, holder, cut>>

(* copyDone is closed.                                                      *)
ReaderGone ==
  /\ taken["reader"] = {}
  /\ ReaderStep("failing", "gone")
  /\ UNCHANGED <<frames, pending, taken, box, holder, cut>>

(***************************************************************************)
(* Call.                                                                   *)
(***************************************************************************)
CallStep(c, from, to) ==
  /\ pc[c] = from
  /\ pc' = [pc EXCEPT ![c] = to]
  /\ UNCHANGED <<child, pipeVars, inOpen, taken, box, field, reader, waiter,
                 stopPC, ends>>

CallEnter(c) ==
  /\ CallStep(c, "idle", IF alive THEN "entered" ELSE "returned")
  /\ UNCHANGED <<sent, pending, holder>>

CallRegister(c) ==
  /\ CallStep(c, "entered", "registered")
  /\ pending' = pending \cup {c}
  /\ UNCHANGED <<sent, holder>>

CallUnencodable(c) ==
  /\ CallStep(c, "registered", "leaving")
  /\ UNCHANGED <<sent, pending, holder>>

CallFetch(c) ==
  /\ holder = None
  /\ CallStep(c, "registered", IF field THEN "fetched" ELSE "leaving")
  /\ UNCHANGED <<sent, pending, holder>>

CallWrite(c) ==
  /\ holder = None
  /\ CallStep(c, "fetched", "writing")
  /\ holder' = c
  /\ sent' = sent \cup {c}
  /\ UNCHANGED pending

CallReceives(c) ==
  /\ box[c] # <<>>
  /\ CallStep(c, "waiting", "returned")
  /\ UNCHANGED <<sent, pending, holder>>

(* The context of the caller ends.                                          *)
CallCancelled(c) ==
  /\ CallStep(c, "waiting", "leaving")
  /\ UNCHANGED <<sent, pending, holder>>

CallLeaves_NoCleanup(c) ==
  /\ CallStep(c, "leaving", "returned")
  /\ UNCHANGED <<sent, pending, holder>>

(* cleanup.                                                                 *)
CallLeaves(c) ==
  /\ CallStep(c, "leaving", "returned")
  /\ pending' = pending \ {c}
  /\ UNCHANGED <<sent, holder>>

(***************************************************************************)
(* The end of a write to the child.  It succeeds when the pipe takes it,   *)
(* and fails when the pipe is closed on either side.                       *)
(***************************************************************************)
WriteReturns(ok) ==
  /\ holder # None
  /\ holder' = None
  /\ IF holder = "reader"
     THEN reader' = "reading" /\ UNCHANGED pc
     ELSE /\ pc' = [pc EXCEPT ![holder] = IF ok THEN "waiting" ELSE "leaving"]
          /\ UNCHANGED reader
  /\ UNCHANGED <<child, pipeVars, inOpen, sent, box, pending, taken, field,
                 waiter, stopPC, ends>>

WriteSucceeds == child = "live" /\ inOpen /\ WriteReturns(TRUE)
WriteFails    == (child # "live" \/ ~inOpen) /\ WriteReturns(FALSE)

(***************************************************************************)
(* The waiter.                                                             *)
(***************************************************************************)
WaiterStep(from, to) ==
  /\ waiter = from
  /\ waiter' = to
  /\ UNCHANGED <<frames, written, callVars, holder, reader, stopPC, cut>>

(* cmd.Wait, which closes both pipes.                                       *)
WaiterReaps ==
  /\ child = "exited"
  /\ WaiterStep("waiting", "clearing")
  /\ child' = "reaped"
  /\ inOpen' = FALSE /\ outOpen' = FALSE
  /\ UNCHANGED <<field, alive, done>>

WaiterClears ==
  /\ holder = None
  /\ WaiterStep("clearing", "joining")
  /\ field' = FALSE
  /\ UNCHANGED <<child, inOpen, outOpen, alive, done>>

(* The receive from copyDone.                                               *)
WaiterJoins ==
  /\ reader = "gone"
  /\ WaiterStep("joining", "joined")
  /\ alive' = FALSE
  /\ UNCHANGED <<child, inOpen, outOpen, field, done>>

WaiterDelivers ==
  /\ WaiterStep("joined", "ended")
  /\ done' = TRUE
  /\ UNCHANGED <<child, inOpen, outOpen, field, alive>>

(***************************************************************************)
(* Stop: close the child's input, fail what is pending, wait, SIGTERM,     *)
(* wait, SIGKILL.                                                          *)
(***************************************************************************)
StopStep(from, to) ==
  /\ stopPC = from
  /\ stopPC' = to
  /\ UNCHANGED <<pipeVars, pc, sent, lockVars, reader, waiter, done, cut>>

StopBegin ==
  /\ StopStep("idle", "locking")
  /\ alive' = FALSE
  /\ UNCHANGED <<child, inOpen, box, pending, taken>>

StopLocks ==
  /\ holder = None
  /\ StopStep("locking", IF field THEN "closing" ELSE "taking")
  /\ UNCHANGED <<child, inOpen, box, pending, taken, alive>>

StopCloses_Not ==
  /\ StopStep("closing", "taking")
  /\ UNCHANGED <<child, inOpen, box, pending, taken, alive>>

StopCloses ==
  /\ StopStep("closing", "taking")
  /\ inOpen' = FALSE
  /\ UNCHANGED <<child, box, pending, taken, alive>>

StopTakes ==
  /\ StopStep("taking", "failing")
  /\ Take("stop", pending)
  /\ UNCHANGED <<child, inOpen, box, alive>>

StopFails ==
  /\ StopStep("failing", "failing")
  /\ Send("stop", "closed")
  /\ UNCHANGED <<child, inOpen, alive>>

StopHasFailed ==
  /\ taken["stop"] = {}
  /\ StopStep("failing", "eof")
  /\ UNCHANGED <<child, inOpen, box, pending, taken, alive>>

StopReturns ==
  /\ done
  /\ stopPC \in {"eof", "grace"}
  /\ StopStep(stopPC, "done")
  /\ UNCHANGED <<child, inOpen, box, pending, taken, alive>>

(* SIGTERM: the child may exit (ChildExit) or ignore it.  The signal fails, *)
(* and Stop returns, when the child has been reaped and nothing is left of  *)
(* its process group.                                                       *)
StopTerminates ==
  /\ \/ StopStep("eof", "grace")
     \/ child = "reaped" /\ StopStep("eof", "done")
  /\ UNCHANGED <<child, inOpen, box, pending, taken, alive>>

StopKills_Not ==
  /\ StopStep("grace", "done")
  /\ UNCHANGED <<child, inOpen, box, pending, taken, alive>>

StopKills ==
  /\ StopStep("grace", "done")
  /\ child' = IF child = "live" THEN "exited" ELSE child
  /\ UNCHANGED <<inOpen, box, pending, taken, alive>>

-----------------------------------------------------------------------------
ReaderNext == (\E c \in Calls : ReadAnswer(c)) \/ DeliverAnswer \/ ReadRequest
              \/ Respond \/ ReaderFails \/ ReaderGone

CallGoes(c) == CallRegister(c) \/ CallFetch(c) \/ CallWrite(c)
               \/ CallReceives(c) \/ CallLeaves(c)

WaiterNext == WaiterReaps \/ WaiterClears \/ WaiterJoins \/ WaiterDelivers

StopGoes == StopLocks \/ StopCloses \/ StopTakes \/ StopFails \/ StopHasFailed
            \/ StopReturns \/ StopTerminates \/ StopKills

Next ==
  \/ ChildExit \/ ChildWrites
  \/ ReaderNext \/ ReaderEnds
  \/ \E c \in Calls : CallEnter(c) \/ CallUnencodable(c) \/ CallGoes(c)
                      \/ CallCancelled(c)
  \/ WriteSucceeds \/ WriteFails
  \/ WaiterNext \/ StopBegin \/ StopGoes

Spec == Init /\ [][Next]_vars

(***************************************************************************)
(* Goroutines that can run do, timers fire, and ioLock is granted in the   *)
(* end to whoever waits for it.  The reader ends when its pipe does.       *)
(***************************************************************************)
Scheduling ==
  /\ SF_vars(ReaderNext) /\ WF_vars(child # "live" /\ ReaderEnds)
  /\ \A c \in Calls : SF_vars(CallGoes(c))
  /\ WF_vars(WriteFails)
  /\ SF_vars(WaiterNext) /\ SF_vars(StopGoes)

(* A child that reads its input whatever becomes of its output ...          *)
FairSpec == Spec /\ Scheduling /\ WF_vars(WriteSucceeds)

(* ... and one that reads and writes in one thread: while its output is     *)
(* full it does not read.                                                   *)
SerialSpec == Spec /\ Scheduling /\ WF_vars(Len(frames) < Cap /\ WriteSucceeds)
=============================================================================
