------------------------- MODULE TurnSessionProperties -------------------------
(***************************************************************************)
(* What a session without a process of its own promises.                   *)
(***************************************************************************)
EXTENDS TurnSession

UnderWay == {"begun", "running", "leaving"}

(* Every variable keeps its type.                                           *)
TypeOK ==
  /\ kind \in {"adapter", "provider"}
  /\ startPC \in {"firing", "stopping", "failed", "returned"}
  /\ alive \in BOOLEAN /\ state \in {"idle", "processing", "stopped"}
  /\ inFlight \in BOOLEAN
  /\ pc \in [Callers -> {"idle", "entered", "claimed", "left"} \cup UnderWay]
  /\ failed \in [Callers -> BOOLEAN] /\ cancelled \in [Callers -> BOOLEAN]
  /\ using \in [Callers -> Ids \cup {NoId}] /\ sessionID \in Ids \cup {NoId}
  /\ turn \in [Callers -> Nat] /\ answered \in [Callers -> BOOLEAN]
  /\ turns \in Nat
  /\ messages \in Seq([role : {"user", "assistant"}, turn : Nat])
  /\ exitCode \in {0, 1}
  /\ stopPC \in {"idle", "stopped", "delivered", "done"}
  /\ done \in BOOLEAN /\ planted \in BOOLEAN

(* types.go:35-38: "session is alive and waiting for input. No turn in      *)
(* flight" and "a turn or subprocess is currently running".  Until Stop,    *)
(* Health tells the two apart exactly, whoever else has tried to send.      *)
StateIsExact ==
  stopPC = "idle" =>
    (state = "processing" <=> \E c \in Callers : pc[c] \in UnderWay)

(* from_adapter.go:245-250, 303-305 and from_provider.go:140-143, 181-184.  *)
(* A turn continues the conversation as the turns before it have left it:   *)
(* its child is in the conversation reported last, and a question that has  *)
(* an answer is followed by its own.                                        *)
TurnsContinue ==
  /\ \A c \in Callers :
       Adapter /\ pc[c] \in {"begun", "running"} => using[c] = sessionID
  /\ \A i \in 1..Len(messages) :
       /\ messages[i].role = "assistant" =>
            i > 1 /\ messages[i - 1] = [role |-> "user", turn |-> messages[i].turn]
       /\ \A k \in 1..(i - 1) : messages[k].turn <= messages[i].turn

(* from_adapter.go:220-234, 257-266.  Stop ends an adapter session: the     *)
(* turn under way, and one that begins after it, is cancelled, its child is *)
(* gone, and nothing is left in flight or on disk for good.                 *)
StopEndsTurns ==
  Adapter /\ stopPC # "idle" ~>
    [](done /\ ~planted /\ ~inFlight /\ \A c \in Callers : pc[c] = "idle")
=============================================================================
