----------------------------- MODULE AttachBroker -----------------------------
(***************************************************************************)
(* The attach broker of agentsessions/attach.go: a bounded replay ring and *)
(* one bounded channel per subscriber, fed by a producer that never waits. *)
(*                                                                         *)
(* Output bytes are named by their position in the stream: the k-th byte   *)
(* ever written is k.  A chunk, the ring and what a client has observed    *)
(* are sequences of positions, so a lost, repeated or reordered byte shows.*)
(* One action is one critical section of b.mu or one step of copyStream.   *)
(* A Write to a closed broker returns io.ErrClosedPipe and changes nothing,*)
(* as a second close does; neither is an action.                           *)
(***************************************************************************)
EXTENDS Integers, Sequences, FiniteSets

CONSTANTS
  Clients,    (* goroutines in AttachWith, each attaching again and again   *)
  RingCap,    (* attachBroker.ringCap                                       *)
  ChanCap,    (* attachBroker.chanCap                                       *)
  Depths,     (* the AttachOptions.Depth values each client uses            *)
  MaxWrite,   (* bound: bytes in one Write                                  *)
  MaxTotal    (* bound: bytes written in all                                *)

ASSUME BrokerAssumption ==
  /\ IsFiniteSet(Clients)
  /\ RingCap \in Nat \ {0} /\ ChanCap \in Nat \ {0}
  /\ Depths \in [Clients -> SUBSET Nat]
  /\ MaxWrite \in Nat /\ MaxTotal \in Nat

VARIABLES
  ring,          (* the trailing bytes kept for replay                      *)
  totalWritten,  (* bytes ever written                                      *)
  dropCnt,       (* bytes dropped for slow subscribers                      *)
  closed,        (* attachBroker.closed                                     *)
  subs,          (* clients with a channel in attachBroker.subs             *)
  chan,          (* the chunks in each client's channel                     *)
  chanDepth,     (* its capacity                                            *)
  chanClosed,    (* it is closed                                            *)
  replay,        (* replay not yet written to the client                    *)
  floor,         (* position after which this attach owes the client bytes  *)
  since,         (* bytes the client had received before this attach        *)
  observed,      (* the bytes written to the client in this attach          *)
  missed,        (* history: a chunk was dropped for the client while it    *)
                 (* was reading, or a byte it lacked was evicted before it  *)
                 (* attached                                                *)
  pc             (* control point of each client                            *)

ringVars   == <<ring, totalWritten>>
clientVars == <<chanDepth, replay, floor, since, observed, pc>>
vars == <<ringVars, dropCnt, closed, subs, chan, chanClosed, clientVars, missed>>

Attached == {"replaying", "live", "eof", "broken"}

Init ==
  /\ ring = <<>>
  /\ totalWritten = 0
  /\ dropCnt = 0
  /\ closed = FALSE
  /\ subs = {}
  /\ chan = [c \in Clients |-> <<>>]
  /\ chanDepth = [c \in Clients |-> ChanCap]
  /\ chanClosed = [c \in Clients |-> FALSE]
  /\ replay = [c \in Clients |-> <<>>]
  /\ floor = [c \in Clients |-> 0]
  /\ since = [c \in Clients |-> 0]
  /\ observed = [c \in Clients |-> <<>>]
  /\ missed = [c \in Clients |-> FALSE]
  /\ pc = [c \in Clients |-> "idle"]

(* The first drop bytes of r gone, r[drop:] in the source.                  *)
Behind(r, drop) == SubSeq(r, drop + 1, Len(r))

(***************************************************************************)
(* computeReplay: the bytes of r a caller at sinceSeq lacks.               *)
(***************************************************************************)
computeReplay_OffByOne(r, total, sinceSeq) ==
  LET ringStartSeq == total - Len(r) IN
  IF sinceSeq <= 0 \/ r = <<>> \/ sinceSeq <= ringStartSeq THEN r
  ELSE IF sinceSeq >= total THEN <<>>
  ELSE Behind(r, sinceSeq - ringStartSeq - 1)

computeReplay(r, total, sinceSeq) ==
  LET ringStartSeq == total - Len(r) IN
  IF sinceSeq <= 0 \/ r = <<>> THEN r
  ELSE IF sinceSeq >= total THEN <<>>
  ELSE IF sinceSeq < ringStartSeq THEN r
  ELSE Behind(r, sinceSeq - ringStartSeq)

(***************************************************************************)
(* appendRing: r extended by the chunk p, cut to the trailing RingCap.     *)
(***************************************************************************)
appendRing(r, p) ==
  LET spare == RingCap - Len(r) IN
  IF Len(p) >= RingCap THEN Behind(p, Len(p) - RingCap)
  ELSE IF Len(p) > spare THEN Behind(r, Len(p) - spare) \o p
  ELSE r \o p

(* The next n bytes of the stream.                                          *)
Chunk(n) == [i \in 1..n |-> totalWritten + i]

Full(c) == Len(chan[c]) >= chanDepth[c]

Dropped_Chunks(n) == Cardinality({c \in subs : Full(c)})

(* What a chunk of n bytes adds to dropCnt.                                 *)
Dropped(n) == n * Cardinality({c \in subs : Full(c)})

(***************************************************************************)
(* Write: the session's reader goroutine.                                  *)
(***************************************************************************)
Write(n) ==
  /\ ~closed
  /\ totalWritten + n <= MaxTotal
  /\ ring' = appendRing(ring, Chunk(n))
  /\ totalWritten' = totalWritten + n
  /\ chan' = [c \in Clients |-> IF c \in subs /\ ~Full(c)
                                THEN Append(chan[c], Chunk(n)) ELSE chan[c]]
  /\ dropCnt' = dropCnt + Dropped(n)
  /\ missed' = [c \in Clients |-> missed[c] \/ (c \in subs /\ Full(c) /\ pc[c] # "broken")]
  /\ UNCHANGED <<closed, subs, chanClosed, clientVars>>

(***************************************************************************)
(* close: the Manager's watch goroutine.                                   *)
(***************************************************************************)
Close_KeepsChannels ==
  /\ ~closed
  /\ closed' = TRUE
  /\ subs' = {}
  /\ UNCHANGED <<ringVars, dropCnt, chan, chanClosed, clientVars, missed>>

Close ==
  /\ ~closed
  /\ closed' = TRUE
  /\ chanClosed' = [c \in Clients |-> chanClosed[c] \/ c \in subs]
  /\ subs' = {}
  /\ UNCHANGED <<ringVars, dropCnt, chan, clientVars, missed>>

(***************************************************************************)
(* subscribeSince(depth, sinceSeq): the snapshot and the registration are  *)
(* one critical section, so no byte falls between replay and channel.      *)
(***************************************************************************)
Larger(a, b) == IF a > b THEN a ELSE b

Capacity(depth) == IF depth <= 0 THEN ChanCap ELSE depth

Registration(c) ==
  /\ subs' = IF closed THEN subs ELSE subs \cup {c}
  /\ chanClosed' = [chanClosed EXCEPT ![c] = closed]

subscribeSince(c, depth, sinceSeq) ==
  /\ pc[c] = "idle"
  /\ pc' = [pc EXCEPT ![c] = "replaying"]
  /\ replay' = [replay EXCEPT ![c] = computeReplay(ring, totalWritten, sinceSeq)]
  /\ floor' = [floor EXCEPT ![c] = Larger(sinceSeq, totalWritten - Len(ring))]
  /\ chan' = [chan EXCEPT ![c] = <<>>]
  /\ chanDepth' = [chanDepth EXCEPT ![c] = Capacity(depth)]
  /\ Registration(c)
  /\ missed' = [missed EXCEPT ![c] = @ \/ sinceSeq < totalWritten - Len(ring)]
  /\ UNCHANGED <<ringVars, dropCnt, closed, since, observed>>

(* A client attaches with the number of bytes it has received, as it is     *)
(* told to (attach.go:30-33): AttachWith writes raw bytes to it, so that it *)
(* knows their number and not their position in the stream.                 *)
Attach(c) == \E depth \in Depths[c] : subscribeSince(c, depth, since[c])

(* That number, when a part of an attach has been received.                 *)
Received(c) == since[c] + Len(observed[c])

(***************************************************************************)
(* copyStream: replay first, then chunks until the channel is closed, the  *)
(* context ends or the client's writer fails, which may have taken a part  *)
(* of what it was given.  The deferred cancel follows.                     *)
(***************************************************************************)
CopyReplay(c) ==
  /\ pc[c] = "replaying"
  /\ observed' = [observed EXCEPT ![c] = @ \o replay[c]]
  /\ replay' = [replay EXCEPT ![c] = <<>>]
  /\ pc' = [pc EXCEPT ![c] = "live"]
  /\ UNCHANGED <<ringVars, dropCnt, closed, subs, chan, chanClosed, chanDepth,
                 floor, since, missed>>

CopyChunk(c) ==
  /\ pc[c] = "live"
  /\ chan[c] # <<>>
  /\ observed' = [observed EXCEPT ![c] = @ \o Head(chan[c])]
  /\ chan' = [chan EXCEPT ![c] = Tail(@)]
  /\ UNCHANGED <<ringVars, dropCnt, closed, subs, chanClosed, chanDepth, replay,
                 floor, since, missed, pc>>

(* A receive from a closed channel reports it only once it is drained.      *)
CopyEOF(c) ==
  /\ pc[c] = "live"
  /\ chan[c] = <<>>
  /\ chanClosed[c]
  /\ pc' = [pc EXCEPT ![c] = "eof"]
  /\ UNCHANGED <<ringVars, dropCnt, closed, subs, chan, chanClosed, chanDepth,
                 replay, floor, since, observed, missed>>

(* What copyStream hands to the client's writer next.                       *)
Writing(c) ==
  IF pc[c] = "replaying" THEN replay[c]
  ELSE IF chan[c] = <<>> THEN <<>> ELSE Head(chan[c])

CopyBreak(c) ==
  /\ pc[c] \in {"replaying", "live"}
  /\ \E k \in 0..Len(Writing(c)) :
       observed' = [observed EXCEPT ![c] = @ \o SubSeq(Writing(c), 1, k)]
  /\ pc' = [pc EXCEPT ![c] = "broken"]
  /\ UNCHANGED <<ringVars, dropCnt, closed, subs, chan, chanClosed, chanDepth,
                 replay, floor, since, missed>>

(* The cancel function: unregister and close, unless close came first.      *)
(* The client keeps the count of what it has received; the rest of the      *)
(* attach is garbage.                                                       *)
Cancel(c) ==
  /\ pc[c] \in {"eof", "broken"}
  /\ subs' = subs \ {c}
  /\ chanClosed' = [chanClosed EXCEPT ![c] = TRUE]
  /\ chan' = [chan EXCEPT ![c] = <<>>]
  /\ chanDepth' = [chanDepth EXCEPT ![c] = ChanCap]
  /\ replay' = [replay EXCEPT ![c] = <<>>]
  /\ floor' = [floor EXCEPT ![c] = 0]
  /\ since' = [since EXCEPT ![c] = Received(c)]
  /\ observed' = [observed EXCEPT ![c] = <<>>]
  /\ pc' = [pc EXCEPT ![c] = "idle"]
  /\ UNCHANGED <<ringVars, dropCnt, closed, missed>>

-----------------------------------------------------------------------------
CopyStream(c) == CopyReplay(c) \/ CopyChunk(c) \/ CopyEOF(c) \/ Cancel(c)

Next ==
  \/ \E n \in 1..MaxWrite : Write(n)
  \/ Close
  \/ \E c \in Clients : Attach(c) \/ CopyStream(c) \/ CopyBreak(c)

Spec == Init /\ [][Next]_vars

(* An attached client keeps copying; nothing makes one attach, a context    *)
(* end, the session write or the broker close.                              *)
FairSpec == Spec /\ \A c \in Clients : WF_vars(CopyStream(c))
=============================================================================
