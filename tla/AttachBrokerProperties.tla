------------------------ MODULE AttachBrokerProperties ------------------------
(***************************************************************************)
(* The contract attach.go states for the broker (its public-surface        *)
(* comment, lines 18-63, and its invariants, lines 72-80).                 *)
(***************************************************************************)
EXTENDS AttachBroker, SequencesExt

Positions == 1..MaxTotal

(* Types; every buffer holds positions of bytes that were written.          *)
TypeOK ==
  /\ ring \in Seq(Positions)
  /\ totalWritten \in 0..MaxTotal
  /\ dropCnt \in Nat
  /\ closed \in BOOLEAN
  /\ subs \subseteq Clients
  /\ chan \in [Clients -> Seq(Seq(Positions))]
  /\ chanDepth \in [Clients -> Nat \ {0}]
  /\ chanClosed \in [Clients -> BOOLEAN]
  /\ replay \in [Clients -> Seq(Positions)]
  /\ floor \in [Clients -> Nat] /\ since \in [Clients -> Nat]
  /\ observed \in [Clients -> Seq(Positions)]
  /\ missed \in [Clients -> BOOLEAN]
  /\ pc \in [Clients -> {"idle"} \cup Attached]

(* attach.go:41-44, 170-181.  The ring is exactly the last RingCap bytes of *)
(* the stream, however chunks and evictions fell.                           *)
RingIsTail ==
  /\ Len(ring) = IF totalWritten < RingCap THEN totalWritten ELSE RingCap
  /\ \A i \in 1..Len(ring) : ring[i] = totalWritten - Len(ring) + i

(* attach.go:139-166.  For every SinceSeq, valid or not, replay is the part *)
(* of the ring beyond it, in order up to the head of the stream: no byte    *)
(* the caller has, none it lacks left out.                                  *)
ReplayIsExact ==
  \A sinceSeq \in -1..MaxTotal + 1 :
    LET got == computeReplay(ring, totalWritten, sinceSeq) IN
    /\ ToSet(got) = {p \in ToSet(ring) : p > sinceSeq}
    /\ \A i \in 1..Len(got) : got[i] = totalWritten - Len(got) + i

(* attach.go:79-80, 120-134, 220-248.  Write and close only ever touch open *)
(* channels: a subscriber's channel is open as long as it is in subs, and   *)
(* leaves subs when it is closed; after close there are no subscribers.     *)
ClosedOnce ==
  /\ \A c \in subs : ~chanClosed[c] /\ pc[c] \in Attached
  /\ \A c \in Clients : pc[c] \in Attached /\ c \notin subs => chanClosed[c]
  /\ closed => subs = {}

Increasing(s) == \A i, j \in 1..Len(s) : i < j => s[i] < s[j]

(* attach.go:30-37, 205-231.  A client resumes with the number of bytes it  *)
(* has received.  Whatever it has missed, one attach hands it bytes in      *)
(* order, once, all beyond that number, and the number never runs ahead of  *)
(* the stream: it has been repeated no more bytes than it lacks.  A client  *)
(* that has missed nothing receives exactly the bytes that follow, over all *)
(* its attaches, also when it was cut off in the middle of a chunk.         *)
ResumeIsExact ==
  \A c \in Clients :
    /\ Increasing(observed[c])
    /\ \A i \in 1..Len(observed[c]) : observed[c][i] > since[c]
    /\ Received(c) <= totalWritten
    /\ ~missed[c] => \A i \in 1..Len(observed[c]) : observed[c][i] = since[c] + i

(* The bytes in the chunks of a channel.                                    *)
Queued(q) == UNION {ToSet(q[k]) : k \in 1..Len(q)}

(* What a client has, or will have once it drains what it was given.        *)
Given(c) == ToSet(observed[c]) \cup ToSet(replay[c]) \cup Queued(chan[c])

(* Each byte written since the resume point of an attach that will never    *)
(* reach the attached client, once for every client it is lost to.          *)
Lost ==
  {x \in Clients \X Positions :
     /\ pc[x[1]] \in {"replaying", "live", "eof"}
     /\ x[2] \in (floor[x[1]] + 1..totalWritten) \ Given(x[1])}

(* attach.go:45-48, 56-59, 110-134, 250-271.  While a client is attached    *)
(* every byte beyond its resume point reaches it, or was dropped at its     *)
(* full channel and is in the counter; and when its attach ends by itself   *)
(* it has observed all the rest of what the session will ever write.        *)
LossIsCounted ==
  /\ Cardinality(Lost) <= dropCnt
  /\ \A c \in Clients : pc[c] = "eof" =>
       closed /\ replay[c] = <<>> /\ chan[c] = <<>>

(* attach.go:56-59.  After close every client, late ones too, drains and    *)
(* ends its attach.                                                         *)
CloseEndsAttach ==
  \A c \in Clients : closed /\ pc[c] # "idle" ~> pc[c] = "idle"
=============================================================================
