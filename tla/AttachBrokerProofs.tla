-------------------------- MODULE AttachBrokerProofs --------------------------
(***************************************************************************)
(* The ring, the replay and the channels of the broker, for every capacity *)
(* of ring and channels and any number of clients.                         *)
(***************************************************************************)
EXTENDS AttachBrokerProperties, SequenceTheorems, FunctionTheorems,
  FiniteSetTheorems, TLAPS

(* r holds the last Len(r) positions of a stream of total bytes.            *)
EndsAt(r, total) ==
  \A i \in 1..Len(r) : r[i] = total - Len(r) + i

(* r[drop:] is shorter by drop and ends where r does.                       *)
LEMMA BehindEnds ==
  ASSUME NEW S, NEW r \in Seq(S), NEW total \in Nat, EndsAt(r, total),
         NEW drop \in 0..Len(r)
  PROVE  /\ Behind(r, drop) \in Seq(S)
         /\ Len(Behind(r, drop)) = Len(r) - drop
         /\ EndsAt(Behind(r, drop), total)
<1>1. Len(r) \in Nat /\ \A i \in (drop + 1)..Len(r) : r[i] \in S
  BY LenProperties
<1>2. /\ SubSeq(r, drop + 1, Len(r)) \in Seq(S)
      /\ Len(SubSeq(r, drop + 1, Len(r))) = Len(r) - drop
      /\ \A i \in 1..(Len(r) - drop) : SubSeq(r, drop + 1, Len(r))[i] = r[drop + i]
  BY <1>1, SubSeqProperties
<1>3. \A i \in 1..(Len(r) - drop) : r[drop + i] = total - (Len(r) - drop) + i
  BY <1>1 DEF EndsAt
<1> QED
  BY <1>1, <1>2, <1>3 DEF Behind, EndsAt

(* A ring that ends where the chunk begins, extended by the chunk.          *)
LEMMA ConcatEnds ==
  ASSUME NEW S, NEW r \in Seq(S), NEW p \in Seq(S), NEW total \in Nat,
         EndsAt(r, total), EndsAt(p, total + Len(p))
  PROVE  EndsAt(r \o p, total + Len(p))
<1>1. /\ Len(r) \in Nat /\ Len(p) \in Nat
      /\ Len(r \o p) = Len(r) + Len(p)
      /\ \A i \in 1..(Len(r) + Len(p)) :
           (r \o p)[i] = IF i <= Len(r) THEN r[i] ELSE p[i - Len(r)]
  BY LenProperties, ConcatProperties
<1>2. ASSUME NEW i \in 1..(Len(r) + Len(p))
      PROVE  (r \o p)[i] = total + Len(p) - (Len(r) + Len(p)) + i
  <2>1. CASE i <= Len(r)
    BY <1>1, <2>1 DEF EndsAt
  <2>2. CASE i > Len(r)
    BY <1>1, <2>2 DEF EndsAt
  <2> QED
    BY <1>1, <2>1, <2>2
<1> QED
  BY <1>1, <1>2 DEF EndsAt

(* appendRing keeps the last RingCap bytes, whatever the sizes.             *)
LEMMA AppendRing ==
  ASSUME NEW S, NEW r \in Seq(S), NEW p \in Seq(S), NEW total \in Nat,
         EndsAt(r, total), EndsAt(p, total + Len(p)),
         Len(r) = IF total < RingCap THEN total ELSE RingCap
  PROVE  /\ appendRing(r, p) \in Seq(S)
         /\ EndsAt(appendRing(r, p), total + Len(p))
         /\ Len(appendRing(r, p)) =
              IF total + Len(p) < RingCap THEN total + Len(p) ELSE RingCap
<1> DEFINE spare == RingCap - Len(r)
<1>1. /\ Len(r) \in Nat /\ Len(p) \in Nat /\ total + Len(p) \in Nat
      /\ RingCap \in Nat /\ spare \in Nat
  BY BrokerAssumption, LenProperties
<1>2. CASE Len(p) >= RingCap
  <2>1. appendRing(r, p) = Behind(p, Len(p) - RingCap)
    BY <1>2 DEF appendRing
  <2>2. Len(p) - RingCap \in 0..Len(p)
    BY <1>1, <1>2
  <2>3. /\ Behind(p, Len(p) - RingCap) \in Seq(S)
        /\ Len(Behind(p, Len(p) - RingCap)) = Len(p) - (Len(p) - RingCap)
        /\ EndsAt(Behind(p, Len(p) - RingCap), total + Len(p))
    BY <1>1, <2>2, BehindEnds
  <2> QED
    BY <1>1, <1>2, <2>1, <2>3
<1>3. CASE Len(p) < RingCap /\ Len(p) > spare
  <2> DEFINE b == Behind(r, Len(p) - spare)
  <2>1. appendRing(r, p) = b \o p
    BY <1>1, <1>3 DEF appendRing
  <2>2. Len(p) - spare \in 0..Len(r)
    BY <1>1, <1>3
  <2>3. b \in Seq(S) /\ EndsAt(b, total) /\ Len(b) = Len(r) - (Len(p) - spare)
    BY <2>2, BehindEnds
  <2> HIDE DEF b
  <2>4. EndsAt(b \o p, total + Len(p))
    BY <2>3, ConcatEnds
  <2>5. b \o p \in Seq(S) /\ Len(b \o p) = Len(b) + Len(p)
    BY <2>3, ConcatProperties
  <2> QED
    BY <1>1, <1>3, <2>1, <2>3, <2>4, <2>5
<1>4. CASE Len(p) < RingCap /\ Len(p) <= spare
  <2>1. appendRing(r, p) = r \o p
    BY <1>1, <1>4 DEF appendRing
  <2>2. EndsAt(r \o p, total + Len(p))
    BY ConcatEnds
  <2>3. r \o p \in Seq(S) /\ Len(r \o p) = Len(r) + Len(p)
    BY ConcatProperties
  <2>4. Len(r) + Len(p) =
          IF total + Len(p) < RingCap THEN total + Len(p) ELSE RingCap
    BY <1>1, <1>4
  <2> QED
    BY <2>1, <2>2, <2>3, <2>4
<1> QED
  BY <1>1, <1>2, <1>3, <1>4

(* computeReplay: for every SinceSeq, negative, stale or ahead of the       *)
(* stream, the replay is what the ring holds beyond it and nothing else.    *)
LEMMA Replay ==
  ASSUME NEW S, NEW r \in Seq(S), NEW total \in Nat, NEW sinceSeq \in Int,
         EndsAt(r, total), Len(r) <= total
  PROVE  LET got == computeReplay(r, total, sinceSeq) IN
         /\ got \in Seq(S)
         /\ EndsAt(got, total)
         /\ Len(got) = IF sinceSeq >= total THEN 0
                       ELSE total - Larger(sinceSeq, total - Len(r))
<1> DEFINE got == computeReplay(r, total, sinceSeq)
           ringStartSeq == total - Len(r)
<1>1. Len(r) \in Nat /\ (r = <<>> <=> Len(r) = 0) /\ ringStartSeq \in Nat
  BY LenProperties, EmptySeq
<1>2. <<>> \in Seq(S) /\ Len(<<>>) = 0 /\ EndsAt(<<>>, total)
  BY DEF EndsAt
<1>3. CASE sinceSeq >= total
  <2>1. got = r \/ got = <<>>
    BY <1>3 DEF computeReplay
  <2>2. got = <<>>
    BY <1>1, <1>3, <2>1 DEF computeReplay
  <2> QED
    BY <1>2, <1>3, <2>2
<1>4. CASE sinceSeq < total /\ sinceSeq <= ringStartSeq
  <2>1. CASE sinceSeq < ringStartSeq \/ sinceSeq <= 0 \/ r = <<>>
    <3>1. got = r
      BY <1>1, <1>4, <2>1 DEF computeReplay
    <3> QED
      BY <1>1, <1>4, <3>1 DEF Larger
  <2>2. CASE sinceSeq = ringStartSeq /\ sinceSeq > 0 /\ r # <<>>
    <3>1. got = Behind(r, sinceSeq - ringStartSeq) /\ sinceSeq - ringStartSeq = 0
      BY <1>1, <1>4, <2>2 DEF computeReplay
    <3> QED
      BY <1>1, <1>4, <2>2, <3>1, BehindEnds DEF Larger
  <2> QED
    BY <1>1, <1>4, <2>1, <2>2
<1>5. CASE sinceSeq < total /\ sinceSeq > ringStartSeq
  <2>1. got = Behind(r, sinceSeq - ringStartSeq)
    BY <1>1, <1>5 DEF computeReplay
  <2>2. sinceSeq - ringStartSeq \in 0..Len(r)
    BY <1>1, <1>5
  <2> QED
    BY <1>1, <1>5, <2>1, <2>2, BehindEnds DEF Larger
<1> QED
  BY <1>1, <1>3, <1>4, <1>5

(***************************************************************************)
(* The invariant: the types, the ring and the channels.                    *)
(***************************************************************************)
IInv == TypeOK /\ RingIsTail /\ ClosedOnce

LEMMA IInit == Init => IInv
<1> SUFFICES ASSUME Init PROVE IInv
  OBVIOUS
<1> USE BrokerAssumption DEF Init
<1>1. TypeOK
  <2>1. ring \in Seq(Positions) /\ totalWritten \in 0..MaxTotal
    OBVIOUS
  <2>2. /\ chan \in [Clients -> Seq(Seq(Positions))]
        /\ replay \in [Clients -> Seq(Positions)]
        /\ observed \in [Clients -> Seq(Positions)]
    OBVIOUS
  <2>3. /\ chanDepth \in [Clients -> Nat \ {0}]
        /\ floor \in [Clients -> Nat] /\ since \in [Clients -> Nat]
        /\ missed \in [Clients -> BOOLEAN]
    OBVIOUS
  <2> QED
    BY <2>1, <2>2, <2>3 DEF TypeOK
<1>2. RingIsTail /\ ClosedOnce
  BY DEF RingIsTail, ClosedOnce, Attached
<1> QED
  BY <1>1, <1>2 DEF IInv

(* Write: the chunk goes on where the ring ends.                            *)
LEMMA WriteStep ==
  ASSUME IInv, NEW n \in 1..MaxWrite, Write(n)
  PROVE  IInv'
<1> USE BrokerAssumption
<1>1. /\ ring \in Seq(Positions) /\ totalWritten \in Nat /\ n \in Nat \ {0}
      /\ totalWritten + n <= MaxTotal /\ Len(ring) \in Nat
  BY DEF IInv, TypeOK, Write
<1>2. /\ Chunk(n) \in Seq(Positions) /\ Len(Chunk(n)) = n
      /\ EndsAt(Chunk(n), totalWritten + Len(Chunk(n)))
  BY <1>1 DEF Chunk, Positions, EndsAt
<1>3. /\ EndsAt(ring, totalWritten)
      /\ Len(ring) = IF totalWritten < RingCap THEN totalWritten ELSE RingCap
  BY DEF IInv, RingIsTail, EndsAt
<1>4. /\ ring' \in Seq(Positions) /\ totalWritten' = totalWritten + n
      /\ EndsAt(ring', totalWritten')
      /\ Len(ring') = IF totalWritten' < RingCap THEN totalWritten' ELSE RingCap
  BY <1>1, <1>2, <1>3, AppendRing DEF Write
<1>5. RingIsTail'
  BY <1>4 DEF RingIsTail, EndsAt
<1>6. chan' \in [Clients -> Seq(Seq(Positions))]
  BY <1>2 DEF IInv, TypeOK, Write
<1>7. dropCnt' \in Nat
  <2>1. Cardinality({c \in subs : Full(c)}) \in Nat
    BY FS_Subset, FS_CardinalityType DEF IInv, TypeOK
  <2>2. Dropped(n) \in Nat
    BY <1>1, <2>1 DEF Dropped
  <2> QED
    BY <2>2 DEF Write, IInv, TypeOK
<1>8. missed' \in [Clients -> BOOLEAN]
  BY DEF IInv, TypeOK, Write
<1>9. TypeOK'
  BY <1>1, <1>4, <1>6, <1>7, <1>8 DEF IInv, TypeOK, Write, clientVars
<1>10. ClosedOnce'
  BY DEF IInv, ClosedOnce, Write, clientVars
<1> QED
  BY <1>5, <1>9, <1>10 DEF IInv

(* subscribeSince: the snapshot and the registration keep the types and the *)
(* channels.                                                                *)
LEMMA SubscribeStep ==
  ASSUME IInv, NEW c \in Clients, Attach(c)
  PROVE  IInv'
<1> PICK depth \in Depths[c] : subscribeSince(c, depth, since[c])
  BY DEF Attach
<1> USE BrokerAssumption
<1>1. since[c] \in Nat /\ depth \in Nat
  BY DEF IInv, TypeOK
<1>2. /\ ring \in Seq(Positions) /\ Len(ring) \in Nat /\ Len(ring) <= totalWritten
      /\ EndsAt(ring, totalWritten) /\ totalWritten \in 0..MaxTotal
  BY DEF IInv, TypeOK, RingIsTail, EndsAt
<1>3. computeReplay(ring, totalWritten, since[c]) \in Seq(Positions)
  <2> DEFINE sinceSeq == since[c]
  <2>1. sinceSeq \in Int
    BY <1>1
  <2> HIDE DEF sinceSeq
  <2>2. computeReplay(ring, totalWritten, sinceSeq) \in Seq(Positions)
    BY <1>2, <2>1, Replay
  <2> QED
    BY <2>2 DEF sinceSeq
<1>4. Larger(since[c], totalWritten - Len(ring)) \in Nat
  BY <1>1, <1>2 DEF Larger
<1>5. Capacity(depth) \in Nat \ {0}
  BY <1>1 DEF Capacity
<1>6. TypeOK'
  <2>1. /\ replay' \in [Clients -> Seq(Positions)]
        /\ floor' \in [Clients -> Nat]
        /\ chanDepth' \in [Clients -> Nat \ {0}]
    BY <1>3, <1>4, <1>5 DEF IInv, TypeOK, subscribeSince
  <2>2. chan' \in [Clients -> Seq(Seq(Positions))]
    BY DEF IInv, TypeOK, subscribeSince
  <2>3. /\ subs' \subseteq Clients /\ chanClosed' \in [Clients -> BOOLEAN]
        /\ pc' \in [Clients -> {"idle"} \cup Attached]
        /\ missed' \in [Clients -> BOOLEAN]
    BY DEF IInv, TypeOK, subscribeSince, Registration, Attached
  <2> QED
    BY <2>1, <2>2, <2>3 DEF IInv, TypeOK, subscribeSince, ringVars
<1>7. RingIsTail'
  BY DEF IInv, RingIsTail, subscribeSince, ringVars
<1>8. ClosedOnce'
  BY DEF IInv, TypeOK, ClosedOnce, subscribeSince, Registration, Attached
<1> QED
  BY <1>6, <1>7, <1>8 DEF IInv

(* The first k bytes of s.                                                  *)
LEMMA PrefixBytes ==
  ASSUME NEW s \in Seq(Positions), NEW k \in 0..Len(s)
  PROVE  /\ SubSeq(s, 1, k) \in Seq(Positions) /\ Len(SubSeq(s, 1, k)) = k
         /\ \A i \in 1..k : i \in 1..Len(s) /\ SubSeq(s, 1, k)[i] = s[i]
<1>1. Len(s) \in Nat /\ \A i \in 1..k : s[i] \in Positions
  BY LenProperties
<1>2. /\ SubSeq(s, 1, k) \in Seq(Positions)
      /\ Len(SubSeq(s, 1, k)) = IF 1 <= k THEN k - 1 + 1 ELSE 0
      /\ \A i \in 1..(k - 1 + 1) : SubSeq(s, 1, k)[i] = s[1 + i - 1]
  BY <1>1, SubSeqProperties
<1>3. Len(SubSeq(s, 1, k)) = k
  BY <1>1, <1>2
<1>4. ASSUME NEW i \in 1..k
      PROVE  i \in 1..Len(s) /\ SubSeq(s, 1, k)[i] = s[i]
  <2>1. i \in 1..Len(s) /\ i \in 1..(k - 1 + 1) /\ 1 + i - 1 = i
    BY <1>1
  <2> QED
    BY <1>2, <2>1
<1> QED
  BY <1>2, <1>3, <1>4

(* What copyStream hands to the client's writer is bytes of the stream.     *)
LEMMA WritingBytes ==
  ASSUME TypeOK, NEW c \in Clients
  PROVE  /\ Writing(c) \in Seq(Positions)
         /\ \A k \in 0..Len(Writing(c)) :
              observed[c] \o SubSeq(Writing(c), 1, k) \in Seq(Positions)
<1>1. /\ observed[c] \in Seq(Positions) /\ replay[c] \in Seq(Positions)
      /\ chan[c] \in Seq(Seq(Positions)) /\ <<>> \in Seq(Positions)
  BY DEF TypeOK
<1>2. chan[c] # <<>> => Head(chan[c]) \in Seq(Positions)
  BY <1>1, HeadTailProperties
<1>3. Writing(c) \in Seq(Positions)
  BY <1>1, <1>2 DEF Writing
<1>4. ASSUME NEW k \in 0..Len(Writing(c))
      PROVE  observed[c] \o SubSeq(Writing(c), 1, k) \in Seq(Positions)
  BY <1>1, <1>3, PrefixBytes, ConcatProperties
<1> QED
  BY <1>3, <1>4

(* Every step keeps the invariant.                                          *)
LEMMA IStep == IInv /\ [Next]_vars => IInv'
<1> SUFFICES ASSUME IInv, [Next]_vars PROVE IInv'
  OBVIOUS
<1> USE BrokerAssumption DEF IInv, TypeOK, RingIsTail, ClosedOnce, Attached,
  ringVars, clientVars
<1>1. ASSUME NEW n \in 1..MaxWrite, Write(n) PROVE IInv'
  BY <1>1, WriteStep
<1>2. CASE Close
  BY <1>2 DEF Close
<1>3. ASSUME NEW c \in Clients, Attach(c) PROVE IInv'
  BY <1>3, SubscribeStep
<1>4. ASSUME NEW c \in Clients, CopyReplay(c) PROVE IInv'
  <2>1. observed[c] \o replay[c] \in Seq(Positions) /\ <<>> \in Seq(Positions)
    BY ConcatProperties
  <2> QED
    BY <1>4, <2>1 DEF CopyReplay
<1>5. ASSUME NEW c \in Clients, CopyChunk(c) PROVE IInv'
  <2>1. /\ chan[c] \in Seq(Seq(Positions)) /\ chan[c] # <<>>
        /\ observed[c] \in Seq(Positions)
    BY <1>5 DEF CopyChunk
  <2>2. Head(chan[c]) \in Seq(Positions) /\ Tail(chan[c]) \in Seq(Seq(Positions))
    BY <2>1, HeadTailProperties
  <2>3. observed[c] \o Head(chan[c]) \in Seq(Positions)
    BY <2>1, <2>2, ConcatProperties
  <2> QED
    BY <1>5, <2>2, <2>3 DEF CopyChunk
<1>6. ASSUME NEW c \in Clients, CopyEOF(c) PROVE IInv'
  BY <1>6 DEF CopyEOF
<1>7. ASSUME NEW c \in Clients, CopyBreak(c) PROVE IInv'
  <2>1. PICK k \in 0..Len(Writing(c)) :
          observed' = [observed EXCEPT ![c] = @ \o SubSeq(Writing(c), 1, k)]
    BY <1>7 DEF CopyBreak
  <2>2. observed[c] \o SubSeq(Writing(c), 1, k) \in Seq(Positions)
    BY WritingBytes
  <2>3. observed' \in [Clients -> Seq(Positions)]
    BY <2>1, <2>2
  <2> QED
    BY <1>7, <2>3 DEF CopyBreak
<1>8. ASSUME NEW c \in Clients, Cancel(c) PROVE IInv'
  <2>1. /\ chan' \in [Clients -> Seq(Seq(Positions))]
        /\ replay' \in [Clients -> Seq(Positions)]
        /\ observed' \in [Clients -> Seq(Positions)]
    BY <1>8 DEF Cancel
  <2>2. Received(c) \in Nat
    BY LenProperties DEF Received
  <2>3. /\ since' \in [Clients -> Nat] /\ floor' \in [Clients -> Nat]
        /\ chanDepth' \in [Clients -> Nat \ {0}]
    BY <1>8, <2>2 DEF Cancel
  <2>4. TypeOK'
    BY <1>8, <2>1, <2>3 DEF Cancel
  <2>5. RingIsTail' /\ ClosedOnce'
    BY <1>8 DEF Cancel
  <2> QED
    BY <2>4, <2>5
<1>9. CASE UNCHANGED vars
  BY <1>9 DEF vars
<1> QED
  BY <1>1, <1>2, <1>3, <1>4, <1>5, <1>6, <1>7, <1>8, <1>9 DEF Next, CopyStream

(* What a sequence that ends at total holds, as a set.                      *)
LEMMA Held ==
  ASSUME NEW S, NEW r \in Seq(S), NEW total \in Nat, EndsAt(r, total)
  PROVE  ToSet(r) = (total - Len(r) + 1)..total
<1>1. Len(r) \in Nat /\ DOMAIN r = 1..Len(r)
  BY LenProperties
<1>2. ASSUME NEW p \in (total - Len(r) + 1)..total
      PROVE  p \in ToSet(r)
  <2>1. p - (total - Len(r)) \in 1..Len(r) /\ r[p - (total - Len(r))] = p
    BY <1>1 DEF EndsAt
  <2> QED
    BY <1>1, <2>1 DEF ToSet
<1>3. ASSUME NEW i \in 1..Len(r)
      PROVE  r[i] \in (total - Len(r) + 1)..total
  BY <1>1 DEF EndsAt
<1> QED
  BY <1>1, <1>2, <1>3 DEF ToSet

LEMMA Invariance == Spec => []IInv
BY IInit, IStep, PTL DEF Spec

(* Every variable keeps its type: no buffer holds a byte never written.     *)
THEOREM TypeCorrect == Spec => []TypeOK
BY Invariance, PTL DEF IInv

(* The ring is the tail of the stream, however chunks and evictions fall.   *)
THEOREM RingCorrect == Spec => []RingIsTail
BY Invariance, PTL DEF IInv

(* Replay is exact for every SinceSeq a caller may pass (computeReplay).    *)
THEOREM ReplayCorrect == Spec => []ReplayIsExact
<1>1. IInv => ReplayIsExact
  <2> SUFFICES ASSUME IInv, NEW sinceSeq \in -1..MaxTotal + 1
               PROVE  LET got == computeReplay(ring, totalWritten, sinceSeq) IN
                      /\ ToSet(got) = {p \in ToSet(ring) : p > sinceSeq}
                      /\ EndsAt(got, totalWritten)
    BY DEF ReplayIsExact, EndsAt
  <2> USE BrokerAssumption
  <2> DEFINE got == computeReplay(ring, totalWritten, sinceSeq)
  <2>1. /\ ring \in Seq(Positions) /\ totalWritten \in Nat /\ Len(ring) \in Nat
        /\ EndsAt(ring, totalWritten) /\ Len(ring) <= totalWritten
        /\ sinceSeq \in Int
    BY DEF IInv, TypeOK, RingIsTail, EndsAt
  <2>2. /\ got \in Seq(Positions) /\ EndsAt(got, totalWritten)
        /\ Len(got) = IF sinceSeq >= totalWritten THEN 0
                      ELSE totalWritten - Larger(sinceSeq, totalWritten - Len(ring))
    BY <2>1, Replay
  <2> HIDE DEF got
  <2>3. /\ ToSet(ring) = (totalWritten - Len(ring) + 1)..totalWritten
        /\ ToSet(got) = (totalWritten - Len(got) + 1)..totalWritten
    BY <2>1, <2>2, Held
  <2>4. ToSet(got) = {p \in ToSet(ring) : p > sinceSeq}
    <3>1. CASE sinceSeq >= totalWritten
      BY <2>1, <2>2, <2>3, <3>1
    <3>2. CASE sinceSeq < totalWritten /\ sinceSeq > totalWritten - Len(ring)
      <4>1. totalWritten - Len(got) = sinceSeq
        BY <2>1, <2>2, <3>2 DEF Larger
      <4> QED
        BY <2>1, <2>3, <3>2, <4>1
    <3>3. CASE sinceSeq < totalWritten /\ sinceSeq <= totalWritten - Len(ring)
      <4>1. totalWritten - Len(got) = totalWritten - Len(ring)
        BY <2>1, <2>2, <3>3 DEF Larger
      <4> QED
        BY <2>1, <2>3, <3>3, <4>1
    <3> QED
      BY <2>1, <3>1, <3>2, <3>3
  <2> QED
    BY <2>2, <2>4 DEF got
<1> QED
  BY <1>1, Invariance, PTL

(* No channel is closed twice, or written to after it was closed: cancel    *)
(* and close meet in subs.                                                  *)
THEOREM ChannelsCorrect == Spec => []ClosedOnce
BY Invariance, PTL DEF IInv

(***************************************************************************)
(* What a client has seen, what is replayed to it and what waits in its    *)
(* channel follow one another: the order in which its bytes will reach it. *)
(***************************************************************************)
Below(S, T) == \A p \in S, q \in T : p < q

InQueueOrder(q) ==
  /\ \A k \in 1..Len(q) : Increasing(q[k])
  /\ \A k, l \in 1..Len(q) : k < l => Below(ToSet(q[k]), ToSet(q[l]))

Flows(c) ==
  /\ Increasing(replay[c])
  /\ InQueueOrder(chan[c])
  /\ Below(ToSet(observed[c]) \cup ToSet(replay[c]), Queued(chan[c]))

(* ... an attach begins with nothing received, and is at its end only when  *)
(* nothing is left to come.                                                 *)
Ends(c) ==
  /\ pc[c] \in {"idle", "replaying"} => observed[c] = <<>>
  /\ pc[c] = "live" => replay[c] = <<>>
  /\ pc[c] = "eof" => closed /\ replay[c] = <<>> /\ chan[c] = <<>>
  /\ pc[c] \in Attached /\ chanClosed[c] => closed

FlowOf(c) ==
  /\ Increasing(observed[c])
  /\ Given(c) \subseteq 1..totalWritten
  /\ pc[c] \in {"replaying", "live"} => Flows(c)
  /\ Ends(c)

Flow == \A c \in Clients : FlowOf(c)

(* One sequence after another: what it holds, and that it is in order.      *)
LEMMA ConcatFlows ==
  ASSUME NEW s \in Seq(Positions), NEW t \in Seq(Positions)
  PROVE  /\ s \o t \in Seq(Positions)
         /\ ToSet(s \o t) = ToSet(s) \cup ToSet(t)
         /\ Increasing(s) /\ Increasing(t) /\ Below(ToSet(s), ToSet(t))
              => Increasing(s \o t)
<1> DEFINE u == s \o t
<1>1. /\ Len(s) \in Nat /\ Len(t) \in Nat /\ u \in Seq(Positions)
      /\ Len(u) = Len(s) + Len(t)
      /\ \A i \in 1..Len(u) : u[i] = IF i <= Len(s) THEN s[i] ELSE t[i - Len(s)]
  BY LenProperties, ConcatProperties
<1>2. DOMAIN s = 1..Len(s) /\ DOMAIN t = 1..Len(t) /\ DOMAIN u = 1..Len(u)
  BY <1>1, LenProperties
<1> HIDE DEF u
<1>3. \A i \in 1..Len(s) : i \in 1..Len(u) /\ u[i] = s[i]
  BY <1>1
<1>4. ASSUME NEW i \in 1..Len(t)
      PROVE  Len(s) + i \in 1..Len(u) /\ u[Len(s) + i] = t[i]
  <2>1. Len(s) + i \in 1..Len(u) /\ ~(Len(s) + i <= Len(s)) /\ Len(s) + i - Len(s) = i
    BY <1>1
  <2> QED
    BY <1>1, <2>1
<1>5. ASSUME NEW i \in 1..Len(u)
      PROVE  \/ i \in 1..Len(s) /\ u[i] = s[i]
             \/ i - Len(s) \in 1..Len(t) /\ u[i] = t[i - Len(s)]
  BY <1>1
<1>6. ToSet(u) = ToSet(s) \cup ToSet(t)
  <2>1. ASSUME NEW p \in ToSet(u) PROVE p \in ToSet(s) \cup ToSet(t)
    BY <1>2, <1>5 DEF ToSet
  <2>2. ASSUME NEW p \in ToSet(s) PROVE p \in ToSet(u)
    BY <1>2, <1>3 DEF ToSet
  <2>3. ASSUME NEW p \in ToSet(t) PROVE p \in ToSet(u)
    BY <1>2, <1>4 DEF ToSet
  <2> QED
    BY <2>1, <2>2, <2>3
<1>7. ASSUME Increasing(s), Increasing(t), Below(ToSet(s), ToSet(t)),
             NEW i \in 1..Len(u), NEW j \in 1..Len(u), i < j
      PROVE  u[i] < u[j]
  <2>1. CASE j <= Len(s)
    BY <1>1, <1>7, <2>1 DEF Increasing
  <2>2. CASE i > Len(s)
    <3>1. i - Len(s) \in 1..Len(t) /\ j - Len(s) \in 1..Len(t) /\ i - Len(s) < j - Len(s)
      BY <1>1, <1>7, <2>2
    <3>2. t[i - Len(s)] < t[j - Len(s)]
      BY <1>7, <3>1 DEF Increasing
    <3> QED
      BY <1>1, <1>7, <2>2, <3>2
  <2>3. CASE i <= Len(s) /\ j > Len(s)
    <3>1. i \in 1..Len(s) /\ j - Len(s) \in 1..Len(t)
      BY <1>1, <2>3
    <3>2. u[i] = s[i] /\ u[j] = t[j - Len(s)]
      BY <1>1, <2>3
    <3>3. s[i] \in ToSet(s) /\ t[j - Len(s)] \in ToSet(t)
      BY <1>2, <3>1 DEF ToSet
    <3> QED
      BY <1>7, <3>2, <3>3 DEF Below
  <2> QED
    BY <1>1, <2>1, <2>2, <2>3
<1> QED
  BY <1>1, <1>6, <1>7 DEF u, Increasing

(* A chunk behind the others of a channel.                                  *)
LEMMA QueueGrows ==
  ASSUME NEW q \in Seq(Seq(Positions)), NEW p \in Seq(Positions)
  PROVE  /\ Queued(Append(q, p)) = Queued(q) \cup ToSet(p)
         /\ InQueueOrder(q) /\ Increasing(p) /\ Below(Queued(q), ToSet(p))
              => InQueueOrder(Append(q, p))
<1> DEFINE u == Append(q, p)
<1>1. /\ Len(q) \in Nat /\ Len(u) = Len(q) + 1 /\ u[Len(q) + 1] = p
      /\ \A k \in 1..Len(q) : u[k] = q[k]
  BY LenProperties, AppendProperties
<1> HIDE DEF u
<1>2. \A k \in 1..Len(q) : ToSet(q[k]) \subseteq Queued(q)
  BY DEF Queued
<1>3. Queued(u) = Queued(q) \cup ToSet(p)
  <2>1. ASSUME NEW x \in Queued(u) PROVE x \in Queued(q) \cup ToSet(p)
    <3>1. PICK k \in 1..Len(u) : x \in ToSet(u[k])
      BY <2>1 DEF Queued
    <3>2. k \in 1..Len(q) \/ k = Len(q) + 1
      BY <1>1, <3>1
    <3> QED
      BY <1>1, <1>2, <3>1, <3>2
  <2>2. ASSUME NEW x \in Queued(q) PROVE x \in Queued(u)
    <3>1. PICK k \in 1..Len(q) : x \in ToSet(q[k])
      BY <2>2 DEF Queued
    <3>2. k \in 1..Len(u) /\ x \in ToSet(u[k])
      BY <1>1, <3>1
    <3> QED
      BY <3>2 DEF Queued
  <2>3. ASSUME NEW x \in ToSet(p) PROVE x \in Queued(u)
    <3>1. Len(q) + 1 \in 1..Len(u) /\ x \in ToSet(u[Len(q) + 1])
      BY <1>1, <2>3
    <3> QED
      BY <3>1 DEF Queued
  <2> QED
    BY <2>1, <2>2, <2>3
<1>4. ASSUME InQueueOrder(q), Increasing(p), Below(Queued(q), ToSet(p))
      PROVE  InQueueOrder(u)
  <2>1. ASSUME NEW k \in 1..Len(u) PROVE Increasing(u[k])
    BY <1>1, <1>4 DEF InQueueOrder
  <2>2. ASSUME NEW k \in 1..Len(u), NEW l \in 1..Len(u), k < l
        PROVE  Below(ToSet(u[k]), ToSet(u[l]))
    <3>1. k \in 1..Len(q) /\ u[k] = q[k]
      BY <1>1, <2>2
    <3>2. CASE l \in 1..Len(q)
      BY <1>1, <1>4, <2>2, <3>1, <3>2 DEF InQueueOrder
    <3>3. CASE l = Len(q) + 1
      BY <1>1, <1>2, <1>4, <3>1, <3>3 DEF Below
    <3> QED
      BY <1>1, <3>2, <3>3
  <2> QED
    BY <2>1, <2>2 DEF InQueueOrder
<1> QED
  BY <1>3, <1>4 DEF u

(* The first chunk of a channel taken out of it.                            *)
LEMMA QueueShrinks ==
  ASSUME NEW q \in Seq(Seq(Positions)), q # <<>>
  PROVE  /\ Head(q) \in Seq(Positions) /\ Tail(q) \in Seq(Seq(Positions))
         /\ Queued(q) = ToSet(Head(q)) \cup Queued(Tail(q))
         /\ InQueueOrder(q) =>
              /\ Increasing(Head(q)) /\ InQueueOrder(Tail(q))
              /\ Below(ToSet(Head(q)), Queued(Tail(q)))
<1> DEFINE h == Head(q)
           u == Tail(q)
<1>1. /\ Len(q) \in Nat \ {0} /\ h \in Seq(Positions) /\ u \in Seq(Seq(Positions))
      /\ h = q[1] /\ Len(u) = Len(q) - 1 /\ \A k \in 1..Len(u) : u[k] = q[k + 1]
  BY LenProperties, EmptySeq, HeadTailProperties
<1> HIDE DEF h, u
<1>2. /\ 1 \in 1..Len(q) /\ Len(u) \in Nat
      /\ \A k \in 1..Len(u) : k + 1 \in 1..Len(q) /\ 1 < k + 1
  BY <1>1
<1>3. ASSUME NEW k \in 1..Len(q), k # 1
      PROVE  k - 1 \in 1..Len(u) /\ u[k - 1] = q[k]
  <2>1. k - 1 \in 1..Len(u) /\ (k - 1) + 1 = k
    BY <1>1, <1>3
  <2> QED
    BY <1>1, <2>1
<1>4. Queued(q) = ToSet(h) \cup Queued(u)
  <2>1. ASSUME NEW x \in Queued(q) PROVE x \in ToSet(h) \cup Queued(u)
    <3>1. PICK k \in 1..Len(q) : x \in ToSet(q[k])
      BY <2>1 DEF Queued
    <3>2. CASE k = 1
      BY <1>1, <3>1, <3>2
    <3>3. CASE k - 1 \in 1..Len(u) /\ u[k - 1] = q[k]
      BY <3>1, <3>3 DEF Queued
    <3> QED
      BY <1>3, <3>2, <3>3
  <2>2. ASSUME NEW x \in ToSet(h) PROVE x \in Queued(q)
    BY <1>1, <1>2, <2>2 DEF Queued
  <2>3. ASSUME NEW x \in Queued(u) PROVE x \in Queued(q)
    <3>1. PICK k \in 1..Len(u) : x \in ToSet(u[k])
      BY <2>3 DEF Queued
    <3>2. k + 1 \in 1..Len(q) /\ x \in ToSet(q[k + 1])
      BY <1>1, <1>2, <3>1
    <3> QED
      BY <3>2 DEF Queued
  <2> QED
    BY <2>1, <2>2, <2>3
<1>5. ASSUME InQueueOrder(q)
      PROVE  Increasing(h) /\ InQueueOrder(u) /\ Below(ToSet(h), Queued(u))
  <2>1. Increasing(h)
    BY <1>1, <1>2, <1>5 DEF InQueueOrder
  <2>2. \A k \in 1..Len(u) : Increasing(u[k])
    BY <1>1, <1>2, <1>5 DEF InQueueOrder
  <2>3. ASSUME NEW k \in 1..Len(u), NEW l \in 1..Len(u), k < l
        PROVE  Below(ToSet(u[k]), ToSet(u[l]))
    <3>1. k + 1 \in 1..Len(q) /\ l + 1 \in 1..Len(q) /\ k + 1 < l + 1
      BY <1>2, <2>3
    <3>2. u[k] = q[k + 1] /\ u[l] = q[l + 1]
      BY <1>1
    <3> QED
      BY <1>5, <3>1, <3>2 DEF InQueueOrder
  <2>4. ASSUME NEW k \in 1..Len(u) PROVE Below(ToSet(h), ToSet(u[k]))
    <3>1. k + 1 \in 1..Len(q) /\ 1 < k + 1 /\ u[k] = q[k + 1]
      BY <1>1, <1>2
    <3> QED
      BY <1>1, <1>2, <1>5, <3>1 DEF InQueueOrder
  <2>5. Below(ToSet(h), Queued(u))
    BY <2>4 DEF Below, Queued
  <2> QED
    BY <2>1, <2>2, <2>3, <2>5 DEF InQueueOrder
<1> QED
  BY <1>1, <1>4, <1>5 DEF h, u

(* The empty sequence.                                                      *)
LEMMA Nothing ==
  /\ <<>> \in Seq(Positions) /\ <<>> \in Seq(Seq(Positions))
  /\ ToSet(<<>>) = {} /\ Queued(<<>>) = {}
  /\ Increasing(<<>>) /\ InQueueOrder(<<>>)
<1>1. Len(<<>>) = 0 /\ 1..0 = {} /\ DOMAIN <<>> = {}
  OBVIOUS
<1> QED
  BY <1>1 DEF ToSet, Queued, Increasing, InQueueOrder

LEMMA FlowInit == Init => Flow
<1> SUFFICES ASSUME Init, NEW c \in Clients PROVE FlowOf(c)
  BY DEF Flow
<1>1. /\ observed[c] = <<>> /\ replay[c] = <<>> /\ chan[c] = <<>> /\ pc[c] = "idle"
  BY DEF Init
<1>2. Given(c) = {}
  BY <1>1, Nothing DEF Given
<1> QED
  BY <1>1, <1>2, Nothing DEF FlowOf, Ends, Attached

(* The buffers of a client.                                                 *)
LEMMA Buffers ==
  ASSUME IInv, NEW c \in Clients
  PROVE  /\ observed[c] \in Seq(Positions) /\ replay[c] \in Seq(Positions)
         /\ chan[c] \in Seq(Seq(Positions))
         /\ totalWritten \in Nat /\ totalWritten <= MaxTotal /\ MaxTotal \in Nat
BY BrokerAssumption DEF IInv, TypeOK

(* A client whose buffers a step does not touch.                            *)
LEMMA FlowStays ==
  ASSUME NEW c \in Clients, FlowOf(c), pc'[c] = pc[c], observed'[c] = observed[c],
         replay'[c] = replay[c], chan'[c] = chan[c], closed => closed',
         chanClosed'[c] => chanClosed[c] \/ closed',
         1..totalWritten \subseteq 1..totalWritten'
  PROVE  FlowOf(c)' /\ Given(c)' = Given(c)
<1>1. Given(c)' = Given(c)
  BY DEF Given
<1>2. Flows(c) => Flows(c)'
  BY DEF Flows
<1>3. Ends(c)'
  BY DEF FlowOf, Ends
<1> QED
  BY <1>1, <1>2, <1>3 DEF FlowOf

(* A chunk of n bytes: in order, and beyond everything written before it.   *)
LEMMA ChunkFlows ==
  ASSUME IInv, NEW n \in 1..MaxWrite, totalWritten + n <= MaxTotal
  PROVE  /\ Chunk(n) \in Seq(Positions) /\ Increasing(Chunk(n))
         /\ ToSet(Chunk(n)) = (totalWritten + 1)..(totalWritten + n)
<1>1. totalWritten \in Nat /\ n \in Nat /\ MaxTotal \in Nat
  BY BrokerAssumption DEF IInv, TypeOK
<1>2. /\ Chunk(n) \in Seq(Positions) /\ Len(Chunk(n)) = n
      /\ \A i \in 1..n : Chunk(n)[i] = totalWritten + i
  BY <1>1 DEF Chunk, Positions
<1>3. Increasing(Chunk(n))
  BY <1>1, <1>2 DEF Increasing
<1>4. EndsAt(Chunk(n), totalWritten + n)
  BY <1>1, <1>2 DEF EndsAt
<1>5. ToSet(Chunk(n)) = (totalWritten + n - Len(Chunk(n)) + 1)..(totalWritten + n)
  BY <1>1, <1>2, <1>4, Held
<1> QED
  BY <1>1, <1>2, <1>3, <1>5

(* Write: a chunk goes behind everything its subscriber was given.          *)
LEMMA WriteFlows ==
  ASSUME IInv, Flow, NEW n \in 1..MaxWrite, Write(n), NEW c \in Clients
  PROVE  /\ FlowOf(c)'
         /\ Given(c)' = IF c \in subs /\ ~Full(c) THEN Given(c) \cup ToSet(Chunk(n))
                        ELSE Given(c)
<1> DEFINE p == Chunk(n)
<1>1. /\ totalWritten + n <= MaxTotal /\ totalWritten' = totalWritten + n
      /\ UNCHANGED <<closed, subs, chanClosed, pc, observed, replay>> /\ ~closed
  BY DEF Write, clientVars
<1>2. /\ p \in Seq(Positions) /\ Increasing(p)
      /\ ToSet(p) = (totalWritten + 1)..(totalWritten + n)
  BY <1>1, ChunkFlows
<1>3. totalWritten \in Nat /\ n \in Nat
  BY Buffers
<1>4. 1..totalWritten \subseteq 1..totalWritten'
  BY <1>1, <1>3
<1>5. FlowOf(c)
  BY DEF Flow
<1> HIDE DEF p
<1>6. CASE ~(c \in subs /\ ~Full(c))
  <2>1. chan'[c] = chan[c]
    BY <1>6 DEF Write
  <2> QED
    BY <1>1, <1>4, <1>5, <1>6, <2>1, FlowStays
<1>7. CASE c \in subs /\ ~Full(c)
  <2>1. chan'[c] = Append(chan[c], p)
    BY <1>7 DEF Write, p
  <2>2. /\ Queued(chan'[c]) = Queued(chan[c]) \cup ToSet(p)
        /\ InQueueOrder(chan[c]) /\ Below(Queued(chan[c]), ToSet(p))
             => InQueueOrder(chan'[c])
    BY <1>2, <2>1, Buffers, QueueGrows
  <2>3. Given(c)' = Given(c) \cup ToSet(p)
    BY <1>1, <2>2 DEF Given
  <2>4. Below(Given(c), ToSet(p))
    BY <1>2, <1>3, <1>5 DEF FlowOf, Below
  <2>5. Given(c)' \subseteq 1..totalWritten'
    BY <1>1, <1>2, <1>3, <1>5, <2>3 DEF FlowOf
  <2>6. ASSUME Flows(c) PROVE Flows(c)'
    <3>1. InQueueOrder(chan[c]) /\ Below(Queued(chan[c]), ToSet(p))
      BY <2>4, <2>6 DEF Flows, Given, Below
    <3>2. Below(ToSet(observed[c]) \cup ToSet(replay[c]), Queued(chan'[c]))
      BY <2>2, <2>4, <2>6 DEF Flows, Given, Below
    <3> QED
      BY <1>1, <2>2, <2>6, <3>1, <3>2 DEF Flows
  <2>7. Ends(c)'
    BY <1>1, <1>5 DEF FlowOf, Ends
  <2> QED
    BY <1>1, <1>5, <1>7, <2>3, <2>5, <2>6, <2>7 DEF FlowOf, p
<1> QED
  BY <1>6, <1>7

(* subscribeSince: the replay begins behind the resume point and leaves     *)
(* nothing out between it, or the start of the ring, and the head.          *)
LEMMA AttachReplays ==
  ASSUME IInv, NEW c \in Clients, Attach(c)
  PROVE  /\ replay'[c] \in Seq(Positions)
         /\ floor'[c] \in Nat /\ floor'[c] = Larger(since[c], totalWritten - Len(ring))
         /\ \A i \in 1..Len(replay'[c]) : replay'[c][i] = floor'[c] + i
         /\ ToSet(replay'[c]) = (floor'[c] + 1)..totalWritten
         /\ chan'[c] = <<>> /\ pc[c] = "idle" /\ pc'[c] = "replaying"
         /\ chanClosed'[c] = closed
         /\ ~missed'[c] => ~missed[c] /\ ~(since[c] < totalWritten - Len(ring))
         /\ UNCHANGED <<totalWritten, closed, since, observed>>
<1> PICK depth \in Depths[c] : subscribeSince(c, depth, since[c])
  BY DEF Attach
<1> DEFINE got == computeReplay(ring, totalWritten, since[c])
           first == totalWritten - Len(ring)
<1>1. /\ replay'[c] = got /\ floor'[c] = Larger(since[c], first)
      /\ chan'[c] = <<>> /\ pc[c] = "idle" /\ pc'[c] = "replaying"
      /\ chanClosed'[c] = closed
      /\ ~missed'[c] => ~missed[c] /\ ~(since[c] < first)
      /\ UNCHANGED <<totalWritten, closed, since, observed>>
  BY DEF subscribeSince, Registration, ringVars, IInv, TypeOK
<1>2. /\ ring \in Seq(Positions) /\ Len(ring) \in Nat /\ Len(ring) <= totalWritten
      /\ EndsAt(ring, totalWritten) /\ totalWritten \in Nat /\ since[c] \in Nat
  BY BrokerAssumption DEF IInv, TypeOK, RingIsTail, EndsAt
<1>3. /\ got \in Seq(Positions) /\ EndsAt(got, totalWritten)
      /\ Len(got) = IF since[c] >= totalWritten THEN 0
                    ELSE totalWritten - Larger(since[c], first)
  <2> DEFINE sinceSeq == since[c]
  <2>1. sinceSeq \in Int
    BY <1>2
  <2> HIDE DEF sinceSeq
  <2>2. /\ computeReplay(ring, totalWritten, sinceSeq) \in Seq(Positions)
        /\ EndsAt(computeReplay(ring, totalWritten, sinceSeq), totalWritten)
        /\ Len(computeReplay(ring, totalWritten, sinceSeq)) =
              IF sinceSeq >= totalWritten THEN 0
              ELSE totalWritten - Larger(sinceSeq, totalWritten - Len(ring))
    BY <1>2, <2>1, Replay
  <2> QED
    BY <2>2 DEF sinceSeq
<1>4. Len(got) \in Nat /\ ToSet(got) = (totalWritten - Len(got) + 1)..totalWritten
  BY <1>2, <1>3, Held, LenProperties
<1> HIDE DEF got
<1>5. /\ first \in Nat /\ Larger(since[c], first) \in Nat
      /\ Larger(since[c], first) >= since[c]
  BY <1>2 DEF Larger
<1>6. CASE since[c] >= totalWritten
  <2>1. Len(got) = 0
    BY <1>3, <1>6
  <2>2. ToSet(got) = (Larger(since[c], first) + 1)..totalWritten
    BY <1>2, <1>4, <1>5, <1>6, <2>1
  <2> QED
    BY <1>1, <1>3, <1>5, <2>1, <2>2
<1>7. CASE ~(since[c] >= totalWritten)
  <2>1. totalWritten - Len(got) = Larger(since[c], first)
    BY <1>2, <1>3, <1>5, <1>7
  <2>2. \A i \in 1..Len(got) : got[i] = Larger(since[c], first) + i
    BY <1>3, <2>1 DEF EndsAt
  <2> QED
    BY <1>1, <1>3, <1>4, <1>5, <2>1, <2>2
<1> QED
  BY <1>6, <1>7

(* What the client is then given, and that it is in order.                  *)
LEMMA AttachFlows ==
  ASSUME IInv, Flow, NEW c \in Clients, Attach(c)
  PROVE  FlowOf(c)' /\ Given(c)' = (floor'[c] + 1)..totalWritten
<1> DEFINE r == replay'[c]
           f == floor'[c]
<1>1. /\ r \in Seq(Positions) /\ f \in Nat /\ ToSet(r) = (f + 1)..totalWritten
      /\ \A i \in 1..Len(r) : r[i] = f + i
      /\ chan'[c] = <<>> /\ pc[c] = "idle" /\ pc'[c] = "replaying"
      /\ chanClosed'[c] = closed
      /\ UNCHANGED <<totalWritten, closed, observed>>
  BY AttachReplays
<1>2. FlowOf(c) /\ totalWritten \in Nat
  BY Buffers DEF Flow
<1>3. observed'[c] = <<>>
  BY <1>1, <1>2 DEF FlowOf, Ends
<1> HIDE DEF f
<1>4. Increasing(r)
  <2> HIDE DEF r
  <2>1. Len(r) \in Nat
    BY <1>1, LenProperties
  <2> QED
    BY <1>1, <2>1 DEF Increasing
<1>5. Given(c)' = ToSet(r)
  BY <1>1, <1>3, Nothing DEF Given
<1>6. Given(c)' \subseteq 1..totalWritten'
  BY <1>1, <1>2, <1>5
<1>7. Flows(c)'
  BY <1>1, <1>4, Nothing DEF Flows, Below
<1>8. Ends(c)'
  BY <1>1, <1>3 DEF Ends
<1>9. FlowOf(c)'
  BY <1>3, <1>6, <1>7, <1>8, Nothing DEF FlowOf
<1> QED
  BY <1>1, <1>5, <1>9 DEF f

(* The first bytes of a sequence in order are in order, and among its bytes.*)
LEMMA PrefixFlows ==
  ASSUME NEW s \in Seq(Positions), NEW k \in 0..Len(s)
  PROVE  /\ ToSet(SubSeq(s, 1, k)) \subseteq ToSet(s)
         /\ Increasing(s) => Increasing(SubSeq(s, 1, k))
<1> DEFINE t == SubSeq(s, 1, k)
<1>1. /\ t \in Seq(Positions) /\ Len(t) = k
      /\ \A i \in 1..k : i \in 1..Len(s) /\ t[i] = s[i]
  BY PrefixBytes
<1> HIDE DEF t
<1>2. DOMAIN t = 1..k /\ DOMAIN s = 1..Len(s)
  BY <1>1, LenProperties
<1>3. ToSet(t) \subseteq ToSet(s)
  BY <1>1, <1>2 DEF ToSet
<1>4. Increasing(s) => Increasing(t)
  BY <1>1 DEF Increasing
<1> QED
  BY <1>3, <1>4 DEF t

(* What copyStream hands to the client's writer is next for it: in order,   *)
(* and beyond all it was given in this attach.                              *)
LEMMA WritingFlows ==
  ASSUME IInv, NEW c \in Clients, FlowOf(c), pc[c] \in {"replaying", "live"}
  PROVE  /\ Writing(c) \in Seq(Positions) /\ Increasing(Writing(c))
         /\ Below(ToSet(observed[c]), ToSet(Writing(c)))
         /\ ToSet(Writing(c)) \subseteq Given(c)
<1>1. /\ replay[c] \in Seq(Positions) /\ chan[c] \in Seq(Seq(Positions))
      /\ Flows(c) /\ Ends(c)
  BY Buffers DEF FlowOf
<1>2. CASE pc[c] = "replaying"
  <2>1. Writing(c) = replay[c] /\ observed[c] = <<>>
    BY <1>1, <1>2 DEF Writing, Ends
  <2> QED
    BY <1>1, <2>1, Nothing DEF Flows, Below, Given
<1>3. CASE pc[c] = "live" /\ chan[c] = <<>>
  <2>1. Writing(c) = <<>>
    BY <1>3 DEF Writing
  <2> QED
    BY <2>1, Nothing DEF Below
<1>4. CASE pc[c] = "live" /\ chan[c] # <<>>
  <2>1. Writing(c) = Head(chan[c])
    BY <1>4 DEF Writing
  <2>2. /\ Head(chan[c]) \in Seq(Positions) /\ Increasing(Head(chan[c]))
        /\ Queued(chan[c]) = ToSet(Head(chan[c])) \cup Queued(Tail(chan[c]))
    BY <1>1, <1>4, QueueShrinks DEF Flows
  <2> QED
    BY <1>1, <2>1, <2>2 DEF Flows, Below, Given
<1> QED
  BY <1>2, <1>3, <1>4

(* Whatever part of it the writer takes.                                    *)
LEMMA WrittenFlows ==
  ASSUME IInv, NEW c \in Clients, FlowOf(c), pc[c] \in {"replaying", "live"},
         NEW w \in Seq(Positions), Increasing(w), ToSet(w) \subseteq ToSet(Writing(c)),
         observed'[c] = observed[c] \o w
  PROVE  /\ Increasing(observed'[c])
         /\ ToSet(observed'[c]) = ToSet(observed[c]) \cup ToSet(w)
<1>1. observed[c] \in Seq(Positions) /\ Increasing(observed[c])
  BY Buffers DEF FlowOf
<1>2. Below(ToSet(observed[c]), ToSet(w))
  BY WritingFlows DEF Below
<1> QED
  BY <1>1, <1>2, ConcatFlows

(* copyStream and cancel: what moves to the client was next for it, and     *)
(* while it goes on reading nothing it was given is lost on the way.        *)
LEMMA CopyFlows ==
  ASSUME IInv, Flow, NEW c \in Clients, CopyStream(c) \/ CopyBreak(c)
  PROVE  FlowOf(c)' /\ (pc'[c] \in {"replaying", "live", "eof"} => Given(c)' = Given(c))
<1>1. /\ observed[c] \in Seq(Positions) /\ replay[c] \in Seq(Positions)
      /\ chan[c] \in Seq(Seq(Positions)) /\ FlowOf(c)
  BY Buffers DEF Flow
<1>2. ASSUME pc'[c] \in {"replaying", "live"} => Flows(c)', Ends(c)',
             Increasing(observed'[c]), Given(c)' \subseteq Given(c),
             UNCHANGED totalWritten
      PROVE  FlowOf(c)'
  BY <1>1, <1>2 DEF FlowOf
<1>3. CASE CopyReplay(c)
  <2>1. /\ observed'[c] = observed[c] \o replay[c] /\ replay'[c] = <<>>
        /\ pc[c] = "replaying" /\ pc'[c] = "live"
        /\ UNCHANGED <<totalWritten, closed, chan, chanClosed>>
    BY <1>3 DEF CopyReplay, ringVars, IInv, TypeOK
  <2>2. Flows(c) /\ Writing(c) = replay[c]
    BY <1>1, <2>1 DEF FlowOf, Writing
  <2>3. /\ Increasing(observed'[c])
        /\ ToSet(observed'[c]) = ToSet(observed[c]) \cup ToSet(replay[c])
    BY <1>1, <2>1, <2>2, WrittenFlows DEF Flows
  <2>4. Given(c)' = Given(c)
    BY <2>1, <2>3, Nothing DEF Given
  <2>5. Flows(c)'
    BY <2>1, <2>2, <2>3, Nothing DEF Flows, Below
  <2>6. Ends(c)'
    BY <1>1, <2>1 DEF FlowOf, Ends, Attached
  <2> QED
    BY <1>2, <2>1, <2>3, <2>4, <2>5, <2>6
<1>4. CASE CopyChunk(c)
  <2>1. /\ observed'[c] = observed[c] \o Head(chan[c]) /\ chan'[c] = Tail(chan[c])
        /\ chan[c] # <<>> /\ pc[c] = "live"
        /\ UNCHANGED <<totalWritten, closed, replay, chanClosed, pc>>
    BY <1>4 DEF CopyChunk, ringVars, IInv, TypeOK
  <2>2. Flows(c) /\ replay[c] = <<>> /\ Writing(c) = Head(chan[c])
    BY <1>1, <2>1 DEF FlowOf, Ends, Writing
  <2>3. /\ Head(chan[c]) \in Seq(Positions)
        /\ Queued(chan[c]) = ToSet(Head(chan[c])) \cup Queued(chan'[c])
        /\ Increasing(Head(chan[c])) /\ InQueueOrder(chan'[c])
        /\ Below(ToSet(Head(chan[c])), Queued(chan'[c]))
    BY <1>1, <2>1, <2>2, QueueShrinks DEF Flows
  <2>4. /\ Increasing(observed'[c])
        /\ ToSet(observed'[c]) = ToSet(observed[c]) \cup ToSet(Head(chan[c]))
    BY <1>1, <2>1, <2>2, <2>3, WrittenFlows
  <2>5. Given(c)' = Given(c)
    BY <2>1, <2>3, <2>4 DEF Given
  <2>6. Below(ToSet(observed'[c]), Queued(chan'[c]))
    BY <2>2, <2>3, <2>4 DEF Flows, Below
  <2>7. Flows(c)'
    BY <2>1, <2>2, <2>3, <2>6, Nothing DEF Flows, Below
  <2>8. Ends(c)'
    BY <1>1, <2>1 DEF FlowOf, Ends
  <2> QED
    BY <1>2, <2>1, <2>4, <2>5, <2>7, <2>8
<1>5. CASE CopyEOF(c)
  <2>1. /\ UNCHANGED <<totalWritten, closed, observed, replay, chan, chanClosed>>
        /\ pc'[c] = "eof" /\ pc[c] = "live" /\ chan[c] = <<>> /\ chanClosed[c]
    BY <1>5 DEF CopyEOF, ringVars, IInv, TypeOK
  <2>2. Given(c)' = Given(c)
    BY <2>1 DEF Given
  <2>3. Ends(c)'
    BY <1>1, <2>1 DEF FlowOf, Ends, Attached
  <2> QED
    BY <1>1, <1>2, <2>1, <2>2, <2>3 DEF FlowOf
<1>6. CASE CopyBreak(c)
  <2>1. PICK k \in 0..Len(Writing(c)) :
          observed' = [observed EXCEPT ![c] = @ \o SubSeq(Writing(c), 1, k)]
    BY <1>6 DEF CopyBreak
  <2> DEFINE w == SubSeq(Writing(c), 1, k)
  <2>2. /\ observed'[c] = observed[c] \o w
        /\ pc[c] \in {"replaying", "live"} /\ pc'[c] = "broken"
        /\ UNCHANGED <<totalWritten, closed, replay, chan, chanClosed>>
    BY <1>6, <2>1 DEF CopyBreak, ringVars, IInv, TypeOK
  <2>3. /\ Writing(c) \in Seq(Positions) /\ Increasing(Writing(c))
        /\ ToSet(Writing(c)) \subseteq Given(c)
    BY <1>1, <2>2, WritingFlows
  <2>4. w \in Seq(Positions) /\ Increasing(w) /\ ToSet(w) \subseteq ToSet(Writing(c))
    BY <2>3, PrefixBytes, PrefixFlows
  <2> HIDE DEF w
  <2>5. /\ Increasing(observed'[c])
        /\ ToSet(observed'[c]) = ToSet(observed[c]) \cup ToSet(w)
    BY <1>1, <2>2, <2>4, WrittenFlows
  <2>6. Given(c)' \subseteq Given(c)
    BY <2>2, <2>3, <2>4, <2>5 DEF Given
  <2>7. Ends(c)'
    BY <1>1, <2>2 DEF FlowOf, Ends, Attached
  <2> QED
    BY <1>2, <2>2, <2>5, <2>6, <2>7
<1>7. CASE Cancel(c)
  <2>1. /\ pc'[c] = "idle" /\ chan'[c] = <<>> /\ replay'[c] = <<>>
        /\ observed'[c] = <<>> /\ UNCHANGED totalWritten
    BY <1>7 DEF Cancel, ringVars, IInv, TypeOK
  <2>2. Given(c)' = {}
    BY <2>1, Nothing DEF Given
  <2> QED
    BY <2>1, <2>2, Nothing DEF FlowOf, Ends, Attached
<1> QED
  BY <1>3, <1>4, <1>5, <1>6, <1>7 DEF CopyStream

(* A step of one client touches no buffer of another.                       *)
LEMMA Apart ==
  ASSUME IInv, NEW c \in Clients, Attach(c) \/ CopyStream(c) \/ CopyBreak(c)
  PROVE  /\ UNCHANGED <<totalWritten, closed, dropCnt>>
         /\ \A d \in Clients \ {c} :
              /\ pc'[d] = pc[d] /\ observed'[d] = observed[d] /\ replay'[d] = replay[d]
              /\ chan'[d] = chan[d] /\ chanClosed'[d] = chanClosed[d]
              /\ floor'[d] = floor[d] /\ since'[d] = since[d] /\ missed'[d] = missed[d]
<1> USE DEF IInv, TypeOK, ringVars
<1>1. ASSUME NEW depth, subscribeSince(c, depth, since[c])
      PROVE  /\ UNCHANGED <<totalWritten, closed, dropCnt>>
             /\ \A d \in Clients \ {c} :
                  /\ pc'[d] = pc[d] /\ observed'[d] = observed[d]
                  /\ replay'[d] = replay[d] /\ chan'[d] = chan[d]
                  /\ chanClosed'[d] = chanClosed[d] /\ floor'[d] = floor[d]
                  /\ since'[d] = since[d] /\ missed'[d] = missed[d]
  BY <1>1 DEF subscribeSince, Registration
<1>2. CASE CopyReplay(c) \/ CopyChunk(c)
  BY <1>2 DEF CopyReplay, CopyChunk
<1>3. CASE CopyEOF(c) \/ CopyBreak(c) \/ Cancel(c)
  BY <1>3 DEF CopyEOF, CopyBreak, Cancel
<1> QED
  BY <1>1, <1>2, <1>3 DEF Attach, CopyStream

LEMMA FlowStep == IInv /\ Flow /\ [Next]_vars => Flow'
<1> SUFFICES ASSUME IInv, Flow, [Next]_vars, NEW d \in Clients PROVE FlowOf(d)'
  BY DEF Flow
<1>0. FlowOf(d)
  BY DEF Flow
<1>1. ASSUME NEW n \in 1..MaxWrite, Write(n) PROVE FlowOf(d)'
  BY <1>1, WriteFlows
<1>2. CASE Close
  <2>1. /\ UNCHANGED <<totalWritten, pc, observed, replay, chan>> /\ closed'
    BY <1>2 DEF Close, ringVars, clientVars
  <2> QED
    BY <1>0, <2>1, FlowStays
<1>3. ASSUME NEW c \in Clients, Attach(c) \/ CopyStream(c) \/ CopyBreak(c)
      PROVE  FlowOf(d)'
  <2>1. CASE d = c
    BY <1>3, <2>1, AttachFlows, CopyFlows
  <2>2. CASE d # c
    BY <1>0, <1>3, <2>2, Apart, FlowStays
  <2> QED
    BY <2>1, <2>2
<1>4. CASE UNCHANGED vars
  BY <1>0, <1>4, FlowStays DEF vars, ringVars, clientVars
<1> QED
  BY <1>1, <1>2, <1>3, <1>4 DEF Next

LEMMA FlowInvariance == Spec => [](IInv /\ Flow)
BY IInit, IStep, FlowInit, FlowStep, PTL DEF Spec

(***************************************************************************)
(* The number of bytes a client has received is all it resumes with.  It   *)
(* never exceeds the position of the last of them, and equals it for a     *)
(* client that has missed nothing.                                         *)
(***************************************************************************)
AtLeast(s, base) == \A i \in 1..Len(s) : s[i] >= base + i

Follows(s, base) == \A i \in 1..Len(s) : s[i] = base + i

Consecutive(s) == \A i \in 1..Len(s) : s[i] = s[1] - 1 + i

Reading(c) == pc[c] \in {"replaying", "live"}

(* What is still to reach a client lies beyond what it had received.        *)
Fits(c) ==
  /\ \A p \in Queued(chan[c]) : p > since[c]
  /\ \A k \in 1..Len(chan[c]) : Consecutive(chan[c][k])
  /\ pc[c] = "replaying" => floor[c] >= since[c] /\ Follows(replay[c], floor[c])

(* ... and without a gap.                                                   *)
Complete(c) ==
  /\ floor[c] = since[c]
  /\ (since[c] + 1)..totalWritten \subseteq Given(c)

CountsOf(c) ==
  /\ since[c] <= totalWritten
  /\ AtLeast(observed[c], since[c])
  /\ Reading(c) => Fits(c)
  /\ ~missed[c] => Follows(observed[c], since[c]) /\ (Reading(c) => Complete(c))

Counts == \A c \in Clients : CountsOf(c)

LEMMA CountsInit == Init => Counts
<1> SUFFICES ASSUME Init, NEW c \in Clients PROVE CountsOf(c)
  BY DEF Counts
<1>1. /\ observed[c] = <<>> /\ pc[c] = "idle" /\ since[c] = 0 /\ totalWritten = 0
  BY DEF Init
<1> QED
  BY <1>1 DEF CountsOf, AtLeast, Follows, Reading

(* One sequence after another, and a part of one.                           *)
LEMMA ConcatFits ==
  ASSUME NEW s \in Seq(Positions), NEW t \in Seq(Positions), NEW base \in Nat
  PROVE  /\ AtLeast(s, base) /\ AtLeast(t, base + Len(s)) => AtLeast(s \o t, base)
         /\ Follows(s, base) /\ Follows(t, base + Len(s)) => Follows(s \o t, base)
<1> DEFINE u == s \o t
<1>1. /\ Len(s) \in Nat /\ Len(t) \in Nat /\ Len(u) = Len(s) + Len(t)
      /\ \A i \in 1..Len(u) : u[i] = IF i <= Len(s) THEN s[i] ELSE t[i - Len(s)]
  BY LenProperties, ConcatProperties
<1> HIDE DEF u
<1>2. ASSUME NEW i \in 1..Len(u)
      PROVE  \/ i \in 1..Len(s) /\ u[i] = s[i]
             \/ /\ i - Len(s) \in 1..Len(t) /\ u[i] = t[i - Len(s)]
                /\ base + Len(s) + (i - Len(s)) = base + i
  BY <1>1
<1>3. AtLeast(s, base) /\ AtLeast(t, base + Len(s)) => AtLeast(u, base)
  BY <1>2 DEF AtLeast
<1>4. Follows(s, base) /\ Follows(t, base + Len(s)) => Follows(u, base)
  BY <1>2 DEF Follows
<1> QED
  BY <1>3, <1>4 DEF u

LEMMA PrefixFits ==
  ASSUME NEW s \in Seq(Positions), NEW k \in 0..Len(s), NEW base \in Nat
  PROVE  /\ AtLeast(s, base) => AtLeast(SubSeq(s, 1, k), base)
         /\ Follows(s, base) => Follows(SubSeq(s, 1, k), base)
<1> DEFINE t == SubSeq(s, 1, k)
<1>1. Len(t) = k /\ \A i \in 1..k : i \in 1..Len(s) /\ t[i] = s[i]
  BY PrefixBytes
<1> HIDE DEF t
<1>2. /\ AtLeast(s, base) => AtLeast(t, base)
      /\ Follows(s, base) => Follows(t, base)
  BY <1>1 DEF AtLeast, Follows
<1> QED
  BY <1>2 DEF t

(* The last byte received: the number is at most its position.              *)
LEMMA LastReceived ==
  ASSUME IInv, NEW c \in Clients, FlowOf(c), CountsOf(c)
  PROVE  /\ Received(c) \in Nat /\ since[c] \in Nat /\ Len(observed[c]) \in Nat
         /\ Received(c) = since[c] + Len(observed[c])
         /\ Received(c) <= totalWritten
         /\ observed[c] # <<>> =>
              /\ Len(observed[c]) \in 1..Len(observed[c])
              /\ observed[c][Len(observed[c])] \in ToSet(observed[c])
              /\ observed[c][Len(observed[c])] >= Received(c)
<1> DEFINE o == observed[c]
<1>1. /\ o \in Seq(Positions) /\ Len(o) \in Nat /\ DOMAIN o = 1..Len(o)
      /\ (o = <<>> <=> Len(o) = 0) /\ since[c] \in Nat /\ totalWritten \in Nat
  BY Buffers, LenProperties, EmptySeq DEF IInv, TypeOK
<1>2. AtLeast(o, since[c]) /\ since[c] <= totalWritten /\ ToSet(o) \subseteq 1..totalWritten
  BY DEF CountsOf, FlowOf, Given
<1>3. Received(c) = since[c] + Len(o)
  BY DEF Received
<1> HIDE DEF o
<1>4. CASE o = <<>>
  BY <1>1, <1>2, <1>3, <1>4 DEF o
<1>5. CASE o # <<>>
  <2>1. Len(o) \in 1..Len(o)
    BY <1>1, <1>5
  <2>2. o[Len(o)] \in ToSet(o) /\ o[Len(o)] >= since[c] + Len(o)
    BY <1>1, <1>2, <2>1 DEF ToSet, AtLeast
  <2>3. o[Len(o)] \in 1..totalWritten
    BY <1>2, <2>2
  <2>4. since[c] + Len(o) <= totalWritten
    BY <1>1, <2>2, <2>3
  <2> QED
    BY <1>1, <1>3, <2>1, <2>2, <2>4 DEF o
<1> QED
  BY <1>4, <1>5

(* What the writer is handed next fits the number: the next position is not *)
(* behind the head of the channel, so it is its first byte when none is     *)
(* missing.                                                                 *)
LEMMA WritingFits ==
  ASSUME IInv, NEW c \in Clients, FlowOf(c), CountsOf(c), Reading(c)
  PROVE  /\ AtLeast(Writing(c), Received(c))
         /\ ~missed[c] => Follows(Writing(c), Received(c))
<1> DEFINE o == observed[c]
           h == Head(chan[c])
           n == Received(c)
<1>1. /\ n \in Nat /\ since[c] \in Nat /\ Len(o) \in Nat /\ n = since[c] + Len(o)
      /\ n <= totalWritten /\ totalWritten \in Nat
  BY Buffers, LastReceived
<1>2. Fits(c) /\ Flows(c) /\ Ends(c)
  BY DEF CountsOf, FlowOf, Reading
<1>3. ~missed[c] => Follows(o, since[c]) /\ Complete(c)
  BY DEF CountsOf
<1>4. CASE pc[c] = "replaying"
  <2>1. Writing(c) = replay[c] /\ o = <<>>
    BY <1>2, <1>4 DEF Writing, Ends
  <2>2. n = since[c]
    BY <1>1, <2>1
  <2>3. floor[c] >= n /\ Follows(replay[c], floor[c]) /\ floor[c] \in Nat
    BY <1>2, <1>4, <2>2 DEF Fits, IInv, TypeOK
  <2>4. AtLeast(replay[c], n)
    <3> HIDE DEF n
    <3> QED
      BY <1>1, <2>3 DEF AtLeast, Follows
  <2>5. ~missed[c] => Follows(replay[c], n)
    BY <1>3, <2>2, <2>3 DEF Complete
  <2> QED
    BY <2>1, <2>4, <2>5
<1>5. CASE pc[c] = "live" /\ chan[c] = <<>>
  <2>1. Writing(c) = <<>> /\ Len(<<>>) = 0
    BY <1>5 DEF Writing
  <2> QED
    BY <2>1 DEF AtLeast, Follows
<1>6. CASE pc[c] = "live" /\ chan[c] # <<>>
  <2>1. Writing(c) = h /\ replay[c] = <<>>
    BY <1>2, <1>6 DEF Writing, Ends
  <2>2. /\ h \in Seq(Positions) /\ Len(h) \in Nat /\ DOMAIN h = 1..Len(h)
        /\ Queued(chan[c]) = ToSet(h) \cup Queued(Tail(chan[c]))
        /\ Below(ToSet(h), Queued(Tail(chan[c])))
    BY <1>2, <1>6, Buffers, QueueShrinks, LenProperties DEF Flows
  <2>3. Consecutive(h)
    <3>1. Len(chan[c]) \in Nat /\ Len(chan[c]) # 0 /\ h = chan[c][1]
      BY <1>6, Buffers, LenProperties, EmptySeq, HeadTailProperties
    <3>2. 1 \in 1..Len(chan[c])
      BY <3>1
    <3> QED
      BY <1>2, <3>1, <3>2 DEF Fits
  <2>4. /\ Below(ToSet(o), ToSet(h)) /\ ToSet(h) \subseteq Given(c)
    BY <2>1, WritingFlows DEF Reading
  <2>5. ToSet(h) \subseteq 1..totalWritten
    BY <2>4 DEF FlowOf
  <2> HIDE DEF h
  <2>6. CASE Len(h) = 0
    BY <2>1, <2>6 DEF AtLeast, Follows
  <2>7. CASE Len(h) # 0
    <3>1. 1 \in 1..Len(h) /\ h[1] \in ToSet(h)
      BY <2>2, <2>7 DEF ToSet
    <3>2. h[1] \in Nat /\ h[1] <= totalWritten
      BY <2>5, <3>1, <1>1
    <3>3. h[1] > n
      <4>1. CASE o = <<>>
        <5>1. h[1] > since[c]
          BY <1>2, <2>2, <3>1 DEF Fits
        <5> QED
          BY <1>1, <4>1, <5>1
      <4>2. CASE o # <<>>
        <5>1. o[Len(o)] \in ToSet(o) /\ o[Len(o)] >= n
          BY <4>2, LastReceived
        <5>2. o[Len(o)] < h[1]
          BY <2>4, <3>1, <5>1 DEF Below
        <5>3. o[Len(o)] \in Nat
          BY <5>1, <1>1 DEF FlowOf, Given
        <5> HIDE DEF n, o
        <5> QED
          BY <1>1, <3>2, <5>1, <5>2, <5>3
      <4> QED
        BY <4>1, <4>2
    <3>4. ~missed[c] => h[1] = n + 1
      <4> SUFFICES ASSUME ~missed[c] PROVE h[1] = n + 1
        OBVIOUS
      <4>1. n + 1 \in (since[c] + 1)..totalWritten
        BY <1>1, <3>2, <3>3
      <4>2. n + 1 \in Given(c)
        BY <1>3, <4>1 DEF Complete
      <4>3. n + 1 \notin ToSet(o)
        <5>1. DOMAIN o = 1..Len(o) /\ Follows(o, since[c])
          BY <1>3, Buffers, LenProperties
        <5> QED
          BY <1>1, <5>1 DEF ToSet, Follows
      <4>4. n + 1 \in ToSet(h) \cup Queued(Tail(chan[c]))
        BY <2>1, <2>2, <4>2, <4>3, Nothing DEF Given
      <4>5. n + 1 \notin Queued(Tail(chan[c]))
        <5>1. ASSUME n + 1 \in Queued(Tail(chan[c])) PROVE FALSE
          <6>1. h[1] < n + 1
            BY <2>2, <3>1, <5>1 DEF Below
          <6> HIDE DEF n
          <6> QED
            BY <1>1, <3>2, <3>3, <6>1
        <5> QED
          BY <5>1
      <4>6. PICK j \in 1..Len(h) : h[j] = n + 1
        BY <2>2, <4>4, <4>5 DEF ToSet
      <4>7. h[j] = h[1] - 1 + j
        BY <2>3 DEF Consecutive
      <4> HIDE DEF n
      <4> QED
        BY <1>1, <2>2, <3>2, <3>3, <4>6, <4>7
    <3> HIDE DEF n
    <3>5. AtLeast(h, n)
      BY <1>1, <2>2, <2>3, <3>2, <3>3 DEF AtLeast, Consecutive
    <3>6. ~missed[c] => Follows(h, n)
      BY <1>1, <2>2, <2>3, <3>2, <3>4 DEF Follows, Consecutive
    <3> QED
      BY <2>1, <3>5, <3>6 DEF n
  <2> QED
    BY <2>6, <2>7
<1> QED
  BY <1>4, <1>5, <1>6 DEF Reading

(* Whatever part of it the writer takes.                                    *)
LEMMA WrittenFits ==
  ASSUME IInv, NEW c \in Clients, FlowOf(c), CountsOf(c), Reading(c),
         NEW k \in 0..Len(Writing(c)), NEW w \in Seq(Positions),
         w = Writing(c) \/ w = SubSeq(Writing(c), 1, k),
         observed'[c] = observed[c] \o w
  PROVE  /\ AtLeast(observed'[c], since[c])
         /\ ~missed[c] => Follows(observed'[c], since[c])
<1>1. /\ observed[c] \in Seq(Positions) /\ since[c] \in Nat /\ Received(c) \in Nat
      /\ Received(c) = since[c] + Len(observed[c])
  BY Buffers, LastReceived
<1>2. /\ Writing(c) \in Seq(Positions) /\ AtLeast(Writing(c), Received(c))
      /\ ~missed[c] => Follows(Writing(c), Received(c))
  BY WritingFits, WritingBytes DEF IInv
<1>3. AtLeast(w, Received(c)) /\ (~missed[c] => Follows(w, Received(c)))
  <2>1. CASE w = Writing(c)
    BY <1>2, <2>1
  <2>2. CASE w = SubSeq(Writing(c), 1, k)
    BY <1>1, <1>2, <2>2, PrefixFits
  <2> QED
    BY <2>1, <2>2
<1>4. AtLeast(observed[c], since[c]) /\ (~missed[c] => Follows(observed[c], since[c]))
  BY DEF CountsOf
<1> QED
  BY <1>1, <1>3, <1>4, ConcatFits

(* A client that a step does not touch.                                     *)
LEMMA CountsStay ==
  ASSUME NEW c \in Clients, CountsOf(c), pc'[c] = pc[c], observed'[c] = observed[c],
         replay'[c] = replay[c], chan'[c] = chan[c], floor'[c] = floor[c],
         since'[c] = since[c], missed'[c] = missed[c], totalWritten' = totalWritten
  PROVE  CountsOf(c)'
<1>1. Given(c)' = Given(c)
  BY DEF Given
<1>2. Fits(c)' = Fits(c) /\ Complete(c)' = Complete(c) /\ Reading(c)' = Reading(c)
  BY <1>1 DEF Fits, Complete, Reading
<1> QED
  BY <1>2 DEF CountsOf

(* Write: a chunk is either given to a reading client or missed by it.      *)
LEMMA WriteCounts ==
  ASSUME IInv, Flow, NEW n \in 1..MaxWrite, Write(n), NEW c \in Clients, CountsOf(c)
  PROVE  CountsOf(c)'
<1> DEFINE p == Chunk(n)
<1>1. /\ totalWritten + n <= MaxTotal /\ totalWritten' = totalWritten + n /\ ~closed
      /\ UNCHANGED <<pc, observed, replay, floor, since>>
      /\ chan'[c] = IF c \in subs /\ ~Full(c) THEN Append(chan[c], p) ELSE chan[c]
  BY DEF Write, clientVars
<1>2. /\ ~missed'[c] => ~missed[c]
      /\ c \in subs /\ Full(c) /\ pc[c] # "broken" => missed'[c]
  BY DEF Write
<1>3. /\ totalWritten \in Nat /\ n \in Nat /\ since[c] \in Nat /\ since[c] <= totalWritten
  BY Buffers DEF IInv, TypeOK, CountsOf
<1>4. /\ p \in Seq(Positions) /\ ToSet(p) = (totalWritten + 1)..(totalWritten + n)
      /\ Consecutive(p)
  <2>1. p[1] = totalWritten + 1 /\ Len(p) = n
        /\ \A i \in 1..Len(p) : p[i] = totalWritten + i
    BY <1>3 DEF Chunk
  <2>2. Consecutive(p)
    BY <1>3, <2>1 DEF Consecutive
  <2> QED
    BY <1>1, <2>2, ChunkFlows
<1> HIDE DEF p
<1>5. CASE ~Reading(c)
  <2>1. ~Reading(c)'
    BY <1>1, <1>5 DEF Reading
  <2>2. since'[c] <= totalWritten' /\ AtLeast(observed[c], since[c])'
    BY <1>1, <1>3 DEF CountsOf
  <2>3. ~missed'[c] => Follows(observed[c], since[c])'
    BY <1>1, <1>2 DEF CountsOf
  <2> QED
    BY <2>1, <2>2, <2>3 DEF CountsOf
<1>6. CASE Reading(c)
  <2>1. c \in subs /\ pc[c] # "broken"
    BY <1>1, <1>6 DEF Flow, FlowOf, Ends, IInv, ClosedOnce, Attached, Reading
  <2>2. /\ Fits(c) /\ chan[c] \in Seq(Seq(Positions))
    BY <1>6, Buffers DEF CountsOf
  <2>3. Given(c)' = IF ~Full(c) THEN Given(c) \cup ToSet(p) ELSE Given(c)
    BY <2>1, WriteFlows DEF p
  <2>4. CASE Full(c)
    <3>1. chan'[c] = chan[c] /\ missed'[c]
      BY <1>1, <1>2, <2>1, <2>4
    <3>2. Fits(c)'
      BY <1>1, <2>2, <3>1 DEF Fits
    <3>3. since'[c] <= totalWritten' /\ AtLeast(observed[c], since[c])'
      BY <1>1, <1>3 DEF CountsOf
    <3> QED
      BY <3>1, <3>2, <3>3 DEF CountsOf
  <2>5. CASE ~Full(c)
    <3>1. chan'[c] = Append(chan[c], p)
      BY <1>1, <2>1, <2>5
    <3>2. /\ Queued(chan'[c]) = Queued(chan[c]) \cup ToSet(p)
          /\ Len(chan'[c]) = Len(chan[c]) + 1 /\ Len(chan[c]) \in Nat
          /\ chan'[c][Len(chan[c]) + 1] = p
          /\ \A k \in 1..Len(chan[c]) : chan'[c][k] = chan[c][k]
      <4> DEFINE q == chan[c]
      <4>1. q \in Seq(Seq(Positions)) /\ p \in Seq(Positions)
        BY <1>4, <2>2
      <4> HIDE DEF q
      <4>2. Queued(Append(q, p)) = Queued(q) \cup ToSet(p)
        BY <4>1, QueueGrows
      <4>3. /\ Len(q) \in Nat /\ Len(Append(q, p)) = Len(q) + 1
            /\ Append(q, p)[Len(q) + 1] = p
            /\ \A k \in 1..Len(q) : Append(q, p)[k] = q[k]
        BY <4>1, AppendProperties, LenProperties
      <4> QED
        BY <3>1, <4>2, <4>3 DEF q
    <3>3. \A q \in Queued(chan'[c]) : q > since[c]
      BY <1>3, <1>4, <2>2, <3>2 DEF Fits
    <3>4. ASSUME NEW k \in 1..Len(chan'[c]) PROVE Consecutive(chan'[c][k])
      <4>1. k \in 1..Len(chan[c]) \/ k = Len(chan[c]) + 1
        BY <3>2
      <4> QED
        BY <1>4, <2>2, <3>2, <4>1 DEF Fits
    <3>5. Fits(c)'
      BY <1>1, <2>2, <3>3, <3>4 DEF Fits
    <3>6. Complete(c) => Complete(c)'
      <4>1. (since[c] + 1)..(totalWritten + n) =
              ((since[c] + 1)..totalWritten) \cup ((totalWritten + 1)..(totalWritten + n))
        BY <1>3
      <4> QED
        BY <1>1, <1>4, <2>3, <2>5, <4>1 DEF Complete
    <3>7. since'[c] <= totalWritten' /\ AtLeast(observed[c], since[c])'
      BY <1>1, <1>3 DEF CountsOf
    <3>8. ~missed'[c] => Follows(observed[c], since[c])' /\ Complete(c)'
      BY <1>1, <1>6, <1>2, <3>6 DEF CountsOf
    <3> QED
      BY <3>5, <3>7, <3>8 DEF CountsOf
  <2> QED
    BY <2>4, <2>5
<1> QED
  BY <1>5, <1>6

(* subscribeSince: the replay begins behind the number of bytes received.   *)
LEMMA AttachCounts ==
  ASSUME IInv, Flow, NEW c \in Clients, Attach(c), CountsOf(c)
  PROVE  CountsOf(c)'
<1> DEFINE first == totalWritten - Len(ring)
<1>1. /\ floor'[c] \in Nat /\ floor'[c] = Larger(since[c], first)
      /\ Follows(replay'[c], floor'[c])
      /\ chan'[c] = <<>> /\ pc[c] = "idle" /\ pc'[c] = "replaying"
      /\ ~missed'[c] => ~missed[c] /\ ~(since[c] < first)
      /\ UNCHANGED <<totalWritten, since, observed>>
  BY AttachReplays DEF Follows
<1>2. /\ since[c] \in Nat /\ first \in Nat
  BY BrokerAssumption, LenProperties DEF IInv, TypeOK, RingIsTail
<1>3. Given(c)' = (floor'[c] + 1)..totalWritten
  BY AttachFlows
<1> HIDE DEF first
<1>4. floor'[c] >= since[c] /\ (~missed'[c] => floor'[c] = since[c])
  BY <1>1, <1>2 DEF Larger
<1>5. Fits(c)'
  <2>1. Queued(chan'[c]) = {} /\ Len(chan'[c]) = 0
    BY <1>1, Nothing
  <2> QED
    BY <1>1, <1>4, <2>1 DEF Fits
<1>6. ~missed'[c] => Complete(c)'
  BY <1>1, <1>3, <1>4 DEF Complete
<1>7. since'[c] <= totalWritten' /\ AtLeast(observed[c], since[c])'
  BY <1>1 DEF CountsOf
<1>8. ~missed'[c] => Follows(observed[c], since[c])'
  BY <1>1 DEF CountsOf
<1> QED
  BY <1>5, <1>6, <1>7, <1>8 DEF CountsOf

(* copyStream and cancel.                                                   *)
LEMMA CopyCounts ==
  ASSUME IInv, Flow, NEW c \in Clients, CopyStream(c) \/ CopyBreak(c), CountsOf(c)
  PROVE  CountsOf(c)'
<1>0. /\ FlowOf(c) /\ Len(Writing(c)) \in Nat /\ Writing(c) \in Seq(Positions)
  BY WritingBytes, LenProperties DEF Flow, IInv
<1>1. pc'[c] \in {"replaying", "live", "eof"} => Given(c)' = Given(c)
  BY CopyFlows
<1>2. CASE CopyReplay(c)
  <2>1. /\ observed'[c] = observed[c] \o Writing(c) /\ Reading(c)
        /\ pc'[c] = "live"
        /\ UNCHANGED <<totalWritten, chan, since, missed, floor>>
    BY <1>2 DEF CopyReplay, Writing, Reading, ringVars, IInv, TypeOK
  <2>2. /\ AtLeast(observed'[c], since[c])
        /\ ~missed[c] => Follows(observed'[c], since[c])
    <3>1. 0 \in 0..Len(Writing(c))
      BY <1>0
    <3> QED
      BY <1>0, <2>1, <3>1, WrittenFits
  <2>3. Fits(c)' /\ (Complete(c) => Complete(c)')
    BY <1>1, <2>1 DEF CountsOf, Fits, Complete
  <2> QED
    BY <2>1, <2>2, <2>3 DEF CountsOf
<1>3. CASE CopyChunk(c)
  <2>1. /\ observed'[c] = observed[c] \o Writing(c) /\ Reading(c)
        /\ pc'[c] = "live" /\ chan[c] # <<>> /\ chan'[c] = Tail(chan[c])
        /\ UNCHANGED <<totalWritten, since, missed, floor>>
    BY <1>3 DEF CopyChunk, Writing, Reading, ringVars, IInv, TypeOK
  <2>2. /\ AtLeast(observed'[c], since[c])
        /\ ~missed[c] => Follows(observed'[c], since[c])
    <3>1. 0 \in 0..Len(Writing(c))
      BY <1>0
    <3> QED
      BY <1>0, <2>1, <3>1, WrittenFits
  <2>3. Fits(c) /\ (~missed[c] => Complete(c))
    BY <2>1 DEF CountsOf
  <2>4. Queued(chan'[c]) \subseteq Queued(chan[c])
    BY <2>1, Buffers, QueueShrinks
  <2>5. ASSUME NEW k \in 1..Len(chan'[c]) PROVE Consecutive(chan'[c][k])
    <3>1. /\ Len(chan[c]) \in Nat /\ Len(chan'[c]) = Len(chan[c]) - 1
          /\ chan'[c][k] = chan[c][k + 1]
      BY <2>1, Buffers, LenProperties, HeadTailProperties
    <3>2. k + 1 \in 1..Len(chan[c])
      BY <3>1
    <3> QED
      BY <2>3, <3>1, <3>2 DEF Fits
  <2>6. Fits(c)'
    BY <2>1, <2>3, <2>4, <2>5 DEF Fits
  <2>7. Complete(c) => Complete(c)'
    BY <1>1, <2>1 DEF Complete
  <2> QED
    BY <2>1, <2>2, <2>3, <2>6, <2>7 DEF CountsOf
<1>4. CASE CopyEOF(c)
  <2>1. /\ pc'[c] = "eof" /\ UNCHANGED <<totalWritten, observed, since, missed>>
    BY <1>4 DEF CopyEOF, ringVars, IInv, TypeOK
  <2> QED
    BY <2>1 DEF CountsOf, Reading
<1>5. CASE CopyBreak(c)
  <2>1. PICK k \in 0..Len(Writing(c)) :
          observed' = [observed EXCEPT ![c] = @ \o SubSeq(Writing(c), 1, k)]
    BY <1>5 DEF CopyBreak
  <2>2. /\ observed'[c] = observed[c] \o SubSeq(Writing(c), 1, k) /\ Reading(c)
        /\ pc'[c] = "broken" /\ UNCHANGED <<totalWritten, since, missed>>
    BY <1>5, <2>1 DEF CopyBreak, Reading, ringVars, IInv, TypeOK
  <2>3. SubSeq(Writing(c), 1, k) \in Seq(Positions)
    BY <1>0, PrefixBytes
  <2>4. /\ AtLeast(observed'[c], since[c])
        /\ ~missed[c] => Follows(observed'[c], since[c])
    BY <1>0, <2>2, <2>3, WrittenFits
  <2> QED
    BY <2>2, <2>4 DEF CountsOf, Reading
<1>6. CASE Cancel(c)
  <2>1. /\ pc'[c] = "idle" /\ observed'[c] = <<>> /\ since'[c] = Received(c)
        /\ UNCHANGED totalWritten /\ Len(<<>>) = 0
    BY <1>6 DEF Cancel, ringVars, IInv, TypeOK
  <2>2. Received(c) <= totalWritten
    BY <1>0, LastReceived
  <2> QED
    BY <2>1, <2>2 DEF CountsOf, Reading, AtLeast, Follows
<1> QED
  BY <1>2, <1>3, <1>4, <1>5, <1>6 DEF CopyStream

LEMMA CountsStep == IInv /\ Flow /\ Counts /\ [Next]_vars => Counts'
<1> SUFFICES ASSUME IInv, Flow, Counts, [Next]_vars, NEW d \in Clients
             PROVE  CountsOf(d)'
  BY DEF Counts
<1>0. CountsOf(d)
  BY DEF Counts
<1>1. ASSUME NEW n \in 1..MaxWrite, Write(n) PROVE CountsOf(d)'
  BY <1>0, <1>1, WriteCounts
<1>2. CASE Close \/ UNCHANGED vars
  <2>1. UNCHANGED <<totalWritten, pc, observed, replay, chan, floor, since, missed>>
    BY <1>2 DEF Close, vars, ringVars, clientVars
  <2> QED
    BY <1>0, <2>1, CountsStay
<1>3. ASSUME NEW c \in Clients, Attach(c) \/ CopyStream(c) \/ CopyBreak(c)
      PROVE  CountsOf(d)'
  <2>1. CASE d = c
    BY <1>0, <1>3, <2>1, AttachCounts, CopyCounts
  <2>2. CASE d # c
    BY <1>0, <1>3, <2>2, Apart, CountsStay
  <2> QED
    BY <2>1, <2>2
<1> QED
  BY <1>1, <1>2, <1>3 DEF Next

(* A client that resumes with the number of bytes it has received           *)
(* (subscribeSince, copyStream) gets bytes beyond that number, in order and *)
(* once in each attach, is never ahead of the stream, and while it has      *)
(* missed nothing gets exactly what follows; for every capacity of ring and *)
(* channels, any number of clients and any cut.                             *)
THEOREM ResumeCorrect == Spec => []ResumeIsExact
<1>1. IInv /\ Flow /\ Counts => ResumeIsExact
  <2> SUFFICES ASSUME IInv, Flow, Counts, NEW c \in Clients
               PROVE  /\ Increasing(observed[c])
                      /\ \A i \in 1..Len(observed[c]) : observed[c][i] > since[c]
                      /\ Received(c) <= totalWritten
                      /\ ~missed[c] => \A i \in 1..Len(observed[c]) :
                                         observed[c][i] = since[c] + i
    BY DEF ResumeIsExact
  <2>1. FlowOf(c) /\ CountsOf(c)
    BY DEF Flow, Counts
  <2>2. ASSUME NEW i \in 1..Len(observed[c]) PROVE observed[c][i] > since[c]
    <3>1. /\ observed[c][i] \in Nat /\ since[c] \in Nat /\ i \in Nat \ {0}
      <4>1. observed[c] \in Seq(Positions) /\ since[c] \in Nat
        BY Buffers DEF IInv, TypeOK
      <4>2. observed[c][i] \in Positions
        BY <4>1, LenProperties
      <4> QED
        BY <4>1, <4>2 DEF Positions
    <3>2. observed[c][i] >= since[c] + i
      BY <2>1 DEF CountsOf, AtLeast
    <3> QED
      BY <3>1, <3>2
  <2> QED
    BY <2>1, <2>2, LastReceived DEF FlowOf, CountsOf, Follows
<1>2. Spec => [](IInv /\ Flow /\ Counts)
  BY IInit, IStep, FlowInit, FlowStep, CountsInit, CountsStep, PTL DEF Spec
<1> QED
  BY <1>1, <1>2, PTL

(***************************************************************************)
(* What is lost is counted.                                                *)
(***************************************************************************)

(* The blocks of n numbers that a block number and a place in it name.      *)
LEMMA Blocks ==
  ASSUME NEW n \in Nat, NEW k \in Nat,
         NEW i \in 1..k, NEW j \in 1..n
  PROVE  /\ (i - 1) * n + j \in 1..(k * n)
         /\ \A a \in 1..k, b \in 1..n : (i - 1) * n + j = (a - 1) * n + b
                                          => i = a /\ j = b
<1>1. ASSUME NEW x \in Nat, NEW y \in Nat, x <= y PROVE x * n <= y * n
  BY <1>1
<1>2. ASSUME NEW x \in Nat PROVE x * n \in Nat /\ (x + 1) * n = x * n + n
  BY <1>2
<1>3. ASSUME NEW a \in 1..k
      PROVE  /\ a \in Nat /\ a - 1 \in Nat /\ (a - 1) * n \in Nat /\ k * n \in Nat
             /\ a * n = (a - 1) * n + n /\ a * n <= k * n
  <2>1. a \in Nat /\ a - 1 \in Nat /\ (a - 1) + 1 = a /\ a <= k
    BY <1>3
  <2> QED
    BY <1>1, <1>2, <2>1
<1>4. (i - 1) * n + j \in 1..(k * n)
  BY <1>3
<1>5. ASSUME NEW a \in 1..k, NEW b \in 1..k, a < b,
             NEW c \in 1..n, NEW d \in 1..n
      PROVE  (a - 1) * n + c < (b - 1) * n + d
  <2>1. a <= b - 1 /\ a \in Nat /\ b - 1 \in Nat
    BY <1>5
  <2>2. a * n <= (b - 1) * n
    BY <1>1, <2>1
  <2>3. /\ (a - 1) * n \in Nat /\ (b - 1) * n \in Nat /\ a * n = (a - 1) * n + n
    BY <1>3
  <2>4. (a - 1) * n + n <= (b - 1) * n
    BY <2>2, <2>3
  <2> QED
    BY <2>3, <2>4
<1>6. ASSUME NEW a \in 1..k, NEW b \in 1..n, (i - 1) * n + j = (a - 1) * n + b
      PROVE  i = a /\ j = b
  <2>1. /\ (i - 1) * n \in Nat /\ (a - 1) * n \in Nat
        /\ i \in Nat /\ a \in Nat /\ j \in Nat /\ b \in Nat
    BY <1>3
  <2>2. ~(i < a)
    BY <1>5, <1>6, <2>1
  <2>3. ~(a < i)
    BY <1>5, <1>6, <2>1
  <2>4. i = a
    BY <2>1, <2>2, <2>3
  <2> QED
    BY <1>6, <2>1, <2>4
<1> QED
  BY <1>4, <1>6

(* The bytes of a chunk, once for every client that it does not reach.      *)
LEMMA Pairs ==
  ASSUME NEW F, IsFiniteSet(F), NEW total \in Nat, NEW n \in Nat
  PROVE  /\ IsFiniteSet(F \X ((total + 1)..(total + n)))
         /\ Cardinality(F \X ((total + 1)..(total + n))) <= n * Cardinality(F)
<1> DEFINE P == F \X ((total + 1)..(total + n))
           k == Cardinality(F)
<1>1. k \in Nat /\ ExistsBijection(F, 1..k)
  BY FS_CardinalityType, Fun_ExistsBijSymmetric
<1> HIDE DEF k
<1>2. PICK g \in Bijection(F, 1..k) : TRUE
  BY <1>1 DEF ExistsBijection
<1>3. g \in [F -> 1..k] /\ \A a, b \in F : g[a] = g[b] => a = b
  <2>1. g \in Injection(F, 1..k)
    BY <1>2 DEF Bijection
  <2> QED
    BY <2>1, Fun_InjectionProperties
<1> DEFINE at(i, j) == (i - 1) * n + j
           f == [x \in P |-> at(g[x[1]], x[2] - total)]
<1>4. ASSUME NEW x \in P
      PROVE  g[x[1]] \in 1..k /\ x[2] - total \in 1..n /\ x[1] \in F /\ x[2] \in Nat
             /\ x = <<x[1], x[2]>>
  BY <1>3
<1>5. \A i \in 1..k, j \in 1..n :
        /\ at(i, j) \in 1..(k * n)
        /\ \A a \in 1..k, b \in 1..n : at(i, j) = at(a, b) => i = a /\ j = b
  BY <1>1, Blocks
<1> HIDE DEF at
<1>6. f \in [P -> 1..(k * n)]
  BY <1>4, <1>5
<1>7. ASSUME NEW x \in P, NEW y \in P, f[x] = f[y] PROVE x = y
  <2> DEFINE i == g[x[1]]
             j == x[2] - total
             a == g[y[1]]
             b == y[2] - total
  <2>1. at(i, j) = at(a, b)
    BY <1>7
  <2>2. i \in 1..k /\ j \in 1..n /\ a \in 1..k /\ b \in 1..n
    BY <1>4
  <2>3. i = a /\ j = b
    <3> HIDE DEF i, j, a, b
    <3> QED
      BY <1>5, <2>1, <2>2
  <2>4. x[1] = y[1]
    BY <1>3, <1>4, <2>3
  <2>5. x[2] = y[2]
    BY <1>4, <2>3
  <2> QED
    BY <1>4, <2>4, <2>5
<1> HIDE DEF f
<1>8. f \in Injection(P, 1..(k * n))
  BY <1>6, <1>7, Fun_IsInj
<1>9. k * n \in Nat
  BY <1>1
<1>10. IsFiniteSet(1..(k * n)) /\ Cardinality(1..(k * n)) = k * n
  BY <1>9, FS_Interval
<1> HIDE DEF P
<1>11. IsFiniteSet(P) /\ Cardinality(P) <= k * n
  BY <1>8, <1>10, FS_Injection
<1> QED
  BY <1>1, <1>11 DEF P, k

(* Only so many bytes can be lost.                                          *)
LEMMA LostFinite == IsFiniteSet(Lost)
<1>1. IsFiniteSet(Clients \X Positions)
  <2>1. MaxTotal \in Nat /\ 0 \in Nat /\ Positions = (0 + 1)..(0 + MaxTotal)
    BY BrokerAssumption DEF Positions
  <2> QED
    BY <2>1, BrokerAssumption, Pairs
<1>2. Lost \subseteq Clients \X Positions
  BY DEF Lost
<1> QED
  BY <1>1, <1>2, FS_Subset

LEMMA LossStays ==
  ASSUME NEW n \in Nat, Cardinality(Lost) <= n, Lost' \subseteq Lost
  PROVE  Cardinality(Lost)' <= n
<1>1. /\ IsFiniteSet(Lost') /\ Cardinality(Lost') <= Cardinality(Lost)
      /\ Cardinality(Lost) \in Nat /\ Cardinality(Lost') \in Nat
  BY LostFinite, FS_Subset, FS_CardinalityType
<1> QED
  BY <1>1

(* A chunk misses the attached clients with a full channel, and the counter *)
(* grows by its length for each of them.                                    *)
LEMMA WriteLoses ==
  ASSUME IInv, Flow, NEW n \in 1..MaxWrite, Write(n), Cardinality(Lost) <= dropCnt
  PROVE  Cardinality(Lost)' <= dropCnt'
<1> DEFINE F == {c \in subs : Full(c)}
           P == F \X ((totalWritten + 1)..(totalWritten + n))
<1>1. /\ totalWritten \in Nat /\ n \in Nat /\ IsFiniteSet(F) /\ dropCnt \in Nat
  BY BrokerAssumption, FS_Subset DEF IInv, TypeOK
<1>2. IsFiniteSet(P) /\ Cardinality(P) <= n * Cardinality(F)
  BY <1>1, Pairs
<1>3. /\ totalWritten' = totalWritten + n /\ dropCnt' = dropCnt + n * Cardinality(F)
      /\ UNCHANGED <<floor, pc>> /\ ~closed /\ totalWritten + n <= MaxTotal
  BY DEF Write, Dropped, clientVars
<1>4. ASSUME NEW x \in Lost', x \notin Lost PROVE x \in P
  <2> DEFINE c == x[1]
             p == x[2]
  <2>1. /\ c \in Clients /\ p \in Positions /\ x = <<c, p>>
        /\ pc[c] \in {"replaying", "live", "eof"}
        /\ p \in (floor[c] + 1)..(totalWritten + n) /\ p \notin Given(c)'
    BY <1>3, <1>4 DEF Lost
  <2>2. FlowOf(c) /\ floor[c] \in Nat /\ p \in Nat
    BY <2>1, BrokerAssumption DEF Flow, IInv, TypeOK, Positions
  <2>3. c \in subs
    <3>1. ~chanClosed[c]
      BY <1>3, <2>1, <2>2 DEF FlowOf, Ends, Attached
    <3> QED
      BY <2>1, <3>1 DEF IInv, ClosedOnce, Attached
  <2>4. Given(c)' = IF c \in subs /\ ~Full(c) THEN Given(c) \cup ToSet(Chunk(n))
                    ELSE Given(c)
    BY <2>1, WriteFlows
  <2>5. p \notin (floor[c] + 1)..totalWritten
    BY <1>4, <2>1, <2>4 DEF Lost
  <2>6. p \in (totalWritten + 1)..(totalWritten + n)
    BY <1>1, <2>1, <2>2, <2>5
  <2>7. Full(c)
    BY <1>3, <2>1, <2>3, <2>4, <2>6, ChunkFlows
  <2> QED
    BY <2>1, <2>3, <2>6, <2>7
<1> HIDE DEF F, P
<1>5. Lost' \subseteq Lost \cup P
  BY <1>4
<1>6. /\ Cardinality(Lost \cup P) <= Cardinality(Lost) + Cardinality(P)
      /\ IsFiniteSet(Lost \cup P)
  <2>1. /\ IsFiniteSet(Lost \cup P)
        /\ Cardinality(Lost \cup P) =
             Cardinality(Lost) + Cardinality(P) - Cardinality(Lost \cap P)
    BY <1>2, LostFinite, FS_Union
  <2>2. IsFiniteSet(Lost \cap P) /\ Cardinality(Lost \cap P) \in Nat
    BY LostFinite, FS_Subset, FS_CardinalityType
  <2>3. Cardinality(Lost) \in Nat /\ Cardinality(P) \in Nat
    BY <1>2, LostFinite, FS_CardinalityType
  <2> QED
    BY <2>1, <2>2, <2>3
<1>7. Cardinality(Lost') <= Cardinality(Lost \cup P)
  BY <1>5, <1>6, FS_Subset
<1>8. /\ Cardinality(Lost') \in Nat /\ Cardinality(Lost \cup P) \in Nat
      /\ Cardinality(Lost) \in Nat /\ Cardinality(P) \in Nat
      /\ n * Cardinality(F) \in Nat
  <2>1. IsFiniteSet(Lost')
    BY <1>5, <1>6, FS_Subset
  <2> QED
    BY <1>1, <1>2, <1>6, <2>1, LostFinite, FS_CardinalityType
<1> QED
  BY <1>1, <1>2, <1>3, <1>6, <1>7, <1>8

(* No step but a Write loses anything.                                      *)
LEMMA LossStep ==
  ASSUME IInv, Flow, [Next]_vars, Cardinality(Lost) <= dropCnt
  PROVE  Cardinality(Lost)' <= dropCnt'
<1>0. dropCnt \in Nat
  BY DEF IInv, TypeOK
<1>1. ASSUME UNCHANGED <<dropCnt, totalWritten>>,
             \A c \in Clients :
               pc'[c] \in {"replaying", "live", "eof"} =>
                 \/ /\ pc[c] \in {"replaying", "live", "eof"}
                    /\ floor'[c] = floor[c] /\ Given(c)' = Given(c)
                 \/ (floor'[c] + 1)..totalWritten' \subseteq Given(c)'
      PROVE  Cardinality(Lost)' <= dropCnt'
  <2>1. Lost' \subseteq Lost
    BY <1>1 DEF Lost
  <2> QED
    BY <1>0, <1>1, <2>1, LossStays
<1>2. ASSUME NEW n \in 1..MaxWrite, Write(n) PROVE Cardinality(Lost)' <= dropCnt'
  BY <1>2, WriteLoses
<1>3. CASE Close \/ UNCHANGED vars
  <2>1. UNCHANGED <<dropCnt, totalWritten, pc, floor, observed, replay, chan>>
    BY <1>3 DEF Close, vars, ringVars, clientVars
  <2>2. \A c \in Clients : Given(c)' = Given(c)
    BY <2>1 DEF Given
  <2> QED
    BY <1>1, <2>1, <2>2
<1>4. ASSUME NEW c \in Clients, Attach(c) \/ CopyStream(c) \/ CopyBreak(c)
      PROVE  Cardinality(Lost)' <= dropCnt'
  <2>1. \A d \in Clients \ {c} : pc'[d] = pc[d] /\ floor'[d] = floor[d]
                                 /\ Given(d)' = Given(d)
    BY <1>4, Apart DEF Given
  <2>2. UNCHANGED <<dropCnt, totalWritten>>
    BY <1>4, Apart
  <2>3. CASE Attach(c)
    BY <1>1, <2>1, <2>2, <2>3, AttachFlows
  <2>4. CASE CopyStream(c) \/ CopyBreak(c)
    <3>1. pc'[c] \in {"replaying", "live", "eof"} =>
            pc[c] \in {"replaying", "live", "eof"} /\ floor'[c] = floor[c]
      BY <2>4 DEF CopyStream, CopyReplay, CopyChunk, CopyEOF, CopyBreak, Cancel,
        IInv,
                  TypeOK
    <3>2. pc'[c] \in {"replaying", "live", "eof"} => Given(c)' = Given(c)
      BY <2>4, CopyFlows
    <3> QED
      BY <1>1, <2>1, <2>2, <3>1, <3>2
  <2> QED
    BY <1>4, <2>3, <2>4
<1> QED
  BY <1>2, <1>3, <1>4 DEF Next

(* Every byte a client is owed reaches it or is in the counter (Write), and *)
(* an attach that ends by itself has delivered all there will ever be.      *)
THEOREM LossCorrect == Spec => []LossIsCounted
<1>1. Init => Cardinality(Lost) <= dropCnt
  <2> SUFFICES ASSUME Init PROVE Lost = {} /\ dropCnt = 0
    BY FS_EmptySet
  <2> QED
    BY DEF Init, Lost
<1>2. IInv /\ Flow /\ Cardinality(Lost) <= dropCnt /\ [Next]_vars
        => (Cardinality(Lost) <= dropCnt)'
  BY LossStep
<1>3. Flow /\ Cardinality(Lost) <= dropCnt => LossIsCounted
  BY DEF Flow, FlowOf, Ends, LossIsCounted
<1> QED
  BY <1>1, <1>2, <1>3, FlowInvariance, PTL DEF Spec
=============================================================================
