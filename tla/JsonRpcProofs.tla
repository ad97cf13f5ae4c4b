--------------------------- MODULE JsonRpcProofs ---------------------------
(***************************************************************************)
(* The safety of the pending map and of the end of a JSON-RPC session, for *)
(* every set of Calls and every size of the child's output.                *)
(***************************************************************************)
EXTENDS JsonRpcSessionProperties, SequenceTheorems, TLAPS

(* Where a Call is: in the map, taken by one taker, or neither; only then   *)
(* has its channel been sent to.                                            *)
Unsent(c) == c \in pending \cup taken["reader"] \cup taken["stop"]

(* Whoever waits for it will find, or has found, a message.                 *)
Reached(c) == box[c] # <<>> \/ c \in taken["reader"] \cup taken["stop"]

OnePlace ==
  /\ taken["reader"] \cap taken["stop"] = {}
  /\ \A t \in Takers : pending \cap taken[t] = {}
  /\ \A c \in Calls : Unsent(c) => box[c] = <<>>

(* A Call enters the map once, and leaves it before it returns.             *)
Registered ==
  \A c \in Calls :
    /\ pc[c] \in {"idle", "entered"} => ~Unsent(c) /\ box[c] = <<>>
    /\ pc[c] \in {"registered", "fetched", "writing", "waiting"} =>
         box[c] # <<>> \/ Unsent(c)
    /\ pc[c] = "returned" => c \notin pending

(* Who holds what, by control point.                                        *)
Holding ==
  /\ reader \in {"reading", "responding", "writing", "gone"} =>
    taken["reader"] = {}
  /\ reader = "delivering" => \E c \in Calls : taken["reader"] = {c}
  /\ stopPC # "failing" => taken["stop"] = {}

(* What the waiter of the child has done by each control point.             *)
Ending ==
  /\ waiter # "waiting" => ~inOpen /\ child = "reaped"
  /\ field <=> waiter \in {"waiting", "clearing"}
  /\ waiter \in {"joined", "ended"} => reader = "gone" /\ ~alive
  /\ done <=> waiter = "ended"

(* The input is closed before Stop empties the map, so that no write, and   *)
(* no wait, can begin after it.                                             *)
Stopping ==
  /\ stopPC \in {"taking", "failing", "eof", "grace", "done"} => ~inOpen
  /\ stopPC \in {"failing", "eof", "grace", "done"} =>
       \A c \in Calls : pc[c] = "waiting" => Reached(c)

IInv == TypeOK /\ AnsweredOnce /\ OnePlace /\ Registered /\ Holding /\ Ending
        /\ Stopping

(* The invariant holds when Start returns.                                  *)
LEMMA IInit == Init => IInv
<1> SUFFICES ASSUME Init PROVE IInv
  OBVIOUS
<1> USE JsonRpcAssumption DEF Init
<1>1. TypeOK
  <2>1. frames \in Seq(Calls \cup {"ask"}) /\ Len(frames) <= Cap
    OBVIOUS
  <2>2. /\ taken \in [Takers -> SUBSET Calls]
        /\ box \in [Calls -> Seq({"answer", "closed"})]
    OBVIOUS
  <2>3. /\ holder \in Calls \cup {None, "reader"}
        /\ \A c \in Calls : holder = c <=> pc[c] = "writing"
        /\ holder = "reader" <=> reader = "writing"
    OBVIOUS
  <2>4. written \in 0..MaxFrames
    OBVIOUS
  <2> QED
    BY <2>1, <2>2, <2>3, <2>4, Zenon DEF TypeOK
<1>2. AnsweredOnce /\ OnePlace /\ Registered
  BY DEF AnsweredOnce, OnePlace, Registered, Unsent, Takers
<1>3. Holding /\ Ending /\ Stopping
  BY DEF Holding, Ending, Stopping, Takers
<1> QED
  BY <1>1, <1>2, <1>3 DEF IInv

(* The types alone; the lock is held by who writes.                         *)
Points == {"idle", "entered", "registered", "fetched", "writing", "waiting",
           "leaving", "returned"}
Lock == /\ \A c \in Calls : holder = c <=> pc[c] = "writing"
        /\ holder = "reader" <=> reader = "writing"

(* A step of one Call that neither takes ioLock nor gives it back.          *)
LEMMA CallTypes ==
  ASSUME TypeOK, NEW c \in Calls, NEW from \in Points \ {"writing"},
         NEW to \in Points \ {"writing"}, CallStep(c, from, to),
         UNCHANGED holder, sent' \subseteq Calls, pending' \subseteq Calls
  PROVE  TypeOK'
<1>1. pc' \in [Calls -> Points]
  BY DEF CallStep, TypeOK, Points
<1>2. Lock'
  BY DEF CallStep, TypeOK, Lock
<1>3. UNCHANGED <<child, pipeVars, inOpen, taken, box, field, reader, waiter, stopPC,
                  ends>>
  BY DEF CallStep
<1> QED
  BY <1>1, <1>2, <1>3 DEF TypeOK, Lock, Points, pipeVars, ends

LEMMA WaiterTypes ==
  ASSUME TypeOK, WaiterNext
  PROVE  TypeOK'
<1>1. UNCHANGED <<frames, written, callVars, holder, reader, stopPC, cut>>
  BY
     DEF WaiterNext, WaiterReaps, WaiterClears, WaiterJoins, WaiterDelivers,
         WaiterStep
<1>2. /\ waiter' \in {"waiting", "clearing", "joining", "joined", "ended"}
      /\ child' = child \/ child' = "reaped"
      /\ field' = field \/ field' = FALSE
      /\ inOpen' = inOpen \/ inOpen' = FALSE
      /\ outOpen' = outOpen \/ outOpen' = FALSE
      /\ alive' = alive \/ alive' = FALSE
      /\ done' = done \/ done' = TRUE
  BY
     DEF WaiterNext, WaiterReaps, WaiterClears, WaiterJoins, WaiterDelivers,
         WaiterStep
<1>3. /\ child' \in {"live", "exited", "reaped"} /\ field' \in BOOLEAN
      /\ inOpen' \in BOOLEAN /\ outOpen' \in BOOLEAN
      /\ alive' \in BOOLEAN /\ done' \in BOOLEAN
  BY <1>2 DEF TypeOK
<1> QED
  BY <1>1, <1>2, <1>3 DEF TypeOK, callVars

(* Send, by either taker.                                                   *)
LEMMA SendTypes ==
  ASSUME TypeOK, NEW t \in Takers, NEW m \in {"answer", "closed"}, Send(t, m)
  PROVE  /\ taken' \in [Takers -> SUBSET Calls]
         /\ box' \in [Calls -> Seq({"answer", "closed"})]
         /\ pending' = pending
<1>1. PICK c \in taken[t] :
        /\ box' = [box EXCEPT ![c] = Append(@, m)]
        /\ taken' = [taken EXCEPT ![t] = @ \ {c}]
        /\ UNCHANGED pending
  BY DEF Send
<1>2. taken \in [Takers -> SUBSET Calls] /\ box \in [Calls -> Seq({"answer", "closed"})]
  BY DEF TypeOK
<1>3. c \in Calls /\ Append(box[c], m) \in Seq({"answer", "closed"})
  BY <1>2
<1>4. box' \in [Calls -> Seq({"answer", "closed"})]
  BY <1>1, <1>2, <1>3
<1>5. taken' \in [Takers -> SUBSET Calls]
  BY <1>1, <1>2
<1> QED
  BY <1>1, <1>4, <1>5

LEMMA TakeTypes ==
  ASSUME TypeOK, NEW t \in Takers, NEW cs \in SUBSET Calls, Take(t, cs)
  PROVE  taken' \in [Takers -> SUBSET Calls] /\ pending' \subseteq Calls
BY DEF Take, TypeOK

LEMMA StopTypes ==
  ASSUME TypeOK, StopBegin \/ StopGoes
  PROVE  TypeOK'
<1> USE DEF StopGoes, StopBegin, StopLocks, StopCloses, StopTakes, StopFails,
  StopHasFailed, StopReturns, StopTerminates, StopKills
<1>1. UNCHANGED <<pipeVars, pc, sent, lockVars, reader, waiter, done, cut>>
  BY DEF StopStep
<1>2. stopPC' \in {"idle", "locking", "closing", "taking", "failing", "eof", "grace",
                   "done"}
  BY DEF StopStep, TypeOK
<1>3. /\ child' \in {"live", "exited", "reaped"}
      /\ inOpen' \in BOOLEAN /\ alive' \in BOOLEAN
  BY DEF TypeOK
<1>4. /\ taken' \in [Takers -> SUBSET Calls]
      /\ box' \in [Calls -> Seq({"answer", "closed"})]
      /\ pending' \subseteq Calls
  <2>1. CASE StopTakes
    <3>1. pending \in SUBSET Calls /\ box' = box /\ "stop" \in Takers
      BY <2>1 DEF TypeOK, Takers
    <3> QED
      BY <2>1, <3>1, TakeTypes DEF TypeOK
  <2>2. CASE StopFails
    <3>1. "stop" \in Takers /\ pending \subseteq Calls
      BY DEF TypeOK, Takers
    <3> QED
      BY <2>2, <3>1, SendTypes
  <2>3. CASE UNCHANGED <<box, pending, taken>>
    BY <2>3 DEF TypeOK
  <2> QED
    BY <2>1, <2>2, <2>3
<1> QED
  BY <1>1, <1>2, <1>3, <1>4 DEF TypeOK, pipeVars, lockVars

LEMMA WriteTypes ==
  ASSUME TypeOK, NEW ok \in BOOLEAN, WriteReturns(ok)
  PROVE  TypeOK'
<1>1. UNCHANGED <<child, pipeVars, inOpen, sent, box, pending, taken, field,
                  waiter, stopPC, ends>> /\ holder' = None
  BY DEF WriteReturns
<1>2. CASE holder = "reader"
  <2>1. reader' = "reading" /\ pc' = pc
    BY <1>2 DEF WriteReturns
  <2>2. Lock'
    BY <1>1, <1>2, <2>1, JsonRpcAssumption DEF TypeOK, Lock
  <2> QED
    BY <1>1, <2>1, <2>2 DEF TypeOK, Lock, pipeVars, ends
<1>3. CASE holder # "reader"
  <2>1. /\ holder \in Calls /\ reader' = reader
        /\ pc' = [pc EXCEPT ![holder] = IF ok THEN "waiting" ELSE "leaving"]
    BY <1>3 DEF WriteReturns, TypeOK
  <2>2. pc' \in [Calls -> Points]
    BY <2>1 DEF TypeOK, Points
  <2>3. Lock'
    BY <1>1, <1>3, <2>1, JsonRpcAssumption DEF TypeOK, Lock
  <2> QED
    BY <1>1, <2>1, <2>2, <2>3 DEF TypeOK, Lock, Points, pipeVars, ends
<1> QED
  BY <1>2, <1>3

LEMMA ReaderTypes ==
  ASSUME TypeOK, ReaderNext \/ ReaderEnds
  PROVE  TypeOK'
<1> USE DEF ReaderNext, ReadAnswer, DeliverAnswer, ReadRequest, Respond,
  ReaderFails,
  ReaderGone, ReaderEnds
<1>1. UNCHANGED <<child, written, outOpen, inOpen, pc, sent, field, waiter, stopPC,
                  alive, done>>
  BY DEF ReaderStep
<1>2. reader' \in {"reading", "delivering", "responding", "writing", "failing", "gone"}
  BY DEF ReaderStep
<1>3. frames' \in Seq(Calls \cup {"ask"}) /\ Len(frames') <= Cap
  <2>1. CASE frames # <<>> /\ frames' = Tail(frames)
    BY <2>1, JsonRpcAssumption DEF TypeOK
  <2>2. CASE frames' = frames
    BY <2>2 DEF TypeOK
  <2> QED
    BY <2>1, <2>2 DEF ReadFrame
<1>4. /\ taken' \in [Takers -> SUBSET Calls]
      /\ box' \in [Calls -> Seq({"answer", "closed"})]
      /\ pending' \subseteq Calls
  <2>1. "reader" \in Takers /\ pending \subseteq Calls
        /\ taken \in [Takers -> SUBSET Calls]
        /\ box \in [Calls -> Seq({"answer", "closed"})]
    BY DEF TypeOK, Takers
  <2>2. CASE DeliverAnswer \/ ReaderFails
    BY <2>1, <2>2, SendTypes
  <2>3. CASE ReaderEnds
    BY <2>1, <2>3, TakeTypes
  <2>4. ASSUME NEW c \in Calls, ReadAnswer(c)
        PROVE  /\ taken' \in [Takers -> SUBSET Calls] /\ box' = box
               /\ pending' \subseteq Calls
    <3>1. {c} \in SUBSET Calls /\ box' = box
      BY <2>4 DEF ReadFrame
    <3> QED
      BY <2>1, <2>4, <3>1, TakeTypes
  <2>5. CASE UNCHANGED <<box, pending, taken>>
    BY <2>1, <2>5
  <2> QED
    BY <2>1, <2>2, <2>3, <2>4, <2>5 DEF ReadFrame
<1>5. holder' \in Calls \cup {None, "reader"} /\ cut' \in BOOLEAN
  BY DEF TypeOK, ReadFrame
<1>6. Lock'
  <2>1. CASE holder' = holder /\ (reader' = "writing" <=> reader = "writing")
    BY <1>1, <2>1 DEF TypeOK, Lock
  <2>2. CASE holder = None /\ holder' = "reader" /\ reader' = "writing"
    BY <1>1, <2>2, JsonRpcAssumption DEF TypeOK, Lock
  <2> QED
    BY <2>1, <2>2 DEF ReadFrame, ReaderStep
<1> QED
  BY <1>1, <1>2, <1>3, <1>4, <1>5, <1>6 DEF TypeOK, Lock

LEMMA TypeStep == TypeOK /\ [Next]_vars => TypeOK'
<1> SUFFICES ASSUME TypeOK, [Next]_vars PROVE TypeOK'
  OBVIOUS
<1>0. pending \subseteq Calls /\ sent \subseteq Calls
  BY DEF TypeOK
<1>1. CASE ChildExit
  BY <1>1 DEF ChildExit, TypeOK, pipeVars, callVars, lockVars, ends
<1>2. CASE ChildWrites
  <2>1. frames' \in Seq(Calls \cup {"ask"}) /\ Len(frames') <= Cap
    BY <1>2, JsonRpcAssumption DEF ChildWrites, TypeOK
  <2>2. written' \in 0..MaxFrames
    BY <1>2, JsonRpcAssumption DEF ChildWrites, TypeOK
  <2>3. UNCHANGED <<child, outOpen, inOpen, callVars, lockVars, reader, waiter, stopPC,
                    ends>>
    BY <1>2 DEF ChildWrites
  <2> QED
    BY <2>1, <2>2, <2>3 DEF TypeOK, callVars, lockVars, ends
<1>3. ASSUME NEW c \in Calls,
             CallEnter(c) \/ CallUnencodable(c) \/ CallRegister(c) \/ CallFetch(c)
             \/ CallReceives(c) \/ CallLeaves(c) \/ CallCancelled(c)
      PROVE  TypeOK'
  <2>1. \E from, to \in Points \ {"writing"} : CallStep(c, from, to)
    BY <1>3
       DEF CallEnter, CallUnencodable, CallRegister, CallFetch, CallReceives,
      CallLeaves, CallCancelled, Points
  <2>2. UNCHANGED holder /\ sent' \subseteq Calls /\ pending' \subseteq Calls
    BY <1>0, <1>3
       DEF CallEnter, CallUnencodable, CallRegister, CallFetch, CallReceives,
      CallLeaves, CallCancelled
  <2> QED
    BY <2>1, <2>2, CallTypes
<1>4. ASSUME NEW c \in Calls, CallWrite(c) PROVE TypeOK'
  <2>1. /\ holder = None /\ holder' = c /\ pc' = [pc EXCEPT ![c] = "writing"]
        /\ sent' \subseteq Calls /\ pending' = pending
        /\ UNCHANGED <<child, pipeVars, inOpen, taken, box, field, reader, waiter,
                       stopPC, ends>>
    BY <1>0, <1>4 DEF CallWrite, CallStep
  <2>2. pc' \in [Calls -> Points]
    BY <2>1 DEF TypeOK, Points
  <2>3. Lock'
    BY <2>1, JsonRpcAssumption DEF TypeOK, Lock
  <2> QED
    BY <2>1, <2>2, <2>3 DEF TypeOK, Lock, Points, pipeVars, ends
<1>5. CASE UNCHANGED vars
  BY <1>5 DEF TypeOK, vars, pipeVars, callVars, lockVars, ends
<1> QED
  BY <1>1, <1>2, <1>3, <1>4, <1>5, ReaderTypes, WaiterTypes, StopTypes, WriteTypes
     DEF Next, CallGoes, WriteSucceeds, WriteFails

Boxed == /\ pc \in [Calls -> Points] /\ taken \in [Takers -> SUBSET Calls]
         /\ box \in [Calls -> Seq({"answer", "closed"})] /\ pending \subseteq Calls

(* A step that leaves the map and the Calls alone.                          *)
LEMMA MapStays ==
  ASSUME AnsweredOnce, OnePlace, Registered, UNCHANGED <<box, pending, taken, pc>>
  PROVE  AnsweredOnce' /\ OnePlace' /\ Registered'
BY DEF AnsweredOnce, OnePlace, Registered, Unsent

(* Taking Calls out of the map loses none: each is still to be sent to.     *)
LEMMA TakeKeeps ==
  ASSUME Boxed, AnsweredOnce, OnePlace, Registered, NEW t \in Takers, taken[t] = {},
         NEW cs \in SUBSET pending, Take(t, cs), UNCHANGED <<box, pc>>
  PROVE  /\ AnsweredOnce' /\ OnePlace' /\ Registered'
         /\ \A u \in Takers : taken'[u] = IF u = t THEN cs ELSE taken[u]
         /\ \A c \in Calls : Reached(c) => Reached(c)'
<1>1. /\ taken' = [taken EXCEPT ![t] = cs] /\ pending' = pending \ cs
      /\ taken \in [Takers -> SUBSET Calls] /\ pending \subseteq Calls
  BY DEF Take, Boxed
<1>2. \A u \in Takers : taken'[u] = IF u = t THEN cs ELSE taken[u]
  BY <1>1
<1>3. \A c \in Calls : Unsent(c)' <=> Unsent(c)
  BY <1>1, <1>2 DEF Unsent, Takers
<1>4. AnsweredOnce'
  BY DEF AnsweredOnce
<1>5. OnePlace'
  <2>1. taken'["reader"] \cap taken'["stop"] = {}
    BY <1>2 DEF OnePlace, Takers
  <2>2. \A u \in Takers : pending' \cap taken'[u] = {}
    BY <1>1, <1>2 DEF OnePlace
  <2>3. \A c \in Calls : Unsent(c)' => box'[c] = <<>>
    BY <1>3 DEF OnePlace
  <2> QED
    BY <2>1, <2>2, <2>3 DEF OnePlace
<1>6. Registered'
  BY <1>1, <1>3 DEF Registered
<1>7. \A c \in Calls : Reached(c) => Reached(c)'
  BY <1>2 DEF Reached, Takers
<1> QED
  BY <1>2, <1>4, <1>5, <1>6, <1>7

(* What is sent to a taken Call is the only message on its channel.         *)
LEMMA SendKeeps ==
  ASSUME Boxed, AnsweredOnce, OnePlace, Registered, NEW t \in Takers,
         NEW m \in {"answer", "closed"}, Send(t, m), UNCHANGED pc
  PROVE  /\ AnsweredOnce' /\ OnePlace' /\ Registered'
         /\ \A u \in Takers : u # t => taken'[u] = taken[u]
         /\ \E c \in taken[t] : taken'[t] = taken[t] \ {c}
         /\ \A c \in Calls : Reached(c) => Reached(c)'
<1>1. PICK c \in taken[t] :
        /\ box' = [box EXCEPT ![c] = Append(@, m)]
        /\ taken' = [taken EXCEPT ![t] = @ \ {c}]
        /\ UNCHANGED pending
  BY DEF Send
<1>2. /\ c \in Calls /\ Unsent(c) /\ box[c] = <<>>
      /\ \A u \in Takers : u # t => c \notin taken[u]
      /\ c \notin pending
  BY DEF Boxed, OnePlace, Unsent, Takers
<1>3. /\ \A u \in Takers : taken'[u] = IF u = t THEN taken[u] \ {c} ELSE taken[u]
      /\ \A d \in Calls : d # c => box'[d] = box[d]
  BY <1>1, <1>2 DEF Boxed
<1>4. box'[c] = <<m>>
  BY <1>1, <1>2 DEF Boxed
<1>5. ~Unsent(c)' /\ \A d \in Calls : d # c => (Unsent(d)' <=> Unsent(d))
  BY <1>1, <1>2, <1>3 DEF Unsent, Takers
<1>6. AnsweredOnce'
  <2>1. Len(box'[c]) <= 1
    <3>1. Len(<<m>>) <= 1
      OBVIOUS
    <3> QED
      BY <1>4, <3>1, Zenon
  <2>2. ASSUME NEW d \in Calls PROVE Len(box'[d]) <= 1
    <3>1. CASE d = c
      BY <2>1, <3>1, Zenon
    <3>2. CASE d # c
      <4>1. Len(box[d]) <= 1 /\ box'[d] = box[d]
        BY <1>3, <3>2 DEF AnsweredOnce
      <4> QED
        BY <4>1
    <3> QED
      BY <3>1, <3>2
  <2> QED
    BY <2>2 DEF AnsweredOnce
<1>7. OnePlace'
  <2>1. taken'["reader"] \cap taken'["stop"] = {}
    BY <1>3 DEF OnePlace, Takers
  <2>2. \A u \in Takers : pending' \cap taken'[u] = {}
    BY <1>1, <1>3 DEF OnePlace
  <2>3. \A d \in Calls : Unsent(d)' => box'[d] = <<>>
    BY <1>3, <1>5 DEF OnePlace
  <2> QED
    BY <2>1, <2>2, <2>3 DEF OnePlace
<1>8. Registered'
  <2>1. ASSUME NEW d \in Calls, pc[d] \in {"idle", "entered"}
        PROVE  ~Unsent(d)' /\ box'[d] = <<>>
    BY <1>2, <1>3, <1>5, <2>1 DEF Registered
  <2>2. ASSUME NEW d \in Calls,
               pc[d] \in {"registered", "fetched", "writing", "waiting"}
        PROVE  box'[d] # <<>> \/ Unsent(d)'
    BY <1>3, <1>4, <1>5, <2>2 DEF Registered
  <2>3. \A d \in Calls : pc[d] = "returned" => d \notin pending'
    BY <1>1 DEF Registered
  <2> QED
    BY <2>1, <2>2, <2>3 DEF Registered
<1>9. \A d \in Calls : Reached(d) => Reached(d)'
  BY <1>2, <1>3, <1>4 DEF Reached, Takers
<1> QED
  BY <1>3, <1>6, <1>7, <1>8, <1>9

LEMMA StillStopping ==
  ASSUME Stopping, \A c \in Calls : Reached(c) => Reached(c)', 
         UNCHANGED <<pc, stopPC, inOpen>>
  PROVE  Stopping'
BY DEF Stopping

(* Every step keeps it: one case per action.                                *)
LEMMA IStep == IInv /\ [Next]_vars => IInv'
<1> SUFFICES ASSUME IInv, [Next]_vars PROVE IInv'
  OBVIOUS
<1>0. TypeOK /\ TypeOK'
  BY TypeStep DEF IInv
<1>f. /\ pc \in [Calls -> Points] /\ taken \in [Takers -> SUBSET Calls]
      /\ box \in [Calls -> Seq({"answer", "closed"})] /\ pending \subseteq Calls
      /\ "reader" \in Takers /\ "stop" \in Takers
  BY <1>0 DEF TypeOK, Points, Takers
<1>b. Boxed
  BY <1>f DEF Boxed
<1>h. /\ \A c \in Calls : holder = c <=> pc[c] = "writing"
      /\ holder = "reader" <=> reader = "writing"
  BY <1>0 DEF TypeOK
<1>i. AnsweredOnce /\ OnePlace /\ Registered /\ Holding /\ Ending /\ Stopping
  BY DEF IInv
<1>q. AnsweredOnce' /\ OnePlace' /\ Registered' /\ Holding' /\ Ending' /\ Stopping'
        => IInv'
  BY <1>0 DEF IInv
<1>1. CASE ChildExit \/ ChildWrites
  <2>1. AnsweredOnce' /\ OnePlace' /\ Registered'
    BY <1>1, <1>i, MapStays DEF ChildExit, ChildWrites, callVars
  <2>2. Holding'
    BY <1>1, <1>i DEF ChildExit, ChildWrites, callVars, Holding
  <2>3. Ending'
    BY <1>1, <1>i DEF ChildExit, ChildWrites, lockVars, ends, Ending
  <2>4. Stopping'
    BY <1>1, <1>i
       DEF ChildExit, ChildWrites, callVars, lockVars, Stopping, Reached,
           Ending
  <2> QED
    BY <2>1, <2>2, <2>3, <2>4, <1>q
<1>2. ASSUME NEW c \in Calls, ReadAnswer(c) PROVE IInv'
  <2>1. /\ UNCHANGED <<pc, box, stopPC, inOpen, waiter, field, alive, done, child>>
        /\ reader = "reading" /\ reader' \in {"reading", "delivering"}
    BY <1>2 DEF ReadAnswer, ReadFrame, ReaderStep
  <2>2. Ending'
    BY <1>i, <2>1 DEF Ending
  <2>3. CASE c \in pending
    <3>1. {c} \in SUBSET pending /\ Take("reader", {c}) /\ taken["reader"] = {}
          /\ reader' = "delivering"
      BY <1>2, <1>i, <2>3 DEF ReadAnswer, ReaderStep, Holding
    <3>2. /\ AnsweredOnce' /\ OnePlace' /\ Registered'
          /\ taken'["reader"] = {c} /\ taken'["stop"] = taken["stop"]
          /\ \A d \in Calls : Reached(d) => Reached(d)'
      BY <1>b, <1>f, <1>i, <2>1, <3>1, TakeKeeps
    <3>3. Holding'
      BY <1>i, <2>1, <3>1, <3>2 DEF Holding
    <3>4. Stopping'
      BY <1>i, <2>1, <3>2, StillStopping
    <3> QED
      BY <2>2, <3>2, <3>3, <3>4, <1>q
  <2>4. CASE c \notin pending
    <3>1. UNCHANGED <<pending, taken, reader>>
      BY <1>2, <2>4 DEF ReadAnswer, ReaderStep
    <3>2. Holding' /\ Stopping'
      BY <1>i, <2>1, <3>1 DEF Holding, Stopping, Reached
    <3> QED
      BY <1>i, <2>1, <2>2, <3>1, <3>2, MapStays, <1>q
  <2> QED
    BY <2>3, <2>4
<1>3. CASE DeliverAnswer
  <2>1. /\ UNCHANGED <<pc, stopPC, inOpen, waiter, field, alive, done, child>>
        /\ reader = "delivering" /\ reader' = "reading" /\ Send("reader", "answer")
    BY <1>3 DEF DeliverAnswer, ReaderStep
  <2>2. Ending'
    BY <1>i, <2>1 DEF Ending
  <2>3. /\ AnsweredOnce' /\ OnePlace' /\ Registered'
        /\ taken'["stop"] = taken["stop"]
        /\ \E c \in taken["reader"] : taken'["reader"] = taken["reader"] \ {c}
        /\ \A c \in Calls : Reached(c) => Reached(c)'
    BY <1>b, <1>f, <1>i, <2>1, SendKeeps
  <2>4. Holding'
    BY <1>i, <2>1, <2>3 DEF Holding
  <2>5. Stopping'
    BY <1>i, <2>1, <2>3, StillStopping
  <2> QED
    BY <2>2, <2>3, <2>4, <2>5, <1>q
<1>4. CASE ReadRequest \/ Respond \/ ReaderGone
  <2>1. AnsweredOnce' /\ OnePlace' /\ Registered'
    BY <1>4, <1>i, MapStays
       DEF ReadRequest, Respond, ReaderGone, ReadFrame, ReaderStep, callVars
  <2>2. Holding'
    BY <1>4, <1>i
       DEF ReadRequest, Respond, ReaderGone, ReadFrame, ReaderStep, callVars,
           Holding
  <2>3. Ending'
    BY <1>4, <1>i
       DEF ReadRequest, Respond, ReaderGone, ReadFrame, ReaderStep, lockVars,
           ends, Ending
  <2>4. Stopping'
    BY <1>4, <1>i
       DEF ReadRequest, Respond, ReaderGone, ReadFrame, ReaderStep, callVars,
           lockVars, Stopping, Reached, Ending
  <2> QED
    BY <2>1, <2>2, <2>3, <2>4, <1>q
<1>5. CASE ReaderFails
  <2>1. /\ UNCHANGED <<pc, stopPC, inOpen, waiter, field, alive, done, child, reader>>
        /\ reader = "failing" /\ Send("reader", "closed")
    BY <1>5 DEF ReaderFails, ReaderStep
  <2>2. Ending'
    BY <1>i, <2>1 DEF Ending
  <2>3. /\ AnsweredOnce' /\ OnePlace' /\ Registered'
        /\ taken'["stop"] = taken["stop"]
        /\ \A c \in Calls : Reached(c) => Reached(c)'
    BY <1>b, <1>f, <1>i, <2>1, SendKeeps
  <2>4. Holding'
    BY <1>i, <2>1, <2>3 DEF Holding
  <2>5. Stopping'
    BY <1>i, <2>1, <2>3, StillStopping
  <2> QED
    BY <2>2, <2>3, <2>4, <2>5, <1>q
<1>6. CASE ReaderEnds
  <2>1. /\ UNCHANGED <<pc, box, stopPC, inOpen, waiter, field, alive, done, child>>
        /\ reader = "reading" /\ reader' = "failing" /\ Take("reader", pending)
        /\ pending \in SUBSET pending /\ taken["reader"] = {}
    BY <1>6, <1>i DEF ReaderEnds, ReaderStep, Holding
  <2>2. Ending'
    BY <1>i, <2>1 DEF Ending
  <2>3. /\ AnsweredOnce' /\ OnePlace' /\ Registered'
        /\ taken'["stop"] = taken["stop"]
        /\ \A c \in Calls : Reached(c) => Reached(c)'
    BY <1>b, <1>f, <1>i, <2>1, TakeKeeps
  <2>4. Holding'
    BY <1>i, <2>1, <2>3 DEF Holding
  <2>5. Stopping'
    BY <1>i, <2>1, <2>3, StillStopping
  <2> QED
    BY <2>2, <2>3, <2>4, <2>5, <1>q
<1>7. ASSUME NEW c \in Calls, CallEnter(c) PROVE IInv'
  <2>1. AnsweredOnce'
    BY <1>7, <1>f, <1>i DEF CallEnter, CallStep, AnsweredOnce, OnePlace, Unsent
  <2>2. OnePlace'
    BY <1>7, <1>f, <1>i
       DEF CallEnter, CallStep, OnePlace, Unsent, Takers, Registered, Holding
  <2>3. Registered'
    BY <1>7, <1>f, <1>h, <1>i
       DEF CallEnter, CallStep, Registered, Unsent, Points, OnePlace
  <2>4. Holding'
    BY <1>7, <1>f, <1>h, <1>i DEF CallEnter, CallStep, Holding
  <2>5. Ending'
    BY <1>7, <1>h, <1>i DEF CallEnter, CallStep, lockVars, ends, Ending
  <2>6. Stopping'
    BY <1>7, <1>f, <1>h, <1>i
       DEF CallEnter, CallStep, Stopping, Reached, Registered, Unsent,
           Holding, Points, Ending
  <2> QED
    BY <2>1, <2>2, <2>3, <2>4, <2>5, <2>6, <1>q
<1>8. ASSUME NEW c \in Calls, CallUnencodable(c) PROVE IInv'
  <2>1. AnsweredOnce'
    BY <1>8, <1>f, <1>i
       DEF CallUnencodable, CallStep, AnsweredOnce, OnePlace, Unsent
  <2>2. OnePlace'
    BY <1>8, <1>f, <1>i
       DEF CallUnencodable, CallStep, OnePlace, Unsent, Takers, Registered,
           Holding
  <2>3. Registered'
    BY <1>8, <1>f, <1>h, <1>i
       DEF CallUnencodable, CallStep, Registered, Unsent, Points, OnePlace
  <2>4. Holding'
    BY <1>8, <1>f, <1>h, <1>i DEF CallUnencodable, CallStep, Holding
  <2>5. Ending'
    BY <1>8, <1>h, <1>i DEF CallUnencodable, CallStep, lockVars, ends, Ending
  <2>6. Stopping'
    BY <1>8, <1>f, <1>h, <1>i
       DEF CallUnencodable, CallStep, Stopping, Reached, Registered, Unsent,
           Holding, Points, Ending
  <2> QED
    BY <2>1, <2>2, <2>3, <2>4, <2>5, <2>6, <1>q
<1>9. ASSUME NEW c \in Calls, CallRegister(c) PROVE IInv'
  <2>1. AnsweredOnce'
    BY <1>9, <1>f, <1>i
       DEF CallRegister, CallStep, AnsweredOnce, OnePlace, Unsent
  <2>2. OnePlace'
    BY <1>9, <1>f, <1>i
       DEF CallRegister, CallStep, OnePlace, Unsent, Takers, Registered,
           Holding
  <2>3. Registered'
    BY <1>9, <1>f, <1>h, <1>i
       DEF CallRegister, CallStep, Registered, Unsent, Points, OnePlace
  <2>4. Holding'
    BY <1>9, <1>f, <1>h, <1>i DEF CallRegister, CallStep, Holding
  <2>5. Ending'
    BY <1>9, <1>h, <1>i DEF CallRegister, CallStep, lockVars, ends, Ending
  <2>6. Stopping'
    BY <1>9, <1>f, <1>h, <1>i
       DEF CallRegister, CallStep, Stopping, Reached, Registered, Unsent,
           Holding, Points, Ending
  <2> QED
    BY <2>1, <2>2, <2>3, <2>4, <2>5, <2>6, <1>q
<1>10. ASSUME NEW c \in Calls, CallFetch(c) PROVE IInv'
  <2>1. AnsweredOnce'
    BY <1>10, <1>f, <1>i DEF CallFetch, CallStep, AnsweredOnce, OnePlace, Unsent
  <2>2. OnePlace'
    BY <1>10, <1>f, <1>i
       DEF CallFetch, CallStep, OnePlace, Unsent, Takers, Registered, Holding
  <2>3. Registered'
    BY <1>10, <1>f, <1>h, <1>i
       DEF CallFetch, CallStep, Registered, Unsent, Points, OnePlace
  <2>4. Holding'
    BY <1>10, <1>f, <1>h, <1>i DEF CallFetch, CallStep, Holding
  <2>5. Ending'
    BY <1>10, <1>h, <1>i DEF CallFetch, CallStep, lockVars, ends, Ending
  <2>6. Stopping'
    BY <1>10, <1>f, <1>h, <1>i
       DEF CallFetch, CallStep, Stopping, Reached, Registered, Unsent,
           Holding, Points, Ending
  <2> QED
    BY <2>1, <2>2, <2>3, <2>4, <2>5, <2>6, <1>q
<1>11. ASSUME NEW c \in Calls, CallWrite(c) PROVE IInv'
  <2>1. AnsweredOnce'
    BY <1>11, <1>f, <1>i DEF CallWrite, CallStep, AnsweredOnce, OnePlace, Unsent
  <2>2. OnePlace'
    BY <1>11, <1>f, <1>i
       DEF CallWrite, CallStep, OnePlace, Unsent, Takers, Registered, Holding
  <2>3. Registered'
    BY <1>11, <1>f, <1>h, <1>i
       DEF CallWrite, CallStep, Registered, Unsent, Points, OnePlace
  <2>4. Holding'
    BY <1>11, <1>f, <1>h, <1>i DEF CallWrite, CallStep, Holding
  <2>5. Ending'
    BY <1>11, <1>h, <1>i DEF CallWrite, CallStep, lockVars, ends, Ending
  <2>6. Stopping'
    BY <1>11, <1>f, <1>h, <1>i
       DEF CallWrite, CallStep, Stopping, Reached, Registered, Unsent,
           Holding, Points, Ending
  <2> QED
    BY <2>1, <2>2, <2>3, <2>4, <2>5, <2>6, <1>q
<1>12. ASSUME NEW c \in Calls, CallReceives(c) PROVE IInv'
  <2>1. AnsweredOnce'
    BY <1>12, <1>f, <1>i
       DEF CallReceives, CallStep, AnsweredOnce, OnePlace, Unsent
  <2>2. OnePlace'
    BY <1>12, <1>f, <1>i
       DEF CallReceives, CallStep, OnePlace, Unsent, Takers, Registered,
           Holding
  <2>3. Registered'
    BY <1>12, <1>f, <1>h, <1>i
       DEF CallReceives, CallStep, Registered, Unsent, Points, OnePlace
  <2>4. Holding'
    BY <1>12, <1>f, <1>h, <1>i DEF CallReceives, CallStep, Holding
  <2>5. Ending'
    BY <1>12, <1>h, <1>i DEF CallReceives, CallStep, lockVars, ends, Ending
  <2>6. Stopping'
    BY <1>12, <1>f, <1>h, <1>i
       DEF CallReceives, CallStep, Stopping, Reached, Registered, Unsent,
           Holding, Points, Ending
  <2> QED
    BY <2>1, <2>2, <2>3, <2>4, <2>5, <2>6, <1>q
<1>13. ASSUME NEW c \in Calls, CallLeaves(c) PROVE IInv'
  <2>1. AnsweredOnce'
    BY <1>13, <1>f, <1>i
       DEF CallLeaves, CallStep, AnsweredOnce, OnePlace, Unsent
  <2>2. OnePlace'
    BY <1>13, <1>f, <1>i
       DEF CallLeaves, CallStep, OnePlace, Unsent, Takers, Registered, Holding
  <2>3. Registered'
    BY <1>13, <1>f, <1>h, <1>i
       DEF CallLeaves, CallStep, Registered, Unsent, Points, OnePlace
  <2>4. Holding'
    BY <1>13, <1>f, <1>h, <1>i DEF CallLeaves, CallStep, Holding
  <2>5. Ending'
    BY <1>13, <1>h, <1>i DEF CallLeaves, CallStep, lockVars, ends, Ending
  <2>6. Stopping'
    BY <1>13, <1>f, <1>h, <1>i
       DEF CallLeaves, CallStep, Stopping, Reached, Registered, Unsent,
           Holding, Points, Ending
  <2> QED
    BY <2>1, <2>2, <2>3, <2>4, <2>5, <2>6, <1>q
<1>14. ASSUME NEW c \in Calls, CallCancelled(c) PROVE IInv'
  <2>1. AnsweredOnce'
    BY <1>14, <1>f, <1>i
       DEF CallCancelled, CallStep, AnsweredOnce, OnePlace, Unsent
  <2>2. OnePlace'
    BY <1>14, <1>f, <1>i
       DEF CallCancelled, CallStep, OnePlace, Unsent, Takers, Registered,
           Holding
  <2>3. Registered'
    BY <1>14, <1>f, <1>h, <1>i
       DEF CallCancelled, CallStep, Registered, Unsent, Points, OnePlace
  <2>4. Holding'
    BY <1>14, <1>f, <1>h, <1>i DEF CallCancelled, CallStep, Holding
  <2>5. Ending'
    BY <1>14, <1>h, <1>i DEF CallCancelled, CallStep, lockVars, ends, Ending
  <2>6. Stopping'
    BY <1>14, <1>f, <1>h, <1>i
       DEF CallCancelled, CallStep, Stopping, Reached, Registered, Unsent,
           Holding, Points, Ending
  <2> QED
    BY <2>1, <2>2, <2>3, <2>4, <2>5, <2>6, <1>q
<1>15. CASE WriteSucceeds \/ WriteFails
  <2>1. AnsweredOnce'
    BY <1>15, <1>f, <1>i
       DEF WriteSucceeds, WriteFails, WriteReturns, AnsweredOnce, OnePlace,
           Unsent
  <2>2. OnePlace'
    BY <1>15, <1>f, <1>i
       DEF WriteSucceeds, WriteFails, WriteReturns, OnePlace, Unsent, Takers,
           Registered, Holding
  <2>3. Registered'
    BY <1>15, <1>f, <1>h, <1>i
       DEF WriteSucceeds, WriteFails, WriteReturns, Registered, Unsent,
           Points, OnePlace
  <2>4. Holding'
    BY <1>15, <1>f, <1>h, <1>i
       DEF WriteSucceeds, WriteFails, WriteReturns, Holding
  <2>5. Ending'
    BY <1>15, <1>h, <1>i
       DEF WriteSucceeds, WriteFails, WriteReturns, lockVars, ends, Ending
  <2>6. Stopping'
    BY <1>15, <1>f, <1>h, <1>i
       DEF WriteSucceeds, WriteFails, WriteReturns, Stopping, Reached,
           Registered, Unsent, Holding, Points, Ending
  <2> QED
    BY <2>1, <2>2, <2>3, <2>4, <2>5, <2>6, <1>q
<1>16. CASE WaiterNext
  <2>1. AnsweredOnce' /\ OnePlace' /\ Registered'
    BY <1>16, <1>i, MapStays
       DEF WaiterNext, WaiterStep, WaiterReaps, WaiterClears, WaiterJoins,
           WaiterDelivers, callVars
  <2>2. Holding'
    BY <1>16, <1>i
       DEF WaiterNext, WaiterStep, WaiterReaps, WaiterClears, WaiterJoins,
           WaiterDelivers, callVars, Holding
  <2>3. Ending'
    BY <1>16, <1>i
       DEF WaiterNext, WaiterStep, WaiterReaps, WaiterClears, WaiterJoins,
           WaiterDelivers, lockVars, ends, Ending
  <2>4. Stopping'
    BY <1>16, <1>i
       DEF WaiterNext, WaiterStep, WaiterReaps, WaiterClears, WaiterJoins,
           WaiterDelivers, callVars, lockVars, Stopping, Reached, Ending
  <2> QED
    BY <2>1, <2>2, <2>3, <2>4, <1>q
<1>17. CASE StopBegin \/ StopLocks \/ StopCloses
  <2>1. AnsweredOnce' /\ OnePlace' /\ Registered'
    BY <1>17, <1>i, MapStays
       DEF StopBegin, StopLocks, StopCloses, StopStep, callVars
  <2>2. Holding'
    BY <1>17, <1>i
       DEF StopBegin, StopLocks, StopCloses, StopStep, callVars, Holding
  <2>3. Ending'
    BY <1>17, <1>i
       DEF StopBegin, StopLocks, StopCloses, StopStep, lockVars, ends, Ending
  <2>4. Stopping'
    BY <1>17, <1>i
       DEF StopBegin, StopLocks, StopCloses, StopStep, callVars, lockVars,
           Stopping, Reached, Ending
  <2> QED
    BY <2>1, <2>2, <2>3, <2>4, <1>q
<1>18. CASE StopTakes
  <2>1. /\ UNCHANGED <<pc, box, reader, inOpen, waiter, field, alive, done, child>>
        /\ stopPC = "taking" /\ stopPC' = "failing" /\ Take("stop", pending)
        /\ pending \in SUBSET pending /\ taken["stop"] = {}
    BY <1>18, <1>i DEF StopTakes, StopStep, Holding, lockVars
  <2>2. Ending'
    BY <1>i, <2>1 DEF Ending
  <2>3. /\ AnsweredOnce' /\ OnePlace' /\ Registered'
        /\ taken'["reader"] = taken["reader"] /\ taken'["stop"] = pending
    BY <1>b, <1>f, <1>i, <2>1, TakeKeeps
  <2>4. Holding'
    BY <1>i, <2>1, <2>3 DEF Holding
  <2>5. ASSUME NEW c \in Calls, pc[c] = "waiting" PROVE Reached(c)'
    <3>1. box[c] # <<>> \/ Unsent(c)
      BY <1>i, <2>5 DEF Registered
    <3> QED
      BY <2>1, <2>3, <3>1 DEF Reached, Unsent
  <2>6. Stopping'
    BY <1>i, <2>1, <2>5 DEF Stopping
  <2> QED
    BY <2>2, <2>3, <2>4, <2>6, <1>q
<1>19. CASE StopFails
  <2>1. /\ UNCHANGED <<pc, reader, inOpen, waiter, field, alive, done, child, stopPC>>
        /\ stopPC = "failing" /\ Send("stop", "closed")
    BY <1>19 DEF StopFails, StopStep, lockVars
  <2>2. Ending'
    BY <1>i, <2>1 DEF Ending
  <2>3. /\ AnsweredOnce' /\ OnePlace' /\ Registered'
        /\ taken'["reader"] = taken["reader"]
        /\ \A c \in Calls : Reached(c) => Reached(c)'
    BY <1>b, <1>f, <1>i, <2>1, SendKeeps
  <2>4. Holding'
    BY <1>i, <2>1, <2>3 DEF Holding
  <2>5. Stopping'
    BY <1>i, <2>1, <2>3, StillStopping
  <2> QED
    BY <2>2, <2>3, <2>4, <2>5, <1>q
<1>20. CASE StopHasFailed \/ StopReturns \/ StopTerminates \/ StopKills
  <2>1. AnsweredOnce' /\ OnePlace' /\ Registered'
    BY <1>20, <1>i, MapStays
       DEF StopHasFailed, StopReturns, StopTerminates, StopKills, StopStep,
           callVars
  <2>2. Holding'
    BY <1>20, <1>i
       DEF StopHasFailed, StopReturns, StopTerminates, StopKills, StopStep,
           callVars, Holding
  <2>3. Ending'
    BY <1>20, <1>i
       DEF StopHasFailed, StopReturns, StopTerminates, StopKills, StopStep,
           lockVars, ends, Ending
  <2>4. Stopping'
    BY <1>20, <1>i
       DEF StopHasFailed, StopReturns, StopTerminates, StopKills, StopStep,
           callVars, lockVars, Stopping, Reached, Ending
  <2> QED
    BY <2>1, <2>2, <2>3, <2>4, <1>q
<1>21. CASE UNCHANGED vars
  <2>1. AnsweredOnce' /\ OnePlace' /\ Registered'
    BY <1>21, <1>i, MapStays DEF vars, callVars
  <2>2. Holding'
    BY <1>21, <1>i DEF vars, callVars, Holding
  <2>3. Ending'
    BY <1>21, <1>i DEF vars, lockVars, ends, Ending
  <2>4. Stopping'
    BY <1>21, <1>i DEF vars, callVars, lockVars, Stopping, Reached, Ending
  <2> QED
    BY <2>1, <2>2, <2>3, <2>4, <1>q
<1> QED
  BY <1>1, <1>2, <1>3, <1>4, <1>5, <1>6, <1>7, <1>8, <1>9, <1>10, <1>11,
     <1>12, <1>13, <1>14, <1>15, <1>16, <1>17, <1>18, <1>19, <1>20, <1>21
     DEF Next, ReaderNext, CallGoes, WaiterNext, StopGoes

(* Hence it always holds ...                                                *)
LEMMA Invariance == Spec => []IInv
BY IInit, IStep, PTL DEF Spec

(* ... and with it what the callers rely on.                                *)
LEMMA Implied == IInv => PendingIsExact /\ StopLeavesNoneWaiting /\ WaitIsLast
<1> SUFFICES ASSUME IInv
             PROVE  PendingIsExact /\ StopLeavesNoneWaiting /\ WaitIsLast
  OBVIOUS
<1> USE DEF IInv
<1>1. PendingIsExact
  BY DEF PendingIsExact, Registered, Unsent
<1>2. StopLeavesNoneWaiting
  BY DEF StopLeavesNoneWaiting, Stopping, Holding, Reached
<1>3. WaitIsLast
  BY DEF WaitIsLast, Ending, Holding
<1> QED
  BY <1>1, <1>2, <1>3

(* The type invariant, and with it that ioLock is held by who writes.       *)
THEOREM TypeCorrect == Spec => []TypeOK
BY Invariance, PTL DEF IInv

(* However many Calls are under way, no channel is sent to twice            *)
(* (deliverResponse and failPendingOnClose, from the reader and from Stop). *)
THEOREM AnswersCorrect == Spec => []AnsweredOnce
BY Invariance, PTL DEF IInv

(* A waiting Call is in the map or in the hands of who will send to it, and *)
(* one that has returned left nothing behind (Call and its cleanup).        *)
THEOREM PendingCorrect == Spec => []PendingIsExact
BY Invariance, Implied, PTL

(* Closing the input before emptying the map keeps late Calls from waiting. *)
THEOREM StopCorrect == Spec => []StopLeavesNoneWaiting
BY Invariance, Implied, PTL

(* Nothing of the session runs once Wait returns.                           *)
THEOREM WaitCorrect == Spec => []WaitIsLast
BY Invariance, Implied, PTL

(* The safety half of the contract: one end, after the process has ended.   *)
THEOREM ImplementsContract == Spec => Contract!Spec
<1>1. Init => Contract!Init
  BY DEF Init, Contract!Init
<1>2. IInv /\ [Next]_vars => [Contract!Next]_(Contract!vars)
  <2> SUFFICES ASSUME IInv, [Next]_vars PROVE [Contract!Next]_(Contract!vars)
    OBVIOUS
  <2> USE DEF Contract!Next, Contract!vars
  <2>1. CASE StopBegin
    BY <2>1 DEF StopBegin, StopStep, Contract!Tell
  <2>2. CASE WaiterReaps
    BY <2>2 DEF WaiterReaps, WaiterStep, Contract!Work, IInv, Ending
  <2>3. CASE WaiterDelivers
    BY <2>3 DEF WaiterDelivers, WaiterStep, Contract!Finish, IInv, Ending
  <2>4. CASE StopGoes
    BY <2>4 DEF StopGoes, StopLocks, StopCloses, StopTakes, StopFails,
      StopHasFailed, StopReturns, StopTerminates, StopKills, StopStep
  <2>5. CASE WaiterClears \/ WaiterJoins
    BY <2>5 DEF WaiterClears, WaiterJoins, WaiterStep
  <2>6. CASE ReaderNext \/ ReaderEnds
    BY <2>6 DEF ReaderNext, ReaderEnds, ReadAnswer, DeliverAnswer, ReadRequest,
      Respond, ReaderFails, ReaderGone, ReaderStep, ends
  <2>7. ASSUME NEW c \in Calls,
               CallEnter(c) \/ CallUnencodable(c) \/ CallGoes(c) \/
                 CallCancelled(c)
        PROVE  UNCHANGED Contract!vars
    BY <2>7 DEF CallGoes, CallEnter, CallUnencodable, CallRegister, CallFetch,
      CallWrite, CallReceives, CallLeaves, CallCancelled, CallStep, ends
  <2>8. CASE WriteSucceeds \/ WriteFails
    BY <2>8 DEF WriteSucceeds, WriteFails, WriteReturns, ends
  <2>9. CASE ChildExit \/ ChildWrites
    BY <2>9 DEF ChildExit, ChildWrites, ends
  <2>10. CASE UNCHANGED vars
    BY <2>10 DEF vars, ends
  <2> QED
    BY <2>1, <2>2, <2>3, <2>4, <2>5, <2>6, <2>7, <2>8, <2>9, <2>10 DEF Next,
      WaiterNext
<1> QED
  BY <1>1, <1>2, Invariance, PTL DEF Spec, Contract!Spec
=============================================================================
