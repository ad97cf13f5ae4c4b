--------------------------- MODULE TurnSessionProofs ---------------------------
(***************************************************************************)
(* One turn at a time, and what follows from it, for every set of callers  *)
(* and of conversation ids and any number of turns.                        *)
(***************************************************************************)
EXTENDS TurnSessionProperties, SequenceTheorems, TLAPS

(* The claim is held from the CompareAndSwap to the deferred Store.         *)
InTurn == {"claimed", "left"} \cup UnderWay

OneTurn ==
  /\ inFlight <=> \E c \in Callers : pc[c] \in InTurn
  /\ \A c, d \in Callers : pc[c] \in InTurn /\ pc[d] \in InTurn => c = d

(* The turn that runs is the last one to have begun: its child is in the    *)
(* conversation reported last, its question ends the history.               *)
RunsLatest ==
  \A c \in Callers : pc[c] \in {"begun", "running"} =>
    /\ turn[c] = turns
    /\ Adapter => using[c] = sessionID
    /\ ~Adapter => /\ messages # <<>>
                   /\ messages[Len(messages)] = [role |-> "user", turn |-> turns]

Ordered ==
  /\ \A i \in 1..Len(messages) : messages[i].turn <= turns
  /\ TurnsContinue

(* The part of Ordered about a history m of at most n turns.                *)
Message == [role : {"user", "assistant"}, turn : Nat]

Paired(m, n) ==
  /\ \A i \in 1..Len(m) : m[i].turn <= n
  /\ \A i \in 1..Len(m) :
       /\ m[i].role = "assistant" =>
            i > 1 /\ m[i - 1] = [role |-> "user", turn |-> m[i].turn]
       /\ \A k \in 1..(i - 1) : m[k].turn <= m[i].turn

LEMMA Numbered ==
  ASSUME NEW m \in Seq(Message), NEW i \in 1..Len(m)
  PROVE  m[i].turn \in Nat
<1>1. m[i] \in Message
  OBVIOUS
<1> QED
  BY <1>1 DEF Message

(* A history stays paired when another turn begins ...                      *)
LEMMA Later ==
  ASSUME NEW m \in Seq(Message), NEW n \in Nat, Paired(m, n)
  PROVE  Paired(m, n + 1)
<1>1. \A i \in 1..Len(m) : m[i].turn \in Nat
  BY Numbered
<1> QED
  BY <1>1 DEF Paired

(* ... and when its question is appended.                                   *)
LEMMA Question ==
  ASSUME NEW m \in Seq(Message), NEW n \in Nat, Paired(m, n)
  PROVE  Paired(Append(m, [role |-> "user", turn |-> n + 1]), n + 1)
<1> DEFINE q == [role |-> "user", turn |-> n + 1]
           h == Append(m, q)
<1>1. q \in Message /\ q.role = "user" /\ q.turn = n + 1
  BY DEF Message
<1>2. \A i \in 1..Len(m) : m[i].turn \in Nat
  BY Numbered
<1> HIDE DEF q
<1>3. /\ Len(h) = Len(m) + 1 /\ h[Len(m) + 1] = q
      /\ \A i \in 1..Len(m) : h[i] = m[i]
  BY <1>1
<1> HIDE DEF h
<1>4. \A i \in 1..Len(h) : h[i].turn <= n + 1
  BY <1>1, <1>2, <1>3 DEF Paired
<1>5. ASSUME NEW i \in 1..Len(h)
      PROVE  /\ h[i].role = "assistant" =>
                  i > 1 /\ h[i - 1] = [role |-> "user", turn |-> h[i].turn]
             /\ \A k \in 1..(i - 1) : h[k].turn <= h[i].turn
  <2>1. CASE i = Len(m) + 1
    <3>1. h[i].role # "assistant" /\ h[i].turn = n + 1
      BY <1>1, <1>3, <2>1
    <3>2. ASSUME NEW k \in 1..(i - 1) PROVE h[k].turn <= n + 1
      BY <1>3, <1>4, <2>1
    <3> QED
      BY <3>1, <3>2
  <2>2. CASE i \in 1..Len(m)
    <3>1. h[i] = m[i] /\ \A k \in 1..(i - 1) : h[k] = m[k]
      BY <1>3, <2>2
    <3> QED
      BY <3>1, <2>2 DEF Paired
  <2> QED
    BY <1>3, <2>1, <2>2
<1>6. Paired(h, n + 1)
  BY <1>4, <1>5 DEF Paired
<1> QED
  BY <1>6 DEF h, q

(* ... and when the answer to the question at its end is appended.          *)
LEMMA Reply ==
  ASSUME NEW m \in Seq(Message), NEW n \in Nat, Paired(m, n), m # <<>>,
         m[Len(m)] = [role |-> "user", turn |-> n]
  PROVE  Paired(Append(m, [role |-> "assistant", turn |-> n]), n)
<1> DEFINE q == [role |-> "assistant", turn |-> n]
           h == Append(m, q)
<1>1. q \in Message /\ q.role = "assistant" /\ q.turn = n
  BY DEF Message
<1>2. \A i \in 1..Len(m) : m[i].turn \in Nat
  BY Numbered
<1> HIDE DEF q
<1>3. /\ Len(h) = Len(m) + 1 /\ h[Len(m) + 1] = q
      /\ \A i \in 1..Len(m) : h[i] = m[i]
  BY <1>1
<1> HIDE DEF h
<1>4. \A i \in 1..Len(h) : h[i].turn <= n
  BY <1>1, <1>2, <1>3 DEF Paired
<1>5. ASSUME NEW i \in 1..Len(h)
      PROVE  /\ h[i].role = "assistant" =>
                  i > 1 /\ h[i - 1] = [role |-> "user", turn |-> h[i].turn]
             /\ \A k \in 1..(i - 1) : h[k].turn <= h[i].turn
  <2>1. CASE i = Len(m) + 1
    <3>1. i > 1 /\ h[i - 1] = [role |-> "user", turn |-> n]
      BY <1>3, <2>1
    <3>2. h[i].turn = n
      BY <1>1, <1>3, <2>1
    <3>3. ASSUME NEW k \in 1..(i - 1) PROVE h[k].turn <= n
      BY <1>3, <1>4, <2>1
    <3> QED
      BY <3>1, <3>2, <3>3
  <2>2. CASE i \in 1..Len(m)
    <3>1. h[i] = m[i] /\ \A k \in 1..(i - 1) : h[k] = m[k]
      BY <1>3, <2>2
    <3> QED
      BY <3>1, <2>2 DEF Paired
  <2> QED
    BY <1>3, <2>1, <2>2
<1>6. Paired(h, n)
  BY <1>4, <1>5 DEF Paired
<1> QED
  BY <1>6 DEF h, q

IInv == TypeOK /\ StateIsExact /\ OneTurn /\ RunsLatest /\ Ordered

LEMMA IInit == Init => IInv
<1> SUFFICES ASSUME Init PROVE IInv
  OBVIOUS
<1> USE TurnAssumption DEF Init
<1>1. TypeOK
  <2>1. messages \in Seq([role : {"user", "assistant"}, turn : Nat])
    OBVIOUS
  <2>2. kind \in {"adapter", "provider"} /\ planted \in BOOLEAN
    OBVIOUS
  <2> QED
    BY <2>1, <2>2 DEF TypeOK, UnderWay
<1>2. StateIsExact /\ OneTurn /\ RunsLatest
  BY DEF StateIsExact, OneTurn, RunsLatest, InTurn, UnderWay
<1>3. Ordered
  BY DEF Ordered, TurnsContinue
<1> QED
  BY <1>1, <1>2, <1>3 DEF IInv

(* Where a SendInput may stand.                                             *)
Points == {"idle", "entered", "claimed", "left"} \cup UnderWay

LEMMA SendMoves ==
  ASSUME pc \in [Callers -> Points], NEW c \in Callers, NEW from, NEW to \in Points,
         SendStep(c, from, to)
  PROVE  pc' \in [Callers -> Points] /\ UNCHANGED <<kind, alive, endVars>>
BY DEF SendStep

LEMMA HistoryGrows ==
  ASSUME messages \in Seq(Message), NEW n \in Nat, NEW r \in {"user", "assistant"},
         \/ messages' = messages
         \/ messages' = Append(messages, [role |-> r, turn |-> n])
  PROVE  messages' \in Seq(Message)
<1>1. [role |-> r, turn |-> n] \in Message
  BY DEF Message
<1> QED
  BY <1>1

(* The types alone: the history is the one value that is built.             *)
LEMMA TypeStep == TypeOK /\ [Next]_vars => TypeOK'
<1> SUFFICES ASSUME TypeOK, [Next]_vars PROVE TypeOK'
  OBVIOUS
<1>p. pc \in [Callers -> Points]
  BY DEF TypeOK, Points
<1>m. messages \in Seq(Message) /\ turns \in Nat
  BY DEF TypeOK, Message
<1>t. \A c \in Callers : turn[c] \in Nat
  BY DEF TypeOK
<1> USE DEF TypeOK, UnderWay, talkVars, endVars, sendVars
<1>1. ASSUME NEW c \in Callers, SendEnter(c) PROVE TypeOK'
  BY <1>1 DEF SendEnter, SendStep
<1>2. ASSUME NEW c \in Callers, SendClaim(c) PROVE TypeOK'
  <2>1. pc' \in [Callers -> Points]
    <3> HIDE DEF TypeOK
    <3>1. \E to \in Points : SendStep(c, "entered", to)
      BY <1>2 DEF SendClaim, Points
    <3> QED
      BY <1>p, <3>1, SendMoves
  <2>2. /\ inFlight' = TRUE
        /\ UNCHANGED <<kind, alive, endVars, startPC, state, failed, cancelled, using,
                       turn, answered, talkVars, exitCode>>
    BY <1>2 DEF SendClaim, SendStep
  <2> QED
    BY <2>1, <2>2 DEF Points
<1>3. ASSUME NEW c \in Callers, TurnBegins(c) PROVE TypeOK'
  <2>1. messages' \in Seq([role : {"user", "assistant"}, turn : Nat])
    <3> HIDE DEF TypeOK
    <3>1. turns + 1 \in Nat
      BY <1>m
    <3>2. \/ messages' = messages
          \/ messages' = Append(messages, [role |-> "user", turn |-> turns + 1])
      BY <1>3 DEF TurnBegins
    <3>3. messages' \in Seq(Message)
      BY <1>m, <3>1, <3>2, HistoryGrows
    <3> QED
      BY <3>3 DEF Message
  <2>2. pc' \in [Callers -> Points] /\ UNCHANGED <<kind, alive, endVars>>
    BY <1>3, <1>p, SendMoves DEF TurnBegins, Points
  <2>3. /\ turns' \in Nat
        /\ turn' \in [Callers -> Nat]
        /\ using' \in [Callers -> Ids \cup {NoId}]
    BY <1>3 DEF TurnBegins
  <2>4. /\ failed' \in [Callers -> BOOLEAN] /\ cancelled' \in [Callers -> BOOLEAN]
        /\ answered' \in [Callers -> BOOLEAN]
        /\ state' = "processing"
        /\ UNCHANGED <<startPC, inFlight, sessionID, exitCode>>
    BY <1>3 DEF TurnBegins
  <2> QED
    BY <2>1, <2>2, <2>3, <2>4 DEF Points
<1>4. ASSUME NEW c \in Callers, TurnRuns(c) PROVE TypeOK'
  BY <1>4 DEF TurnRuns, SendStep
<1>5. ASSUME NEW c \in Callers, ChildReports(c) PROVE TypeOK'
  BY <1>5 DEF ChildReports, SendStep
<1>6. ASSUME NEW c \in Callers, StreamBrings(c) PROVE TypeOK'
  BY <1>6 DEF StreamBrings, SendStep
<1>7. ASSUME NEW c \in Callers, TurnSucceeds(c) PROVE TypeOK'
  <2>1. messages' \in Seq([role : {"user", "assistant"}, turn : Nat])
    <3> HIDE DEF TypeOK
    <3>1. \/ messages' = messages
          \/ messages' = Append(messages, [role |-> "assistant", turn |-> turn[c]])
      BY <1>7 DEF TurnSucceeds
    <3>2. messages' \in Seq(Message)
      BY <1>m, <1>t, <3>1, HistoryGrows
    <3> QED
      BY <3>2 DEF Message
  <2>2. pc' \in [Callers -> Points] /\ UNCHANGED <<kind, alive, endVars>>
    BY <1>7, <1>p, SendMoves DEF TurnSucceeds, Points
  <2>3. UNCHANGED <<startPC, state, inFlight, failed, cancelled, using, turn, answered,
                    sessionID, turns, exitCode>>
    BY <1>7 DEF TurnSucceeds
  <2> QED
    BY <2>1, <2>2, <2>3 DEF Points
<1>8. ASSUME NEW c \in Callers, TurnFails(c) PROVE TypeOK'
  <2>1. pc' \in [Callers -> Points] /\ UNCHANGED <<kind, alive, endVars>>
    BY <1>8, <1>p, SendMoves DEF TurnFails, Points
  <2>2. /\ failed' \in [Callers -> BOOLEAN] /\ exitCode' \in {0, 1}
        /\ UNCHANGED <<startPC, state, inFlight, cancelled, using, turn, answered,
                       talkVars>>
    BY <1>8 DEF TurnFails
  <2> QED
    BY <2>1, <2>2 DEF Points
<1>9. ASSUME NEW c \in Callers, TurnCancelled(c) PROVE TypeOK'
  BY <1>9 DEF TurnCancelled
<1>10. ASSUME NEW c \in Callers, TurnLeaves(c) PROVE TypeOK'
  <2>1. pc' \in [Callers -> Points] /\ UNCHANGED <<kind, alive, endVars>>
    BY <1>10, <1>p, SendMoves DEF TurnLeaves, Points
  <2>2. /\ state' \in {"idle", "processing", "stopped"} /\ inFlight' \in BOOLEAN
        /\ startPC' \in {"firing", "stopping", "failed", "returned"}
    BY <1>10 DEF TurnLeaves, Fired
  <2>3. UNCHANGED <<failed, cancelled, using, turn, answered, talkVars, exitCode>>
    BY <1>10 DEF TurnLeaves
  <2> QED
    BY <2>1, <2>2, <2>3 DEF Points
<1>11. CASE StopBegins \/ StopDelivers \/ StopCleans \/ StartFails
  <2>1. UNCHANGED <<kind, inFlight, sendVars, talkVars, exitCode>>
    BY <1>11 DEF StopBegins, StopDelivers, StopCleans, StartFails, StopStep
  <2>2. /\ alive' \in BOOLEAN /\ state' \in {"idle", "processing", "stopped"}
        /\ startPC' \in {"firing", "stopping", "failed", "returned"}
    BY <1>11 DEF StopBegins, StopDelivers, StopCleans, StartFails, StopStep
  <2>3. /\ stopPC' \in {"idle", "stopped", "delivered", "done"}
        /\ done' \in BOOLEAN /\ planted' \in BOOLEAN
    BY <1>11 DEF StopBegins, StopDelivers, StopCleans, StartFails, StopStep
  <2> QED
    BY <2>1, <2>2, <2>3
<1>12. CASE UNCHANGED vars
  BY <1>12 DEF vars
<1> HIDE DEF TypeOK
<1> QED
  BY <1>1, <1>2, <1>3, <1>4, <1>5, <1>6, <1>7, <1>8, <1>9, <1>10, <1>11, <1>12
     DEF Next, TurnGoes

(* A step that leaves the conversation alone, and begins no turn, keeps     *)
(* what is known of the history.                                            *)
LEMMA QuietStep ==
  ASSUME Ordered, RunsLatest, UNCHANGED <<kind, talkVars, using, turn>>,
         \A c \in Callers : pc'[c] \in {"begun", "running"} =>
                              pc[c] \in {"begun", "running"}
  PROVE  Ordered' /\ RunsLatest'
<1>1. Ordered'
  BY DEF Ordered, TurnsContinue, Adapter, talkVars
<1>2. RunsLatest'
  BY DEF RunsLatest, Adapter, talkVars
<1> QED
  BY <1>1, <1>2

(* Every step keeps the rest: one case per action.                          *)
LEMMA IStep == IInv /\ [Next]_vars => IInv'
<1> SUFFICES ASSUME IInv, [Next]_vars PROVE IInv'
  OBVIOUS
<1>0. TypeOK /\ TypeOK'
  BY TypeStep DEF IInv
<1>p. pc \in [Callers -> Points]
  BY <1>0 DEF TypeOK, Points
<1>i. StateIsExact /\ OneTurn /\ RunsLatest /\ Ordered
  BY DEF IInv
<1>q. StateIsExact' /\ OneTurn' /\ RunsLatest' /\ Ordered' => IInv'
  BY <1>0 DEF IInv
<1> USE DEF InTurn, UnderWay, Points
<1>1. ASSUME NEW c \in Callers, SendEnter(c) PROVE IInv'
  <2>1. StateIsExact' /\ OneTurn'
    BY <1>1, <1>p, <1>i DEF SendEnter, SendStep, StateIsExact, OneTurn, endVars
  <2>2. Ordered' /\ RunsLatest'
    BY <1>1, <1>p, <1>i, QuietStep DEF SendEnter, SendStep
  <2> QED
    BY <2>1, <2>2, <1>q
<1>2. ASSUME NEW c \in Callers, SendClaim(c) PROVE IInv'
  <2>1. StateIsExact'
    BY <1>2, <1>p, <1>i DEF SendClaim, SendStep, StateIsExact, endVars
  <2>2. OneTurn'
    <3>1. CASE inFlight
      BY <1>2, <3>1, <1>p, <1>i DEF SendClaim, SendStep, OneTurn
    <3>2. CASE ~inFlight
      BY <1>2, <3>2, <1>p, <1>i DEF SendClaim, SendStep, OneTurn
    <3> QED
      BY <3>1, <3>2
  <2>3. Ordered' /\ RunsLatest'
    BY <1>2, <1>p, <1>i, QuietStep DEF SendClaim, SendStep
  <2> QED
    BY <2>1, <2>2, <2>3, <1>q
<1>3. ASSUME NEW c \in Callers, TurnBegins(c) PROVE IInv'
  <2> DEFINE question == [role |-> "user", turn |-> turns + 1]
  <2>1. StateIsExact' /\ OneTurn'
    BY <1>3, <1>p, <1>i DEF TurnBegins, SendStep, StateIsExact, OneTurn
  <2>2. ASSUME NEW d \in Callers, pc'[d] \in {"begun", "running"}
        PROVE  d = c
    BY <1>3, <2>2, <1>p, <1>i DEF TurnBegins, SendStep, OneTurn
  <2>3. /\ turn'[c] = turns' /\ using'[c] = sessionID' /\ turns' = turns + 1
        /\ Adapter' = Adapter /\ turns \in Nat /\ messages \in Seq(Message)
    BY <1>3, <1>0 DEF TurnBegins, SendStep, Adapter, TypeOK, Message
  <2>4. Paired(messages, turns)
    BY <1>i DEF Ordered, TurnsContinue, Paired
  <2>5. CASE Adapter
    <3>1. messages' = messages
      BY <1>3, <2>5 DEF TurnBegins
    <3>2. RunsLatest'
      BY <2>2, <2>3, <2>5 DEF RunsLatest
    <3>3. Paired(messages', turns')
      BY <3>1, <2>3, <2>4, Later
    <3> QED
      BY <2>1, <2>2, <2>3, <3>2, <3>3, <1>q DEF Ordered, TurnsContinue, Paired
  <2>6. CASE ~Adapter
    <3>1. messages' = Append(messages, question)
      BY <1>3, <2>6 DEF TurnBegins
    <3>2. question \in Message
      BY <2>3 DEF Message
    <3> HIDE DEF question
    <3>3. messages' # <<>> /\ messages'[Len(messages')] = question
      BY <2>3, <3>1, <3>2
    <3>4. RunsLatest'
      BY <2>2, <2>3, <2>6, <3>3 DEF RunsLatest, question
    <3>5. Paired(messages', turns')
      BY <3>1, <2>3, <2>4, Question DEF question
    <3> QED
      BY <2>1, <2>3, <2>6, <3>4, <3>5, <1>q DEF Ordered, TurnsContinue, Paired
  <2> QED
    BY <2>5, <2>6
<1>4. ASSUME NEW c \in Callers, TurnRuns(c) PROVE IInv'
  <2>1. StateIsExact' /\ OneTurn'
    BY <1>4, <1>p, <1>i DEF TurnRuns, SendStep, StateIsExact, OneTurn, endVars
  <2>2. Ordered' /\ RunsLatest'
    BY <1>4, <1>p, <1>i, QuietStep DEF TurnRuns, SendStep
  <2> QED
    BY <2>1, <2>2, <1>q
<1>5. ASSUME NEW c \in Callers, ChildReports(c) PROVE IInv'
  <2>1. StateIsExact' /\ OneTurn'
    BY <1>5, <1>p, <1>i DEF ChildReports, SendStep, StateIsExact, OneTurn, endVars
  <2>2. \A d \in Callers : pc'[d] \in {"begun", "running"} => d = c
    BY <1>5, <1>p, <1>i DEF ChildReports, SendStep, OneTurn
  <2>3. /\ using'[c] = sessionID' /\ Adapter' /\ turn'[c] = turns'
        /\ UNCHANGED <<turns, messages>>
    BY <1>5, <1>0, <1>i DEF ChildReports, SendStep, Adapter, TypeOK, RunsLatest
  <2>4. RunsLatest'
    BY <2>2, <2>3 DEF RunsLatest
  <2>5. Ordered'
    BY <2>2, <2>3, <1>i DEF Ordered, TurnsContinue
  <2> QED
    BY <2>1, <2>4, <2>5, <1>q
<1>6. ASSUME NEW c \in Callers, StreamBrings(c) PROVE IInv'
  <2>1. StateIsExact' /\ OneTurn'
    BY <1>6, <1>p, <1>i DEF StreamBrings, SendStep, StateIsExact, OneTurn, endVars
  <2>2. Ordered' /\ RunsLatest'
    BY <1>6, <1>p, <1>i, QuietStep DEF StreamBrings, SendStep
  <2> QED
    BY <2>1, <2>2, <1>q
<1>7. ASSUME NEW c \in Callers, TurnSucceeds(c) PROVE IInv'
  <2>1. StateIsExact' /\ OneTurn'
    BY <1>7, <1>p, <1>i DEF TurnSucceeds, SendStep, StateIsExact, OneTurn, endVars
  <2>2. CASE messages' = messages
    <3>1. UNCHANGED <<kind, talkVars, using, turn>>
      BY <1>7, <2>2 DEF TurnSucceeds, SendStep, talkVars
    <3> QED
      BY <1>7, <2>1, <3>1, <1>p, <1>i, <1>q, QuietStep DEF TurnSucceeds, SendStep
  <2>3. CASE messages' # messages
    <3>1. /\ messages' = Append(messages, [role |-> "assistant", turn |-> turn[c]])
          /\ ~Adapter /\ Adapter' = Adapter /\ turns' = turns
      BY <1>7, <2>3 DEF TurnSucceeds, SendStep, Adapter
    <3>2. \A d \in Callers : pc'[d] \notin {"begun", "running"}
      BY <1>7, <1>p, <1>i DEF TurnSucceeds, SendStep, OneTurn
    <3>3. /\ turn[c] = turns /\ messages # <<>>
          /\ messages[Len(messages)] = [role |-> "user", turn |-> turns]
      BY <1>7, <3>1, <1>i DEF TurnSucceeds, SendStep, RunsLatest
    <3>4. messages \in Seq(Message) /\ turns \in Nat
      BY <1>0 DEF TypeOK, Message
    <3>5. Paired(messages, turns)
      BY <1>i DEF Ordered, TurnsContinue, Paired
    <3>6. Paired(messages', turns)
      BY <3>1, <3>3, <3>4, <3>5, Reply
    <3> QED
      BY <2>1, <3>1, <3>2, <3>6, <1>q DEF Ordered, TurnsContinue, Paired, RunsLatest
  <2> QED
    BY <2>2, <2>3
<1>8. ASSUME NEW c \in Callers, TurnFails(c) PROVE IInv'
  <2>1. StateIsExact' /\ OneTurn'
    BY <1>8, <1>p, <1>i DEF TurnFails, SendStep, StateIsExact, OneTurn, endVars
  <2>2. Ordered' /\ RunsLatest'
    BY <1>8, <1>p, <1>i, QuietStep DEF TurnFails, SendStep
  <2> QED
    BY <2>1, <2>2, <1>q
<1>9. ASSUME NEW c \in Callers, TurnCancelled(c) PROVE IInv'
  <2>1. StateIsExact' /\ OneTurn'
    BY <1>9, <1>i DEF TurnCancelled, StateIsExact, OneTurn, endVars
  <2>2. Ordered' /\ RunsLatest'
    BY <1>9, <1>i, QuietStep DEF TurnCancelled
  <2> QED
    BY <2>1, <2>2, <1>q
<1>10. ASSUME NEW c \in Callers, TurnLeaves(c) PROVE IInv'
  <2>1. Ordered' /\ RunsLatest'
    BY <1>10, <1>p, <1>i, QuietStep DEF TurnLeaves, SendStep
  <2>2. CASE SendStep(c, "leaving", "left")
    <3>1. /\ pc[c] = "leaving" /\ pc' = [pc EXCEPT ![c] = "left"]
          /\ state' = "idle" /\ UNCHANGED <<inFlight, stopPC>>
      BY <1>10, <2>2 DEF TurnLeaves, SendStep, endVars
    <3>2. StateIsExact' /\ OneTurn'
      BY <3>1, <1>p, <1>i DEF StateIsExact, OneTurn
    <3> QED
      BY <2>1, <3>2, <1>q
  <2>3. CASE SendStep(c, "left", "idle")
    <3>1. /\ pc[c] = "left" /\ pc' = [pc EXCEPT ![c] = "idle"]
          /\ inFlight' = FALSE /\ UNCHANGED <<state, stopPC>>
      BY <1>10, <2>3 DEF TurnLeaves, SendStep, endVars
    <3>2. StateIsExact' /\ OneTurn'
      BY <3>1, <1>p, <1>i DEF StateIsExact, OneTurn
    <3> QED
      BY <2>1, <3>2, <1>q
  <2> QED
    BY <1>10, <2>2, <2>3 DEF TurnLeaves
<1>11. CASE StopBegins \/ StopDelivers \/ StopCleans \/ StartFails
  <2>1. UNCHANGED <<kind, inFlight, sendVars, talkVars>>
    BY <1>11 DEF StopBegins, StopDelivers, StopCleans, StartFails, StopStep
  <2>2. stopPC' = "idle" => UNCHANGED <<state, stopPC>>
    BY <1>11 DEF StopBegins, StopDelivers, StopCleans, StartFails, StopStep, endVars
  <2>3. StateIsExact' /\ OneTurn'
    BY <2>1, <2>2, <1>i DEF StateIsExact, OneTurn, sendVars
  <2>4. Ordered' /\ RunsLatest'
    BY <2>1, <1>i, QuietStep DEF sendVars
  <2> QED
    BY <2>3, <2>4, <1>q
<1>12. CASE UNCHANGED vars
  <2>1. UNCHANGED <<kind, inFlight, sendVars, talkVars, state, stopPC>>
    BY <1>12 DEF vars, endVars
  <2>2. StateIsExact' /\ OneTurn'
    BY <2>1, <1>i DEF StateIsExact, OneTurn, sendVars
  <2>3. Ordered' /\ RunsLatest'
    BY <2>1, <1>i, QuietStep DEF sendVars
  <2> QED
    BY <2>2, <2>3, <1>q
<1> QED
  BY <1>1, <1>2, <1>3, <1>4, <1>5, <1>6, <1>7, <1>8, <1>9, <1>10, <1>11, <1>12
     DEF Next, TurnGoes

LEMMA Invariance == Spec => []IInv
BY IInit, IStep, PTL DEF Spec

(* Every variable keeps its type.                                           *)
THEOREM TypeCorrect == Spec => []TypeOK
BY Invariance, PTL DEF IInv

(* Health tells idle and processing apart exactly (SendInput: only the      *)
(* caller that holds the claim writes the state).                           *)
THEOREM StateCorrect == Spec => []StateIsExact
BY Invariance, PTL DEF IInv

(* A turn continues the conversation as the turns before it have left it.   *)
THEOREM TurnsCorrect == Spec => []TurnsContinue
BY Invariance, PTL DEF IInv, Ordered

(* No two turns are ever under way at once (the CompareAndSwap on           *)
(* turnInFlight).                                                           *)
THEOREM OneTurnCorrect == Spec => []OneTurn
BY Invariance, PTL DEF IInv
=============================================================================
