------------------------ MODULE SingleShotSessionProofs ------------------------
(***************************************************************************)
(* What a single-shot session holds while it is used, for every number of  *)
(* senders.                                                                *)
(***************************************************************************)
EXTENDS SingleShotSessionProperties, TLAPS

Stage == {"boot", "log", "sandbox", "limits", "pipes", "child"}

(* What the stages before this one may take hold of.                        *)
Earlier(s) ==
  CASE s = "boot"    -> {}
    [] s = "log"     -> {"boot"}
    [] s = "sandbox" -> {"boot", "log"}
    [] s = "limits"  -> {"boot", "log", "sandbox"}
    [] s = "pipes"   -> {"boot", "log", "sandbox", "limits"}
    [] s = "child"   -> {"boot", "log", "sandbox", "limits", "pipes"}

(* Start takes one thing after the other and runs alone until the launch.   *)
Starting ==
  /\ startPC \in Stage =>
       held = wants \cap Earlier(startPC) /\ child = "none"
  /\ startPC \in Stage \cup {"prompt", "launch"} =>
       reader = "none" /\ waiter = "none" /\ stopPC = "idle" /\ lock = "free"
       /\ ~cleared
  /\ startPC \in {"prompt", "launch"} => child \in {"live", "exited"}
  /\ startPC \in {"ready", "firing", "stopping", "returned"} => waiter # "none"
  /\ waiter = "none" => \A c \in Callers : sendPC[c] = "idle"

(* The waiter lets go in its order, and what a stage still needs is there.  *)
Running ==
  /\ child \in {"live", "exited"} => held = wants /\ waiter \in {"none", "waiting"}
  /\ child \in {"live", "exited"} /\ waiter = "none" => startPC \in {"prompt", "launch"}
  /\ waiter \in {"reaped", "cleared", "closed"} => "log" \in held
  /\ waiter = "reaped" => "pipes" \in held
  /\ waiter \in {"none", "joined", "delivered", "cleaned", "ended"} =>
       reader \in {"none", "ended"}
  /\ waiter \notin {"none", "waiting"} => child = "reaped"
  /\ waiter = "waiting" => child \in {"live", "exited"}

(* An input is written only while the waiter has not taken the field away.  *)
Writing ==
  /\ cleared <=> waiter \in {"cleared", "closed", "joined", "delivered", "cleaned",
                             "ended"}
  /\ lock # "free" => waiter \in {"waiting", "reaped"}

(* Wait returns once the waiter says so, and not before.                    *)
Delivered ==
  /\ done <=> waiter \in {"delivered", "cleaned", "ended"}
  /\ startPC \in Stage \cup {"prompt"} => waiter = "none"

(* What is still held at each point of the waiter, and what a step of Start *)
(* that failed has left behind.                                             *)
Releasing ==
  /\ waiter = "closed" => held \subseteq Wraps \cup {"log"}
  /\ waiter \in {"joined", "delivered"} => held \subseteq Wraps
  /\ waiter = "cleaned" => held \subseteq {"boot"}
  /\ waiter = "ended" => held = {}
  /\ waiter \in {"joined", "delivered", "cleaned", "ended"} => reader = "ended"
  /\ startPC = "failed" /\ waiter = "none" =>
       held = {} /\ child \in {"none", "reaped"}

IInv == TypeOK /\ Starting /\ Running /\ Writing /\ Delivered

LEMMA IInit == Init => IInv
<1> SUFFICES ASSUME Init PROVE IInv
  OBVIOUS
<1> USE DEF Init
<1>1. TypeOK
  <2>1. sendPC \in [Callers -> {"idle", "called", "locking", "writing"}]
    OBVIOUS
  <2> QED
    BY <2>1 DEF TypeOK, Always, Wraps
<1>2. Starting /\ Running /\ Writing /\ Delivered
  BY DEF Starting, Running, Writing, Delivered, Stage, Earlier
<1> QED
  BY <1>1, <1>2 DEF IInv

(* One stage of Start.                                                      *)
LEMMA TakeStep == IInv /\ StartTakes => IInv'
<1> SUFFICES ASSUME IInv, StartTakes PROVE IInv'
  OBVIOUS
<1> PICK i \in 1..Len(Stages) :
      /\ StartStep(Stages[i], IF i < Len(Stages) THEN Stages[i + 1] ELSE AfterSpawn)
      /\ held' = held \cup ({Stages[i]} \cap wants)
      /\ child' = IF i = Len(Stages) THEN "live" ELSE child
      /\ UNCHANGED <<stuck, reader, waiter, sendPC>>
  BY DEF StartTakes
<1>0. Len(Stages) = 6 /\ i \in 1..6
  BY DEF Stages
<1>1. UNCHANGED <<kind, wants, first, cleared, closed, lock, alive, done, stopPC>>
  BY DEF StartStep, options, io
<1>2. CASE i = 1
  BY <1>0, <1>1, <1>2 DEF IInv, TypeOK, Starting, Running, Writing, Delivered,
    StartStep, Stages,
    Stage, Earlier, Always, Wraps
<1>3. CASE i = 2
  BY <1>0, <1>1, <1>3 DEF IInv, TypeOK, Starting, Running, Writing, Delivered,
    StartStep, Stages,
    Stage, Earlier, Always, Wraps
<1>4. CASE i = 3
  BY <1>0, <1>1, <1>4 DEF IInv, TypeOK, Starting, Running, Writing, Delivered,
    StartStep, Stages,
    Stage, Earlier, Always, Wraps
<1>5. CASE i = 4
  BY <1>0, <1>1, <1>5 DEF IInv, TypeOK, Starting, Running, Writing, Delivered,
    StartStep, Stages,
    Stage, Earlier, Always, Wraps
<1>6. CASE i = 5
  BY <1>0, <1>1, <1>6 DEF IInv, TypeOK, Starting, Running, Writing, Delivered,
    StartStep, Stages,
    Stage, Earlier, Always, Wraps
<1>7. CASE i = 6
  <2>1. startPC = "child" /\ startPC' \in {"prompt", "launch"}
    BY <1>0, <1>7 DEF StartStep, Stages, AfterSpawn
  <2>2. held' = wants /\ child' = "live"
    BY <1>0, <1>7, <2>1 DEF IInv, TypeOK, Starting, Stages, Stage, Earlier, Always,
      Wraps
  <2> QED
    BY <1>1, <2>1, <2>2 DEF IInv, TypeOK, Starting, Running, Writing, Delivered,
      Stage,
      Always, Wraps
<1> QED
  BY <1>0, <1>2, <1>3, <1>4, <1>5, <1>6, <1>7

(* Types, for the steps that touch many of the variables.                   *)
LEMMA TypeStep ==
  ASSUME TypeOK,
         \/ ChildSticks \/ ChildExit \/ StartReady \/ StartCancelled \/ StartFails
         \/ \E c \in Callers : SendEnter(c) \/ SendLocks(c)
         \/ ReaderStarts \/ ReaderReads \/ ReaderEnds \/ WaiterJoins \/ WaiterCleans
         \/ StopBegins \/ StopSeesDone \/ StopWaited \/ StopTerminates \/ StopKills
  PROVE  TypeOK'
<1> USE DEF TypeOK, options, procVars, io
<1>1. ASSUME ChildSticks \/ ChildExit PROVE TypeOK'
  BY <1>1 DEF ChildSticks, ChildExit
<1>2. ASSUME StartReady PROVE TypeOK'
  <2>1. sendPC' \in [Callers -> {"idle", "called", "locking", "writing"}]
    BY <1>2 DEF StartReady
  <2>2. startPC' = "firing"
    BY <1>2 DEF StartReady, StartStep
  <2> QED
    BY <1>2, <2>1, <2>2 DEF StartReady, StartStep
<1>3. ASSUME StartCancelled \/ StartFails PROVE TypeOK'
  BY <1>3 DEF StartCancelled, StartFails, StartStep
<1>4. ASSUME NEW c \in Callers, SendEnter(c) PROVE TypeOK'
  BY <1>4 DEF SendEnter, SendStep, Answer
<1>5. ASSUME NEW c \in Callers, SendLocks(c) PROVE TypeOK'
  BY <1>5 DEF SendLocks, SendStep, Answer
<1>6. ASSUME ReaderStarts \/ ReaderReads \/ ReaderEnds PROVE TypeOK'
  BY <1>6 DEF ReaderStarts, ReaderReads, ReaderEnds, ReaderStep
<1>7. ASSUME WaiterJoins \/ WaiterCleans PROVE TypeOK'
  BY <1>7 DEF WaiterJoins, WaiterCleans, WaiterStep
<1>8. ASSUME StopBegins PROVE TypeOK'
  <2>1. alive' \in BOOLEAN /\ stopPC' = "locking"
    BY <1>8 DEF StopBegins, StopStep
  <2>2. UNCHANGED <<kind, wants, first, startPC, held, child, stuck, reader, waiter,
                    cleared, closed, lock, done, sendPC>>
    BY <1>8 DEF StopBegins, StopStep
  <2> QED
    BY <2>1, <2>2
<1>9. ASSUME StopSeesDone \/ StopWaited \/ StopTerminates PROVE TypeOK'
  BY <1>9 DEF StopSeesDone, StopWaited, StopTerminates, StopStep
<1>10. ASSUME StopKills PROVE TypeOK'
  <2>1. child' \in {"none", "live", "exited", "reaped"} /\ stuck' \in BOOLEAN
    BY <1>10 DEF StopKills
  <2>2. UNCHANGED <<kind, wants, first, startPC, held, reader, waiter, cleared, closed,
                    lock, alive, done, sendPC>>
    BY <1>10 DEF StopKills, StopStep
  <2>3. stopPC' = "done"
    BY <1>10 DEF StopKills, StopStep
  <2> QED
    BY <2>1, <2>2, <2>3
<1> QED
  BY <1>1, <1>2, <1>3, <1>4, <1>5, <1>6, <1>7, <1>8, <1>9, <1>10

(* Everything else, step by step.                                           *)
LEMMA IStep == IInv /\ [Next]_vars => IInv'
<1> SUFFICES ASSUME IInv, [Next]_vars PROVE IInv'
  OBVIOUS
<1> USE SingleShotAssumption DEF IInv, TypeOK, Starting, Running, Writing,
  Delivered, Stage, Always, Wraps, options, procVars, io
<1>1. CASE ChildSticks \/ ChildExit
  <2>1. TypeOK'
    BY <1>1, TypeStep
  <2>2. Starting'
    BY <1>1 DEF ChildSticks, ChildExit
  <2>3. Running'
    BY <1>1 DEF ChildSticks, ChildExit
  <2>4. Writing'
    BY <1>1 DEF ChildSticks, ChildExit
  <2>5. Delivered'
    BY <1>1 DEF ChildSticks, ChildExit
  <2> QED
    BY <2>1, <2>2, <2>3, <2>4, <2>5
<1>2. CASE StartTakes
  BY <1>2, TakeStep
<1>3. CASE StartFailsAt
  <2>1. /\ startPC \in Stage /\ startPC' = "failed"
        /\ held' \subseteq held
        /\ UNCHANGED <<options, io, alive, done, stopPC, procVars, reader, waiter, sendPC>>
    BY <1>3 DEF StartFailsAt, StartStep, Stages
  <2> QED
    BY <2>1
<1>4. CASE PromptWritten
  BY <1>4 DEF PromptWritten, StartStep
<1>5. CASE PromptFails
  BY <1>5 DEF PromptFails, StartStep
<1>6. CASE StartLaunches
  <2>1. sendPC' \in [Callers -> {"idle", "called", "locking", "writing"}]
    BY <1>6 DEF StartLaunches
  <2>2. startPC = "launch" /\ startPC' \in {"ready", "firing", "returned"}
    BY <1>6 DEF StartLaunches, StartStep
  <2> QED
    BY <1>6, <2>1, <2>2 DEF StartLaunches, StartStep
<1>7. CASE StartReady
  <2>1. TypeOK'
    BY <1>7, TypeStep
  <2>2. Starting'
    BY <1>7 DEF StartReady, StartStep
  <2>3. Running'
    BY <1>7 DEF StartReady, StartStep
  <2>4. Writing'
    BY <1>7 DEF StartReady, StartStep
  <2>5. Delivered'
    BY <1>7 DEF StartReady, StartStep
  <2> QED
    BY <2>1, <2>2, <2>3, <2>4, <2>5
<1>8. CASE StartCancelled \/ StartFails
  <2>1. TypeOK'
    BY <1>8, TypeStep
  <2>2. Starting'
    BY <1>8 DEF StartCancelled, StartFails, StartStep
  <2>3. Running'
    BY <1>8 DEF StartCancelled, StartFails, StartStep
  <2>4. Writing'
    BY <1>8 DEF StartCancelled, StartFails, StartStep
  <2>5. Delivered'
    BY <1>8 DEF StartCancelled, StartFails, StartStep
  <2> QED
    BY <2>1, <2>2, <2>3, <2>4, <2>5
<1>9. ASSUME NEW c \in Senders, SendCall(c) PROVE IInv'
  <2>1. c \in Callers
    BY DEF Callers
  <2> QED
    BY <1>9, <2>1 DEF SendCall, SendStep
<1>10. ASSUME NEW c \in Callers, SendEnter(c) PROVE IInv'
  <2>1. TypeOK'
    BY <1>10, TypeStep
  <2>2. Starting'
    BY <1>10 DEF SendEnter, SendStep, Answer
  <2>3. Running'
    BY <1>10 DEF SendEnter, SendStep, Answer
  <2>4. Writing'
    BY <1>10 DEF SendEnter, SendStep, Answer
  <2>5. Delivered'
    BY <1>10 DEF SendEnter, SendStep, Answer
  <2> QED
    BY <2>1, <2>2, <2>3, <2>4, <2>5
<1>11. ASSUME NEW c \in Callers, SendLocks(c) PROVE IInv'
  <2>1. TypeOK'
    BY <1>11, TypeStep
  <2>2. Starting'
    BY <1>11 DEF SendLocks, SendStep, Answer, Callers
  <2>3. Running'
    BY <1>11 DEF SendLocks, SendStep, Answer, Callers
  <2>4. Writing'
    BY <1>11 DEF SendLocks, SendStep, Answer, Callers
  <2>5. Delivered'
    BY <1>11 DEF SendLocks, SendStep, Answer, Callers
  <2> QED
    BY <2>1, <2>2, <2>3, <2>4, <2>5
<1>12. ASSUME NEW c \in Callers, SendWritten(c) PROVE IInv'
  BY <1>12 DEF SendWritten, SendStep, Answer
<1>13. ASSUME NEW c \in Callers, SendFails(c) PROVE IInv'
  BY <1>13 DEF SendFails, SendStep, Answer
<1>14. CASE ReaderStarts \/ ReaderReads \/ ReaderEnds
  <2>1. TypeOK'
    BY <1>14, TypeStep
  <2>2. Starting'
    BY <1>14 DEF ReaderStarts, ReaderReads, ReaderEnds, ReaderStep
  <2>3. Running'
    BY <1>14 DEF ReaderStarts, ReaderReads, ReaderEnds, ReaderStep
  <2>4. Writing'
    BY <1>14 DEF ReaderStarts, ReaderReads, ReaderEnds, ReaderStep
  <2>5. Delivered'
    BY <1>14 DEF ReaderStarts, ReaderReads, ReaderEnds, ReaderStep
  <2> QED
    BY <2>1, <2>2, <2>3, <2>4, <2>5
<1>15. CASE WaiterReaps
  BY <1>15 DEF WaiterReaps, WaiterStep
<1>16. CASE WaiterClears
  BY <1>16 DEF WaiterClears, WaiterStep
<1>17. CASE WaiterCloses
  BY <1>17 DEF WaiterCloses, WaiterStep
<1>18. CASE WaiterJoins
  <2>1. TypeOK'
    BY <1>18, TypeStep
  <2>2. Starting'
    BY <1>18 DEF WaiterJoins, WaiterStep
  <2>3. Running'
    BY <1>18 DEF WaiterJoins, WaiterStep
  <2>4. Writing'
    BY <1>18 DEF WaiterJoins, WaiterStep
  <2>5. Delivered'
    BY <1>18 DEF WaiterJoins, WaiterStep
  <2> QED
    BY <2>1, <2>2, <2>3, <2>4, <2>5
<1>19. CASE WaiterDelivers
  BY <1>19 DEF WaiterDelivers, WaiterStep
<1>20. CASE WaiterCleans
  <2>1. TypeOK'
    BY <1>20, TypeStep
  <2>2. Starting'
    BY <1>20 DEF WaiterCleans, WaiterStep
  <2>3. Running'
    BY <1>20 DEF WaiterCleans, WaiterStep
  <2>4. Writing'
    BY <1>20 DEF WaiterCleans, WaiterStep
  <2>5. Delivered'
    BY <1>20 DEF WaiterCleans, WaiterStep
  <2> QED
    BY <2>1, <2>2, <2>3, <2>4, <2>5
<1>21. CASE StopBegins
  <2>1. TypeOK'
    BY <1>21, TypeStep
  <2>2. Starting'
    BY <1>21 DEF StopBegins, StopStep
  <2>3. Running'
    BY <1>21 DEF StopBegins, StopStep
  <2>4. Writing'
    BY <1>21 DEF StopBegins, StopStep
  <2>5. Delivered'
    BY <1>21 DEF StopBegins, StopStep
  <2> QED
    BY <2>1, <2>2, <2>3, <2>4, <2>5
<1>22. CASE StopLocks
  <2>1. /\ stopPC' \in {"waiting", "signal"} /\ closed' \in BOOLEAN
        /\ stopPC = "locking"
    BY <1>22 DEF StopLocks, StopStep
  <2>2. startPC \notin Stage \cup {"prompt", "launch"}
    BY <2>1
  <2>3. UNCHANGED <<kind, wants, first, startPC, held, child, stuck, reader, waiter,
                    cleared, lock, alive, done, sendPC>>
    BY <1>22 DEF StopLocks, StopStep
  <2> QED
    BY <2>1, <2>2, <2>3
<1>23. CASE StopSeesDone \/ StopWaited \/ StopTerminates
  <2>1. TypeOK'
    BY <1>23, TypeStep
  <2>2. Starting'
    BY <1>23 DEF StopSeesDone, StopWaited, StopTerminates, StopStep
  <2>3. Running'
    BY <1>23 DEF StopSeesDone, StopWaited, StopTerminates, StopStep
  <2>4. Writing'
    BY <1>23 DEF StopSeesDone, StopWaited, StopTerminates, StopStep
  <2>5. Delivered'
    BY <1>23 DEF StopSeesDone, StopWaited, StopTerminates, StopStep
  <2> QED
    BY <2>1, <2>2, <2>3, <2>4, <2>5
<1>24. CASE StopKills
  <2>1. TypeOK'
    BY <1>24, TypeStep
  <2>2. Starting'
    BY <1>24 DEF StopKills, StopStep
  <2>3. Running'
    BY <1>24 DEF StopKills, StopStep
  <2>4. Writing'
    BY <1>24 DEF StopKills, StopStep
  <2>5. Delivered'
    BY <1>24 DEF StopKills, StopStep
  <2> QED
    BY <2>1, <2>2, <2>3, <2>4, <2>5
<1>25. CASE UNCHANGED vars
  BY <1>25 DEF vars
<1> QED
  BY <1>1, <1>2, <1>3, <1>4, <1>5, <1>6, <1>7, <1>8, <1>9, <1>10, <1>11, <1>12,
     <1>13, <1>14, <1>15, <1>16, <1>17, <1>18, <1>19, <1>20, <1>21, <1>22, <1>23,
     <1>24, <1>25
  DEF Next, StartNext, SendGoes, WaiterNext, StopNext

LEMMA Invariance == Spec => []IInv
BY IInit, IStep, PTL DEF Spec

(* TypeOK of SingleShotSessionProperties: every variable keeps its type.    *)
THEOREM TypeCorrect == Spec => []TypeOK
<1>1. IInv => TypeOK
  BY DEF IInv
<1> QED
  BY Invariance, <1>1, PTL

(* HeldWhileUsed: the child keeps what it runs in until it is reaped, the   *)
(* reader its log until it has been joined, an input the pty master until   *)
(* its writer has left the lock.                                            *)
THEOREM HeldCorrect == Spec => []HeldWhileUsed
<1>1. IInv => HeldWhileUsed
  BY DEF IInv, TypeOK, Starting, Running, Writing, Always, HeldWhileUsed
<1> QED
  BY Invariance, <1>1, PTL

LEMMA ReleasingInit == Init => Releasing
BY DEF Init, Releasing

LEMMA ReleasingStep == IInv /\ Releasing /\ [Next]_vars => Releasing'
<1> SUFFICES ASSUME IInv, Releasing, [Next]_vars PROVE Releasing'
  OBVIOUS
<1> USE DEF Releasing, options, procVars, io
<1>1. CASE ChildSticks \/ ChildExit
  BY <1>1 DEF ChildSticks, ChildExit, IInv, Starting, Running, Stage
<1>2. CASE StartTakes
  <2>1. startPC \in Stage /\ UNCHANGED waiter
    BY <1>2 DEF StartTakes, StartStep, Stages, Stage
  <2>2. startPC' # "failed"
    BY <1>2 DEF StartTakes, StartStep, Stages, AfterSpawn
  <2> QED
    BY <2>1, <2>2 DEF IInv, Starting
<1>3. CASE StartFailsAt
  <2>1. PICK i \in 1..6 :
          startPC = Stages[i] /\ held' = held \ LetGo(Stages[i])
          /\ UNCHANGED <<waiter, child>>
    BY <1>3 DEF StartFailsAt, StartStep, Stages
  <2>2. held' = {}
    BY <2>1 DEF Stages, Stage, LetGo, Earlier, IInv, Starting
  <2>3. startPC \in Stage
    BY <2>1 DEF Stages, Stage
  <2> QED
    BY <2>1, <2>2, <2>3 DEF IInv, Starting
<1>4. CASE PromptFails
  BY <1>4 DEF PromptFails, StartStep
<1>5. CASE PromptWritten \/ StartLaunches \/ StartReady \/ StartCancelled
  <2>1. /\ startPC' # "failed" /\ held' = held
        /\ UNCHANGED <<waiter, reader>> \/ waiter' = "waiting"
    BY <1>5 DEF PromptWritten, StartLaunches, StartReady, StartCancelled, StartStep
  <2> QED
    BY <2>1
<1>6. CASE StartFails
  BY <1>6 DEF StartFails, StartStep, IInv, Starting
<1>7. ASSUME NEW c \in Senders, SendCall(c) PROVE Releasing'
  BY <1>7 DEF SendCall, SendStep
<1>8. ASSUME NEW c \in Callers, SendGoes(c) PROVE Releasing'
  <2>1. /\ UNCHANGED <<held, child, waiter, reader>>
        /\ startPC' = startPC \/ startPC' \in {"returned", "stopping"}
    BY <1>8 DEF SendGoes, SendEnter, SendLocks, SendWritten, SendFails, SendStep,
      Answer
  <2> QED
    BY <2>1
<1>9. CASE ReaderStarts \/ ReaderReads \/ ReaderEnds
  BY <1>9 DEF ReaderStarts, ReaderReads, ReaderEnds, ReaderStep
<1>10. CASE WaiterReaps \/ WaiterClears \/ WaiterDelivers
  BY <1>10 DEF WaiterReaps, WaiterClears, WaiterDelivers, WaiterStep
<1>11. CASE WaiterCloses
  BY <1>11 DEF WaiterCloses, WaiterStep, IInv, TypeOK, Always, Wraps
<1>12. CASE WaiterJoins
  BY <1>12 DEF WaiterJoins, WaiterStep, Wraps
<1>13. CASE WaiterCleans
  BY <1>13 DEF WaiterCleans, WaiterStep, Wraps
<1>14. CASE StopBegins \/ StopLocks \/ StopSeesDone \/ StopWaited \/ StopTerminates
  BY <1>14 DEF StopBegins, StopLocks, StopSeesDone, StopWaited, StopTerminates,
    StopStep
<1>15. CASE StopKills
  BY <1>15 DEF StopKills, StopStep
<1>16. CASE UNCHANGED vars
  BY <1>16 DEF vars
<1> QED
  BY <1>1, <1>2, <1>3, <1>4, <1>5, <1>6, <1>7, <1>8, <1>9, <1>10, <1>11, <1>12,
     <1>13, <1>14, <1>15, <1>16
  DEF Next, StartNext, WaiterNext, StopNext

(* NothingLeft, the safety half of RefusedStartLeavesNothing: every error   *)
(* branch of Start and every step of the waiter lets go what it has to.     *)
THEOREM LeavesNothing == Spec => []NothingLeft
<1>1. Spec => []Releasing
  BY Invariance, ReleasingInit, ReleasingStep, PTL DEF Spec
<1>2. IInv /\ Releasing => NothingLeft
  BY DEF IInv, Running, Delivered, Releasing, NothingLeft, Wraps
<1> QED
  BY Invariance, <1>1, <1>2, PTL

(* types.go:620.  A single-shot session is a session (SessionContract) in   *)
(* its safety: it is over once, and only when its process is gone.          *)
Contract == INSTANCE SessionContract WITH
  Results <- {0}, told <- stopPC # "idle", running <- child \in {"live", "exited"},
  over <- done, result <- 0

THEOREM ImplementsContract == Spec => Contract!Spec
<1>1. Init => Contract!Init
  BY DEF Init, Contract!Init
<1>2. IInv /\ [Next]_vars => [Contract!Next]_(Contract!vars)
  <2> SUFFICES ASSUME IInv, [Next]_vars PROVE [Contract!Next]_(Contract!vars)
    OBVIOUS
  <2> USE DEF Contract!Next, Contract!vars, procVars
  <2>1. CASE StopBegins
    BY <2>1 DEF StopBegins, StopStep, Contract!Tell
  <2>2. CASE StartTakes \/ PromptFails \/ WaiterReaps
    <3>1. UNCHANGED <<done, stopPC>>
      BY <2>2 DEF StartTakes, PromptFails, WaiterReaps, StartStep, WaiterStep
    <3>2. StartTakes => startPC \in Stage
      BY DEF StartTakes, StartStep, Stages, Stage
    <3>3. waiter \in {"none", "waiting"}
      BY <2>2, <3>2 DEF PromptFails, WaiterReaps, StartStep, WaiterStep, IInv,
        Delivered
    <3> QED
      BY <3>1, <3>3 DEF Contract!Work, IInv, TypeOK, Delivered
  <2>3. CASE WaiterDelivers
    BY <2>3 DEF WaiterDelivers, WaiterStep, Contract!Finish, IInv, Running,
      Delivered
  <2>4. CASE ChildSticks \/ ChildExit
    BY <2>4 DEF ChildSticks, ChildExit
  <2>5. CASE StartFailsAt \/ PromptWritten \/ StartLaunches \/ StartReady
             \/ StartCancelled \/ StartFails
    BY <2>5 DEF StartFailsAt, PromptWritten, StartLaunches, StartReady,
      StartCancelled,
      StartFails, StartStep
  <2>6. ASSUME NEW c \in Senders, SendCall(c) PROVE UNCHANGED Contract!vars
    BY <2>6 DEF SendCall, SendStep
  <2>7. ASSUME NEW c \in Callers, SendGoes(c) PROVE UNCHANGED Contract!vars
    BY <2>7 DEF SendGoes, SendEnter, SendLocks, SendWritten, SendFails, SendStep
  <2>8. CASE ReaderStarts \/ ReaderReads \/ ReaderEnds
    BY <2>8 DEF ReaderStarts, ReaderReads, ReaderEnds, ReaderStep
  <2>9. CASE WaiterClears \/ WaiterCloses \/ WaiterJoins \/ WaiterCleans
    BY <2>9 DEF WaiterClears, WaiterCloses, WaiterJoins, WaiterCleans, WaiterStep
  <2>10. CASE StopNext
    BY <2>10 DEF StopNext, StopLocks, StopSeesDone, StopWaited, StopTerminates,
      StopKills,
      StopStep, IInv, TypeOK
  <2>11. CASE UNCHANGED vars
    BY <2>11 DEF vars
  <2> QED
    BY <2>1, <2>2, <2>3, <2>4, <2>5, <2>6, <2>7, <2>8, <2>9, <2>10, <2>11
    DEF Next, StartNext, WaiterNext
<1> QED
  BY Invariance, <1>1, <1>2, PTL DEF Spec, Contract!Spec
=============================================================================
