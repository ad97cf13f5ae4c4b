------------------------ MODULE ServeHttpSessionProofs ------------------------
(***************************************************************************)
(* Turns and the end of a serve-http session, for any number of callers,   *)
(* turns and reports.                                                      *)
(***************************************************************************)
EXTENDS ServeHttpSessionProperties, TLAPS

(* As long as the server and the session agree on when a turn is over,      *)
(* there is one claim, one turn or one event, and the flag says so.         *)
Tracked ==
  ~loose =>
    /\ running + events <= 1
    /\ running + events = 1 =>
         inFlight /\ \A c \in Callers : sendPC[c] # "claimed"
    /\ \A c, d \in Callers :
         sendPC[c] = "claimed" => inFlight /\ (sendPC[d] = "claimed" => c = d)

(* Both finishers run after the process has been reaped; the one that       *)
(* judges first is the only one, and it has delivered when done is closed.  *)
Finishing ==
  /\ processDone # "empty" => child = "reaped"
  /\ \A f \in Finishers :
       /\ fin[f] \in {"received", "judged", "ended"} => child = "reaped"
       /\ fin[f] = "ended" => done
       /\ fin[f] = "judged" =>
            ~done /\ \A g \in Finishers : fin[g] = "judged" => f = g
  /\ done => child = "reaped"

Typed == TypeOK /\ running <= turns

(* The SendInput of the first turn comes when Start is nearly over.         *)
Firing ==
  sendPC["start"] # "idle" => startPC \in {"firing", "stopping", "failed", "returned"}

Rest == FlightIsOwned /\ Tracked /\ Finishing /\ Firing

IInv == Typed /\ Rest

(* The invariant holds when the server has been spawned.                    *)
LEMMA IInit == Init => IInv
<1> SUFFICES ASSUME Init PROVE IInv
  OBVIOUS
<1> USE ServeHttpAssumption DEF Init, Finishers
<1>1. TypeOK
  <2>1. fin \in [Finishers -> {"none", "waiting", "received", "judged", "ended"}]
    OBVIOUS
  <2>2. turns \in 0..MaxTurns /\ running \in 0..MaxTurns /\ reports \in 0..MaxReports
    OBVIOUS
  <2> QED
    BY <2>1, <2>2, Zenon DEF TypeOK
<1>2. FlightIsOwned /\ Tracked /\ Finishing /\ Firing
  BY DEF FlightIsOwned, Tracked, Finishing, Firing, Callers
<1> QED
  BY <1>1, <1>2 DEF IInv, Typed, Rest

(* Types, step by step.                                                     *)
LEMMA TypeStep == Typed /\ [Next]_vars => Typed'
<1> SUFFICES ASSUME Typed, [Next]_vars PROVE Typed'
  OBVIOUS
<1> USE ServeHttpAssumption DEF Typed, TypeOK, procVars, finVars,
  startVars, serverVars, streamVars
<1>1. CASE ChildExit
  BY <1>1 DEF ChildExit
<1>2. CASE ServerPrints
  BY <1>2 DEF ServerPrints
<1>3. CASE ServerEndsTurn
  <2>1. running' \in 0..MaxTurns /\ running' <= turns'
    BY <1>3 DEF ServerEndsTurn, Emit
  <2>2. events' \in Nat
    BY <1>3 DEF ServerEndsTurn, Emit
  <2>3. deaf' \in BOOLEAN
    BY <1>3 DEF ServerEndsTurn, Emit
  <2>4. UNCHANGED <<child, exit, processDone, fin, got, code, done, url,
                  known, startPC, turns, reports, stream, cancelled, alive,
                  inFlight, sendPC, loose, stopPC>>
    BY <1>3 DEF ServerEndsTurn, Emit
  <2> QED
    BY <2>1, <2>2, <2>3, <2>4
<1>4. CASE ServerEndsStep
  BY <1>4 DEF ServerEndsStep
<1>5. CASE Reap
  BY <1>5 DEF Reap
<1>6. ASSUME NEW f \in Finishers, FinisherReceives(f) PROVE Typed'
  <2>1. got' \in [Finishers -> {0, 1}]
    BY <1>6 DEF FinisherReceives, FinisherStep
  <2>2. fin' \in [Finishers -> {"none", "waiting", "received", "judged", "ended"}]
    BY <1>6 DEF FinisherReceives, FinisherStep
  <2>3. processDone' = "closed" /\ alive' \in BOOLEAN
    BY <1>6 DEF FinisherReceives, FinisherStep
  <2>4. UNCHANGED <<child, exit, code, done, url, known, startPC, turns,
                  running, reports, stream, cancelled, events, deaf, inFlight,
                  sendPC, loose, stopPC>>
    BY <1>6 DEF FinisherReceives, FinisherStep
  <2> QED
    BY <2>1, <2>2, <2>3, <2>4
<1>7. ASSUME NEW f \in Finishers, FinisherJudges(f) PROVE Typed'
  BY <1>7 DEF FinisherJudges, FinisherStep
<1>8. ASSUME NEW f \in Finishers, FinisherDelivers(f) PROVE Typed'
  BY <1>8 DEF FinisherDelivers, FinisherStep
<1>9. ASSUME NEW f \in Finishers, FinisherSkips(f) PROVE Typed'
  BY <1>9 DEF FinisherSkips, FinisherStep
<1>10. CASE StartHasURL
  BY <1>10 DEF StartHasURL, StartStep
<1>11. CASE StartSeesExit
  BY <1>11 DEF StartSeesExit, StartStep
<1>12. CASE StartHealthy
  BY <1>12 DEF StartHealthy, StartStep
<1>13. CASE StartCreates
  BY <1>13 DEF StartCreates, StartStep
<1>14. CASE StartGivesUp
  BY <1>14 DEF StartGivesUp, StartStep
<1>15. CASE StartLaunches
  BY <1>15 DEF StartLaunches, StartStep, Finishers
<1>16. CASE StartFails
  BY <1>16 DEF StartFails, StartStep
<1>17. ASSUME NEW c \in Callers, SendCall(c) PROVE Typed'
  BY <1>17 DEF SendCall, SendStep
<1>18. ASSUME NEW c \in Callers, SendEnter(c) PROVE Typed'
  BY <1>18 DEF SendEnter, SendStep, Answer
<1>19. ASSUME NEW c \in Callers, SendClaim(c) PROVE Typed'
  <2>1. inFlight' \in BOOLEAN
    BY <1>19 DEF SendClaim, SendStep, Answer
  <2>2. sendPC' \in [Callers -> {"idle", "called", "entered", "claimed", "posted"}]
    BY <1>19 DEF SendClaim, SendStep, Answer
  <2>3. startPC' \in {"url", "health", "create", "launch", "firing", "stopping",
                    "failed", "returned"}
    BY <1>19 DEF SendClaim, SendStep, Answer
  <2>4. UNCHANGED <<child, exit, processDone, fin, got, code, done, url,
                  known, turns, running, reports, stream, cancelled, events,
                  deaf, alive, loose, stopPC>>
    BY <1>19 DEF SendClaim, SendStep, Answer
  <2> QED
    BY <2>1, <2>2, <2>3, <2>4
<1>20. ASSUME NEW c \in Callers, SendPost(c) PROVE Typed'
  BY <1>20 DEF SendPost, SendStep
<1>21. ASSUME NEW c \in Callers, SendAnswered(c) PROVE Typed'
  BY <1>21 DEF SendAnswered, SendStep, Answer
<1>22. ASSUME NEW c \in Callers, SendFails(c) PROVE Typed'
  <2>1. inFlight' \in BOOLEAN
    BY <1>22 DEF SendFails, SendStep, Answer
  <2>2. loose' \in BOOLEAN
    BY <1>22 DEF SendFails, SendStep, Answer
  <2>3. sendPC' \in [Callers -> {"idle", "called", "entered", "claimed", "posted"}]
    BY <1>22 DEF SendFails, SendStep, Answer
  <2>4. startPC' \in {"url", "health", "create", "launch", "firing", "stopping",
                    "failed", "returned"}
    BY <1>22 DEF SendFails, SendStep, Answer
  <2>5. UNCHANGED <<child, exit, processDone, fin, got, code, done, url,
                  known, turns, running, reports, stream, cancelled, events,
                  deaf, alive, stopPC>>
    BY <1>22 DEF SendFails, SendStep, Answer
  <2> QED
    BY <2>1, <2>2, <2>3, <2>4, <2>5
<1>23. CASE StreamArms
  BY <1>23 DEF StreamArms, StreamStep
<1>24. CASE StreamOpens
  BY <1>24 DEF StreamOpens, StreamStep
<1>25. CASE StreamEnds
  BY <1>25 DEF StreamEnds, StreamStep
<1>26. CASE StreamTakes
  <2>1. events' \in Nat
    BY <1>26 DEF StreamTakes, StreamStep
  <2>2. inFlight' \in BOOLEAN
    BY <1>26 DEF StreamTakes, StreamStep
  <2>3. UNCHANGED <<child, exit, processDone, fin, got, code, done, url,
                  known, startPC, turns, running, reports, stream, cancelled,
                  deaf, alive, sendPC, loose, stopPC>>
    BY <1>26 DEF StreamTakes, StreamStep
  <2> QED
    BY <2>1, <2>2, <2>3
<1>27. CASE StopBegin
  <2>1. stopPC' \in {"disposing", "waiting"}
    BY <1>27 DEF StopBegin, StopStep
  <2>2. alive' \in BOOLEAN
    BY <1>27 DEF StopBegin, StopStep
  <2>3. cancelled' \in BOOLEAN
    BY <1>27 DEF StopBegin, StopStep
  <2>4. UNCHANGED <<child, exit, processDone, fin, got, code, done, url,
                  known, startPC, turns, running, reports, stream, events,
                  deaf, inFlight, sendPC, loose>>
    BY <1>27 DEF StopBegin, StopStep
  <2> QED
    BY <2>1, <2>2, <2>3, <2>4
<1>28. CASE StopDisposes
  BY <1>28 DEF StopDisposes, StopStep
<1>29. CASE StopAborts
  BY <1>29 DEF StopAborts, StopStep
<1>30. CASE StopSeesDone
  <2>1. stopPC' = "done"
    BY <1>30 DEF StopSeesDone, StopStep
  <2>2. UNCHANGED <<child, exit, processDone, fin, got, code, done, url,
                  known, startPC, turns, running, reports, stream, cancelled,
                  events, deaf, alive, inFlight, sendPC, loose>>
    BY <1>30 DEF StopSeesDone, StopStep
  <2> QED
    BY <2>1, <2>2
<1>31. CASE StopTerminates
  BY <1>31 DEF StopTerminates, StopStep
<1>32. CASE StopKills
  BY <1>32 DEF StopKills
<1>33. CASE UNCHANGED vars
  BY <1>33 DEF vars
<1> QED
  BY <1>1, <1>2, <1>3, <1>4, <1>5, <1>6, <1>7, <1>8, <1>9, <1>10, <1>11, <1>12,
    <1>13, <1>14, <1>15, <1>16, <1>17, <1>18, <1>19, <1>20, <1>21, <1>22, <1>23,
    <1>24, <1>25, <1>26, <1>27, <1>28, <1>29, <1>30, <1>31, <1>32, <1>33
  DEF Next, FinisherNext, StartNext, SendGoes, StreamNext, StopNext, Callers

(* Every step keeps the rest of it: one case per action.                    *)
LEMMA IStep == IInv /\ [Next]_vars => IInv'
<1> SUFFICES ASSUME IInv, [Next]_vars PROVE Rest'
  BY TypeStep DEF IInv
<1> USE ServeHttpAssumption DEF IInv, Rest, Typed, TypeOK, FlightIsOwned, Tracked,
  Finishing, Firing, Callers, procVars, finVars, startVars, serverVars, streamVars
<1>1. CASE ChildExit
  BY <1>1 DEF ChildExit
<1>2. CASE ServerPrints
  BY <1>2 DEF ServerPrints
<1>3. CASE ServerEndsTurn
  <2>1. FlightIsOwned'
    BY <1>3 DEF ServerEndsTurn, Emit
  <2>2. Tracked'
    BY <1>3 DEF ServerEndsTurn, Emit
  <2>3. Finishing' /\ Firing'
    BY <1>3 DEF ServerEndsTurn, Emit
  <2> QED
    BY <2>1, <2>2, <2>3
<1>4. CASE ServerEndsStep
  BY <1>4 DEF ServerEndsStep
<1>5. CASE Reap
  BY <1>5 DEF Reap
<1>6. ASSUME NEW f \in Finishers, FinisherReceives(f) PROVE Rest'
  <2>1. FlightIsOwned'
    BY <1>6 DEF FinisherReceives, FinisherStep
  <2>2. Tracked'
    BY <1>6 DEF FinisherReceives, FinisherStep
  <2>3. Finishing' /\ Firing'
    BY <1>6 DEF FinisherReceives, FinisherStep
  <2> QED
    BY <2>1, <2>2, <2>3
<1>7. ASSUME NEW f \in Finishers, FinisherJudges(f) PROVE Rest'
  BY <1>7 DEF FinisherJudges, FinisherStep
<1>8. ASSUME NEW f \in Finishers, FinisherDelivers(f) PROVE Rest'
  BY <1>8 DEF FinisherDelivers, FinisherStep
<1>9. ASSUME NEW f \in Finishers, FinisherSkips(f) PROVE Rest'
  BY <1>9 DEF FinisherSkips, FinisherStep
<1>10. CASE StartHasURL
  BY <1>10 DEF StartHasURL, StartStep
<1>11. CASE StartSeesExit
  BY <1>11 DEF StartSeesExit, StartStep
<1>12. CASE StartHealthy
  BY <1>12 DEF StartHealthy, StartStep
<1>13. CASE StartCreates
  BY <1>13 DEF StartCreates, StartStep
<1>14. CASE StartGivesUp
  BY <1>14 DEF StartGivesUp, StartStep
<1>15. CASE StartLaunches
  <2>1. FlightIsOwned'
    <3>1. sendPC["start"] = "idle" /\ inFlight' = inFlight /\ deaf' = deaf
          /\ running' = running /\ events' = events
      BY <1>15 DEF StartLaunches, StartStep
    <3>2. \A c \in Callers : sendPC[c] = "claimed" => sendPC'[c] = "claimed"
      BY <1>15, <3>1 DEF StartLaunches, StartStep
    <3> QED
      BY <3>1, <3>2
  <2>2. Tracked'
    BY <1>15 DEF StartLaunches, StartStep, Finishers
  <2>3. Finishing' /\ Firing'
    BY <1>15 DEF StartLaunches, StartStep, Finishers
  <2> QED
    BY <2>1, <2>2, <2>3
<1>16. CASE StartFails
  BY <1>16 DEF StartFails, StartStep
<1>17. ASSUME NEW c \in Callers, SendCall(c) PROVE Rest'
  BY <1>17 DEF SendCall, SendStep
<1>18. ASSUME NEW c \in Callers, SendEnter(c) PROVE Rest'
  BY <1>18 DEF SendEnter, SendStep, Answer
<1>19. ASSUME NEW c \in Callers, SendClaim(c) PROVE Rest'
  <2>1. FlightIsOwned'
    <3>1. CASE sendPC' = [sendPC EXCEPT ![c] = "claimed"]
      BY <3>1
    <3>2. CASE inFlight /\ sendPC[c] = "entered" /\ sendPC' = [sendPC EXCEPT ![c] = "idle"]
      <4>1. deaf' = deaf /\ running' = running /\ events' = events
        BY <1>19 DEF SendClaim, SendStep
      <4>2. \A d \in Callers : sendPC[d] = "claimed" => sendPC'[d] = "claimed"
        BY <3>2
      <4> QED
        BY <3>2, <4>1, <4>2
    <3> QED
      BY <1>19, <3>1, <3>2 DEF SendClaim, SendStep
  <2>2. Tracked'
    BY <1>19 DEF SendClaim, SendStep, Answer
  <2>3. Finishing' /\ Firing'
    BY <1>19 DEF SendClaim, SendStep, Answer
  <2> QED
    BY <2>1, <2>2, <2>3
<1>20. ASSUME NEW c \in Callers, SendPost(c) PROVE Rest'
  BY <1>20 DEF SendPost, SendStep
<1>21. ASSUME NEW c \in Callers, SendAnswered(c) PROVE Rest'
  BY <1>21 DEF SendAnswered, SendStep, Answer
<1>22. ASSUME NEW c \in Callers, SendFails(c) PROVE Rest'
  <2>1. FlightIsOwned'
    BY <1>22 DEF SendFails, SendStep, Answer
  <2>2. Tracked'
    BY <1>22 DEF SendFails, SendStep, Answer
  <2>3. Finishing' /\ Firing'
    BY <1>22 DEF SendFails, SendStep, Answer
  <2> QED
    BY <2>1, <2>2, <2>3
<1>23. CASE StreamArms
  BY <1>23 DEF StreamArms, StreamStep
<1>24. CASE StreamOpens
  BY <1>24 DEF StreamOpens, StreamStep
<1>25. CASE StreamEnds
  BY <1>25 DEF StreamEnds, StreamStep
<1>26. CASE StreamTakes
  <2>1. FlightIsOwned'
    BY <1>26 DEF StreamTakes, StreamStep
  <2>2. Tracked'
    BY <1>26 DEF StreamTakes, StreamStep
  <2>3. Finishing' /\ Firing'
    BY <1>26 DEF StreamTakes, StreamStep
  <2> QED
    BY <2>1, <2>2, <2>3
<1>27. CASE StopBegin
  <2>1. FlightIsOwned'
    BY <1>27 DEF StopBegin, StopStep
  <2>2. Tracked'
    BY <1>27 DEF StopBegin, StopStep
  <2>3. Finishing' /\ Firing'
    BY <1>27 DEF StopBegin, StopStep
  <2> QED
    BY <2>1, <2>2, <2>3
<1>28. CASE StopDisposes
  BY <1>28 DEF StopDisposes, StopStep
<1>29. CASE StopAborts
  BY <1>29 DEF StopAborts, StopStep
<1>30. CASE StopSeesDone
  <2>1. CASE StopStep("waiting", "done")
    BY <1>30, <2>1 DEF StopSeesDone, StopStep
  <2>2. CASE StopStep("grace", "done")
    BY <1>30, <2>2 DEF StopSeesDone, StopStep
  <2> QED
    BY <1>30, <2>1, <2>2 DEF StopSeesDone
<1>31. CASE StopTerminates
  BY <1>31 DEF StopTerminates, StopStep
<1>32. CASE StopKills
  BY <1>32 DEF StopKills
<1>33. CASE UNCHANGED vars
  BY <1>33 DEF vars
<1> QED
  BY <1>1, <1>2, <1>3, <1>4, <1>5, <1>6, <1>7, <1>8, <1>9, <1>10, <1>11, <1>12,
    <1>13, <1>14, <1>15, <1>16, <1>17, <1>18, <1>19, <1>20, <1>21, <1>22, <1>23,
    <1>24, <1>25, <1>26, <1>27, <1>28, <1>29, <1>30, <1>31, <1>32, <1>33
  DEF Next, FinisherNext, StartNext, SendGoes, StreamNext, StopNext, Callers

LEMMA Invariance == Spec => []IInv
BY IInit, IStep, PTL DEF Spec

(* Every variable keeps its type, whatever the numbers of callers, turns    *)
(* and events.                                                              *)
THEOREM TypeCorrect == Spec => []TypeOK
BY Invariance, PTL DEF IInv, Typed, Rest

(* A turn in flight has somebody who will end it (SendInput releases the    *)
(* claim on every failure, handleSSEData on every terminal event).          *)
THEOREM FlightCorrect == Spec => []FlightIsOwned
BY Invariance, PTL DEF IInv, Typed, Rest

(* The flag keeps two turns from being at work at once, as long as every    *)
(* accepted turn was answered and its end reported once.                    *)
THEOREM OneTurnCorrect == Spec => []OneTurnAtATime
<1>1. IInv => OneTurnAtATime
  BY DEF IInv, Typed, Rest, TypeOK, Tracked, OneTurnAtATime
<1> QED
  BY <1>1, Invariance, PTL

(* The safety half of the contract: whichever finisher judges first, the    *)
(* session is over once, after its process, with one exit code for ever.    *)
THEOREM ImplementsContract == Spec => Contract!Spec
<1>1. Init => Contract!Init
  BY DEF Init, Contract!Init
<1>2. IInv /\ [Next]_vars => [Contract!Next]_(Contract!vars)
  <2> SUFFICES ASSUME IInv, [Next]_vars PROVE [Contract!Next]_(Contract!vars)
    OBVIOUS
  <2> USE DEF Contract!Next, Contract!vars
  <2>1. CASE StopBegin
    BY <2>1 DEF StopBegin, StopStep, finVars, Contract!Tell
  <2>2. CASE Reap
    <3>1. ~done
      BY <2>2 DEF Reap, IInv, Typed, Rest, TypeOK, Finishing
    <3>2. Contract!Work
      BY <2>2, <3>1 DEF Reap, finVars, Contract!Work, IInv, Typed, Rest, TypeOK
    <3> QED
      BY <3>2
  <2>3. ASSUME NEW f \in Finishers, FinisherJudges(f)
        PROVE  Contract!Work
    BY <2>3 DEF FinisherJudges, FinisherStep, Contract!Work, IInv, Typed, Rest,
      TypeOK
  <2>4. ASSUME NEW f \in Finishers, FinisherDelivers(f)
        PROVE  Contract!Finish
    BY <2>4 DEF FinisherDelivers, FinisherStep, Contract!Finish, IInv, Typed, Rest,
      TypeOK,
      Finishing
  <2>5. ASSUME NEW f \in Finishers, FinisherReceives(f) \/ FinisherSkips(f)
        PROVE  UNCHANGED Contract!vars
    BY <2>5 DEF FinisherReceives, FinisherSkips, FinisherStep
  <2>6. CASE ChildExit \/ ServerPrints \/ ServerEndsTurn \/ ServerEndsStep
    BY <2>6 DEF ChildExit, ServerPrints, ServerEndsTurn, ServerEndsStep, finVars,
      procVars
  <2>7. CASE StartNext
    BY <2>7 DEF StartNext, StartHasURL, StartSeesExit, StartHealthy, StartCreates,
      StartGivesUp, StartLaunches, StartFails, StartStep, procVars
  <2>8. ASSUME NEW c \in Callers, SendCall(c) \/ SendGoes(c)
        PROVE  UNCHANGED Contract!vars
    BY <2>8 DEF SendCall, SendGoes, SendEnter, SendClaim, SendPost, SendAnswered,
      SendFails, SendStep, procVars, finVars
  <2>9. CASE StreamNext \/ StreamEnds
    BY <2>9 DEF StreamNext, StreamArms, StreamOpens, StreamTakes, StreamEnds,
      StreamStep, procVars, finVars
  <2>10. CASE StopDisposes \/ StopAborts \/ StopSeesDone \/ StopTerminates
    BY <2>10 DEF StopDisposes, StopAborts, StopSeesDone, StopTerminates, StopStep,
      finVars
  <2>11. CASE StopKills
    BY <2>11 DEF StopKills, finVars
  <2>12. CASE UNCHANGED vars
    BY <2>12 DEF vars, procVars, finVars
  <2> QED
    BY <2>1, <2>2, <2>3, <2>4, <2>5, <2>6, <2>7, <2>8, <2>9, <2>10, <2>11, <2>12
    DEF Next, FinisherNext, StopNext, Callers
<1> QED
  BY <1>1, <1>2, Invariance, PTL DEF Spec, Contract!Spec
=============================================================================
