------------------------ MODULE SupervisedSessionProofs ------------------------
(***************************************************************************)
(* The safety of a supervised session, for every set of options, any number*)
(* of restarts, of writers and of lines a child may write.                 *)
(***************************************************************************)
EXTENDS SupervisedSessionProperties, TLAPS

(* What the types need to be kept: a restart is only ever planned while one *)
(* is left, and a child that has been reaped has exited in some way.        *)
Typed ==
  /\ TypeOK
  /\ loop \in {"backoff", "restarting"} => attempt < maxRestarts
  /\ loop \in {"joining", "clearing", "draining"} => child = "reaped"
  /\ child # "live" => exitKind # "none"

Over == {"final", "retired", "ended"}

(* Which goroutines and descriptors are there at which point of the loop.   *)
Control ==
  /\ loop \in {"backoff", "restarting"} \cup Over => child = "reaped"
  /\ loop \notin {"waiting", "joining"} =>
       \A g \in Guards : guard[g] \in {"off", "done"}
  /\ loop \in {"backoff", "restarting", "publishing"} \cup Over => reader = "done"
  /\ field <=> loop \in {"launched", "waiting", "joining", "clearing"}
  /\ Pty /\ field => outOpen
  /\ loop \in {"retired", "ended"} => ~alive
  /\ done <=> loop = "ended"

(* The lock is held by whoever writes, and only while there is a descriptor.*)
Locking ==
  /\ \A w \in Writers : sendPC[w] = "writing" <=> holder = w
  /\ startPC = "writing" <=> holder = "start"
  /\ holder # None => field

(* Who may have signalled the child: somebody who left a cause, or somebody *)
(* who acts for a Stop or for the end of the context.                       *)
Signals ==
  /\ stopPC # "idle" => stopReq
  /\ guard["stopper"] \in {"fired", "grace"} => Ending
  /\ guard["idle"] = "grace" \/ guard["watchdog"] = "grace" => cause # "none"
  /\ hit # {} => Ending \/ (cause # "none" /\ loop \notin {"publishing", "launched"})

(* What has been decided about the exit of the child.                       *)
Decided ==
  /\ loop \in {"backoff", "restarting"} =>
       hit = {} /\ lastExit.cause # "restart_exhausted"
  /\ loop \in Over /\ lastExit.cause = "restart_exhausted" =>
       hit = {} /\ lastExit.code # 0
  /\ lateSpawns # 0 =>
       lateSpawns = 1 /\ Ending /\ loop \notin {"backoff", "restarting"}
  /\ ResumesLatest

Rest == Control /\ Locking /\ Signals /\ Decided

IInv == Typed /\ Rest

(* The options of a session do not change.                                  *)
LEMMA Constant ==
  ASSUME [Next]_vars
  PROVE  opts' = opts /\ Pty' = Pty /\ maxRestarts' = maxRestarts
<1>1. opts' = opts
  <2> USE DEF startVars
  <2>1. CASE ChildExit
    BY <2>1 DEF ChildExit, Exits
  <2>2. CASE ChildWrite
    BY <2>2 DEF ChildWrite
  <2>3. CASE ReadLine
    BY <2>3 DEF ReadLine
  <2>4. CASE ReaderEnds
    BY <2>4 DEF ReaderEnds
  <2>5. ASSUME NEW g \in Guards, Lapse(g) PROVE opts' = opts
    BY <2>5 DEF Lapse
  <2>6. ASSUME NEW g \in Guards, GuardSees(g) PROVE opts' = opts
    BY <2>6 DEF GuardSees, GuardStep, Triggered
  <2>7. ASSUME NEW g \in Guards, SupervisorActs(g) PROVE opts' = opts
    BY <2>7 DEF SupervisorActs, GuardStep, CauseOf, Terminate, Kill, Exits
  <2>8. ASSUME NEW g \in Guards, SupervisorYields(g) PROVE opts' = opts
    BY <2>8 DEF SupervisorYields, GuardStep
  <2>9. CASE StopperActs
    BY <2>9 DEF StopperActs, GuardStep, Terminate
  <2>10. ASSUME NEW g \in Guards, GuardKills(g) PROVE opts' = opts
    BY <2>10 DEF GuardKills, GuardStep, Kill, Exits
  <2>11. ASSUME NEW g \in Guards, GuardQuits(g) PROVE opts' = opts
    BY <2>11 DEF GuardQuits, GuardStep
  <2>12. CASE Arm
    BY <2>12 DEF Arm, LoopStep
  <2>13. CASE Reap
    BY <2>13 DEF Reap, LoopStep
  <2>14. CASE Join
    BY <2>14 DEF Join, LoopStep
  <2>15. CASE ClearField
    BY <2>15 DEF ClearField, LoopStep
  <2>16. CASE Judge
    BY <2>16 DEF Judge, LoopStep
  <2>17. CASE BackoffAborted
    BY <2>17 DEF BackoffAborted, LoopStep
  <2>18. CASE BackoffOver
    BY <2>18 DEF BackoffOver, LoopStep
  <2>19. CASE Respawn
    BY <2>19 DEF Respawn, LoopStep
  <2>20. CASE RespawnFails
    BY <2>20 DEF RespawnFails, LoopStep
  <2>21. CASE Publish
    BY <2>21 DEF Publish, LoopStep
  <2>22. CASE Retire
    BY <2>22 DEF Retire, LoopStep
  <2>23. CASE Deliver
    BY <2>23 DEF Deliver, LoopStep
  <2>24. ASSUME NEW w \in Writers, SendCheck(w) PROVE opts' = opts
    BY <2>24 DEF SendCheck, SendStep
  <2>25. ASSUME NEW w \in Writers, SendRefused(w) PROVE opts' = opts
    BY <2>25 DEF SendRefused, SendStep
  <2>26. ASSUME NEW w \in Writers, SendBegin(w) PROVE opts' = opts
    BY <2>26 DEF SendBegin, SendStep
  <2>27. ASSUME NEW w \in Writers, SendEnd(w) PROVE opts' = opts
    BY <2>27 DEF SendEnd, SendStep
  <2>28. CASE StartSignals
    BY <2>28 DEF StartSignals, StartStep
  <2>29. CASE StartCancelled
    BY <2>29 DEF StartCancelled, StartStep
  <2>30. CASE StartWrites
    BY <2>30 DEF StartWrites, StartStep
  <2>31. CASE StartWritten
    BY <2>31 DEF StartWritten, StartStep
  <2>32. CASE StartRefused
    BY <2>32 DEF StartRefused, StartStep
  <2>33. CASE StartFailed
    BY <2>33 DEF StartFailed, StartStep
  <2>34. CASE StopBegin
    BY <2>34 DEF StopBegin, StopStep
  <2>35. CASE StopSnapshot
    BY <2>35 DEF StopSnapshot, StopStep
  <2>36. CASE StopEOFGrace
    BY <2>36 DEF StopEOFGrace, StopStep
  <2>37. CASE StopTerminate
    BY <2>37 DEF StopTerminate, StopStep, Terminate
  <2>38. CASE StopKills
    BY <2>38 DEF StopKills, StopStep, Kill, Exits
  <2>39. CASE StopReturns
    BY <2>39 DEF StopReturns, StopStep
  <2>40. CASE ContextEnds
    BY <2>40 DEF ContextEnds
  <2>41. CASE UNCHANGED vars
    BY <2>41 DEF vars
  <2> QED
    BY <2>1, <2>2, <2>3, <2>4, <2>5, <2>6, <2>7, <2>8, <2>9, <2>10, <2>11,
       <2>12, <2>13, <2>14, <2>15, <2>16, <2>17, <2>18, <2>19, <2>20, <2>21,
       <2>22, <2>23, <2>24, <2>25, <2>26, <2>27, <2>28, <2>29, <2>30, <2>31,
       <2>32, <2>33, <2>34, <2>35, <2>36, <2>37, <2>38, <2>39, <2>40, <2>41
    DEF Next, GuardNext, LoopNext, SendNext, StartGoes, StopNext
<1> QED
  BY <1>1 DEF Pty, maxRestarts

(* There is a bound on the restarts, whatever RestartOnCrash says.          *)
LEMMA Bounded == opts \in Options => maxRestarts \in Nat
<1> SUFFICES ASSUME opts \in Options PROVE maxRestarts \in Nat
  OBVIOUS
<1>1. opts \in Option
  BY SessionAssumption
<1>2. opts.restartOnCrash \in Int
  BY <1>1 DEF Option
<1> QED
  BY <1>2 DEF maxRestarts

(* The invariant holds when the first child has been started.               *)
LEMMA IInit == Init => IInv
<1> SUFFICES ASSUME Init PROVE IInv
  OBVIOUS
<1> USE SessionAssumption DEF Init
<1>1. maxRestarts \in Nat
  BY Bounded
<1>2. Typed
  <2>1. lastExit \in ExitErrors
    BY DEF Nil, ExitErrors
  <2>2. guard \in [Guards -> {"off", "polling", "fired", "grace", "done"}]
    OBVIOUS
  <2>3. startPC \in {"signal", "prompt"}
    OBVIOUS
  <2>4. sendPC \in [Writers -> {"idle", "checked", "writing"}]
    OBVIOUS
  <2>5. attempt \in 0..maxRestarts /\ cmdField \in 0..maxRestarts /\ lateSpawns \in Nat
    BY <1>1
  <2> QED
    BY <1>1, <2>1, <2>2, <2>3, <2>4, <2>5 DEF Typed, TypeOK
<1>3. Control /\ Locking /\ Signals /\ Decided
  BY DEF Control, Locking, Signals, Decided, Over, Guards, Pty, ResumesLatest
<1> QED
  BY <1>2, <1>3 DEF IInv, Rest

(* The verdict on the attempt that is over: a restart only after a crash    *)
(* with no cause, of a session nobody ends, and within the bound.           *)
Judged == Judgement(buildExitError(exitKind, cause))

LEMMA JudgedWell ==
  ASSUME Typed, loop = "draining"
  PROVE  /\ Judged.exit \in ExitErrors
         /\ Judged.to \in {"final", "backoff"}
         /\ Judged.to = "backoff" =>
              /\ ~Ending /\ cause = "none" /\ attempt < maxRestarts
              /\ Judged.exit.cause = "none"
         /\ Judged.exit.cause = "restart_exhausted" =>
              ~Ending /\ cause = "none" /\ Judged.exit.code # 0
<1> DEFINE exit == buildExitError(exitKind, cause)
<1>1. cause \in {"none", "idle_timeout", "watchdog_kill"} /\ attempt \in Int
  BY DEF Typed, TypeOK
<1>2. exitKind \in {"ok", "err", "sig"}
  BY DEF Typed, TypeOK
<1>3. exit \in ExitErrors /\ exit.cause = cause
  BY <1>1, <1>2 DEF buildExitError, CodeOf, ExitErrors
<1>4. maxRestarts \in Nat
  BY Bounded DEF Typed, TypeOK
<1>5. Judged = Judgement(exit)
  BY DEF Judged
<1> HIDE DEF exit
<1>6. CASE Ending \/ exit = Nil \/ ~restartEligible(exit)
  BY <1>1, <1>3, <1>5, <1>6 DEF Judgement
<1>7. CASE ~Ending /\ exit # Nil /\ restartEligible(exit) /\ attempt >= maxRestarts
  <2>1. Judged = [to |-> "final", exit |-> [exit EXCEPT !.cause = "restart_exhausted"]]
    BY <1>5, <1>7 DEF Judgement
  <2> QED
    BY <1>3, <1>7, <2>1 DEF restartEligible, ExitErrors
<1>8. CASE ~Ending /\ exit # Nil /\ restartEligible(exit) /\ ~(attempt >= maxRestarts)
  <2>1. Judged = [to |-> "backoff", exit |-> exit]
    BY <1>5, <1>8 DEF Judgement
  <2> QED
    BY <1>1, <1>3, <1>4, <1>8, <2>1 DEF restartEligible
<1> QED
  BY <1>6, <1>7, <1>8

(* Types, step by step.                                                     *)
LEMMA TypeStep == Typed /\ [Next]_vars => Typed'
<1> SUFFICES ASSUME Typed, [Next]_vars PROVE Typed'
  OBVIOUS
<1>0. opts' = opts /\ maxRestarts' = maxRestarts /\ maxRestarts \in Nat
  BY Constant, Bounded DEF Typed, TypeOK
<1> USE SessionAssumption, <1>0 DEF Typed, TypeOK, loopVars, childVars, spawnVars,
  supVars, ioVars, lockVars, startVars, stopVars, flags
<1>1. CASE ChildExit
  BY <1>1 DEF ChildExit, Exits
<1>2. CASE ChildWrite
  BY <1>2 DEF ChildWrite
<1>3. CASE ReadLine
  BY <1>3 DEF ReadLine
<1>4. CASE ReaderEnds
  BY <1>4 DEF ReaderEnds
<1>5. ASSUME NEW g \in Guards, Lapse(g) PROVE Typed'
  BY <1>5 DEF Lapse
<1>6. ASSUME NEW g \in Guards, GuardSees(g) PROVE Typed'
  BY <1>6 DEF GuardSees, GuardStep, Triggered
<1>7. ASSUME NEW g \in Guards, SupervisorActs(g) PROVE Typed'
  BY <1>7 DEF SupervisorActs, GuardStep, CauseOf, Terminate, Kill, Exits
<1>8. ASSUME NEW g \in Guards, SupervisorYields(g) PROVE Typed'
  BY <1>8 DEF SupervisorYields, GuardStep
<1>9. CASE StopperActs
  <2>1. hit' \subseteq Guards \cup {"stop"}
    BY <1>9 DEF StopperActs, Terminate, Guards
  <2>2. guard' \in [Guards -> {"off", "polling", "fired", "grace", "done"}]
    BY <1>9 DEF StopperActs, GuardStep
  <2> QED
    BY <1>9, <2>1, <2>2 DEF StopperActs, GuardStep, Terminate
<1>10. ASSUME NEW g \in Guards, GuardKills(g) PROVE Typed'
  BY <1>10 DEF GuardKills, GuardStep, Kill, Exits
<1>11. ASSUME NEW g \in Guards, GuardQuits(g) PROVE Typed'
  BY <1>11 DEF GuardQuits, GuardStep
<1>12. CASE Arm
  BY <1>12 DEF Arm, LoopStep
<1>13. CASE Reap
  <2>1. outOpen' \in BOOLEAN
    BY <1>13 DEF Reap, Pty
  <2>2. exitKind # "none"
    BY <1>13 DEF Reap
  <2> QED
    BY <1>13, <2>1, <2>2 DEF Reap, LoopStep
<1>14. CASE Join
  BY <1>14 DEF Join, LoopStep
<1>15. CASE ClearField
  <2>1. field' \in BOOLEAN /\ outOpen' \in BOOLEAN
    BY <1>15 DEF ClearField
  <2> QED
    BY <1>15, <2>1 DEF ClearField, LoopStep
<1>16. CASE Judge
  <2>1. /\ loop' = Judged.to /\ lastExit' = Judged.exit
        /\ UNCHANGED <<attempt, child, exitKind>>
    BY <1>16 DEF Judge, LoopStep, Judged
  <2>2. loop' \in {"final", "backoff"} /\ lastExit' \in ExitErrors
    BY <1>16, <2>1, JudgedWell DEF Judge, LoopStep
  <2>3. loop' = "backoff" => attempt' < maxRestarts'
    BY <1>16, <2>1, JudgedWell DEF Judge, LoopStep
  <2> QED
    BY <1>16, <2>1, <2>2, <2>3 DEF Judge, LoopStep
<1>17. CASE BackoffAborted
  BY <1>17 DEF BackoffAborted, LoopStep
<1>18. CASE BackoffOver
  BY <1>18 DEF BackoffOver, LoopStep
<1>19. CASE Respawn
  BY <1>19 DEF Respawn, LoopStep
<1>20. CASE RespawnFails
  <2>1. lastExit' \in ExitErrors
    BY <1>20 DEF RespawnFails, ExitErrors
  <2> QED
    BY <1>20, <2>1 DEF RespawnFails, LoopStep
<1>21. CASE Publish
  <2>1. field' \in BOOLEAN /\ outOpen' \in BOOLEAN /\ procDone' \in BOOLEAN
    BY <1>21 DEF Publish
  <2> QED
    BY <1>21, <2>1 DEF Publish, LoopStep
<1>22. CASE Retire
  <2>1. alive' \in BOOLEAN
    BY <1>22 DEF Retire
  <2> QED
    BY <1>22, <2>1 DEF Retire, LoopStep
<1>23. CASE Deliver
  BY <1>23 DEF Deliver, LoopStep
<1>24. ASSUME NEW w \in Writers, SendCheck(w) PROVE Typed'
  BY <1>24 DEF SendCheck, SendStep
<1>25. ASSUME NEW w \in Writers, SendRefused(w) PROVE Typed'
  BY <1>25 DEF SendRefused, SendStep
<1>26. ASSUME NEW w \in Writers, SendBegin(w) PROVE Typed'
  BY <1>26 DEF SendBegin, SendStep
<1>27. ASSUME NEW w \in Writers, SendEnd(w) PROVE Typed'
  BY <1>27 DEF SendEnd, SendStep
<1>28. CASE StartSignals
  BY <1>28 DEF StartSignals, StartStep
<1>29. CASE StartCancelled
  BY <1>29 DEF StartCancelled, StartStep
<1>30. CASE StartWrites
  BY <1>30 DEF StartWrites, StartStep
<1>31. CASE StartWritten
  BY <1>31 DEF StartWritten, StartStep
<1>32. CASE StartRefused
  BY <1>32 DEF StartRefused, StartStep
<1>33. CASE StartFailed
  BY <1>33 DEF StartFailed, StartStep
<1>34. CASE StopBegin
  <2>1. alive' \in BOOLEAN /\ stopReq' \in BOOLEAN
    BY <1>34 DEF StopBegin
  <2> QED
    BY <1>34, <2>1 DEF StopBegin, StopStep
<1>35. CASE StopSnapshot
  BY <1>35 DEF StopSnapshot, StopStep
<1>36. CASE StopEOFGrace
  BY <1>36 DEF StopEOFGrace, StopStep
<1>37. CASE StopTerminate
  BY <1>37 DEF StopTerminate, StopStep, Terminate
<1>38. CASE StopKills
  BY <1>38 DEF StopKills, StopStep, Kill, Exits
<1>39. CASE StopReturns
  BY <1>39 DEF StopReturns, StopStep
<1>40. CASE ContextEnds
  BY <1>40 DEF ContextEnds
<1>41. CASE UNCHANGED vars
  BY <1>41 DEF vars
<1> QED
  BY <1>1, <1>2, <1>3, <1>4, <1>5, <1>6, <1>7, <1>8, <1>9, <1>10, <1>11,
     <1>12, <1>13, <1>14, <1>15, <1>16, <1>17, <1>18, <1>19, <1>20, <1>21,
     <1>22, <1>23, <1>24, <1>25, <1>26, <1>27, <1>28, <1>29, <1>30, <1>31,
     <1>32, <1>33, <1>34, <1>35, <1>36, <1>37, <1>38, <1>39, <1>40, <1>41
  DEF Next, GuardNext, LoopNext, SendNext, StartGoes, StopNext

(* The rest of the invariant, step by step.                                 *)
LEMMA IStep == IInv /\ [Next]_vars => IInv'
<1> SUFFICES ASSUME IInv, [Next]_vars PROVE Rest'
  BY TypeStep DEF IInv
<1>0. opts' = opts /\ Pty' = Pty /\ maxRestarts' = maxRestarts
  BY Constant
<1> USE SessionAssumption, <1>0 DEF IInv, Typed, TypeOK, Rest, Control, Locking,
  Signals, Decided, Over, Ending, Guards, ResumesLatest, loopVars, childVars,
  spawnVars, supVars, ioVars, lockVars, startVars, stopVars, flags
<1>1. CASE ChildExit
  BY <1>1 DEF ChildExit, Exits
<1>2. CASE ChildWrite
  BY <1>2 DEF ChildWrite
<1>3. CASE ReadLine
  BY <1>3 DEF ReadLine
<1>4. CASE ReaderEnds
  BY <1>4 DEF ReaderEnds
<1>5. ASSUME NEW g \in Guards, Lapse(g) PROVE Rest'
  BY <1>5 DEF Lapse
<1>6. ASSUME NEW g \in Guards, GuardSees(g) PROVE Rest'
  BY <1>6 DEF GuardSees, GuardStep, Triggered
<1>7. ASSUME NEW g \in Guards, SupervisorActs(g) PROVE Rest'
  BY <1>7 DEF SupervisorActs, GuardStep, CauseOf, Terminate, Kill, Exits
<1>8. ASSUME NEW g \in Guards, SupervisorYields(g) PROVE Rest'
  BY <1>8 DEF SupervisorYields, GuardStep
<1>9. CASE StopperActs
  BY <1>9 DEF StopperActs, GuardStep, Terminate
<1>10. ASSUME NEW g \in Guards, GuardKills(g) PROVE Rest'
  BY <1>10 DEF GuardKills, GuardStep, Kill, Exits
<1>11. ASSUME NEW g \in Guards, GuardQuits(g) PROVE Rest'
  BY <1>11 DEF GuardQuits, GuardStep
<1>12. CASE Arm
  BY <1>12 DEF Arm, LoopStep
<1>13. CASE Reap
  BY <1>13 DEF Reap, LoopStep
<1>14. CASE Join
  BY <1>14 DEF Join, LoopStep
<1>15. CASE ClearField
  BY <1>15 DEF ClearField, LoopStep
<1>16. CASE Judge
  <2>1. /\ loop' = Judged.to /\ lastExit' = Judged.exit /\ loop = "draining"
        /\ reader = "done"
    BY <1>16 DEF Judge, LoopStep, Judged
  <2> QED
    BY <1>16, <2>1, JudgedWell DEF Judge, LoopStep
<1>17. CASE BackoffAborted
  BY <1>17 DEF BackoffAborted, LoopStep
<1>18. CASE BackoffOver
  BY <1>18 DEF BackoffOver, LoopStep
<1>19. CASE Respawn
  BY <1>19 DEF Respawn, LoopStep
<1>20. CASE RespawnFails
  BY <1>20 DEF RespawnFails, LoopStep
<1>21. CASE Publish
  BY <1>21 DEF Publish, LoopStep
<1>22. CASE Retire
  BY <1>22 DEF Retire, LoopStep
<1>23. CASE Deliver
  BY <1>23 DEF Deliver, LoopStep
<1>24. ASSUME NEW w \in Writers, SendCheck(w) PROVE Rest'
  BY <1>24 DEF SendCheck, SendStep
<1>25. ASSUME NEW w \in Writers, SendRefused(w) PROVE Rest'
  BY <1>25 DEF SendRefused, SendStep
<1>26. ASSUME NEW w \in Writers, SendBegin(w) PROVE Rest'
  BY <1>26 DEF SendBegin, SendStep
<1>27. ASSUME NEW w \in Writers, SendEnd(w) PROVE Rest'
  BY <1>27 DEF SendEnd, SendStep
<1>28. CASE StartSignals
  BY <1>28 DEF StartSignals, StartStep
<1>29. CASE StartCancelled
  BY <1>29 DEF StartCancelled, StartStep
<1>30. CASE StartWrites
  BY <1>30 DEF StartWrites, StartStep
<1>31. CASE StartWritten
  BY <1>31 DEF StartWritten, StartStep
<1>32. CASE StartRefused
  BY <1>32 DEF StartRefused, StartStep
<1>33. CASE StartFailed
  BY <1>33 DEF StartFailed, StartStep
<1>34. CASE StopBegin
  BY <1>34 DEF StopBegin, StopStep
<1>35. CASE StopSnapshot
  BY <1>35 DEF StopSnapshot, StopStep
<1>36. CASE StopEOFGrace
  BY <1>36 DEF StopEOFGrace, StopStep
<1>37. CASE StopTerminate
  BY <1>37 DEF StopTerminate, StopStep, Terminate
<1>38. CASE StopKills
  <2>1. stopPC = "grace" /\ Kill("stop", stopCmd)
    BY <1>38 DEF StopKills, StopStep
  <2>2. \/ UNCHANGED <<hit, child>>
        \/ hit' = hit \cup {"stop"} /\ child = "live" /\ child' = "exited"
    BY <2>1 DEF Kill, Exits
  <2>u. UNCHANGED <<loop, loopVars, spawnVars, supVars, ioVars, lockVars, sendPC,
                    startVars, alive, stopReq, ctxDone, done>>
    BY <1>38 DEF StopKills, StopStep
  <2>3. Control'
    BY <2>1, <2>2, <2>u
  <2>4. Locking'
    BY <2>1, <2>2, <2>u
  <2>5. Signals'
    BY <2>1, <2>2, <2>u
  <2>6. Decided'
    BY <2>1, <2>2, <2>u
  <2> QED
    BY <2>3, <2>4, <2>5, <2>6
<1>39. CASE StopReturns
  BY <1>39 DEF StopReturns, StopStep
<1>40. CASE ContextEnds
  BY <1>40 DEF ContextEnds
<1>41. CASE UNCHANGED vars
  BY <1>41 DEF vars
<1> QED
  BY <1>1, <1>2, <1>3, <1>4, <1>5, <1>6, <1>7, <1>8, <1>9, <1>10, <1>11,
     <1>12, <1>13, <1>14, <1>15, <1>16, <1>17, <1>18, <1>19, <1>20, <1>21,
     <1>22, <1>23, <1>24, <1>25, <1>26, <1>27, <1>28, <1>29, <1>30, <1>31,
     <1>32, <1>33, <1>34, <1>35, <1>36, <1>37, <1>38, <1>39, <1>40, <1>41
  DEF Next, GuardNext, LoopNext, SendNext, StartGoes, StopNext

LEMMA Invariance == Spec => []IInv
BY IInit, IStep, PTL DEF Spec

(***************************************************************************)
(* The theorems.                                                           *)
(***************************************************************************)

(* TypeOK of SupervisedSessionProperties: every variable keeps its type and *)
(* no session starts more children than RestartOnCrash allows.              *)
THEOREM TypeCorrect == Spec => []TypeOK
<1>1. IInv => TypeOK
  BY DEF IInv, Typed
<1> QED
  BY Invariance, <1>1, PTL

(* WaitIsLast: nothing of the session is at work when Wait returns.  The    *)
(* deferred end of runSupervised is reached only past the join of its       *)
(* goroutines, and the field is cleared under the lock every writer holds.  *)
THEOREM WaitCorrect == Spec => []WaitIsLast
<1>1. IInv => WaitIsLast
  BY SessionAssumption DEF IInv, Typed, Rest, Control, Locking, Over, WaitIsLast
<1> QED
  BY Invariance, <1>1, PTL

(* WritesToOpen: no input is written to a pty master that has been closed.  *)
THEOREM WritesCorrect == Spec => []WritesToOpen
<1>1. IInv => WritesToOpen
  BY DEF IInv, Rest, Control, Locking, WritesToOpen
<1> QED
  BY Invariance, <1>1, PTL

(* OneLateSpawn: the backoff timer may win one race against Stop, not two.  *)
THEOREM SpawnCorrect == Spec => []OneLateSpawn
<1>1. IInv => OneLateSpawn
  <2> SUFFICES ASSUME IInv PROVE lateSpawns <= 1
    BY DEF OneLateSpawn
  <2>1. lateSpawns \in Nat
    BY DEF IInv, Typed, TypeOK
  <2>2. lateSpawns # 0 => lateSpawns = 1
    BY DEF IInv, Rest, Decided
  <2> QED
    BY <2>1, <2>2
<1> QED
  BY Invariance, <1>1, PTL

(* ExhaustedIsCrash: restart_exhausted is never the verdict on a child that *)
(* the library itself signalled.                                            *)
THEOREM ExhaustedCorrect == Spec => []ExhaustedIsCrash
<1>1. IInv => ExhaustedIsCrash
  BY DEF IInv, Rest, Control, Decided, Over, ExhaustedIsCrash
<1> QED
  BY Invariance, <1>1, PTL

(* ResumesLatest: a new child resumes the last session id that was read.    *)
THEOREM ResumeCorrect == Spec => []ResumesLatest
<1>1. IInv => ResumesLatest
  BY DEF IInv, Rest, Decided
<1> QED
  BY Invariance, <1>1, PTL

(* Only Respawn counts an attempt.                                          *)
LEMMA OnlyRespawn ==
  ASSUME [Next]_vars, attempt' # attempt
  PROVE  Respawn
<1> USE DEF loopVars
<1>1. CASE ChildExit \/ ChildWrite \/ ReadLine \/ ReaderEnds
  BY <1>1 DEF ChildExit, ChildWrite, ReadLine, ReaderEnds
<1>2. ASSUME NEW g \in Guards, Lapse(g) \/ GuardNext(g) PROVE FALSE
  BY <1>2 DEF Lapse, GuardNext, GuardSees, SupervisorActs, SupervisorYields,
    StopperActs, GuardKills, GuardQuits, GuardStep
<1>3. CASE LoopNext
  BY <1>3 DEF LoopNext, Arm, Reap, Join, ClearField, Judge, BackoffAborted,
    BackoffOver, RespawnFails, Publish, Retire, Deliver
<1>4. ASSUME NEW w \in Writers, SendNext(w) PROVE FALSE
  BY <1>4 DEF SendNext, SendCheck, SendRefused, SendBegin, SendEnd, SendStep
<1>5. CASE StartGoes \/ StartWritten
  BY <1>5 DEF StartGoes, StartWritten, StartSignals, StartCancelled, StartWrites,
    StartRefused, StartFailed, StartStep
<1>6. CASE StopBegin \/ StopNext
  BY <1>6 DEF StopBegin, StopNext, StopSnapshot, StopEOFGrace, StopTerminate,
    StopKills, StopReturns, StopStep
<1>7. CASE ContextEnds
  BY <1>7 DEF ContextEnds
<1>8. CASE UNCHANGED vars
  BY <1>8 DEF vars
<1> QED
  BY <1>1, <1>2, <1>3, <1>4, <1>5, <1>6, <1>7, <1>8 DEF Next

(* KilledStaysDown: a child the library signalled is never replaced.        *)
THEOREM KilledCorrect == Spec => KilledStaysDown
<1>1. IInv /\ [Next]_vars => [attempt' # attempt => hit = {}]_vars
  <2> SUFFICES ASSUME IInv, [Next]_vars, attempt' # attempt PROVE hit = {}
    OBVIOUS
  <2>1. loop = "restarting"
    BY OnlyRespawn DEF Respawn, LoopStep
  <2> QED
    BY <2>1 DEF IInv, Rest, Decided
<1> QED
  BY Invariance, <1>1, PTL DEF Spec, KilledStaysDown

(* A supervised session is a session (SessionContract), its safety: one     *)
(* result, after the last process is gone, and nothing after it.            *)
THEOREM ImplementsContract == Spec => Contract!Spec
<1>1. Init => Contract!Init
  BY DEF Init, Contract!Init, Ending, Nil, ExitErrors
<1>2. IInv /\ [Next]_vars => [Contract!Next]_(Contract!vars)
  <2> SUFFICES ASSUME IInv, IInv', [Next]_vars
               PROVE  [Contract!Next]_(Contract!vars)
    BY IStep
  <2>0. lastExit' \in ExitErrors
    BY DEF IInv, Typed, TypeOK
  <2> USE DEF Contract!Next, Contract!vars, Ending, loopVars, flags
  <2>1. CASE StopBegin
    BY <2>1 DEF StopBegin, StopStep, childVars, loopVars, Contract!Tell
  <2>2. CASE ContextEnds
    BY <2>2 DEF ContextEnds, childVars, Contract!Tell
  <2>3. CASE Reap \/ Judge \/ RespawnFails \/ Respawn
    <3>1. loop \in {"waiting", "draining", "restarting"} /\ UNCHANGED <<done, ctxDone, stopReq>>
      BY <2>3 DEF Reap, Judge, RespawnFails, Respawn, LoopStep
    <3>2. ~done
      BY <3>1 DEF IInv, Typed, TypeOK, Rest, Control
    <3> QED
      BY <2>0, <3>1, <3>2 DEF Contract!Work
  <2>4. CASE Deliver
    BY <2>4 DEF Deliver, LoopStep, Contract!Finish, childVars, IInv, Typed, TypeOK,
      Rest, Control, Over
  <2>5. CASE Arm \/ Join \/ ClearField \/ BackoffAborted \/ BackoffOver \/ Publish
             \/ Retire
    BY <2>5 DEF Arm, Join, ClearField, BackoffAborted, BackoffOver, Publish, Retire,
      LoopStep, childVars
  <2>6. CASE ChildExit \/ ChildWrite \/ ReadLine \/ ReaderEnds
    BY <2>6 DEF ChildExit, ChildWrite, ReadLine, ReaderEnds, Exits, childVars
  <2>7. ASSUME NEW g \in Guards, Lapse(g) \/ GuardNext(g)
        PROVE  UNCHANGED Contract!vars
    BY <2>7 DEF Lapse, GuardNext, GuardSees, SupervisorActs, SupervisorYields,
      StopperActs, GuardKills, GuardQuits, GuardStep, Terminate, Kill, Exits,
      childVars
  <2>8. ASSUME NEW w \in Writers, SendNext(w) PROVE UNCHANGED Contract!vars
    BY <2>8 DEF SendNext, SendCheck, SendRefused, SendBegin, SendEnd, SendStep,
      childVars
  <2>9. CASE StartGoes \/ StartWritten
    BY <2>9 DEF StartGoes, StartWritten, StartSignals, StartCancelled, StartWrites,
      StartRefused, StartFailed, StartStep, childVars
  <2>10. CASE StopNext
    BY <2>10 DEF StopNext, StopSnapshot, StopEOFGrace, StopTerminate, StopKills,
      StopReturns, StopStep, Terminate, Kill, Exits, childVars
  <2>11. CASE UNCHANGED vars
    BY <2>11 DEF vars, childVars
  <2> QED
    BY <2>1, <2>2, <2>3, <2>4, <2>5, <2>6, <2>7, <2>8, <2>9, <2>10, <2>11
    DEF Next, LoopNext
<1> QED
  BY Invariance, <1>1, <1>2, PTL DEF Spec, Contract!Spec
=============================================================================
