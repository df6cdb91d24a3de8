------------------------ MODULE BatchExecutionProofs ------------------------
(***************************************************************************)
(* Proofs about BatchExecution, for every number of batches, scriptlets    *)
(* and crashes: type correctness, the inductive invariant ExecutionInv and *)
(* the safety properties it implies, the implementation of BatchRecord and *)
(* the progress of a batch.  The session of one batch is disjoint from     *)
(* that of every other, so a step of batch b is shown to preserve the      *)
(* invariant of b action by action and to leave that of the others alone.  *)
(***************************************************************************)
EXTENDS BatchExecution, FiniteSetTheorems, TLAPS

USE MaxScriptletsAssumption, FaultsAssumption, MaxCrashesAssumption
    DEF PC, ExecutePC, WorkerPC, Throwables, Endings, ProcessState, Units,
        Unit, Members, Goto, Become, Throw, Flush, Unwind, Escape,
        dbVars, memVars, serverVars, AllWaiting, IsExecutable, SomeUnitFailed,
        Canceled, IsHung, Live, Settled, Pending, AbandonPC

\* A step of the worker of b, or of whoever publishes b's event.
StepOf(b) == Prepare(b) \/ Execute(b) \/ Conclude(b) \/ Publish(b) \/ AutoFlush(b)

\* Every step keeps the types.
LEMMA StepKeepsTypes ==
  ASSUME NEW b \in Batches, TypeOK, phase = "up", UNCHANGED serverVars,
         StepOf(b)
  PROVE  TypeOK'
<1>1. CASE (\E n \in Units : Build(b, n))
  BY <1>1 DEF TypeOK, Build
<1>2. CASE BuildRejected(b)
  BY <1>2 DEF TypeOK, BuildRejected
<1>3. CASE BuildWithoutScripts(b)
  BY <1>3 DEF TypeOK, BuildWithoutScripts
<1>4. CASE (\E n \in Units : BuildBroken(b, n))
  BY <1>4 DEF TypeOK, BuildBroken
<1>5. CASE Enter(b)
  BY <1>5 DEF TypeOK, Enter
<1>6. CASE EnterRefused(b)
  BY <1>6 DEF TypeOK, EnterRefused
<1>7. CASE TempFileFails(b)
  BY <1>7 DEF TypeOK, TempFileFails
<1>8. CASE Start(b)
  BY <1>8 DEF TypeOK, Start
<1>9. CASE OnStart(b)
  BY <1>9 DEF TypeOK, OnStart
<1>10. CASE OnStartThrows(b)
  BY <1>10 DEF TypeOK, OnStartThrows
<1>11. CASE OnStartErrs(b)
  BY <1>11 DEF TypeOK, OnStartErrs
<1>12. CASE RunScript(b)
  BY <1>12 DEF TypeOK, RunScript
<1>13. CASE ScriptThrows(b)
  BY <1>13 DEF TypeOK, ScriptThrows
<1>14. CASE BodyErrs(b)
  BY <1>14 DEF TypeOK, BodyErrs
<1>15. CASE EachNext(b)
  BY <1>15 DEF TypeOK, EachNext
<1>16. CASE EachDone(b)
  BY <1>16 DEF TypeOK, EachDone
<1>17. CASE Success(b)
  BY <1>17 DEF TypeOK, Success
<1>18. CASE OnSuccess(b)
  BY <1>18 DEF TypeOK, OnSuccess
<1>19. CASE OnSuccessThrows(b)
  BY <1>19 DEF TypeOK, OnSuccessThrows
<1>20. CASE Failure(b)
  BY <1>20 DEF TypeOK, Failure
<1>21. CASE (\E t \in Faults \cup {"none"} : OnFailure(b, t))
  BY <1>21 DEF TypeOK, OnFailure
<1>22. CASE Stop(b)
  BY <1>22 DEF TypeOK, Stop
<1>23. CASE OnStop(b)
  BY <1>23 DEF TypeOK, OnStop
<1>24. CASE OnStopThrows(b)
  BY <1>24 DEF TypeOK, OnStopThrows
<1>25. CASE OnStopErrs(b)
  BY <1>25 DEF TypeOK, OnStopErrs
<1>26. CASE Caught(b)
  BY <1>26 DEF TypeOK, Caught
<1>27. CASE Rethrow(b)
  BY <1>27 DEF TypeOK, Rethrow
<1>28. CASE Return(b)
  BY <1>28 DEF TypeOK, Return
<1>29. CASE Cancel(b)
  BY <1>29 DEF TypeOK, Cancel
<1>30. CASE Sync(b)
  BY <1>30 DEF TypeOK, Sync
<1>31. CASE SyncThrows(b)
  BY <1>31 DEF TypeOK, SyncThrows
<1>32. CASE Close(b)
  BY <1>32 DEF TypeOK, Close
<1>33. CASE \E W \in SUBSET Units : CloseFails(b, W)
  BY <1>33 DEF TypeOK, CloseFails
<1>34. CASE Publish(b)
  BY <1>34 DEF TypeOK, Publish
<1>35. CASE AutoFlush(b)
  BY <1>35 DEF TypeOK, AutoFlush
<1> QED
  BY <1>1, <1>2, <1>3, <1>4, <1>5, <1>6, <1>7, <1>8, <1>9, <1>10, <1>11,
     <1>12, <1>13, <1>14, <1>15, <1>16, <1>17, <1>18, <1>19, <1>20, <1>21,
     <1>22, <1>23, <1>24, <1>25, <1>26, <1>27, <1>28, <1>29, <1>30, <1>31,
     <1>32, <1>33, <1>34, <1>35 DEF StepOf, Prepare, Execute, Conclude

\* The control part of the invariant.
LEMMA StepKeepsControl ==
  ASSUME NEW b \in Batches, TypeOK, phase = "up", UNCHANGED serverVars,
         BatchInv(b), StepOf(b)
  PROVE  ControlInv(b)'
<1>1. CASE (\E n \in Units : Build(b, n))
  BY <1>1 DEF TypeOK, BatchInv, ControlInv, Build
<1>2. CASE BuildRejected(b)
  BY <1>2 DEF TypeOK, BatchInv, ControlInv, BuildRejected
<1>3. CASE BuildWithoutScripts(b)
  BY <1>3 DEF TypeOK, BatchInv, ControlInv, BuildWithoutScripts
<1>4. CASE (\E n \in Units : BuildBroken(b, n))
  BY <1>4 DEF TypeOK, BatchInv, ControlInv, BuildBroken
<1>5. CASE Enter(b)
  BY <1>5 DEF TypeOK, BatchInv, ControlInv, Enter
<1>6. CASE EnterRefused(b)
  BY <1>6 DEF TypeOK, BatchInv, ControlInv, EnterRefused
<1>7. CASE TempFileFails(b)
  BY <1>7 DEF TypeOK, BatchInv, ControlInv, TempFileFails
<1>8. CASE Start(b)
  BY <1>8 DEF TypeOK, BatchInv, ControlInv, Start
<1>9. CASE OnStart(b)
  BY <1>9 DEF TypeOK, BatchInv, ControlInv, OnStart
<1>10. CASE OnStartThrows(b)
  BY <1>10 DEF TypeOK, BatchInv, ControlInv, OnStartThrows
<1>11. CASE OnStartErrs(b)
  BY <1>11 DEF TypeOK, BatchInv, ControlInv, OnStartErrs
<1>12. CASE RunScript(b)
  BY <1>12 DEF TypeOK, BatchInv, ControlInv, RunScript
<1>13. CASE ScriptThrows(b)
  BY <1>13 DEF TypeOK, BatchInv, ControlInv, ScriptThrows
<1>14. CASE BodyErrs(b)
  BY <1>14 DEF TypeOK, BatchInv, ControlInv, BodyErrs
<1>15. CASE EachNext(b)
  BY <1>15 DEF TypeOK, BatchInv, ControlInv, EachNext
<1>16. CASE EachDone(b)
  BY <1>16 DEF TypeOK, BatchInv, ControlInv, EachDone
<1>17. CASE Success(b)
  BY <1>17 DEF TypeOK, BatchInv, ControlInv, Success
<1>18. CASE OnSuccess(b)
  BY <1>18 DEF TypeOK, BatchInv, ControlInv, OnSuccess
<1>19. CASE OnSuccessThrows(b)
  BY <1>19 DEF TypeOK, BatchInv, ControlInv, OnSuccessThrows
<1>20. CASE Failure(b)
  BY <1>20 DEF TypeOK, BatchInv, ControlInv, Failure
<1>21. CASE (\E t \in Faults \cup {"none"} : OnFailure(b, t))
  BY <1>21 DEF TypeOK, BatchInv, ControlInv, OnFailure
<1>22. CASE Stop(b)
  BY <1>22 DEF TypeOK, BatchInv, ControlInv, Stop
<1>23. CASE OnStop(b)
  BY <1>23 DEF TypeOK, BatchInv, ControlInv, OnStop
<1>24. CASE OnStopThrows(b)
  BY <1>24 DEF TypeOK, BatchInv, ControlInv, OnStopThrows
<1>25. CASE OnStopErrs(b)
  BY <1>25 DEF TypeOK, BatchInv, ControlInv, OnStopErrs
<1>26. CASE Caught(b)
  BY <1>26 DEF TypeOK, BatchInv, ControlInv, Caught
<1>27. CASE Rethrow(b)
  BY <1>27 DEF TypeOK, BatchInv, ControlInv, Rethrow
<1>28. CASE Return(b)
  BY <1>28 DEF TypeOK, BatchInv, ControlInv, Return
<1>29. CASE Cancel(b)
  BY <1>29 DEF TypeOK, BatchInv, ControlInv, Cancel
<1>30. CASE Sync(b)
  BY <1>30 DEF TypeOK, BatchInv, ControlInv, Sync
<1>31. CASE SyncThrows(b)
  BY <1>31 DEF TypeOK, BatchInv, ControlInv, SyncThrows
<1>32. CASE Close(b)
  BY <1>32 DEF TypeOK, BatchInv, ControlInv, Close
<1>33. CASE \E W \in SUBSET Units : CloseFails(b, W)
  BY <1>33 DEF TypeOK, BatchInv, ControlInv, CloseFails
<1>34. CASE Publish(b)
  BY <1>34 DEF TypeOK, BatchInv, ControlInv, Publish
<1>35. CASE AutoFlush(b)
  BY <1>35 DEF TypeOK, BatchInv, ControlInv, AutoFlush
<1> QED
  BY <1>1, <1>2, <1>3, <1>4, <1>5, <1>6, <1>7, <1>8, <1>9, <1>10, <1>11,
     <1>12, <1>13, <1>14, <1>15, <1>16, <1>17, <1>18, <1>19, <1>20, <1>21,
     <1>22, <1>23, <1>24, <1>25, <1>26, <1>27, <1>28, <1>29, <1>30, <1>31,
     <1>32, <1>33, <1>34, <1>35 DEF StepOf, Prepare, Execute, Conclude

\* What is in flight.
LEMMA StepKeepsThrow ==
  ASSUME NEW b \in Batches, TypeOK, phase = "up", UNCHANGED serverVars,
         BatchInv(b), StepOf(b)
  PROVE  pc'[b] \in Live => ThrowInv(b)'
<1>1. CASE (\E n \in Units : Build(b, n))
  BY <1>1 DEF TypeOK, BatchInv, ControlInv, ThrowInv, Build
<1>2. CASE BuildRejected(b)
  BY <1>2 DEF TypeOK, BatchInv, ControlInv, ThrowInv, BuildRejected
<1>3. CASE BuildWithoutScripts(b)
  BY <1>3 DEF TypeOK, BatchInv, ControlInv, ThrowInv, BuildWithoutScripts
<1>4. CASE (\E n \in Units : BuildBroken(b, n))
  BY <1>4 DEF TypeOK, BatchInv, ControlInv, ThrowInv, BuildBroken
<1>5. CASE Enter(b)
  BY <1>5 DEF TypeOK, BatchInv, ControlInv, ThrowInv, Enter
<1>6. CASE EnterRefused(b)
  BY <1>6 DEF TypeOK, BatchInv, ControlInv, ThrowInv, EnterRefused
<1>7. CASE TempFileFails(b)
  BY <1>7 DEF TypeOK, BatchInv, ControlInv, ThrowInv, TempFileFails
<1>8. CASE Start(b)
  BY <1>8 DEF TypeOK, BatchInv, ControlInv, ThrowInv, Start
<1>9. CASE OnStart(b)
  BY <1>9 DEF TypeOK, BatchInv, ControlInv, ThrowInv, OnStart
<1>10. CASE OnStartThrows(b)
  BY <1>10 DEF TypeOK, BatchInv, ControlInv, ThrowInv, OnStartThrows
<1>11. CASE OnStartErrs(b)
  BY <1>11 DEF TypeOK, BatchInv, ControlInv, ThrowInv, OnStartErrs
<1>12. CASE RunScript(b)
  BY <1>12 DEF TypeOK, BatchInv, ControlInv, ThrowInv, RunScript
<1>13. CASE ScriptThrows(b)
  BY <1>13 DEF TypeOK, BatchInv, ControlInv, ThrowInv, ScriptThrows
<1>14. CASE BodyErrs(b)
  BY <1>14 DEF TypeOK, BatchInv, ControlInv, ThrowInv, BodyErrs
<1>15. CASE EachNext(b)
  BY <1>15 DEF TypeOK, BatchInv, ControlInv, ThrowInv, EachNext
<1>16. CASE EachDone(b)
  BY <1>16 DEF TypeOK, BatchInv, ControlInv, ThrowInv, EachDone
<1>17. CASE Success(b)
  BY <1>17 DEF TypeOK, BatchInv, ControlInv, ThrowInv, Success
<1>18. CASE OnSuccess(b)
  BY <1>18 DEF TypeOK, BatchInv, ControlInv, ThrowInv, OnSuccess
<1>19. CASE OnSuccessThrows(b)
  BY <1>19 DEF TypeOK, BatchInv, ControlInv, ThrowInv, OnSuccessThrows
<1>20. CASE Failure(b)
  BY <1>20 DEF TypeOK, BatchInv, ControlInv, ThrowInv, Failure
<1>21. CASE (\E t \in Faults \cup {"none"} : OnFailure(b, t))
  BY <1>21 DEF TypeOK, BatchInv, ControlInv, ThrowInv, OnFailure
<1>22. CASE Stop(b)
  BY <1>22 DEF TypeOK, BatchInv, ControlInv, ThrowInv, Stop
<1>23. CASE OnStop(b)
  BY <1>23 DEF TypeOK, BatchInv, ControlInv, ThrowInv, OnStop
<1>24. CASE OnStopThrows(b)
  BY <1>24 DEF TypeOK, BatchInv, ControlInv, ThrowInv, OnStopThrows
<1>25. CASE OnStopErrs(b)
  BY <1>25 DEF TypeOK, BatchInv, ControlInv, ThrowInv, OnStopErrs
<1>26. CASE Caught(b)
  BY <1>26 DEF TypeOK, BatchInv, ControlInv, ThrowInv, Caught
<1>27. CASE Rethrow(b)
  BY <1>27 DEF TypeOK, BatchInv, ControlInv, ThrowInv, Rethrow
<1>28. CASE Return(b)
  BY <1>28 DEF TypeOK, BatchInv, ControlInv, ThrowInv, Return
<1>29. CASE Cancel(b)
  BY <1>29 DEF TypeOK, BatchInv, ControlInv, ThrowInv, Cancel
<1>30. CASE Sync(b)
  BY <1>30 DEF TypeOK, BatchInv, ControlInv, ThrowInv, Sync
<1>31. CASE SyncThrows(b)
  BY <1>31 DEF TypeOK, BatchInv, ControlInv, ThrowInv, SyncThrows
<1>32. CASE Close(b)
  BY <1>32 DEF TypeOK, BatchInv, ControlInv, ThrowInv, Close
<1>33. CASE \E W \in SUBSET Units : CloseFails(b, W)
  BY <1>33 DEF TypeOK, BatchInv, ControlInv, ThrowInv, CloseFails
<1>34. CASE Publish(b)
  BY <1>34 DEF TypeOK, BatchInv, ControlInv, ThrowInv, Publish
<1>35. CASE AutoFlush(b)
  BY <1>35 DEF TypeOK, BatchInv, ControlInv, ThrowInv, AutoFlush
<1> QED
  BY <1>1, <1>2, <1>3, <1>4, <1>5, <1>6, <1>7, <1>8, <1>9, <1>10, <1>11,
     <1>12, <1>13, <1>14, <1>15, <1>16, <1>17, <1>18, <1>19, <1>20, <1>21,
     <1>22, <1>23, <1>24, <1>25, <1>26, <1>27, <1>28, <1>29, <1>30, <1>31,
     <1>32, <1>33, <1>34, <1>35 DEF StepOf, Prepare, Execute, Conclude

\* The state of the unit on top of the stack.
LEMMA StepKeepsTop ==
  ASSUME NEW b \in Batches, TypeOK, phase = "up", UNCHANGED serverVars,
         BatchInv(b), StepOf(b)
  PROVE  pc'[b] \in Live => TopInv(b)'
<1>1. CASE (\E n \in Units : Build(b, n))
  BY <1>1 DEF TypeOK, BatchInv, ControlInv, ThrowInv, TopInv, LoopInv, Build
<1>2. CASE BuildRejected(b)
  BY <1>2 DEF TypeOK, BatchInv, ControlInv, ThrowInv, TopInv, LoopInv, BuildRejected
<1>3. CASE BuildWithoutScripts(b)
  BY <1>3 DEF TypeOK, BatchInv, ControlInv, ThrowInv, TopInv, LoopInv, BuildWithoutScripts
<1>4. CASE (\E n \in Units : BuildBroken(b, n))
  BY <1>4 DEF TypeOK, BatchInv, ControlInv, ThrowInv, TopInv, LoopInv, BuildBroken
<1>5. CASE Enter(b)
  BY <1>5 DEF TypeOK, BatchInv, ControlInv, ThrowInv, TopInv, LoopInv, Enter
<1>6. CASE EnterRefused(b)
  BY <1>6 DEF TypeOK, BatchInv, ControlInv, ThrowInv, TopInv, LoopInv, EnterRefused
<1>7. CASE TempFileFails(b)
  BY <1>7 DEF TypeOK, BatchInv, ControlInv, ThrowInv, TopInv, LoopInv, TempFileFails
<1>8. CASE Start(b)
  BY <1>8 DEF TypeOK, BatchInv, ControlInv, ThrowInv, TopInv, LoopInv, Start
<1>9. CASE OnStart(b)
  BY <1>9 DEF TypeOK, BatchInv, ControlInv, ThrowInv, TopInv, LoopInv, OnStart
<1>10. CASE OnStartThrows(b)
  BY <1>10 DEF TypeOK, BatchInv, ControlInv, ThrowInv, TopInv, LoopInv, OnStartThrows
<1>11. CASE OnStartErrs(b)
  BY <1>11 DEF TypeOK, BatchInv, ControlInv, ThrowInv, TopInv, LoopInv, OnStartErrs
<1>12. CASE RunScript(b)
  BY <1>12 DEF TypeOK, BatchInv, ControlInv, ThrowInv, TopInv, LoopInv, RunScript
<1>13. CASE ScriptThrows(b)
  BY <1>13 DEF TypeOK, BatchInv, ControlInv, ThrowInv, TopInv, LoopInv, ScriptThrows
<1>14. CASE BodyErrs(b)
  BY <1>14 DEF TypeOK, BatchInv, ControlInv, ThrowInv, TopInv, LoopInv, BodyErrs
<1>15. CASE EachNext(b)
  <2>1. /\ pos[b] \in Nat /\ size[b] \in Nat /\ pos[b] < size[b] /\ state' = state
        /\ pos'[b] = pos[b] + 1 /\ inner'[b] = TRUE /\ pc'[b] = "enter" /\ size'[b] = size[b]
    BY <1>15 DEF TypeOK, EachNext
  <2>2. \A i \in (pos[b] + 1) .. size[b] : state[b][i] = "WAITING"
    BY <1>15 DEF TypeOK, BatchInv, LoopInv, EachNext
  <2>3. state[b][pos[b] + 1] = "WAITING" /\ state[b][0] = "RUNNING"
    BY <1>15, <2>1, <2>2 DEF BatchInv, TopInv, EachNext
  <2>4. \A i \in 1 .. pos[b] : state[b][i] = "SUCCESS"
    BY <1>15, <2>1 DEF BatchInv, LoopInv, EachNext
  <2> QED
    BY <2>1, <2>2, <2>3, <2>4, <1>15 DEF TopInv, BatchInv, LoopInv, EachNext
<1>16. CASE EachDone(b)
  BY <1>16 DEF TypeOK, BatchInv, ControlInv, ThrowInv, TopInv, LoopInv, EachDone
<1>17. CASE Success(b)
  BY <1>17 DEF TypeOK, BatchInv, ControlInv, ThrowInv, TopInv, LoopInv, Success
<1>18. CASE OnSuccess(b)
  BY <1>18 DEF TypeOK, BatchInv, ControlInv, ThrowInv, TopInv, LoopInv, OnSuccess
<1>19. CASE OnSuccessThrows(b)
  BY <1>19 DEF TypeOK, BatchInv, ControlInv, ThrowInv, TopInv, LoopInv, OnSuccessThrows
<1>20. CASE Failure(b)
  BY <1>20 DEF TypeOK, BatchInv, ControlInv, ThrowInv, TopInv, LoopInv, Failure
<1>21. CASE (\E t \in Faults \cup {"none"} : OnFailure(b, t))
  BY <1>21 DEF TypeOK, BatchInv, ControlInv, ThrowInv, TopInv, LoopInv, OnFailure
<1>22. CASE Stop(b)
  BY <1>22 DEF TypeOK, BatchInv, ControlInv, ThrowInv, TopInv, LoopInv, Stop
<1>23. CASE OnStop(b)
  BY <1>23 DEF TypeOK, BatchInv, ControlInv, ThrowInv, TopInv, LoopInv, OnStop
<1>24. CASE OnStopThrows(b)
  BY <1>24 DEF TypeOK, BatchInv, ControlInv, ThrowInv, TopInv, LoopInv, OnStopThrows
<1>25. CASE OnStopErrs(b)
  BY <1>25 DEF TypeOK, BatchInv, ControlInv, ThrowInv, TopInv, LoopInv, OnStopErrs
<1>26. CASE Caught(b)
  BY <1>26 DEF TypeOK, BatchInv, ControlInv, ThrowInv, TopInv, LoopInv, Caught
<1>27. CASE Rethrow(b)
  BY <1>27 DEF TypeOK, BatchInv, ControlInv, ThrowInv, TopInv, LoopInv, Rethrow
<1>28. CASE Return(b)
  BY <1>28 DEF TypeOK, BatchInv, ControlInv, ThrowInv, TopInv, LoopInv, Return
<1>29. CASE Cancel(b)
  BY <1>29 DEF TypeOK, BatchInv, ControlInv, ThrowInv, TopInv, LoopInv, Cancel
<1>30. CASE Sync(b)
  BY <1>30 DEF TypeOK, BatchInv, ControlInv, ThrowInv, TopInv, LoopInv, Sync
<1>31. CASE SyncThrows(b)
  BY <1>31 DEF TypeOK, BatchInv, ControlInv, ThrowInv, TopInv, LoopInv, SyncThrows
<1>32. CASE Close(b)
  BY <1>32 DEF TypeOK, BatchInv, ControlInv, ThrowInv, TopInv, LoopInv, Close
<1>33. CASE \E W \in SUBSET Units : CloseFails(b, W)
  BY <1>33 DEF TypeOK, BatchInv, ControlInv, ThrowInv, TopInv, LoopInv, CloseFails
<1>34. CASE Publish(b)
  BY <1>34 DEF TypeOK, BatchInv, ControlInv, ThrowInv, TopInv, LoopInv, Publish
<1>35. CASE AutoFlush(b)
  BY <1>35 DEF TypeOK, BatchInv, ControlInv, ThrowInv, TopInv, LoopInv, AutoFlush
<1> QED
  BY <1>1, <1>2, <1>3, <1>4, <1>5, <1>6, <1>7, <1>8, <1>9, <1>10, <1>11,
     <1>12, <1>13, <1>14, <1>15, <1>16, <1>17, <1>18, <1>19, <1>20, <1>21,
     <1>22, <1>23, <1>24, <1>25, <1>26, <1>27, <1>28, <1>29, <1>30, <1>31,
     <1>32, <1>33, <1>34, <1>35 DEF StepOf, Prepare, Execute, Conclude

\* The scriptlets behind and ahead of the loop.
LEMMA StepKeepsLoop ==
  ASSUME NEW b \in Batches, TypeOK, phase = "up", UNCHANGED serverVars,
         BatchInv(b), StepOf(b)
  PROVE  pc'[b] \in Live => LoopInv(b)'
<1>1. CASE (\E n \in Units : Build(b, n))
  BY <1>1 DEF TypeOK, BatchInv, ControlInv, ThrowInv, TopInv, LoopInv, Build
<1>2. CASE BuildRejected(b)
  BY <1>2 DEF TypeOK, BatchInv, ControlInv, ThrowInv, TopInv, LoopInv, BuildRejected
<1>3. CASE BuildWithoutScripts(b)
  BY <1>3 DEF TypeOK, BatchInv, ControlInv, ThrowInv, TopInv, LoopInv, BuildWithoutScripts
<1>4. CASE (\E n \in Units : BuildBroken(b, n))
  BY <1>4 DEF TypeOK, BatchInv, ControlInv, ThrowInv, TopInv, LoopInv, BuildBroken
<1>5. CASE Enter(b)
  BY <1>5 DEF TypeOK, BatchInv, ControlInv, ThrowInv, TopInv, LoopInv, Enter
<1>6. CASE EnterRefused(b)
  BY <1>6 DEF TypeOK, BatchInv, ControlInv, ThrowInv, TopInv, LoopInv, EnterRefused
<1>7. CASE TempFileFails(b)
  BY <1>7 DEF TypeOK, BatchInv, ControlInv, ThrowInv, TopInv, LoopInv, TempFileFails
<1>8. CASE Start(b)
  BY <1>8 DEF TypeOK, BatchInv, ControlInv, ThrowInv, TopInv, LoopInv, Start
<1>9. CASE OnStart(b)
  BY <1>9 DEF TypeOK, BatchInv, ControlInv, ThrowInv, TopInv, LoopInv, OnStart
<1>10. CASE OnStartThrows(b)
  BY <1>10 DEF TypeOK, BatchInv, ControlInv, ThrowInv, TopInv, LoopInv, OnStartThrows
<1>11. CASE OnStartErrs(b)
  BY <1>11 DEF TypeOK, BatchInv, ControlInv, ThrowInv, TopInv, LoopInv, OnStartErrs
<1>12. CASE RunScript(b)
  BY <1>12 DEF TypeOK, BatchInv, ControlInv, ThrowInv, TopInv, LoopInv, RunScript
<1>13. CASE ScriptThrows(b)
  BY <1>13 DEF TypeOK, BatchInv, ControlInv, ThrowInv, TopInv, LoopInv, ScriptThrows
<1>14. CASE BodyErrs(b)
  BY <1>14 DEF TypeOK, BatchInv, ControlInv, ThrowInv, TopInv, LoopInv, BodyErrs
<1>15. CASE EachNext(b)
  <2>1. /\ pos[b] \in Nat /\ size[b] \in Nat /\ pos[b] < size[b] /\ state' = state
        /\ pos'[b] = pos[b] + 1 /\ inner'[b] = TRUE /\ pc'[b] = "enter" /\ size'[b] = size[b]
    BY <1>15 DEF TypeOK, EachNext
  <2>2. \A i \in (pos[b] + 1) .. size[b] : state[b][i] = "WAITING"
    BY <1>15 DEF TypeOK, BatchInv, LoopInv, EachNext
  <2>3. state[b][pos[b] + 1] = "WAITING" /\ state[b][0] = "RUNNING"
    BY <1>15, <2>1, <2>2 DEF BatchInv, TopInv, EachNext
  <2>4. \A i \in 1 .. pos[b] : state[b][i] = "SUCCESS"
    BY <1>15, <2>1 DEF BatchInv, LoopInv, EachNext
  <2> QED
    BY <2>1, <2>2, <2>3, <2>4, <1>15 DEF LoopInv, BatchInv, LoopInv, EachNext
<1>16. CASE EachDone(b)
  BY <1>16 DEF TypeOK, BatchInv, ControlInv, ThrowInv, TopInv, LoopInv, EachDone
<1>17. CASE Success(b)
  BY <1>17 DEF TypeOK, BatchInv, ControlInv, ThrowInv, TopInv, LoopInv, Success
<1>18. CASE OnSuccess(b)
  BY <1>18 DEF TypeOK, BatchInv, ControlInv, ThrowInv, TopInv, LoopInv, OnSuccess
<1>19. CASE OnSuccessThrows(b)
  BY <1>19 DEF TypeOK, BatchInv, ControlInv, ThrowInv, TopInv, LoopInv, OnSuccessThrows
<1>20. CASE Failure(b)
  BY <1>20 DEF TypeOK, BatchInv, ControlInv, ThrowInv, TopInv, LoopInv, Failure
<1>21. CASE (\E t \in Faults \cup {"none"} : OnFailure(b, t))
  BY <1>21 DEF TypeOK, BatchInv, ControlInv, ThrowInv, TopInv, LoopInv, OnFailure
<1>22. CASE Stop(b)
  BY <1>22 DEF TypeOK, BatchInv, ControlInv, ThrowInv, TopInv, LoopInv, Stop
<1>23. CASE OnStop(b)
  BY <1>23 DEF TypeOK, BatchInv, ControlInv, ThrowInv, TopInv, LoopInv, OnStop
<1>24. CASE OnStopThrows(b)
  BY <1>24 DEF TypeOK, BatchInv, ControlInv, ThrowInv, TopInv, LoopInv, OnStopThrows
<1>25. CASE OnStopErrs(b)
  BY <1>25 DEF TypeOK, BatchInv, ControlInv, ThrowInv, TopInv, LoopInv, OnStopErrs
<1>26. CASE Caught(b)
  BY <1>26 DEF TypeOK, BatchInv, ControlInv, ThrowInv, TopInv, LoopInv, Caught
<1>27. CASE Rethrow(b)
  BY <1>27 DEF TypeOK, BatchInv, ControlInv, ThrowInv, TopInv, LoopInv, Rethrow
<1>28. CASE Return(b)
  BY <1>28 DEF TypeOK, BatchInv, ControlInv, ThrowInv, TopInv, LoopInv, Return
<1>29. CASE Cancel(b)
  BY <1>29 DEF TypeOK, BatchInv, ControlInv, ThrowInv, TopInv, LoopInv, Cancel
<1>30. CASE Sync(b)
  BY <1>30 DEF TypeOK, BatchInv, ControlInv, ThrowInv, TopInv, LoopInv, Sync
<1>31. CASE SyncThrows(b)
  BY <1>31 DEF TypeOK, BatchInv, ControlInv, ThrowInv, TopInv, LoopInv, SyncThrows
<1>32. CASE Close(b)
  BY <1>32 DEF TypeOK, BatchInv, ControlInv, ThrowInv, TopInv, LoopInv, Close
<1>33. CASE \E W \in SUBSET Units : CloseFails(b, W)
  BY <1>33 DEF TypeOK, BatchInv, ControlInv, ThrowInv, TopInv, LoopInv, CloseFails
<1>34. CASE Publish(b)
  BY <1>34 DEF TypeOK, BatchInv, ControlInv, ThrowInv, TopInv, LoopInv, Publish
<1>35. CASE AutoFlush(b)
  BY <1>35 DEF TypeOK, BatchInv, ControlInv, ThrowInv, TopInv, LoopInv, AutoFlush
<1> QED
  BY <1>1, <1>2, <1>3, <1>4, <1>5, <1>6, <1>7, <1>8, <1>9, <1>10, <1>11,
     <1>12, <1>13, <1>14, <1>15, <1>16, <1>17, <1>18, <1>19, <1>20, <1>21,
     <1>22, <1>23, <1>24, <1>25, <1>26, <1>27, <1>28, <1>29, <1>30, <1>31,
     <1>32, <1>33, <1>34, <1>35 DEF StepOf, Prepare, Execute, Conclude

\* The lag of the database.
LEMMA StepKeepsLag ==
  ASSUME NEW b \in Batches, TypeOK, phase = "up", UNCHANGED serverVars,
         BatchInv(b), StepOf(b)
  PROVE  pc'[b] \in Live /\ saved'[b] => LagInv(b)'
<1>1. CASE (\E n \in Units : Build(b, n))
  BY <1>1 DEF TypeOK, BatchInv, ControlInv, TopInv, LoopInv, LagInv, Build
<1>2. CASE BuildRejected(b)
  BY <1>2 DEF TypeOK, BatchInv, ControlInv, TopInv, LoopInv, LagInv, BuildRejected
<1>3. CASE BuildWithoutScripts(b)
  BY <1>3 DEF TypeOK, BatchInv, ControlInv, TopInv, LoopInv, LagInv, BuildWithoutScripts
<1>4. CASE (\E n \in Units : BuildBroken(b, n))
  BY <1>4 DEF TypeOK, BatchInv, ControlInv, TopInv, LoopInv, LagInv, BuildBroken
<1>5. CASE Enter(b)
  BY <1>5 DEF TypeOK, BatchInv, ControlInv, TopInv, LoopInv, LagInv, Enter
<1>6. CASE EnterRefused(b)
  BY <1>6 DEF TypeOK, BatchInv, ControlInv, TopInv, LoopInv, LagInv, EnterRefused
<1>7. CASE TempFileFails(b)
  BY <1>7 DEF TypeOK, BatchInv, ControlInv, TopInv, LoopInv, LagInv, TempFileFails
<1>8. CASE Start(b)
  BY <1>8 DEF TypeOK, BatchInv, ControlInv, TopInv, LoopInv, LagInv, Start
<1>9. CASE OnStart(b)
  BY <1>9 DEF TypeOK, BatchInv, ControlInv, TopInv, LoopInv, LagInv, OnStart
<1>10. CASE OnStartThrows(b)
  BY <1>10 DEF TypeOK, BatchInv, ControlInv, TopInv, LoopInv, LagInv, OnStartThrows
<1>11. CASE OnStartErrs(b)
  BY <1>11 DEF TypeOK, BatchInv, ControlInv, TopInv, LoopInv, LagInv, OnStartErrs
<1>12. CASE RunScript(b)
  BY <1>12 DEF TypeOK, BatchInv, ControlInv, TopInv, LoopInv, LagInv, RunScript
<1>13. CASE ScriptThrows(b)
  BY <1>13 DEF TypeOK, BatchInv, ControlInv, TopInv, LoopInv, LagInv, ScriptThrows
<1>14. CASE BodyErrs(b)
  BY <1>14 DEF TypeOK, BatchInv, ControlInv, TopInv, LoopInv, LagInv, BodyErrs
<1>15. CASE EachNext(b)
  BY <1>15 DEF TypeOK, BatchInv, ControlInv, TopInv, LoopInv, LagInv, EachNext
<1>16. CASE EachDone(b)
  BY <1>16 DEF TypeOK, BatchInv, ControlInv, TopInv, LoopInv, LagInv, EachDone
<1>17. CASE Success(b)
  BY <1>17 DEF TypeOK, BatchInv, ControlInv, TopInv, LoopInv, LagInv, Success
<1>18. CASE OnSuccess(b)
  BY <1>18 DEF TypeOK, BatchInv, ControlInv, TopInv, LoopInv, LagInv, OnSuccess
<1>19. CASE OnSuccessThrows(b)
  BY <1>19 DEF TypeOK, BatchInv, ControlInv, TopInv, LoopInv, LagInv, OnSuccessThrows
<1>20. CASE Failure(b)
  BY <1>20 DEF TypeOK, BatchInv, ControlInv, TopInv, LoopInv, LagInv, Failure
<1>21. CASE (\E t \in Faults \cup {"none"} : OnFailure(b, t))
  BY <1>21 DEF TypeOK, BatchInv, ControlInv, TopInv, LoopInv, LagInv, OnFailure
<1>22. CASE Stop(b)
  BY <1>22 DEF TypeOK, BatchInv, ControlInv, TopInv, LoopInv, LagInv, Stop
<1>23. CASE OnStop(b)
  BY <1>23 DEF TypeOK, BatchInv, ControlInv, TopInv, LoopInv, LagInv, OnStop
<1>24. CASE OnStopThrows(b)
  BY <1>24 DEF TypeOK, BatchInv, ControlInv, TopInv, LoopInv, LagInv, OnStopThrows
<1>25. CASE OnStopErrs(b)
  BY <1>25 DEF TypeOK, BatchInv, ControlInv, TopInv, LoopInv, LagInv, OnStopErrs
<1>26. CASE Caught(b)
  BY <1>26 DEF TypeOK, BatchInv, ControlInv, TopInv, LoopInv, LagInv, Caught
<1>27. CASE Rethrow(b)
  BY <1>27 DEF TypeOK, BatchInv, ControlInv, TopInv, LoopInv, LagInv, Rethrow
<1>28. CASE Return(b)
  BY <1>28 DEF TypeOK, BatchInv, ControlInv, TopInv, LoopInv, LagInv, Return
<1>29. CASE Cancel(b)
  BY <1>29 DEF TypeOK, BatchInv, ControlInv, TopInv, LoopInv, LagInv, Cancel
<1>30. CASE Sync(b)
  BY <1>30 DEF TypeOK, BatchInv, ControlInv, TopInv, LoopInv, LagInv, Sync
<1>31. CASE SyncThrows(b)
  BY <1>31 DEF TypeOK, BatchInv, ControlInv, TopInv, LoopInv, LagInv, SyncThrows
<1>32. CASE Close(b)
  BY <1>32 DEF TypeOK, BatchInv, ControlInv, TopInv, LoopInv, LagInv, Close
<1>33. CASE \E W \in SUBSET Units : CloseFails(b, W)
  BY <1>33 DEF TypeOK, BatchInv, ControlInv, TopInv, LoopInv, LagInv, CloseFails
<1>34. CASE Publish(b)
  BY <1>34 DEF TypeOK, BatchInv, ControlInv, TopInv, LoopInv, LagInv, Publish
<1>35. CASE AutoFlush(b)
  BY <1>35 DEF TypeOK, BatchInv, ControlInv, TopInv, LoopInv, LagInv, AutoFlush
<1> QED
  BY <1>1, <1>2, <1>3, <1>4, <1>5, <1>6, <1>7, <1>8, <1>9, <1>10, <1>11,
     <1>12, <1>13, <1>14, <1>15, <1>16, <1>17, <1>18, <1>19, <1>20, <1>21,
     <1>22, <1>23, <1>24, <1>25, <1>26, <1>27, <1>28, <1>29, <1>30, <1>31,
     <1>32, <1>33, <1>34, <1>35 DEF StepOf, Prepare, Execute, Conclude

\* What has been flushed for certain.
LEMMA StepKeepsFlush ==
  ASSUME NEW b \in Batches, TypeOK, phase = "up", UNCHANGED serverVars,
         BatchInv(b), StepOf(b)
  PROVE  pc'[b] \in Live /\ saved'[b] => FlushInv(b)'
<1>1. CASE (\E n \in Units : Build(b, n))
  BY <1>1 DEF TypeOK, BatchInv, ControlInv, TopInv, LoopInv, ThrowInv, LagInv, FlushInv, Build
<1>2. CASE BuildRejected(b)
  BY <1>2 DEF TypeOK, BatchInv, ControlInv, TopInv, LoopInv, ThrowInv, LagInv, FlushInv, BuildRejected
<1>3. CASE BuildWithoutScripts(b)
  BY <1>3 DEF TypeOK, BatchInv, ControlInv, TopInv, LoopInv, ThrowInv, LagInv, FlushInv, BuildWithoutScripts
<1>4. CASE (\E n \in Units : BuildBroken(b, n))
  BY <1>4 DEF TypeOK, BatchInv, ControlInv, TopInv, LoopInv, ThrowInv, LagInv, FlushInv, BuildBroken
<1>5. CASE Enter(b)
  BY <1>5 DEF TypeOK, BatchInv, ControlInv, TopInv, LoopInv, ThrowInv, LagInv, FlushInv, Enter
<1>6. CASE EnterRefused(b)
  BY <1>6 DEF TypeOK, BatchInv, ControlInv, TopInv, LoopInv, ThrowInv, LagInv, FlushInv, EnterRefused
<1>7. CASE TempFileFails(b)
  BY <1>7 DEF TypeOK, BatchInv, ControlInv, TopInv, LoopInv, ThrowInv, LagInv, FlushInv, TempFileFails
<1>8. CASE Start(b)
  BY <1>8 DEF TypeOK, BatchInv, ControlInv, TopInv, LoopInv, ThrowInv, LagInv, FlushInv, Start
<1>9. CASE OnStart(b)
  BY <1>9 DEF TypeOK, BatchInv, ControlInv, TopInv, LoopInv, ThrowInv, LagInv, FlushInv, OnStart
<1>10. CASE OnStartThrows(b)
  BY <1>10 DEF TypeOK, BatchInv, ControlInv, TopInv, LoopInv, ThrowInv, LagInv, FlushInv, OnStartThrows
<1>11. CASE OnStartErrs(b)
  BY <1>11 DEF TypeOK, BatchInv, ControlInv, TopInv, LoopInv, ThrowInv, LagInv, FlushInv, OnStartErrs
<1>12. CASE RunScript(b)
  BY <1>12 DEF TypeOK, BatchInv, ControlInv, TopInv, LoopInv, ThrowInv, LagInv, FlushInv, RunScript
<1>13. CASE ScriptThrows(b)
  BY <1>13 DEF TypeOK, BatchInv, ControlInv, TopInv, LoopInv, ThrowInv, LagInv, FlushInv, ScriptThrows
<1>14. CASE BodyErrs(b)
  BY <1>14 DEF TypeOK, BatchInv, ControlInv, TopInv, LoopInv, ThrowInv, LagInv, FlushInv, BodyErrs
<1>15. CASE EachNext(b)
  BY <1>15 DEF TypeOK, BatchInv, ControlInv, TopInv, LoopInv, ThrowInv, LagInv, FlushInv, EachNext
<1>16. CASE EachDone(b)
  BY <1>16 DEF TypeOK, BatchInv, ControlInv, TopInv, LoopInv, ThrowInv, LagInv, FlushInv, EachDone
<1>17. CASE Success(b)
  BY <1>17 DEF TypeOK, BatchInv, ControlInv, TopInv, LoopInv, ThrowInv, LagInv, FlushInv, Success
<1>18. CASE OnSuccess(b)
  BY <1>18 DEF TypeOK, BatchInv, ControlInv, TopInv, LoopInv, ThrowInv, LagInv, FlushInv, OnSuccess
<1>19. CASE OnSuccessThrows(b)
  BY <1>19 DEF TypeOK, BatchInv, ControlInv, TopInv, LoopInv, ThrowInv, LagInv, FlushInv, OnSuccessThrows
<1>20. CASE Failure(b)
  BY <1>20 DEF TypeOK, BatchInv, ControlInv, TopInv, LoopInv, ThrowInv, LagInv, FlushInv, Failure
<1>21. CASE (\E t \in Faults \cup {"none"} : OnFailure(b, t))
  BY <1>21 DEF TypeOK, BatchInv, ControlInv, TopInv, LoopInv, ThrowInv, LagInv, FlushInv, OnFailure
<1>22. CASE Stop(b)
  BY <1>22 DEF TypeOK, BatchInv, ControlInv, TopInv, LoopInv, ThrowInv, LagInv, FlushInv, Stop
<1>23. CASE OnStop(b)
  BY <1>23 DEF TypeOK, BatchInv, ControlInv, TopInv, LoopInv, ThrowInv, LagInv, FlushInv, OnStop
<1>24. CASE OnStopThrows(b)
  BY <1>24 DEF TypeOK, BatchInv, ControlInv, TopInv, LoopInv, ThrowInv, LagInv, FlushInv, OnStopThrows
<1>25. CASE OnStopErrs(b)
  BY <1>25 DEF TypeOK, BatchInv, ControlInv, TopInv, LoopInv, ThrowInv, LagInv, FlushInv, OnStopErrs
<1>26. CASE Caught(b)
  BY <1>26 DEF TypeOK, BatchInv, ControlInv, TopInv, LoopInv, ThrowInv, LagInv, FlushInv, Caught
<1>27. CASE Rethrow(b)
  BY <1>27 DEF TypeOK, BatchInv, ControlInv, TopInv, LoopInv, ThrowInv, LagInv, FlushInv, Rethrow
<1>28. CASE Return(b)
  BY <1>28 DEF TypeOK, BatchInv, ControlInv, TopInv, LoopInv, ThrowInv, LagInv, FlushInv, Return
<1>29. CASE Cancel(b)
  BY <1>29 DEF TypeOK, BatchInv, ControlInv, TopInv, LoopInv, ThrowInv, LagInv, FlushInv, Cancel
<1>30. CASE Sync(b)
  BY <1>30 DEF TypeOK, BatchInv, ControlInv, TopInv, LoopInv, ThrowInv, LagInv, FlushInv, Sync
<1>31. CASE SyncThrows(b)
  BY <1>31 DEF TypeOK, BatchInv, ControlInv, TopInv, LoopInv, ThrowInv, LagInv, FlushInv, SyncThrows
<1>32. CASE Close(b)
  BY <1>32 DEF TypeOK, BatchInv, ControlInv, TopInv, LoopInv, ThrowInv, LagInv, FlushInv, Close
<1>33. CASE \E W \in SUBSET Units : CloseFails(b, W)
  BY <1>33 DEF TypeOK, BatchInv, ControlInv, TopInv, LoopInv, ThrowInv, LagInv, FlushInv, CloseFails
<1>34. CASE Publish(b)
  BY <1>34 DEF TypeOK, BatchInv, ControlInv, TopInv, LoopInv, ThrowInv, LagInv, FlushInv, Publish
<1>35. CASE AutoFlush(b)
  BY <1>35 DEF TypeOK, BatchInv, ControlInv, TopInv, LoopInv, ThrowInv, LagInv, FlushInv, AutoFlush
<1> QED
  BY <1>1, <1>2, <1>3, <1>4, <1>5, <1>6, <1>7, <1>8, <1>9, <1>10, <1>11,
     <1>12, <1>13, <1>14, <1>15, <1>16, <1>17, <1>18, <1>19, <1>20, <1>21,
     <1>22, <1>23, <1>24, <1>25, <1>26, <1>27, <1>28, <1>29, <1>30, <1>31,
     <1>32, <1>33, <1>34, <1>35 DEF StepOf, Prepare, Execute, Conclude

\* What the loop and the worker leave behind.
LEMMA StepKeepsSettle ==
  ASSUME NEW b \in Batches, TypeOK, phase = "up", UNCHANGED serverVars,
         BatchInv(b), StepOf(b)
  PROVE  SettleInv(b)'
<1>1. CASE (\E n \in Units : Build(b, n))
  BY <1>1 DEF TypeOK, BatchInv, ControlInv, SettleInv, ThrowInv, TopInv, LoopInv, Build
<1>2. CASE BuildRejected(b)
  BY <1>2 DEF TypeOK, BatchInv, ControlInv, SettleInv, ThrowInv, TopInv, LoopInv, BuildRejected
<1>3. CASE BuildWithoutScripts(b)
  BY <1>3 DEF TypeOK, BatchInv, ControlInv, SettleInv, ThrowInv, TopInv, LoopInv, BuildWithoutScripts
<1>4. CASE (\E n \in Units : BuildBroken(b, n))
  BY <1>4 DEF TypeOK, BatchInv, ControlInv, SettleInv, ThrowInv, TopInv, LoopInv, BuildBroken
<1>5. CASE Enter(b)
  BY <1>5 DEF TypeOK, BatchInv, ControlInv, SettleInv, ThrowInv, TopInv, LoopInv, Enter
<1>6. CASE EnterRefused(b)
  BY <1>6 DEF TypeOK, BatchInv, ControlInv, SettleInv, ThrowInv, TopInv, LoopInv, EnterRefused
<1>7. CASE TempFileFails(b)
  BY <1>7 DEF TypeOK, BatchInv, ControlInv, SettleInv, ThrowInv, TopInv, LoopInv, TempFileFails
<1>8. CASE Start(b)
  BY <1>8 DEF TypeOK, BatchInv, ControlInv, SettleInv, ThrowInv, TopInv, LoopInv, Start
<1>9. CASE OnStart(b)
  BY <1>9 DEF TypeOK, BatchInv, ControlInv, SettleInv, ThrowInv, TopInv, LoopInv, OnStart
<1>10. CASE OnStartThrows(b)
  BY <1>10 DEF TypeOK, BatchInv, ControlInv, SettleInv, ThrowInv, TopInv, LoopInv, OnStartThrows
<1>11. CASE OnStartErrs(b)
  BY <1>11 DEF TypeOK, BatchInv, ControlInv, SettleInv, ThrowInv, TopInv, LoopInv, OnStartErrs
<1>12. CASE RunScript(b)
  BY <1>12 DEF TypeOK, BatchInv, ControlInv, SettleInv, ThrowInv, TopInv, LoopInv, RunScript
<1>13. CASE ScriptThrows(b)
  BY <1>13 DEF TypeOK, BatchInv, ControlInv, SettleInv, ThrowInv, TopInv, LoopInv, ScriptThrows
<1>14. CASE BodyErrs(b)
  BY <1>14 DEF TypeOK, BatchInv, ControlInv, SettleInv, ThrowInv, TopInv, LoopInv, BodyErrs
<1>15. CASE EachNext(b)
  BY <1>15 DEF TypeOK, BatchInv, ControlInv, SettleInv, ThrowInv, TopInv, LoopInv, EachNext
<1>16. CASE EachDone(b)
  BY <1>16 DEF TypeOK, BatchInv, ControlInv, SettleInv, ThrowInv, TopInv, LoopInv, EachDone
<1>17. CASE Success(b)
  BY <1>17 DEF TypeOK, BatchInv, ControlInv, SettleInv, ThrowInv, TopInv, LoopInv, Success
<1>18. CASE OnSuccess(b)
  BY <1>18 DEF TypeOK, BatchInv, ControlInv, SettleInv, ThrowInv, TopInv, LoopInv, OnSuccess
<1>19. CASE OnSuccessThrows(b)
  BY <1>19 DEF TypeOK, BatchInv, ControlInv, SettleInv, ThrowInv, TopInv, LoopInv, OnSuccessThrows
<1>20. CASE Failure(b)
  BY <1>20 DEF TypeOK, BatchInv, ControlInv, SettleInv, ThrowInv, TopInv, LoopInv, Failure
<1>21. CASE (\E t \in Faults \cup {"none"} : OnFailure(b, t))
  BY <1>21 DEF TypeOK, BatchInv, ControlInv, SettleInv, ThrowInv, TopInv, LoopInv, OnFailure
<1>22. CASE Stop(b)
  BY <1>22 DEF TypeOK, BatchInv, ControlInv, SettleInv, ThrowInv, TopInv, LoopInv, Stop
<1>23. CASE OnStop(b)
  BY <1>23 DEF TypeOK, BatchInv, ControlInv, SettleInv, ThrowInv, TopInv, LoopInv, OnStop
<1>24. CASE OnStopThrows(b)
  BY <1>24 DEF TypeOK, BatchInv, ControlInv, SettleInv, ThrowInv, TopInv, LoopInv, OnStopThrows
<1>25. CASE OnStopErrs(b)
  BY <1>25 DEF TypeOK, BatchInv, ControlInv, SettleInv, ThrowInv, TopInv, LoopInv, OnStopErrs
<1>26. CASE Caught(b)
  BY <1>26 DEF TypeOK, BatchInv, ControlInv, SettleInv, ThrowInv, TopInv, LoopInv, Caught
<1>27. CASE Rethrow(b)
  BY <1>27 DEF TypeOK, BatchInv, ControlInv, SettleInv, ThrowInv, TopInv, LoopInv, Rethrow
<1>28. CASE Return(b)
  BY <1>28 DEF TypeOK, BatchInv, ControlInv, SettleInv, ThrowInv, TopInv, LoopInv, Return
<1>29. CASE Cancel(b)
  BY <1>29 DEF TypeOK, BatchInv, ControlInv, SettleInv, ThrowInv, TopInv, LoopInv, Cancel
<1>30. CASE Sync(b)
  BY <1>30 DEF TypeOK, BatchInv, ControlInv, SettleInv, ThrowInv, TopInv, LoopInv, Sync
<1>31. CASE SyncThrows(b)
  BY <1>31 DEF TypeOK, BatchInv, ControlInv, SettleInv, ThrowInv, TopInv, LoopInv, SyncThrows
<1>32. CASE Close(b)
  BY <1>32 DEF TypeOK, BatchInv, ControlInv, SettleInv, ThrowInv, TopInv, LoopInv, Close
<1>33. CASE \E W \in SUBSET Units : CloseFails(b, W)
  BY <1>33 DEF TypeOK, BatchInv, ControlInv, SettleInv, ThrowInv, TopInv, LoopInv, CloseFails
<1>34. CASE Publish(b)
  BY <1>34 DEF TypeOK, BatchInv, ControlInv, SettleInv, ThrowInv, TopInv, LoopInv, Publish
<1>35. CASE AutoFlush(b)
  BY <1>35 DEF TypeOK, BatchInv, ControlInv, SettleInv, ThrowInv, TopInv, LoopInv, AutoFlush
<1> QED
  BY <1>1, <1>2, <1>3, <1>4, <1>5, <1>6, <1>7, <1>8, <1>9, <1>10, <1>11,
     <1>12, <1>13, <1>14, <1>15, <1>16, <1>17, <1>18, <1>19, <1>20, <1>21,
     <1>22, <1>23, <1>24, <1>25, <1>26, <1>27, <1>28, <1>29, <1>30, <1>31,
     <1>32, <1>33, <1>34, <1>35 DEF StepOf, Prepare, Execute, Conclude

-----------------------------------------------------------------------------
\* What the invariant of a batch depends on, besides the server.
Same(c) ==
  /\ pc'[c] = pc[c] /\ size'[c] = size[c] /\ inner'[c] = inner[c] /\ pos'[c] = pos[c]
  /\ handled'[c] = handled[c] /\ raised'[c] = raised[c] /\ state'[c] = state[c]
  /\ started'[c] = started[c] /\ stopped'[c] = stopped[c]
  /\ saved'[c] = saved[c] /\ stored'[c] = stored[c]

LEMMA StepLeavesOthersAlone ==
  ASSUME NEW b \in Batches, NEW c \in Batches, b # c, TypeOK, StepOf(b)
  PROVE  Same(c)
<1>1. CASE Prepare(b)
  BY <1>1 DEF Prepare, TypeOK, Same, Build, BuildBroken, BuildRejected, BuildWithoutScripts
<1>2. CASE Execute(b)
  BY <1>2 DEF Execute, TypeOK, Same, Enter, EnterRefused, TempFileFails, Start, OnStart,
       OnStartThrows, OnStartErrs, RunScript, ScriptThrows, BodyErrs, EachNext, EachDone,
       Success, OnSuccess, OnSuccessThrows, Failure, OnFailure, Stop, OnStop,
       OnStopThrows, OnStopErrs, Caught, Rethrow, Return
<1>3. CASE Conclude(b)
  BY <1>3 DEF Conclude, TypeOK, Same, Cancel, Sync, SyncThrows, Close, CloseFails
<1>4. CASE Publish(b) \/ AutoFlush(b)
  BY <1>4 DEF TypeOK, Same, Publish, AutoFlush
<1> QED
  BY <1>1, <1>2, <1>3, <1>4 DEF StepOf

LEMMA SameKeepsInv ==
  ASSUME NEW c \in Batches, Same(c), UNCHANGED serverVars, BatchInv(c)
  PROVE  BatchInv(c)'
<1>1. ControlInv(c)'
  BY DEF Same, BatchInv, ControlInv
<1>2. SettleInv(c)'
  BY DEF Same, BatchInv, SettleInv
<1>3. pc'[c] \in Live => ThrowInv(c)'
  BY DEF Same, BatchInv, ThrowInv
<1>4. pc'[c] \in Live => TopInv(c)'
  BY DEF Same, BatchInv, TopInv
<1>5. pc'[c] \in Live => LoopInv(c)'
  BY DEF Same, BatchInv, LoopInv
<1>6. pc'[c] \in Live /\ saved'[c] => LagInv(c)'
  BY DEF Same, BatchInv, LagInv
<1>7. pc'[c] \in Live /\ saved'[c] => FlushInv(c)'
  BY DEF Same, BatchInv, FlushInv
<1> QED
  BY <1>1, <1>2, <1>3, <1>4, <1>5, <1>6, <1>7 DEF BatchInv

LEMMA StepKeepsInv ==
  ASSUME NEW b \in Batches, TypeOK, ExecutionInv, phase = "up", UNCHANGED serverVars,
         StepOf(b)
  PROVE  ExecutionInv'
<1>1. BatchInv(b)
  BY DEF ExecutionInv
<1>2. BatchInv(b)'
  BY <1>1, StepKeepsControl, StepKeepsThrow, StepKeepsTop, StepKeepsLoop, StepKeepsLag,
     StepKeepsFlush, StepKeepsSettle DEF BatchInv
<1>3. ASSUME NEW c \in Batches, b # c  PROVE BatchInv(c)'
  BY <1>3, StepLeavesOthersAlone, SameKeepsInv DEF ExecutionInv
<1> QED
  BY <1>2, <1>3 DEF ExecutionInv

\* The steps of the server: nobody is executing while they are taken.
LEMMA CleanedRowsTyped ==
  ASSUME NEW b \in Batches, NEW n \in Nat, TypeOK
  PROVE  CleanedRows(b, n) \in [Units -> ProcessState]
BY DEF TypeOK, CleanedRows, Unhang

\* What a crash in the middle of the clean-up, or its end, writes.
LEMMA ServerWritesRows ==
  ASSUME Crash \/ \E b \in Batches : CleanUp(b)
  PROVE  \/ stored' = stored
         \/ \E b \in hung, n \in Nat : stored' = [stored EXCEPT ![b] = CleanedRows(b, n)]
<1>1. CASE Crash
  BY <1>1 DEF Crash
<1>2. CASE \E b \in Batches : CleanUp(b)
  <2>1. MaxScriptlets + 1 \in Nat
    OBVIOUS
  <2> QED
    BY <1>2, <2>1 DEF CleanUp
<1> QED
  BY <1>1, <1>2

LEMMA WritingKeepsTypes ==
  ASSUME TypeOK, Crash \/ \E b \in Batches : CleanUp(b)
  PROVE  stored' \in [Batches -> [Units -> ProcessState]]
<1>1. stored \in [Batches -> [Units -> ProcessState]] /\ hung \subseteq Batches
  BY DEF TypeOK
<1>2. ASSUME NEW b \in hung, NEW n \in Nat, stored' = [stored EXCEPT ![b] = CleanedRows(b, n)]
      PROVE  stored' \in [Batches -> [Units -> ProcessState]]
  <2>1. CleanedRows(b, n) \in [Units -> ProcessState]
    BY <1>1, CleanedRowsTyped
  <2> QED
    BY <1>1, <1>2, <2>1
<1> QED
  BY <1>1, <1>2, ServerWritesRows

LEMMA ServerKeepsTypes ==
  ASSUME TypeOK, Crash \/ Server
  PROVE  TypeOK'
<1>1. CASE Crash
  <2>1. stored' \in [Batches -> [Units -> ProcessState]]
    BY <1>1, WritingKeepsTypes
  <2> QED
    BY <1>1, <2>1 DEF TypeOK, Crash
<1>2. CASE Restart \/ BootDone
  BY <1>2 DEF TypeOK, Restart, BootDone
<1>3. CASE \E b \in Batches : CleanUp(b)
  <2>1. stored' \in [Batches -> [Units -> ProcessState]]
    BY <1>3, WritingKeepsTypes
  <2> QED
    BY <1>3, <2>1 DEF TypeOK, CleanUp
<1> QED
  BY <1>1, <1>2, <1>3 DEF Server

\* What the server does to the rows of c: the clean-up of its first n units.
LEMMA ServerCleansRows ==
  ASSUME TypeOK, NEW c \in Batches, Crash \/ \E b \in Batches : CleanUp(b)
  PROVE  \/ stored'[c] = stored[c]
         \/ c \in hung /\ \E n \in Nat : stored'[c] = CleanedRows(c, n)
BY ServerWritesRows DEF TypeOK

LEMMA CleaningKeepsSettled ==
  ASSUME NEW c \in Batches, NEW n \in Nat, TypeOK, Settled(c, stored[c])
  PROVE  Settled(c, CleanedRows(c, n))
BY DEF TypeOK, CleanedRows, Unhang

LEMMA ServerKeepsInv ==
  ASSUME TypeOK, ExecutionInv, Crash \/ Server
  PROVE  ExecutionInv'
<1> SUFFICES ASSUME NEW c \in Batches  PROVE BatchInv(c)'
  BY DEF ExecutionInv
<1>0. BatchInv(c)
  BY DEF ExecutionInv
<1>1. CASE Crash
  <2>1. pc'[c] \in {"idle", "done", "lost"}
    BY <1>1 DEF TypeOK, Crash
  <2>2. ControlInv(c)'
    BY <1>0, <1>1, ServerCleansRows DEF TypeOK, BatchInv, ControlInv, Crash
  <2>3. SettleInv(c)'
    <3>0. UNCHANGED size
      BY <1>1 DEF Crash
    <3>1. Settled(c, stored[c]) => Settled(c, stored[c])'
      BY <1>1, <3>0, ServerCleansRows, CleaningKeepsSettled
    <3>2. /\ pc'[c] \in {"idle", "lost"} \/ (pc[c] = "done" /\ pc'[c] = "done" /\ raised'[c] = raised[c])
          /\ \A i \in Members(c)' : state'[c][i] = "WAITING"
          /\ started'[c] = {} /\ raised'[c] \in {"none", raised[c]}
      BY <1>1 DEF TypeOK, Crash
    <3> QED
      BY <1>0, <3>1, <3>2 DEF BatchInv, SettleInv
  <2> QED
    BY <2>1, <2>2, <2>3 DEF BatchInv
<1>2. CASE Restart \/ BootDone
  BY <1>0, <1>2 DEF TypeOK, BatchInv, ControlInv, SettleInv, ThrowInv, TopInv, LoopInv, LagInv, FlushInv,
       Restart, BootDone
<1>3. ASSUME NEW b \in Batches, CleanUp(b)  PROVE BatchInv(c)'
  <2>1. pc'[c] = pc[c] /\ pc[c] \in {"idle", "done", "lost"}
    BY <1>0, <1>3 DEF BatchInv, ControlInv, CleanUp
  <2>2. ControlInv(c)'
    BY <1>0, <1>3 DEF TypeOK, BatchInv, ControlInv, CleanUp, CleanedRows, Unhang
  <2>3. SettleInv(c)'
    <3>1. Settled(c, stored[c]) => Settled(c, stored[c])'
      BY <1>3, ServerCleansRows, CleaningKeepsSettled DEF CleanUp, memVars
    <3>2. UNCHANGED memVars
      BY <1>3 DEF CleanUp
    <3> QED
      BY <1>0, <3>1, <3>2 DEF BatchInv, SettleInv
  <2> QED
    BY <2>1, <2>2, <2>3 DEF BatchInv
<1> QED
  BY <1>1, <1>2, <1>3 DEF Server

-----------------------------------------------------------------------------
\* Every variable keeps its type, for every number of batches and scriptlets.
THEOREM TypeCorrect == Spec => []TypeOK
<1>1. Init => TypeOK
  BY DEF Init, TypeOK
<1>2. TypeOK /\ [Next]_vars => TypeOK'
  <2> SUFFICES ASSUME TypeOK, [Next]_vars  PROVE TypeOK'
    OBVIOUS
  <2>1. CASE \E b \in Batches : phase = "up" /\ UNCHANGED serverVars /\ StepOf(b)
    BY <2>1, StepKeepsTypes
  <2>2. CASE Crash \/ Server
    BY <2>2, ServerKeepsTypes
  <2>3. CASE UNCHANGED vars
    BY <2>3 DEF TypeOK, vars
  <2> QED
    BY <2>1, <2>2, <2>3 DEF Next, Worker, StepOf
<1> QED
  BY <1>1, <1>2, PTL DEF Spec

\* The inductive invariant holds in every reachable state.
THEOREM ExecutionInvariant == Spec => []ExecutionInv
<1>1. Init => ExecutionInv
  BY DEF Init, ExecutionInv, BatchInv, ControlInv, SettleInv
<1>2. TypeOK /\ ExecutionInv /\ [Next]_vars => ExecutionInv'
  <2> SUFFICES ASSUME TypeOK, ExecutionInv, [Next]_vars  PROVE ExecutionInv'
    OBVIOUS
  <2>1. CASE \E b \in Batches : phase = "up" /\ UNCHANGED serverVars /\ StepOf(b)
    BY <2>1, StepKeepsInv
  <2>2. CASE Crash \/ Server
    BY <2>2, ServerKeepsInv
  <2>3. CASE UNCHANGED vars
    BY <2>3, SameKeepsInv DEF ExecutionInv, vars, Same
  <2> QED
    BY <2>1, <2>2, <2>3 DEF Next, Worker, StepOf
<1> QED
  BY <1>1, <1>2, TypeCorrect, PTL DEF Spec

\* No batch is left with a waiting or running unit once its worker has ended
\* without an Error and without losing its last flush.
THEOREM WorkersSettleTheirBatches == Spec => []NothingLeftPending
<1>1. ExecutionInv => NothingLeftPending
  BY DEF ExecutionInv, BatchInv, SettleInv, NothingLeftPending
<1> QED
  BY <1>1, ExecutionInvariant, PTL

\* The check for failed scriptlets after the loop of a batch never fires.
THEOREM FailuresAlwaysPropagate == Spec => []FailureCheckIsRedundant
<1>1. TypeOK /\ ExecutionInv => FailureCheckIsRedundant
  <2> SUFFICES ASSUME TypeOK, ExecutionInv, NEW b \in Batches, pc[b] = "process", ~ inner[b],
                      NEW i \in Members(b)
               PROVE  state[b][i] # "FAILURE"
    BY DEF FailureCheckIsRedundant
  <2>1. LoopInv(b) /\ i \in 1 .. size[b] /\ pos[b] \in Nat /\ size[b] \in Nat
    BY DEF TypeOK, ExecutionInv, BatchInv
  <2>2. CASE i < pos[b]
    BY <2>1, <2>2 DEF LoopInv
  <2>3. CASE i = pos[b]
    BY <2>1, <2>3 DEF LoopInv
  <2>4. CASE i > pos[b]
    BY <2>1, <2>4 DEF LoopInv
  <2> QED
    BY <2>1, <2>2, <2>3, <2>4
<1> QED
  BY <1>1, TypeCorrect, ExecutionInvariant, PTL

\* No scriptlet is left RUNNING behind the loop, and after an Error only the one
\* the batch is given up at.
THEOREM RunningScriptletsAreOnTop == Spec => []OnlyTheTopRuns
<1>1. ExecutionInv => OnlyTheTopRuns
  BY DEF ExecutionInv, BatchInv, SettleInv, OnlyTheTopRuns
<1> QED
  BY <1>1, ExecutionInvariant, PTL

\* A batch leaks at most one log appender, whatever its hooks throw.
THEOREM AppenderLeaksAreBounded == Spec => []LeaksAtMostOneAppender
<1>1. ExecutionInv => LeaksAtMostOneAppender
  BY DEF ExecutionInv, BatchInv, SettleInv, LeaksAtMostOneAppender
<1> QED
  BY <1>1, ExecutionInvariant, PTL

-----------------------------------------------------------------------------
(***************************************************************************)
(* BatchExecution implements BatchRecord: the rows of a batch are written  *)
(* by the build, by the flushes of start(), stop(), the outer catch, the   *)
(* queries of hooks and the closing session, and by the clean-up.  LagInv  *)
(* makes every flush a rewrite BatchRecord allows.                         *)
(***************************************************************************)
USE DEF Record!ProcessState

RowsAs(b, r) == [u \in 0 .. size[b] |-> r[u]]

LEMMA RowsTyped ==
  ASSUME NEW b \in Batches, TypeOK, NEW r \in [Units -> ProcessState]
  PROVE  /\ RowsAs(b, r) \in [0 .. size[b] -> ProcessState]
         /\ RowsAs(b, r) \in Record!Rows
         /\ RowsAs(b, r) # Record!NoRows
         /\ DOMAIN RowsAs(b, r) = 0 .. size[b]
         /\ Record!Scripts(RowsAs(b, r)) = 1 .. size[b]
         /\ size[b] \in Nat
<1>1. size[b] \in 0 .. MaxScriptlets /\ size[b] \in Nat
  BY DEF TypeOK
<1>2. RowsAs(b, r) \in [0 .. size[b] -> Record!ProcessState]
  BY <1>1 DEF RowsAs, Record!ProcessState
<1>3. 0 \in DOMAIN RowsAs(b, r) /\ DOMAIN Record!NoRows = {}
  BY <1>1, <1>2 DEF Record!NoRows
<1> QED
  BY <1>1, <1>2, <1>3 DEF Record!Rows, Record!Scripts, Record!ProcessState

\* What the session holds is a rewrite of what the database holds.
LEMMA SessionRewritesRows ==
  ASSUME NEW b \in Batches, TypeOK, BatchInv(b), pc[b] \in Live, saved[b]
  PROVE  Record!Rewritten(RowsAs(b, stored[b]), RowsAs(b, state[b]))
<1> DEFINE r == RowsAs(b, stored[b])
           s == RowsAs(b, state[b])
<1>1. /\ r \in [0 .. size[b] -> ProcessState] /\ s \in [0 .. size[b] -> ProcessState]
      /\ Record!Scripts(r) = 1 .. size[b] /\ size[b] \in Nat /\ pos[b] \in Nat
  <2>1. stored[b] \in [Units -> ProcessState] /\ state[b] \in [Units -> ProcessState]
    BY DEF TypeOK
  <2>2. r \in [0 .. size[b] -> ProcessState] /\ Record!Scripts(r) = 1 .. size[b]
    BY <2>1, RowsTyped
  <2>3. s \in [0 .. size[b] -> ProcessState]
    BY <2>1, RowsTyped
  <2> QED
    BY <2>2, <2>3 DEF TypeOK
<1>2. \A u \in 0 .. size[b] : r[u] = stored[b][u] /\ s[u] = state[b][u]
  BY DEF RowsAs
<1>3. /\ \A i \in 1 .. (pos[b] - 1) : state[b][i] = "SUCCESS"
      /\ \A i \in (pos[b] + 1) .. size[b] : state[b][i] \in {"WAITING", "CANCELED"}
      /\ state[b][0] = "SUCCESS" => \A i \in 1 .. size[b] : state[b][i] = "SUCCESS"
      /\ \A i \in 1 .. size[b] : state[b][i] = "CANCELED" => state[b][0] = "FAILURE"
  BY DEF BatchInv, LoopInv
<1>4. \A u \in 0 .. size[b] : s[u] = r[u] \/ <<r[u], s[u]>> \in Record!Moves
  BY <1>1, <1>2 DEF BatchInv, LagInv, Record!Moves
<1>5. Record!BeginsInTurn(r, s)
  BY <1>1, <1>2 DEF BatchInv, LagInv, Record!BeginsInTurn, Record!Begun
<1>6. Record!RevokesAlone(r, s)
  <2> SUFFICES ASSUME NEW j \in 1 .. size[b], r[j] = "SUCCESS", s[j] = "FAILURE"
               PROVE  /\ s[0] # "SUCCESS"
                      /\ \A k \in 1 .. size[b] : k > j => s[k] \notin Record!Begun
    BY <1>1 DEF Record!RevokesAlone
  <2>1. state[b][j] = "FAILURE" /\ s[0] = state[b][0]
    BY <1>1, <1>2
  <2>2. j >= pos[b]
    BY <1>1, <1>3, <2>1
  <2>3. s[0] # "SUCCESS"
    BY <1>3, <2>1
  <2>4. ASSUME NEW k \in 1 .. size[b], k > j
        PROVE  s[k] \notin Record!Begun
    <3>1. k \in (pos[b] + 1) .. size[b] /\ s[k] = state[b][k]
      BY <1>1, <1>2, <2>2, <2>4
    <3> QED
      BY <1>3, <3>1 DEF Record!Begun
  <2> QED
    BY <2>3, <2>4
<1>7. Record!SucceedsAsAWhole(r, s)
  BY <1>1, <1>2, <1>3 DEF Record!SucceedsAsAWhole
<1>8. Record!CancelsAfterTheBatch(r, s)
  BY <1>1, <1>2, <1>3 DEF Record!CancelsAfterTheBatch
<1> QED
  BY <1>1, <1>4, <1>5, <1>6, <1>7, <1>8 DEF Record!Rewritten, Record!ProcessState

\* start() flushes the RUNNING it sets.
LEMMA StartRewritesRows ==
  ASSUME NEW b \in Batches, TypeOK, BatchInv(b), Start(b)
  PROVE  Record!Rewritten(RowsAs(b, stored[b]), RowsAs(b, state'[b]))
<1> DEFINE r == RowsAs(b, stored[b])
           s == RowsAs(b, state'[b])
<1>0. state'[b] \in [Units -> ProcessState] /\ Unit(b) \in 0 .. size[b]
  BY DEF Start, TypeOK, BatchInv, ControlInv
<1>1. /\ r \in [0 .. size[b] -> ProcessState] /\ s \in [0 .. size[b] -> ProcessState]
      /\ Record!Scripts(r) = 1 .. size[b] /\ size[b] \in Nat /\ pos[b] \in Nat
  <2>1. stored[b] \in [Units -> ProcessState] /\ state'[b] \in [Units -> ProcessState]
    BY <1>0 DEF TypeOK
  <2>2. r \in [0 .. size[b] -> ProcessState] /\ Record!Scripts(r) = 1 .. size[b]
    BY <2>1, RowsTyped
  <2>3. s \in [0 .. size[b] -> ProcessState]
    BY <2>1, RowsTyped
  <2> QED
    BY <2>2, <2>3 DEF TypeOK
<1>2. /\ \A u \in 0 .. size[b] : r[u] = stored[b][u] /\ s[u] = state'[b][u]
      /\ \A u \in 0 .. size[b] : u # Unit(b) => s[u] = state[b][u]
      /\ s[Unit(b)] = "RUNNING" /\ state[b][Unit(b)] = "WAITING"
  BY <1>0 DEF RowsAs, Start, TypeOK, BatchInv, TopInv
<1>3. /\ \A i \in 1 .. (pos[b] - 1) : state[b][i] = "SUCCESS"
      /\ \A i \in (pos[b] + 1) .. size[b] : state[b][i] = "WAITING"
      /\ inner[b] => state[b][0] = "RUNNING" /\ pos[b] > 0
      /\ ~ inner[b] => pos[b] = 0
  BY DEF Start, BatchInv, LoopInv, ControlInv
<1>4. \A u \in 0 .. size[b] : s[u] = r[u] \/ <<r[u], s[u]>> \in Record!Moves
  <2>1. pc[b] \in Live /\ saved[b] /\ LagInv(b)
    BY DEF Start, BatchInv, ControlInv
  <2>2. SUFFICES ASSUME NEW u \in 0 .. size[b]
                 PROVE  s[u] = r[u] \/ <<r[u], s[u]>> \in Record!Moves
    OBVIOUS
  <2>3. \/ r[u] = state[b][u]
        \/ <<r[u], state[b][u]>> \in {<<"RUNNING", "SUCCESS">>, <<"RUNNING", "FAILURE">>,
             <<"SUCCESS", "FAILURE">>, <<"WAITING", "CANCELED">>}
    BY <1>1, <1>2, <2>1 DEF LagInv
  <2>4. CASE u # Unit(b)
    BY <1>2, <2>3, <2>4 DEF Record!Moves
  <2>5. CASE u = Unit(b)
    BY <1>0, <1>1, <1>2, <2>3, <2>5 DEF Record!Moves, TypeOK
  <2> QED
    BY <2>4, <2>5
<1>5. s[0] = "RUNNING"
  BY <1>1, <1>2, <1>3
<1>6. ASSUME NEW j \in 1 .. size[b], r[j] = "WAITING", s[j] \in Record!Begun
      PROVE  j = pos[b] /\ inner[b]
  <2>1. pc[b] \in Live /\ saved[b] /\ LagInv(b)
    BY DEF Start, BatchInv, ControlInv
  <2>2. state[b][j] \in {"WAITING", "CANCELED"}
    BY <1>1, <1>2, <1>6, <2>1 DEF LagInv
  <2>3. j = Unit(b)
    BY <1>1, <1>2, <1>6, <2>2 DEF Record!Begun
  <2> QED
    BY <1>1, <2>3
<1>7. Record!BeginsInTurn(r, s)
  BY <1>1, <1>2, <1>3, <1>5, <1>6 DEF Record!BeginsInTurn
<1>8. \A j \in 1 .. size[b] : s[j] \in {"SUCCESS", "RUNNING", "WAITING"}
  BY <1>1, <1>2, <1>3
<1> QED
  BY <1>1, <1>4, <1>5, <1>7, <1>8
     DEF Record!Rewritten, Record!RevokesAlone, Record!SucceedsAsAWhole,
         Record!CancelsAfterTheBatch, Record!ProcessState

\* The outer catch flushes the FAILURE it sets.
LEMMA CaughtRewritesRows ==
  ASSUME NEW b \in Batches, TypeOK, BatchInv(b), Caught(b)
  PROVE  Record!Rewritten(RowsAs(b, stored[b]), RowsAs(b, state'[b]))
<1> DEFINE r == RowsAs(b, stored[b])
           s == RowsAs(b, state'[b])
<1>0. state'[b] \in [Units -> ProcessState] /\ Unit(b) \in 0 .. size[b]
  BY DEF Caught, TypeOK, BatchInv, ControlInv
<1>1. /\ r \in [0 .. size[b] -> ProcessState] /\ s \in [0 .. size[b] -> ProcessState]
      /\ Record!Scripts(r) = 1 .. size[b] /\ size[b] \in Nat /\ pos[b] \in Nat
  <2>1. stored[b] \in [Units -> ProcessState] /\ state'[b] \in [Units -> ProcessState]
    BY <1>0 DEF TypeOK
  <2>2. r \in [0 .. size[b] -> ProcessState] /\ Record!Scripts(r) = 1 .. size[b]
    BY <2>1, RowsTyped
  <2>3. s \in [0 .. size[b] -> ProcessState]
    BY <2>1, RowsTyped
  <2> QED
    BY <2>2, <2>3 DEF TypeOK
<1>2. /\ \A u \in 0 .. size[b] : r[u] = stored[b][u] /\ s[u] = state'[b][u]
      /\ \A u \in 0 .. size[b] : u # Unit(b) => s[u] = state[b][u]
      /\ s[Unit(b)] = "FAILURE" /\ state[b][Unit(b)] # "CANCELED"
  BY <1>0 DEF RowsAs, Caught, TypeOK, BatchInv, TopInv, LoopInv, ControlInv
<1>3. /\ \A i \in 1 .. (pos[b] - 1) : state[b][i] = "SUCCESS"
      /\ \A i \in (pos[b] + 1) .. size[b] : state[b][i] = "WAITING"
      /\ inner[b] => state[b][0] = "RUNNING" /\ pos[b] > 0
      /\ \A i \in 1 .. size[b] : state[b][i] # "CANCELED" \/ state[b][0] = "FAILURE"
      /\ ~ inner[b] => state[b][0] \in {"RUNNING", "SUCCESS", "FAILURE"}
  BY DEF Caught, BatchInv, LoopInv, ControlInv, TopInv
<1>4. \A u \in 0 .. size[b] : s[u] = r[u] \/ <<r[u], s[u]>> \in Record!Moves
  <2>1. pc[b] \in Live /\ saved[b] /\ LagInv(b)
    BY DEF Caught, BatchInv, ControlInv
  <2>2. SUFFICES ASSUME NEW u \in 0 .. size[b]
                 PROVE  s[u] = r[u] \/ <<r[u], s[u]>> \in Record!Moves
    OBVIOUS
  <2>3. \/ r[u] = state[b][u]
        \/ <<r[u], state[b][u]>> \in {<<"RUNNING", "SUCCESS">>, <<"RUNNING", "FAILURE">>,
             <<"SUCCESS", "FAILURE">>, <<"WAITING", "CANCELED">>}
    BY <1>1, <1>2, <2>1 DEF LagInv
  <2>4. CASE u # Unit(b)
    BY <1>2, <2>3, <2>4 DEF Record!Moves
  <2>5. CASE u = Unit(b)
    BY <1>0, <1>1, <1>2, <2>3, <2>5 DEF Record!Moves, TypeOK
  <2> QED
    BY <2>4, <2>5
<1>5. inner[b] => s[0] = "RUNNING"
  BY <1>1, <1>2, <1>3
<1>6. ASSUME NEW j \in 1 .. size[b], r[j] = "WAITING", s[j] \in Record!Begun
      PROVE  j = pos[b] /\ inner[b]
  <2>1. pc[b] \in Live /\ saved[b] /\ LagInv(b)
    BY DEF Caught, BatchInv, ControlInv
  <2>2. state[b][j] \in {"WAITING", "CANCELED"}
    BY <1>1, <1>2, <1>6, <2>1 DEF LagInv
  <2>3. j = Unit(b)
    BY <1>1, <1>2, <1>6, <2>2 DEF Record!Begun
  <2> QED
    BY <1>1, <2>3
<1>7. Record!BeginsInTurn(r, s)
  BY <1>1, <1>2, <1>3, <1>5, <1>6 DEF Record!BeginsInTurn
<1>8. s[0] # "SUCCESS" /\ s[0] \in {"RUNNING", "FAILURE"}
  BY <1>1, <1>2, <1>5
<1>9. \A j \in 1 .. size[b] : j > pos[b] => s[j] \notin Record!Begun
  BY <1>1, <1>2, <1>3 DEF Record!Begun
<1>10. \A j \in 1 .. size[b] : s[j] = "FAILURE" => j >= pos[b]
  BY <1>1, <1>2, <1>3
<1>11. Record!RevokesAlone(r, s)
  BY <1>1, <1>8, <1>9, <1>10 DEF Record!RevokesAlone
<1>12. Record!CancelsAfterTheBatch(r, s)
  BY <1>1, <1>2, <1>3, <1>8 DEF Record!CancelsAfterTheBatch
<1> QED
  BY <1>1, <1>4, <1>7, <1>8, <1>11, <1>12
     DEF Record!Rewritten, Record!SucceedsAsAWhole, Record!ProcessState

\* A closing flush that fails part-way writes some units of a stored batch.
LEMMA PartialFlushRewritesRows ==
  ASSUME NEW b \in Batches, NEW W \in SUBSET Units, TypeOK, BatchInv(b), saved[b],
         CloseFails(b, W)
  PROVE  Record!Rewritten(RowsAs(b, stored[b]), RowsAs(b, stored'[b]))
<1> DEFINE r == RowsAs(b, stored[b])
           s == RowsAs(b, stored'[b])
<1>0. /\ stored'[b] \in [Units -> ProcessState]
      /\ \A u \in Units : stored'[b][u] = IF u \in W THEN state[b][u] ELSE stored[b][u]
      /\ 0 \in Units /\ \A u \in 0 .. size[b] : u \in Units
  BY DEF CloseFails, TypeOK
<1>1. /\ r \in [0 .. size[b] -> ProcessState] /\ s \in [0 .. size[b] -> ProcessState]
      /\ Record!Scripts(r) = 1 .. size[b] /\ size[b] \in Nat /\ pos[b] \in Nat
  <2>1. stored[b] \in [Units -> ProcessState] /\ stored'[b] \in [Units -> ProcessState]
    BY <1>0 DEF TypeOK
  <2>2. r \in [0 .. size[b] -> ProcessState] /\ Record!Scripts(r) = 1 .. size[b]
    BY <2>1, RowsTyped
  <2>3. s \in [0 .. size[b] -> ProcessState]
    BY <2>1, RowsTyped
  <2> QED
    BY <2>2, <2>3 DEF TypeOK
<1>2. \A u \in 0 .. size[b] :
        r[u] = stored[b][u] /\ s[u] = IF u \in W THEN state[b][u] ELSE r[u]
  BY <1>0 DEF RowsAs
<1>3. /\ \A i \in 1 .. (pos[b] - 1) : state[b][i] = "SUCCESS"
      /\ \A i \in (pos[b] + 1) .. size[b] : state[b][i] \in {"WAITING", "CANCELED"}
      /\ state[b][0] = "SUCCESS" => \A i \in 1 .. size[b] : state[b][i] = "SUCCESS"
      /\ \A i \in 1 .. size[b] : state[b][i] = "CANCELED" => state[b][0] = "FAILURE"
      /\ LagInv(b) /\ FlushInv(b)
  BY DEF CloseFails, BatchInv, LoopInv
<1>4. \A u \in 0 .. size[b] : s[u] = r[u] \/ <<r[u], s[u]>> \in Record!Moves
  BY <1>1, <1>2, <1>3 DEF LagInv, Record!Moves
<1>5. Record!BeginsInTurn(r, s)
  BY <1>1, <1>2, <1>3 DEF LagInv, Record!BeginsInTurn, Record!Begun
<1>6. Record!RevokesAlone(r, s)
  <2> SUFFICES ASSUME NEW j \in 1 .. size[b], r[j] = "SUCCESS", s[j] = "FAILURE"
               PROVE  /\ s[0] # "SUCCESS"
                      /\ \A k \in 1 .. size[b] : k > j => s[k] \notin Record!Begun
    BY <1>1 DEF Record!RevokesAlone
  <2>1. state[b][j] = "FAILURE"
    BY <1>1, <1>2
  <2>2. j >= pos[b]
    BY <1>1, <1>3, <2>1
  <2>3. s[0] # "SUCCESS"
    BY <1>1, <1>2, <1>3, <2>1 DEF FlushInv
  <2>4. ASSUME NEW k \in 1 .. size[b], k > j
        PROVE  s[k] \notin Record!Begun
    <3>1. state[b][k] \in {"WAITING", "CANCELED"}
      BY <1>1, <1>3, <2>2, <2>4
    <3>2. /\ k \in 0 .. size[b]
          /\ r[k] = stored[b][k]
          /\ s[k] = IF k \in W THEN state[b][k] ELSE r[k]
      BY <1>1, <1>2
    <3>3. \/ stored[b][k] = state[b][k]
          \/ stored[b][k] = "WAITING"
      BY <1>3, <3>1 DEF LagInv
    <3> QED
      BY <3>1, <3>2, <3>3 DEF Record!Begun
  <2> QED
    BY <2>3, <2>4
<1>7. Record!SucceedsAsAWhole(r, s)
  BY <1>1, <1>2, <1>3 DEF FlushInv, Record!SucceedsAsAWhole
<1>8. Record!CancelsAfterTheBatch(r, s)
  <2> SUFFICES ASSUME NEW j \in 1 .. size[b], r[j] # "CANCELED", s[j] = "CANCELED"
               PROVE  s[0] \in {"FAILURE", "CANCELED"}
    BY <1>1 DEF Record!CancelsAfterTheBatch
  <2>1. state[b][j] = "CANCELED" /\ j \in Members(b)
    BY <1>1, <1>2
  <2>2. state[b][0] = "FAILURE" /\ stored[b][0] = "FAILURE"
    BY <1>3, <2>1 DEF FlushInv
  <2> QED
    BY <1>1, <1>2, <2>2
<1> QED
  BY <1>1, <1>4, <1>5, <1>6, <1>7, <1>8 DEF Record!Rewritten, Record!ProcessState

\* The clean-up only cancels what is waiting or running, and the batch before
\* its scriptlets, wherever it is interrupted.
LEMMA CleanUpRewritesRows ==
  ASSUME NEW b \in Batches, TypeOK, BatchInv(b), b \in hung,
         NEW n \in Nat, stored'[b] = CleanedRows(b, n)
  PROVE  Record!Rewritten(RowsAs(b, stored[b]), RowsAs(b, stored'[b])) /\ saved[b]
<1> DEFINE r == RowsAs(b, stored[b])
           s == RowsAs(b, stored'[b])
<1>0. /\ stored'[b] \in [Units -> ProcessState] /\ IsHung(b)
  BY CleanedRowsTyped DEF BatchInv, ControlInv
<1>1. /\ r \in [0 .. size[b] -> ProcessState] /\ s \in [0 .. size[b] -> ProcessState]
      /\ Record!Scripts(r) = 1 .. size[b] /\ size[b] \in Nat
  <2>1. stored[b] \in [Units -> ProcessState] /\ stored'[b] \in [Units -> ProcessState]
    BY <1>0 DEF TypeOK
  <2>2. r \in [0 .. size[b] -> ProcessState] /\ Record!Scripts(r) = 1 .. size[b]
    BY <2>1, RowsTyped
  <2>3. s \in [0 .. size[b] -> ProcessState]
    BY <2>1, RowsTyped
  <2> QED
    BY <2>2, <2>3 DEF TypeOK
<1>2. /\ \A u \in 0 .. size[b] : r[u] = stored[b][u]
      /\ \A u \in 1 .. size[b] : s[u] = IF u < n THEN Unhang(r[u]) ELSE r[u]
      /\ s[0] = IF 0 < n THEN "CANCELED" ELSE r[0]
      /\ r[0] \in {"RUNNING", "WAITING", "CANCELED"}
  BY <1>0, <1>1 DEF RowsAs, CleanedRows, TypeOK
<1>3. \A u \in 0 .. size[b] : s[u] = r[u] \/ <<r[u], s[u]>> \in Record!Moves
  BY <1>1, <1>2 DEF Unhang, Record!Moves
<1> QED
  BY <1>0, <1>1, <1>2, <1>3
     DEF Unhang, Record!Rewritten, Record!BeginsInTurn, Record!RevokesAlone,
         Record!SucceedsAsAWhole, Record!CancelsAfterTheBatch, Record!Begun,
         Record!ProcessState

-----------------------------------------------------------------------------
AllRows == [b \in Batches |-> RowsOf(b)]

\* One step seen in the rows of b: nothing, the batch is stored, or rewritten.
RowStep(b) ==
  \/ RowsOf(b)' = RowsOf(b)
  \/ RowsOf(b) = Record!NoRows /\ Record!NewRows(RowsOf(b)')
  \/ RowsOf(b) # Record!NoRows /\ Record!Rewritten(RowsOf(b), RowsOf(b)')

AllRowsTyped == AllRows \in [Batches -> {Record!NoRows} \cup Record!Rows]

LEMMA RowsOfTyped == TypeOK => AllRowsTyped
<1> SUFFICES ASSUME TypeOK, NEW b \in Batches
             PROVE  RowsOf(b) \in {Record!NoRows} \cup Record!Rows
  BY DEF AllRows, AllRowsTyped
<1>1. stored[b] \in [Units -> ProcessState]
  BY DEF TypeOK
<1>2. RowsAs(b, stored[b]) \in Record!Rows
  BY <1>1, RowsTyped
<1> QED
  BY <1>2 DEF RowsOf, RowsAs, Record!NoRows

\* The rows before and after a step of b that flushes its session.
LEMMA FlushedRows ==
  ASSUME NEW b \in Batches, TypeOK, saved[b], saved'[b], size'[b] = size[b],
         Record!Rewritten(RowsAs(b, stored[b]), RowsAs(b, stored'[b]))
  PROVE  RowStep(b)
<1>1. stored[b] \in [Units -> ProcessState]
  BY DEF TypeOK
<1>2. RowsAs(b, stored[b]) # Record!NoRows
  BY <1>1, RowsTyped
<1>3. RowsOf(b) = RowsAs(b, stored[b]) /\ RowsOf(b)' = RowsAs(b, stored'[b])
  BY DEF RowsOf, RowsAs
<1> QED
  BY <1>2, <1>3 DEF RowStep

\* A batch is stored with all units waiting, or empty and failed.
LEMMA NewBatchRows ==
  ASSUME NEW b \in Batches, TypeOK, TypeOK', ~ saved[b], saved'[b],
         \/ stored'[b] = AllWaiting
         \/ size'[b] = 0 /\ stored'[b][0] = "FAILURE"
  PROVE  RowStep(b)
<1> DEFINE s == [u \in 0 .. size'[b] |-> stored'[b][u]]
<1>1. size'[b] \in 0 .. MaxScriptlets /\ stored'[b] \in [Units -> ProcessState]
  BY DEF TypeOK
<1>2. s \in [0 .. size'[b] -> Record!ProcessState]
  BY <1>1
<1>3. s \in Record!Rows
  BY <1>1, <1>2 DEF Record!Rows
<1>4. \/ \A u \in DOMAIN s : s[u] = "WAITING"
      \/ Record!Scripts(s) = {} /\ s[0] = "FAILURE"
  BY <1>1 DEF AllWaiting, Record!Scripts
<1>5. RowsOf(b) = Record!NoRows /\ RowsOf(b)' = s
  BY DEF RowsOf, Record!NoRows
<1> QED
  BY <1>3, <1>4, <1>5 DEF RowStep, Record!NewRows

LEMMA StepIsRowStep ==
  ASSUME NEW b \in Batches, TypeOK, TypeOK', BatchInv(b), StepOf(b)
  PROVE  RowStep(b)
<1>1. CASE saved'[b] = saved[b] /\ stored'[b] = stored[b] /\ size'[b] = size[b]
  BY <1>1 DEF RowStep, RowsOf
<1>2. CASE \E n \in Units : Build(b, n)
  <2>1. ~ saved[b] /\ stored[b] = AllWaiting /\ saved'[b] /\ stored'[b] = stored[b]
    BY <1>2 DEF Build, TypeOK, BatchInv, ControlInv
  <2> QED
    BY <2>1, NewBatchRows
<1>3. CASE \E n \in Units : BuildBroken(b, n)
  BY <1>3 DEF BuildBroken, dbVars, TypeOK, BatchInv, ControlInv, RowStep, RowsOf
<1>4. CASE BuildWithoutScripts(b)
  <2>1. /\ ~ saved[b] /\ saved'[b] /\ size'[b] = 0
        /\ stored'[b][0] = "FAILURE"
    BY <1>4 DEF BuildWithoutScripts, TypeOK, BatchInv, ControlInv
  <2> QED
    BY <2>1, NewBatchRows
<1>5. CASE Start(b)
  <2>1. saved[b] /\ saved'[b] /\ size'[b] = size[b] /\ stored'[b] = state'[b]
    BY <1>5 DEF Start, Flush, TypeOK, BatchInv, ControlInv
  <2> QED
    BY <1>5, <2>1, StartRewritesRows, FlushedRows
<1>6. CASE Caught(b)
  <2>1. saved[b] /\ saved'[b] /\ size'[b] = size[b] /\ stored'[b] = state'[b]
    BY <1>6 DEF Caught, Flush, TypeOK, BatchInv, ControlInv
  <2> QED
    BY <1>6, <2>1, CaughtRewritesRows, FlushedRows
<1>7. CASE OnStop(b) \/ AutoFlush(b)
  <2>1. /\ pc[b] \in Live /\ saved[b] /\ saved'[b] /\ size'[b] = size[b]
        /\ stored'[b] = state[b]
    BY <1>7 DEF OnStop, AutoFlush, Flush, memVars, TypeOK, BatchInv, ControlInv
  <2> QED
    BY <2>1, SessionRewritesRows, FlushedRows
<1>8. CASE Close(b)
  <2>1. /\ pc[b] \in Live /\ saved'[b] /\ size'[b] = size[b] /\ stored'[b] = state[b]
        /\ ~ saved[b] => state[b] = AllWaiting
    BY <1>8 DEF Close, TypeOK, BatchInv, ControlInv
  <2>2. CASE saved[b]
    BY <2>1, <2>2, SessionRewritesRows, FlushedRows
  <2>3. CASE ~ saved[b]
    BY <2>1, <2>3, NewBatchRows DEF TypeOK
  <2> QED
    BY <2>2, <2>3 DEF TypeOK
<1>9. CASE BuildRejected(b)
  BY <1>9 DEF BuildRejected, dbVars, RowStep, RowsOf
<1>10. CASE Execute(b)
  <2>1. CASE Start(b) \/ Caught(b) \/ OnStop(b)
    BY <1>5, <1>6, <1>7, <2>1
  <2>2. CASE ~ (Start(b) \/ Caught(b) \/ OnStop(b))
    <3>1. UNCHANGED <<size, dbVars>>
      BY <1>10, <2>2
         DEF Execute, Enter, EnterRefused, TempFileFails, OnStart, OnStartThrows,
             OnStartErrs, RunScript, ScriptThrows, BodyErrs, EachNext, EachDone,
             Success, OnSuccess, OnSuccessThrows, Failure, OnFailure, Stop,
             OnStopThrows, OnStopErrs, Rethrow, Return
    <3> QED
      BY <3>1, <1>1 DEF dbVars
  <2> QED
    BY <2>1, <2>2
<1>11. CASE Conclude(b)
  <2>1. ASSUME NEW W \in SUBSET Units, CloseFails(b, W), saved[b]
        PROVE  RowStep(b)
    <3>1. saved'[b] /\ size'[b] = size[b]
      BY <2>1 DEF CloseFails
    <3> QED
      BY <2>1, <3>1, PartialFlushRewritesRows, FlushedRows
  <2>2. ASSUME NEW W \in SUBSET Units, CloseFails(b, W), ~ saved[b]
        PROVE  RowStep(b)
    BY <2>2 DEF CloseFails, TypeOK, RowStep, RowsOf
  <2>3. CASE Cancel(b) \/ Sync(b) \/ SyncThrows(b)
    BY <2>3 DEF Cancel, Sync, SyncThrows, dbVars, RowStep, RowsOf
  <2> QED
    BY <1>8, <1>11, <2>1, <2>2, <2>3 DEF Conclude
<1>12. CASE Publish(b)
  BY <1>12 DEF Publish, dbVars, RowStep, RowsOf
<1> QED
  BY <1>2, <1>3, <1>4, <1>7, <1>9, <1>10, <1>11, <1>12 DEF StepOf, Prepare

\* A step that is a row step of one batch and leaves the others' rows alone is
\* a step of BatchRecord.
LEMMA RowStepIsRecordStep ==
  ASSUME NEW b \in Batches, AllRowsTyped', RowStep(b),
         \A c \in Batches \ {b} : RowsOf(c)' = RowsOf(c)
  PROVE  [Record!Next]_AllRows
<1>1. AllRows' \in [Batches -> {Record!NoRows} \cup Record!Rows]
  BY DEF AllRowsTyped
<1>2. \A c \in Batches : AllRows[c] = RowsOf(c) /\ AllRows'[c] = RowsOf(c)'
  BY DEF AllRows
<1>3. CASE RowsOf(b)' = RowsOf(b)
  BY <1>3 DEF AllRows
<1>4. CASE RowsOf(b)' # RowsOf(b)
  <2>1. Record!Store(b) \/ Record!Rewrite(b)
    BY <1>2, <1>4 DEF RowStep, Record!Store, Record!Rewrite, Record!Others, AllRows
  <2> QED
    BY <1>1, <2>1 DEF Record!Next, AllRows
<1> QED
  BY <1>3, <1>4

\* The clean-up, or the part of it a crash leaves in the database, rewrites the
\* rows of one batch.
LEMMA CleaningIsRowStep ==
  ASSUME NEW c \in Batches, TypeOK, ExecutionInv, Crash \/ \E b \in Batches : CleanUp(b)
  PROVE  RowStep(c)
<1>0. size' = size /\ saved' = saved
  BY DEF Crash, CleanUp, memVars
<1>1. CASE stored'[c] = stored[c]
  BY <1>0, <1>1 DEF RowStep, RowsOf
<1>2. ASSUME c \in hung, NEW n \in Nat, stored'[c] = CleanedRows(c, n)
      PROVE  RowStep(c)
  <2>1. BatchInv(c)
    BY DEF ExecutionInv
  <2>2. Record!Rewritten(RowsAs(c, stored[c]), RowsAs(c, stored'[c])) /\ saved[c]
    BY <1>2, <2>1, CleanUpRewritesRows
  <2> QED
    BY <1>0, <2>2, FlushedRows
<1> QED
  BY <1>1, <1>2, ServerCleansRows

LEMMA CleaningIsRecordStep ==
  ASSUME TypeOK, AllRowsTyped', ExecutionInv, Crash \/ \E b \in Batches : CleanUp(b)
  PROVE  [Record!Next]_AllRows
<1>0. size' = size /\ saved' = saved
  BY DEF Crash, CleanUp, memVars
<1>1. CASE stored' = stored
  BY <1>0, <1>1 DEF AllRows, RowsOf
<1>2. ASSUME NEW b \in Batches, \A c \in Batches \ {b} : stored'[c] = stored[c]
      PROVE  [Record!Next]_AllRows
  <2>1. RowStep(b)
    BY CleaningIsRowStep
  <2>2. \A c \in Batches \ {b} : RowsOf(c)' = RowsOf(c)
    BY <1>0, <1>2 DEF RowsOf
  <2> QED
    BY <2>1, <2>2, RowStepIsRecordStep
<1>3. \/ stored' = stored
      \/ \E b \in Batches : \A c \in Batches \ {b} : stored'[c] = stored[c]
  BY ServerWritesRows DEF TypeOK
<1> QED
  BY <1>1, <1>2, <1>3

\* Every step of the workers and the server is a step of BatchRecord or leaves
\* all rows as they are, for every number of batches, scriptlets and crashes.
THEOREM Implementation == Spec => ImplementsRecord
<1>1. Init => Record!Init
  BY DEF Init, Record!Init, RowsOf, Record!NoRows
<1>2. TypeOK /\ TypeOK' /\ AllRowsTyped' /\ ExecutionInv /\ [Next]_vars => [Record!Next]_AllRows
  <2> SUFFICES ASSUME TypeOK, TypeOK', AllRowsTyped', ExecutionInv, [Next]_vars
               PROVE  [Record!Next]_AllRows
    OBVIOUS
  <2>1. ASSUME NEW b \in Batches, StepOf(b)
        PROVE  [Record!Next]_AllRows
    <3>1. RowStep(b)
      BY <2>1, StepIsRowStep DEF ExecutionInv
    <3>2. \A c \in Batches \ {b} : RowsOf(c)' = RowsOf(c)
      BY <2>1, StepLeavesOthersAlone DEF Same, RowsOf
    <3> QED
      BY <3>1, <3>2, RowStepIsRecordStep
  <2>2. CASE Crash \/ \E b \in Batches : CleanUp(b)
    BY <2>2, CleaningIsRecordStep
  <2>3. CASE Restart \/ BootDone \/ UNCHANGED vars
    BY <2>3 DEF Restart, BootDone, vars, memVars, dbVars, AllRows, RowsOf
  <2> QED
    BY <2>1, <2>2, <2>3 DEF Next, Worker, StepOf, Server
<1> QED
  BY <1>1, <1>2, RowsOfTyped, TypeCorrect, ExecutionInvariant, PTL
     DEF Spec, ImplementsRecord, Record!Spec, AllRows

RecordProofs == INSTANCE BatchRecordProofs WITH rows <- [b \in Batches |-> RowsOf(b)]

\* Hence the rows of every stored batch are coherent at every moment.
THEOREM RowsAlwaysCoherent == Spec => []RecordsCoherent
<1>1. Record!Spec => []RecordProofs!RecordsCoherent
  <2>1. RecordProofs!Spec => []RecordProofs!RecordsCoherent
    BY RecordProofs!RecordCoherence
  <2>2. RecordProofs!Init <=> Record!Init
    BY DEF RecordProofs!Init, Record!Init, RecordProofs!NoRows, Record!NoRows
  <2>3. RecordProofs!Next <=> Record!Next
    BY DEF RecordProofs!Next, Record!Next, RecordProofs!NoRows, Record!NoRows,
           RecordProofs!Rows, Record!Rows, RecordProofs!ProcessState,
           RecordProofs!Store, Record!Store, RecordProofs!Rewrite, Record!Rewrite,
           RecordProofs!NewRows, Record!NewRows, RecordProofs!Others, Record!Others,
           RecordProofs!Rewritten, Record!Rewritten, RecordProofs!Moves, Record!Moves,
           RecordProofs!BeginsInTurn, Record!BeginsInTurn, RecordProofs!Begun, Record!Begun,
           RecordProofs!RevokesAlone, Record!RevokesAlone,
           RecordProofs!SucceedsAsAWhole, Record!SucceedsAsAWhole,
           RecordProofs!CancelsAfterTheBatch, Record!CancelsAfterTheBatch,
           RecordProofs!Scripts, Record!Scripts
  <2> QED
    BY <2>1, <2>2, <2>3, PTL DEF RecordProofs!Spec, Record!Spec
<1>2. RecordProofs!RecordsCoherent => RecordsCoherent
  BY DEF RecordProofs!RecordsCoherent, RecordsCoherent, Record!RecordsCoherent,
         RecordProofs!Coherent, Record!Coherent, RecordProofs!NoRows, Record!NoRows,
         RecordProofs!Scripts, Record!Scripts, RecordProofs!Begun, Record!Begun
<1> QED
  BY <1>1, <1>2, Implementation, PTL DEF ImplementsRecord
-----------------------------------------------------------------------------
(***************************************************************************)
(* The progress of a batch follows from the moves of its units.            *)
(***************************************************************************)
LEMMA DivisionKeepsOrder ==
  ASSUME NEW c \in Nat, NEW d \in Nat, NEW n \in Nat, n > 0, c <= d
  PROVE  (100 * c) \div n <= (100 * d) \div n
<1>1. 100 * c \in Nat /\ 100 * d \in Nat /\ 100 * c <= 100 * d
  OBVIOUS
<1>2. \A x, y \in Nat : x <= y => x \div n <= y \div n
  OBVIOUS
<1> QED
  BY <1>1, <1>2

LEMMA ShareIsAPercentage ==
  ASSUME NEW c \in Nat, NEW n \in Nat, n > 0, c <= n
  PROVE  (100 * c) \div n \in 0 .. 100
<1>1. 100 * c \in Nat /\ 100 * c <= 100 * n
  OBVIOUS
<1>2. \A x \in Nat : x <= 100 * n => x \div n \in 0 .. 100
  OBVIOUS
<1> QED
  BY <1>1, <1>2

LEMMA UnitsBegunAreCounted ==
  ASSUME NEW n \in Nat, NEW r
  PROVE  LET begun == {i \in 1 .. n : r[i] # "WAITING"}
         IN IsFiniteSet(begun) /\ Cardinality(begun) \in 0 .. n
<1> DEFINE begun == {i \in 1 .. n : r[i] # "WAITING"}
<1>1. IsFiniteSet(1 .. n) /\ Cardinality(1 .. n) = n
  BY FS_Interval
<1>2. IsFiniteSet(begun) /\ Cardinality(begun) <= n
  BY <1>1, FS_Subset
<1>3. Cardinality(begun) \in Nat
  BY <1>2, FS_CardinalityType
<1> QED
  BY <1>2, <1>3

LEMMA ProgressIsAPercentage ==
  ASSUME NEW n \in Nat, NEW r
  PROVE  Progress(r, n) \in 0 .. 100
<1>1. CASE n > 0
  BY <1>1, UnitsBegunAreCounted, ShareIsAPercentage DEF Progress
<1>2. CASE n = 0
  BY <1>2 DEF Progress
<1> QED
  BY <1>1, <1>2

\* No unit moves back to WAITING, and a batch that ended in a failure or a
\* success ends nowhere else.
LEMMA MovesKeepProgress ==
  ASSUME NEW n \in Nat, NEW r, NEW s,
         \A u \in 0 .. n : r[u] \in ProcessState,
         \A u \in 0 .. n : s[u] = r[u] \/ <<r[u], s[u]>> \in Record!Moves
  PROVE  Progress(s, n) >= Progress(r, n)
<1> DEFINE begunIn(q) == {i \in 1 .. n : q[i] # "WAITING"}
<1>1. Progress(r, n) \in 0 .. 100 /\ Progress(s, n) \in 0 .. 100
  BY ProgressIsAPercentage
<1>2. CASE n = 0
  BY <1>2 DEF Progress
<1>3. CASE n > 0 /\ r[0] = "WAITING"
  <2>1. Progress(r, n) = 0
    BY <1>3 DEF Progress
  <2> QED
    BY <1>1, <2>1
<1>4. CASE n > 0 /\ s[0] \in {"FAILURE", "SUCCESS"}
  <2>1. Progress(s, n) = 100
    BY <1>4 DEF Progress
  <2> QED
    BY <1>1, <2>1
<1>5. CASE n > 0 /\ r[0] # "WAITING" /\ s[0] \notin {"FAILURE", "SUCCESS"}
  <2>1. r[0] \in {"RUNNING", "CANCELED"} /\ s[0] \in {"RUNNING", "CANCELED"}
    <3>1. 0 \in 0 .. n
      OBVIOUS
    <3>2. r[0] \in ProcessState /\ (s[0] = r[0] \/ <<r[0], s[0]>> \in Record!Moves)
      BY <3>1
    <3> QED
      BY <1>5, <3>2 DEF Record!Moves
  <2>2. /\ Progress(r, n) = (100 * Cardinality(begunIn(r))) \div n
        /\ Progress(s, n) = (100 * Cardinality(begunIn(s))) \div n
    BY <1>5, <2>1 DEF Progress
  <2>3. begunIn(r) \subseteq begunIn(s)
    <3> SUFFICES ASSUME NEW i \in 1 .. n, r[i] # "WAITING"
                 PROVE  s[i] # "WAITING"
      OBVIOUS
    <3>1. s[i] = r[i] \/ <<r[i], s[i]>> \in Record!Moves
      OBVIOUS
    <3> QED
      BY <3>1 DEF Record!Moves
  <2>4. /\ IsFiniteSet(begunIn(s)) /\ Cardinality(begunIn(s)) \in Nat
        /\ Cardinality(begunIn(r)) \in Nat
    BY UnitsBegunAreCounted
  <2>5. Cardinality(begunIn(r)) <= Cardinality(begunIn(s))
    BY <2>3, <2>4, FS_Subset
  <2>6. (100 * Cardinality(begunIn(r))) \div n <= (100 * Cardinality(begunIn(s))) \div n
    BY <1>5, <2>4, <2>5, DivisionKeepsOrder
  <2> QED
    BY <1>1, <2>2, <2>6
<1> QED
  BY <1>2, <1>3, <1>4, <1>5

\* What a reader of a stored batch sees in two successive moments.
LEMMA RowStepMovesUnits ==
  ASSUME NEW b \in Batches, TypeOK, saved[b], RowStep(b)
  PROVE  \A u \in 0 .. size[b] :
           \/ stored'[b][u] = stored[b][u]
           \/ <<stored[b][u], stored'[b][u]>> \in Record!Moves
<1> DEFINE r == RowsAs(b, stored[b])
<1>1. /\ r = RowsOf(b) /\ r # Record!NoRows /\ DOMAIN r = 0 .. size[b] /\ 0 \in DOMAIN r
      /\ \A u \in 0 .. size[b] : r[u] = stored[b][u]
  <2>1. stored[b] \in [Units -> ProcessState]
    BY DEF TypeOK
  <2>2. r # Record!NoRows /\ DOMAIN r = 0 .. size[b] /\ size[b] \in Nat
    BY <2>1, RowsTyped
  <2>3. r = RowsOf(b) /\ \A u \in 0 .. size[b] : r[u] = stored[b][u]
    BY DEF RowsOf, RowsAs
  <2> QED
    BY <2>2, <2>3
<1> HIDE DEF r
<1>2. /\ DOMAIN RowsOf(b)' = 0 .. size[b]
      /\ \A u \in 0 .. size[b] : \/ RowsOf(b)'[u] = r[u]
                                 \/ <<r[u], RowsOf(b)'[u]>> \in Record!Moves
  BY <1>1 DEF RowStep, Record!Rewritten
<1>3. saved'[b]
  <2>1. DOMAIN << >> = {}
    OBVIOUS
  <2>2. RowsOf(b)' # << >>
    BY <1>1, <1>2, <2>1
  <2> QED
    BY <2>2 DEF RowsOf
<1>4. RowsOf(b)' = [u \in 0 .. size'[b] |-> stored'[b][u]]
  BY <1>3 DEF RowsOf
<1>5. \A u \in 0 .. size[b] : RowsOf(b)'[u] = stored'[b][u]
  BY <1>2, <1>4
<1> QED
  BY <1>1, <1>2, <1>5

\* The rows of b in any step, whoever takes it.
LEMMA EveryStepIsRowStep ==
  ASSUME NEW b \in Batches, TypeOK, TypeOK', ExecutionInv, [Next]_vars
  PROVE  RowStep(b)
<1>1. ASSUME NEW c \in Batches, StepOf(c)
      PROVE  RowStep(b)
  <2>1. CASE c = b
    BY <1>1, <2>1, StepIsRowStep DEF ExecutionInv
  <2>2. CASE c # b
    BY <1>1, <2>2, StepLeavesOthersAlone DEF Same, RowsOf, RowStep
  <2> QED
    BY <2>1, <2>2
<1>2. CASE Crash \/ \E c \in Batches : CleanUp(c)
  BY <1>2, CleaningIsRowStep
<1>3. CASE Restart \/ BootDone \/ UNCHANGED vars
  BY <1>3 DEF Restart, BootDone, vars, memVars, dbVars, RowStep, RowsOf
<1> QED
  BY <1>1, <1>2, <1>3 DEF Next, Worker, StepOf, Server

\* The progress a user watches never falls back, over any number of scriptlets,
\* early and partial flushes, crashes and clean-ups.
THEOREM ProgressOnlyGrows == Spec => ProgressNeverFalls
<1>1. TypeOK /\ TypeOK' /\ ExecutionInv /\ [Next]_vars =>
        \A b \in Batches : saved[b] =>
          Progress(stored'[b], size[b]) >= Progress(stored[b], size[b])
  <2> SUFFICES ASSUME TypeOK, TypeOK', ExecutionInv, [Next]_vars,
                      NEW b \in Batches, saved[b]
               PROVE  Progress(stored'[b], size[b]) >= Progress(stored[b], size[b])
    OBVIOUS
  <2>1. size[b] \in Nat /\ \A u \in 0 .. size[b] : stored[b][u] \in ProcessState
    BY DEF TypeOK
  <2>2. \A u \in 0 .. size[b] : \/ stored'[b][u] = stored[b][u]
                                \/ <<stored[b][u], stored'[b][u]>> \in Record!Moves
    BY EveryStepIsRowStep, RowStepMovesUnits
  <2> QED
    BY <2>1, <2>2, MovesKeepProgress
<1> QED
  BY <1>1, TypeCorrect, ExecutionInvariant, PTL DEF Spec, ProgressNeverFalls

-----------------------------------------------------------------------------
(***************************************************************************)
(* What a crash left behind is cleaned up.  While the clean-up runs, a     *)
(* stored batch it is done with, or never selected, is clean already.      *)
(***************************************************************************)
CleanInv(b) ==
  /\ saved[b]
  /\ \/ phase = "up" /\ pc[b] = "lost"
     \/ phase = "boot" /\ b \notin hung
  => CleanedUp(b)

\* The query passes over what has ended, and a batch that succeeded did so as a
\* whole.
LEMMA NotSelectedIsCleanedUp ==
  ASSUME NEW b \in Batches, TypeOK, RecordsCoherent, saved[b], ~ IsHung(b)
  PROVE  CleanedUp(b)
<1>1. stored[b] \in [Units -> ProcessState] /\ size[b] \in Nat /\ 0 \in Units
  BY DEF TypeOK
<1>2. stored[b][0] \in {"SUCCESS", "FAILURE"}
  BY <1>1
<1>3. ASSUME stored[b][0] = "SUCCESS", NEW i \in Members(b)
      PROVE  stored[b][i] = "SUCCESS"
  <2>1. RowsAs(b, stored[b]) = RowsOf(b) /\ RowsOf(b) # Record!NoRows
    BY <1>1, RowsTyped DEF RowsOf, RowsAs
  <2>2. Record!Coherent(RowsAs(b, stored[b]))
    BY <2>1 DEF RecordsCoherent, Record!RecordsCoherent
  <2>3. Record!Scripts(RowsAs(b, stored[b])) = 1 .. size[b]
    BY <1>1, RowsTyped
  <2>4. /\ RowsAs(b, stored[b])[0] = stored[b][0]
        /\ RowsAs(b, stored[b])[i] = stored[b][i]
    BY <1>1 DEF RowsAs
  <2> QED
    BY <1>3, <2>2, <2>3, <2>4 DEF Record!Coherent
<1> QED
  BY <1>2, <1>3 DEF CleanedUp

\* The clean-up of b leaves nothing of it pending.
LEMMA CleanUpCleansUp ==
  ASSUME NEW b \in Batches, TypeOK, CleanUp(b)
  PROVE  CleanedUp(b)'
BY DEF CleanUp, CleanedUp, CleanedRows, TypeOK, Unhang

\* No worker's step is the loss of it.
LEMMA StepsDoNotLose ==
  ASSUME NEW b \in Batches, TypeOK, StepOf(b)
  PROVE  pc'[b] # "lost"
<1>1. CASE Prepare(b)
  BY <1>1 DEF Prepare, TypeOK, Build, BuildBroken, BuildRejected, BuildWithoutScripts
<1>2. CASE Execute(b)
  BY <1>2 DEF Execute, TypeOK, Enter, EnterRefused, TempFileFails, Start, OnStart,
       OnStartThrows, OnStartErrs, RunScript, ScriptThrows, BodyErrs, EachNext, EachDone,
       Success, OnSuccess, OnSuccessThrows, Failure, OnFailure, Stop, OnStop,
       OnStopThrows, OnStopErrs, Caught, Rethrow, Return
<1>3. CASE Conclude(b)
  BY <1>3 DEF Conclude, TypeOK, Cancel, Sync, SyncThrows, Close, CloseFails
<1>4. CASE Publish(b) \/ AutoFlush(b)
  BY <1>4 DEF TypeOK, Publish, AutoFlush
<1> QED
  BY <1>1, <1>2, <1>3, <1>4 DEF StepOf

\* Every step keeps what has been cleaned up clean.
LEMMA StepKeepsClean ==
  ASSUME NEW c \in Batches, TypeOK, RecordsCoherent, [Next]_vars, CleanInv(c)
  PROVE  CleanInv(c)'
<1>1. ASSUME NEW b \in Batches, phase = "up", UNCHANGED serverVars, StepOf(b)
      PROVE  CleanInv(c)'
  <2>1. CASE b = c
    BY <1>1, <2>1, StepsDoNotLose DEF CleanInv
  <2>2. CASE b # c
    BY <1>1, <2>2, StepLeavesOthersAlone DEF CleanInv, CleanedUp, Same
  <2> QED
    BY <2>1, <2>2
<1>2. CASE Crash
  BY <1>2 DEF Crash, CleanInv
<1>3. CASE Restart
  BY <1>3, NotSelectedIsCleanedUp DEF Restart, CleanInv, CleanedUp
<1>4. ASSUME NEW b \in Batches, CleanUp(b)
      PROVE  CleanInv(c)'
  <2>1. CASE b = c
    BY <1>4, <2>1, CleanUpCleansUp DEF CleanInv
  <2>2. CASE b # c
    BY <1>4, <2>2 DEF CleanUp, CleanInv, CleanedUp, TypeOK
  <2> QED
    BY <2>1, <2>2
<1>5. CASE BootDone
  BY <1>5 DEF BootDone, CleanInv, CleanedUp
<1>6. CASE UNCHANGED vars
  BY <1>6 DEF vars, CleanInv, CleanedUp
<1> QED
  BY <1>1, <1>2, <1>3, <1>4, <1>5, <1>6 DEF Next, Worker, StepOf, Server

\* Once the server is up again, no batch that lost its worker is left pending,
\* over any number of crashes, those between two rows of the clean-up included.
THEOREM LostBatchesAreAlwaysCleanedUp == Spec => []LostBatchesAreCleanedUp
<1> DEFINE Inv == \A b \in Batches : CleanInv(b)
<1>1. Init => Inv
  BY DEF Init, CleanInv
<1>2. TypeOK /\ RecordsCoherent /\ Inv /\ [Next]_vars => Inv'
  BY StepKeepsClean
<1>3. TypeOK /\ Inv => LostBatchesAreCleanedUp
  <2> SUFFICES ASSUME TypeOK, Inv, NEW b \in Batches, saved[b],
                      \/ phase = "up" /\ pc[b] = "lost"
                      \/ phase = "boot" /\ b \notin hung
               PROVE  CleanedUp(b)
    BY DEF LostBatchesAreCleanedUp
  <2>1. CleanInv(b) /\ saved[b] \in BOOLEAN
    BY DEF TypeOK
  <2> QED
    BY <2>1 DEF CleanInv
<1> QED
  BY <1>1, <1>2, <1>3, TypeCorrect, RowsAlwaysCoherent, PTL DEF Spec

-----------------------------------------------------------------------------
(***************************************************************************)
(* A worker never goes back.                                               *)
(***************************************************************************)
Advances(b) == 0 <= StepsLeft(b)' /\ StepsLeft(b)' < StepsLeft(b)

\* The bound at each position.
LEMMA StepsFromEach ==
  ASSUME NEW p \in PC, NEW s \in BOOLEAN, NEW n \in Nat
  PROVE  /\ p \in ExecutePC /\ s = TRUE => StepsFrom(p, s, n) = 12 * n + Ahead[p] + 12
         /\ p \in ExecutePC /\ s = FALSE =>
              StepsFrom(p, s, n) =
                IF Ahead[p] >= 7 THEN 12 * n + Ahead[p] + 4 ELSE Ahead[p] + 4
         /\ p = "idle" => StepsFrom(p, s, n) = 12 * MaxScriptlets + 16
         /\ p = "queued" => StepsFrom(p, s, n) = 12 * MaxScriptlets + 15
         /\ p = "cancel" => StepsFrom(p, s, n) = 3
         /\ p = "sync" => StepsFrom(p, s, n) = 2
         /\ p = "close" => StepsFrom(p, s, n) = 1
         /\ p \in {"done", "lost"} => StepsFrom(p, s, n) = 0
<1>1. CASE p \in ExecutePC /\ s = TRUE
  BY <1>1 DEF StepsFrom
<1>2. CASE p \in {"enter", "start", "onStart", "process"} /\ s = FALSE
  <2>1. Ahead[p] >= 7
    BY <1>2 DEF Ahead
  <2> QED
    BY <1>2, <2>1 DEF StepsFrom
<1>3. CASE p \in ExecutePC \ {"enter", "start", "onStart", "process"} /\ s = FALSE
  <2>1. ~ (Ahead[p] >= 7)
    BY <1>3 DEF Ahead
  <2> QED
    BY <1>3, <2>1 DEF StepsFrom
<1>4. CASE p \notin ExecutePC
  BY <1>4 DEF StepsFrom
<1> QED
  BY <1>1, <1>2, <1>3, <1>4

\* A step from position p in the frame of a scriptlet (s) or the batch to q.
Onward(p, s, n, q, r, m) ==
  \/ {p, q} \subseteq ExecutePC /\ r = s /\ m = n /\ Ahead[q] < Ahead[p]
  \/ p \in ExecutePC /\ s = TRUE /\ q \in {"process", "failure", "stop"} /\ r = FALSE /\ m = n
  \/ p = "process" /\ s = FALSE /\ q = "enter" /\ r = TRUE /\ n = m + 1
  \/ p \in ExecutePC /\ s = FALSE /\ q \in {"cancel", "sync", "close"}
  \/ p = "idle" /\ q = "queued"
  \/ p = "queued" /\ q = "enter" /\ r = FALSE /\ m <= MaxScriptlets
  \/ p = "queued" /\ q = "close"
  \/ p = "cancel" /\ q = "sync"
  \/ p = "sync" /\ q = "close"
  \/ p \notin {"done", "lost"} /\ q \in {"done", "lost"}

LEMMA OnwardIsLess ==
  ASSUME NEW p \in PC, NEW s \in BOOLEAN, NEW n \in Nat,
         NEW q \in PC, NEW r \in BOOLEAN, NEW m \in Nat, Onward(p, s, n, q, r, m)
  PROVE  0 <= StepsFrom(q, r, m) /\ StepsFrom(q, r, m) < StepsFrom(p, s, n)
<1> DEFINE x == StepsFrom(p, s, n)
           y == StepsFrom(q, r, m)
<1>a. /\ \A e \in ExecutePC : Ahead[e] \in 0 .. 10
      /\ Ahead["process"] = 7 /\ Ahead["enter"] = 10 /\ Ahead["failure"] = 4 /\ Ahead["stop"] = 2
  BY DEF Ahead
<1>b. /\ p \in ExecutePC /\ s = TRUE => x = 12 * n + Ahead[p] + 12
      /\ p \in ExecutePC /\ s = FALSE =>
           x = IF Ahead[p] >= 7 THEN 12 * n + Ahead[p] + 4 ELSE Ahead[p] + 4
      /\ p = "idle" => x = 12 * MaxScriptlets + 16
      /\ p = "queued" => x = 12 * MaxScriptlets + 15
      /\ p = "cancel" => x = 3
      /\ p = "sync" => x = 2
      /\ p = "close" => x = 1
  BY StepsFromEach
<1>c. /\ q \in ExecutePC /\ r = TRUE => y = 12 * m + Ahead[q] + 12
      /\ q \in ExecutePC /\ r = FALSE =>
           y = IF Ahead[q] >= 7 THEN 12 * m + Ahead[q] + 4 ELSE Ahead[q] + 4
      /\ q = "queued" => y = 12 * MaxScriptlets + 15
      /\ q = "cancel" => y = 3
      /\ q = "sync" => y = 2
      /\ q = "close" => y = 1
      /\ q \in {"done", "lost"} => y = 0
  BY StepsFromEach
<1> SUFFICES 0 <= y /\ y < x
  OBVIOUS
<1> HIDE DEF x, y
<1>1. CASE {p, q} \subseteq ExecutePC /\ r = s /\ m = n /\ Ahead[q] < Ahead[p]
  <2>1. p \in ExecutePC /\ q \in ExecutePC /\ Ahead[p] \in 0 .. 10 /\ Ahead[q] \in 0 .. 10
    BY <1>1, <1>a
  <2> QED
    BY <1>1, <1>b, <1>c, <2>1
<1>2. CASE p \in ExecutePC /\ s = TRUE /\ q \in {"process", "failure", "stop"} /\ r = FALSE /\ m = n
  BY <1>2, <1>a, <1>b, <1>c
<1>3. CASE p = "process" /\ s = FALSE /\ q = "enter" /\ r = TRUE /\ n = m + 1
  BY <1>3, <1>a, <1>b, <1>c
<1>4. CASE p \in ExecutePC /\ s = FALSE /\ q \in {"cancel", "sync", "close"}
  BY <1>4, <1>a, <1>b, <1>c
<1>5. CASE p = "queued" /\ q = "enter" /\ r = FALSE /\ m <= MaxScriptlets
  BY <1>5, <1>a, <1>b, <1>c
<1>6. CASE \/ p = "idle" /\ q = "queued"
           \/ p = "queued" /\ q = "close"
           \/ p = "cancel" /\ q = "sync"
           \/ p = "sync" /\ q = "close"
  BY <1>6, <1>b, <1>c
<1>7. CASE p \notin {"done", "lost"} /\ q \in {"done", "lost"}
  BY <1>7, <1>a, <1>b, <1>c
<1> QED
  BY <1>1, <1>2, <1>3, <1>4, <1>5, <1>6, <1>7 DEF Onward

\* The same for the worker of b.
OnwardIn(b) ==
  Onward(pc[b], inner[b], size[b] - pos[b], pc'[b], inner'[b], size'[b] - pos'[b])

LEMMA OnwardAdvances ==
  ASSUME NEW b \in Batches, TypeOK, ControlInv(b), TypeOK', ControlInv(b)', OnwardIn(b)
  PROVE  Advances(b)
<1>1. /\ pc[b] \in PC /\ inner[b] \in BOOLEAN /\ size[b] - pos[b] \in Nat
      /\ pc'[b] \in PC /\ inner'[b] \in BOOLEAN /\ size'[b] - pos'[b] \in Nat
  BY DEF TypeOK, ControlInv
<1> QED
  BY <1>1, OnwardIsLess DEF Advances, StepsLeft, OnwardIn

\* Before execute: a batch has at most MaxScriptlets scriptlets.
LEMMA PreparingLeadsOn ==
  ASSUME NEW b \in Batches, TypeOK, ControlInv(b), Prepare(b) \/ Publish(b)
  PROVE  OnwardIn(b)
<1> USE DEF OnwardIn, Onward
<1>1. ASSUME NEW n \in Units, Build(b, n)
      PROVE  OnwardIn(b)
  <2>1. /\ pc[b] = "queued" /\ pc'[b] = "enter" /\ inner'[b] = FALSE
        /\ size'[b] - pos'[b] <= MaxScriptlets
    BY <1>1 DEF Build, TypeOK, ControlInv
  <2> QED
    BY <2>1
<1>2. ASSUME NEW n \in Units, BuildBroken(b, n)
      PROVE  OnwardIn(b)
  BY <1>2 DEF BuildBroken, TypeOK
<1>3. CASE BuildRejected(b) \/ BuildWithoutScripts(b)
  BY <1>3 DEF BuildRejected, BuildWithoutScripts, TypeOK
<1>4. CASE Publish(b)
  BY <1>4 DEF Publish, TypeOK
<1> QED
  BY <1>1, <1>2, <1>3, <1>4 DEF Prepare

\* In execute: hooks, catches and the loop only lead further on.
LEMMA ExecutingLeadsOn ==
  ASSUME NEW b \in Batches, TypeOK, ControlInv(b), Execute(b)
  PROVE  OnwardIn(b)
<1> USE DEF OnwardIn, Onward
<1>0. pc[b] \in PC /\ inner[b] \in BOOLEAN /\ size[b] \in Nat /\ pos[b] \in Nat
  BY DEF TypeOK
<1>1. CASE Enter(b) \/ Start(b) \/ OnStart(b)
  BY <1>1 DEF Enter, Start, OnStart, TypeOK, Ahead
<1>2. CASE EnterRefused(b) \/ Caught(b) \/ Rethrow(b)
  BY <1>0, <1>2 DEF EnterRefused, Caught, Rethrow, TypeOK
<1>3. CASE TempFileFails(b) \/ OnStartThrows(b) \/ OnStopThrows(b)
  BY <1>3 DEF TempFileFails, OnStartThrows, OnStopThrows, TypeOK, Ahead
<1>4. CASE OnStartErrs(b) \/ OnStopErrs(b)
  BY <1>0, <1>4 DEF OnStartErrs, OnStopErrs, TypeOK
<1>5. CASE RunScript(b) \/ ScriptThrows(b) \/ BodyErrs(b)
  BY <1>5 DEF RunScript, ScriptThrows, BodyErrs, TypeOK, Ahead
<1>6. CASE EachNext(b)
  <2>1. /\ pc[b] = "process" /\ inner[b] = FALSE /\ pc'[b] = "enter" /\ inner'[b] = TRUE
        /\ size'[b] = size[b] /\ pos'[b] = pos[b] + 1
    BY <1>6 DEF EachNext, TypeOK
  <2>2. size[b] - pos[b] = (size'[b] - pos'[b]) + 1
    BY <1>0, <2>1
  <2> QED
    BY <2>1, <2>2
<1>7. CASE EachDone(b)
  BY <1>7 DEF EachDone, TypeOK, Ahead
<1>8. CASE Success(b) \/ OnSuccess(b) \/ OnSuccessThrows(b) \/ Failure(b)
  BY <1>8 DEF Success, OnSuccess, OnSuccessThrows, Failure, TypeOK, Ahead
<1>9. ASSUME NEW t \in Throwables, OnFailure(b, t)
      PROVE  OnwardIn(b)
  BY <1>9 DEF OnFailure, TypeOK, Ahead
<1>10. CASE Stop(b)
  BY <1>10 DEF Stop, TypeOK, Ahead
<1>11. CASE OnStop(b)
  BY <1>0, <1>11 DEF OnStop, TypeOK, Ahead
<1>12. CASE Return(b)
  BY <1>0, <1>12 DEF Return, TypeOK
<1> QED
  BY <1>1, <1>2, <1>3, <1>4, <1>5, <1>6, <1>7, <1>8, <1>9, <1>10, <1>11, <1>12 DEF Execute

\* After execute.
LEMMA ConcludingLeadsOn ==
  ASSUME NEW b \in Batches, TypeOK, ControlInv(b), Conclude(b)
  PROVE  OnwardIn(b)
BY DEF Conclude, Cancel, Sync, SyncThrows, Close, CloseFails, TypeOK, OnwardIn, Onward

\* A worker takes at most 12 * MaxScriptlets + 16 steps, whichever hooks, scripts
\* and flushes throw, and a crash takes it none back.
THEOREM WorkersAlwaysAdvance == Spec => WorkersAdvance
<1>1. /\ TypeOK /\ ExecutionInv /\ TypeOK' /\ ExecutionInv' /\ [Next]_vars
      => \A b \in Batches : pc'[b] # pc[b] => Advances(b)
  <2> SUFFICES ASSUME TypeOK, ExecutionInv, TypeOK', ExecutionInv', [Next]_vars,
                      NEW b \in Batches, pc'[b] # pc[b]
               PROVE  OnwardIn(b)
    BY OnwardAdvances DEF ExecutionInv, BatchInv
  <2>1. ControlInv(b)
    BY DEF ExecutionInv, BatchInv
  <2>2. ASSUME NEW c \in Batches, StepOf(c)
        PROVE  OnwardIn(b)
    <3>1. c = b
      BY <2>2, StepLeavesOthersAlone DEF Same
    <3>2. ~ AutoFlush(b)
      BY DEF AutoFlush
    <3> QED
      BY <2>1, <2>2, <3>1, <3>2, PreparingLeadsOn, ExecutingLeadsOn, ConcludingLeadsOn
         DEF StepOf
  <2>3. CASE Crash
    BY <2>3 DEF Crash, TypeOK, OnwardIn, Onward
  <2>4. CASE Server \/ UNCHANGED vars
    BY <2>4 DEF Server, Restart, CleanUp, BootDone, vars
  <2> QED
    BY <2>2, <2>3, <2>4 DEF Next, Worker, StepOf
<1> QED
  BY <1>1, TypeCorrect, ExecutionInvariant, PTL DEF Spec, WorkersAdvance, Advances
=============================================================================
