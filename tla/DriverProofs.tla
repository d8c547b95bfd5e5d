---------------------------- MODULE DriverProofs ----------------------------
(***************************************************************************)
(* Proofs about the job life cycle of Driver, for every set of ARNs and    *)
(* every bound on the stages.  LeakInv (in Driver) is the inductive        *)
(* invariant: it holds initially and every step preserves it; type         *)
(* correctness and the absence of a leaked task after a successful        *)
(* cleanup follow from it.                                                 *)
(***************************************************************************)
EXTENDS Driver, SequenceTheorems, TLAPS

USE ConstantsAssumption

\* Init gives every variable its type.
LEMMA InitTypeOK == Init => TypeOK
<1> SUFFICES ASSUME Init PROVE TypeOK
  OBVIOUS
<1>1. tasks \in [Arns -> TaskStatus]
  BY DEF Init, TaskStatus
<1>2. file \in FileState /\ taskData \in Data
  BY DEF Init, FileState, Absent, NoData, Data
<1>3. prepStops \in Seq(Arns \cup {NoArn}) /\ cleanupStops \in Seq(Arns \cup {NoArn})
  BY EmptySeq DEF Init
<1>4. runs \in 0..MaxRuns /\ cleanups \in 0..MaxCleanups
  BY DEF Init
<1>5. QED
  BY <1>1, <1>2, <1>3, <1>4 DEF Init, TypeOK

\* Init establishes LeakInv.
LEMMA InitLeakInv == Init => LeakInv
<1> SUFFICES ASSUME Init PROVE LeakInv
  OBVIOUS
<1>1. TypeOK
  BY InitTypeOK
<1>2. QED
  BY <1>1 DEF Init, LeakInv, Absent, StageInPhase, PrepareHolds,
             NothingStartedYet, OneTaskPerJob, Started, FileNamesJobTask,
             CleanupHolds, AfterCleanup

\* Appending an ARN to a history of ARNs keeps it a history of ARNs.
LEMMA AppendArn ==
  ASSUME NEW s \in Seq(Arns \cup {NoArn}), NEW a \in Arns \cup {NoArn}
  PROVE  Append(s, a) \in Seq(Arns \cup {NoArn})
BY AppendProperties

\* Every step of Next, and a stuttering step, preserves the types.
LEMMA NextTypeOK == LeakInv /\ [Next]_vars => TypeOK'
<1> SUFFICES ASSUME LeakInv, [Next]_vars PROVE TypeOK'
  OBVIOUS
<1>0. TypeOK /\ PrepareHolds
  BY DEF LeakInv
<1> USE <1>0
<1> USE DEF TypeOK, FileState, Absent, Corrupt, Stored, NoData, Data,
            TaskStatus, PrepareSteps, RunSteps, CleanupSteps,
            PrepareReturns, StageReturns
<1>1. CASE PrepareInit
  BY <1>1 DEF PrepareInit
<1>2. CASE CreateKeyPair
  BY <1>2 DEF CreateKeyPair
<1>3. CASE StartNewFargateTask
  BY <1>3 DEF StartNewFargateTask
<1>4. CASE PersistTaskARN
  BY <1>4 DEF PersistTaskARN, Persist
<1>5. CASE WaitUntilTaskRunning
  BY <1>5 DEF WaitUntilTaskRunning
<1>6. CASE GetContainerIP
  <2>1. taskData' \in Data
    BY <1>6 DEF GetContainerIP, Data, PrepareHolds
  <2>2. QED
    BY <1>6, <2>1 DEF GetContainerIP
<1>7. CASE PersistContainerIP
  BY <1>7 DEF PersistContainerIP
<1>8. CASE StopFargateTaskOnError
  <2>1. prepStops' \in Seq(Arns \cup {NoArn})
    <3>1. CASE taskARN = NoArn
      BY <1>8, <3>1 DEF StopFargateTaskOnError
    <3>2. CASE taskARN # NoArn
      <4>1. prepStops' = Append(prepStops, taskARN)
        BY <1>8, <3>2 DEF StopFargateTaskOnError
      <4>2. Append(prepStops, taskARN) \in Seq(Arns \cup {NoArn})
        BY AppendArn DEF TypeOK
      <4>3. QED
        BY <4>1, <4>2
    <3>3. QED
      BY <3>1, <3>2
  <2>2. tasks' \in [Arns -> TaskStatus]
    BY <1>8 DEF StopFargateTaskOnError, StopTask
  <2>3. QED
    BY <1>8, <2>1, <2>2 DEF StopFargateTaskOnError
<1>9. CASE RunCheckArgs
  BY <1>9 DEF RunCheckArgs
<1>10. CASE ReadScript
  BY <1>10 DEF ReadScript
<1>11. CASE ObtainTaskData
  BY <1>11 DEF ObtainTaskData, GetMetadata
<1>12. CASE ExecuteScript
  BY <1>12 DEF ExecuteScript
<1>13. CASE CleanupInit
  BY <1>13 DEF CleanupInit
<1>14. CASE CleanupGetData
  BY <1>14 DEF CleanupGetData, GetMetadata
<1>15. CASE CleanupStopTask
  <2>1. cleanupStops' = Append(cleanupStops, taskData.arn)
    BY <1>15 DEF CleanupStopTask
  <2>2. Append(cleanupStops, taskData.arn) \in Seq(Arns \cup {NoArn})
    BY AppendArn DEF TypeOK, Data
  <2>3. tasks' \in [Arns -> TaskStatus]
    BY <1>15 DEF CleanupStopTask
  <2>4. QED
    BY <1>15, <2>1, <2>2, <2>3 DEF CleanupStopTask
<1>16. CASE CleanupClear
  <2>1. file' \in FileState
    BY <1>16 DEF CleanupClear, FileState, Absent, NoData, Data
  <2>2. QED
    BY <1>16, <2>1 DEF CleanupClear
<1>17. CASE InvokePrepare
  BY <1>17 DEF InvokePrepare, Invoke
<1>18. CASE InvokeRun
  <2>1. runs' \in 0..MaxRuns /\ taskData' \in Data
    BY <1>18 DEF InvokeRun, Invoke, NoData, Data
  <2>2. QED
    BY <1>18, <2>1 DEF InvokeRun, Invoke
<1>19. CASE FinishScripts
  BY <1>19 DEF FinishScripts
<1>20. CASE InvokeCleanup
  <2>1. cleanups' \in 0..MaxCleanups /\ taskData' \in Data
    BY <1>20 DEF InvokeCleanup, Invoke, NoData, Data
  <2>2. QED
    BY <1>20, <2>1 DEF InvokeCleanup, Invoke
<1>21. CASE FinishJob
  BY <1>21 DEF FinishJob
<1>22. CASE TaskReachesRunning
  BY <1>22 DEF TaskReachesRunning
<1>23. CASE TaskStopsItself
  BY <1>23 DEF TaskStopsItself
<1>24. CASE TerminationSignal
  BY <1>24 DEF TerminationSignal
<1>25. CASE GracefulKill
  BY <1>25 DEF GracefulKill
<1>26. CASE UNCHANGED vars
  BY <1>26 DEF vars
<1>27. QED
  BY <1>1, <1>2, <1>3, <1>4, <1>5, <1>6, <1>7, <1>8, <1>9, <1>10, <1>11,
     <1>12, <1>13, <1>14, <1>15, <1>16, <1>17, <1>18, <1>19, <1>20, <1>21,
     <1>22, <1>23, <1>24, <1>25, <1>26
  DEF Next, PrepareStep, RunStep, CleanupStep, RunnerStep

\* Every step of Next, and a stuttering step, preserves LeakInv.
LEMMA NextLeakInv == LeakInv /\ [Next]_vars => LeakInv'
<1> SUFFICES ASSUME LeakInv, [Next]_vars PROVE LeakInv'
  OBVIOUS
<1>0. TypeOK'
  BY NextTypeOK
<1> USE <1>0
<1> USE DEF LeakInv, TypeOK, Absent, Corrupt, Stored, NoData, Data,
            Live, Started, StageInPhase, PrepareHolds, NothingStartedYet,
            OneTaskPerJob, FileNamesJobTask, CleanupHolds, AfterCleanup,
            PrepareReturns, StageReturns
<1>1. CASE PrepareInit
  BY <1>1 DEF PrepareInit
<1>2. CASE CreateKeyPair
  BY <1>2 DEF CreateKeyPair
<1>3. CASE StartNewFargateTask
  BY <1>3 DEF StartNewFargateTask
<1>4. CASE PersistTaskARN
  BY <1>4 DEF PersistTaskARN, Persist
<1>5. CASE WaitUntilTaskRunning
  BY <1>5 DEF WaitUntilTaskRunning
<1>6. CASE GetContainerIP
  BY <1>6 DEF GetContainerIP
<1>7. CASE PersistContainerIP
  BY <1>7 DEF PersistContainerIP
<1>8. CASE StopFargateTaskOnError
  <2>1. CASE taskARN = NoArn
    BY <1>8, <2>1 DEF StopFargateTaskOnError
  <2>2. CASE taskARN # NoArn
    BY <1>8, <2>2 DEF StopFargateTaskOnError, StopTask
  <2>3. QED
    BY <2>1, <2>2
<1>9. CASE RunCheckArgs
  BY <1>9 DEF RunCheckArgs
<1>10. CASE ReadScript
  BY <1>10 DEF ReadScript
<1>11. CASE ObtainTaskData
  BY <1>11 DEF ObtainTaskData, GetMetadata
<1>12. CASE ExecuteScript
  BY <1>12 DEF ExecuteScript
<1>13. CASE CleanupInit
  BY <1>13 DEF CleanupInit
<1>14. CASE CleanupGetData
  BY <1>14 DEF CleanupGetData, GetMetadata
<1>15. CASE CleanupStopTask
  BY <1>15 DEF CleanupStopTask
<1>16. CASE CleanupClear
  <2>1. CASE file.kind # "absent" /\ file' = Absent /\ cleanedOk' = TRUE
    <3>1. \A t \in Arns : ~Live(t)'
      <4>1. taskData.arn = taskARN /\ taskARN \in Arns
        BY <1>16 DEF CleanupClear
      <4>2. tasks[taskARN] = "STOPPED"
        BY <1>16, <4>1 DEF CleanupClear
      <4>3. \A t \in Arns : t # taskARN => tasks[t] = "NONE"
        BY <4>1
      <4>4. QED
        BY <1>16, <4>2, <4>3 DEF CleanupClear
    <3>2. QED
      BY <1>16, <2>1, <3>1 DEF CleanupClear
  <2>2. CASE UNCHANGED << file, cleanedOk >>
    BY <1>16, <2>2 DEF CleanupClear
  <2>3. QED
    BY <1>16, <2>1, <2>2 DEF CleanupClear
<1>17. CASE InvokePrepare
  BY <1>17 DEF InvokePrepare, Invoke
<1>18. CASE InvokeRun
  BY <1>18 DEF InvokeRun, Invoke
<1>19. CASE FinishScripts
  BY <1>19 DEF FinishScripts
<1>20. CASE InvokeCleanup
  BY <1>20 DEF InvokeCleanup, Invoke
<1>21. CASE FinishJob
  BY <1>21 DEF FinishJob
<1>22. CASE TaskReachesRunning
  BY <1>22 DEF TaskReachesRunning
<1>23. CASE TaskStopsItself
  BY <1>23 DEF TaskStopsItself
<1>24. CASE TerminationSignal
  BY <1>24 DEF TerminationSignal
<1>25. CASE GracefulKill
  BY <1>25 DEF GracefulKill
<1>26. CASE UNCHANGED vars
  BY <1>26 DEF vars
<1>27. QED
  BY <1>1, <1>2, <1>3, <1>4, <1>5, <1>6, <1>7, <1>8, <1>9, <1>10, <1>11,
     <1>12, <1>13, <1>14, <1>15, <1>16, <1>17, <1>18, <1>19, <1>20, <1>21,
     <1>22, <1>23, <1>24, <1>25, <1>26
  DEF Next, PrepareStep, RunStep, CleanupStep, RunnerStep

\* LeakInv holds in every reachable state.
LEMMA SpecLeakInv == Spec => []LeakInv
BY InitLeakInv, NextLeakInv, PTL DEF Spec

\* Type correctness of the job life cycle: every variable keeps its type.
THEOREM TypeCorrect == Spec => []TypeOK
BY SpecLeakInv, PTL DEF LeakInv

\* No silent leak: once a cleanup has returned success, no task of the job
\* is pending or running on ECS, whatever failed, was cancelled or killed
\* before (a lost RunTask response, a failed write, a compensation that
\* could not stop the task, an interrupted cleanup).
THEOREM NoLeakAfterCleanup == Spec => []NoTaskLeftAfterCleanup
<1>1. LeakInv => NoTaskLeftAfterCleanup
  BY DEF LeakInv, AfterCleanup, NoTaskLeftAfterCleanup
<1>2. QED
  BY <1>1, SpecLeakInv, PTL

-----------------------------------------------------------------------------
(* The compensation of prepare.  CompensationStopsStartedTaskOnce is not   *)
(* inductive: a step of stopFargateTaskOnError appends to prepStops, and  *)
(* the history has one entry afterwards only because it was empty before. *)
(* CompensationInv adds that nothing is stopped, and prepare has not      *)
(* ended, while the job is in prepare; LeakInv gives that taskARN is ""   *)
(* before RunTask, where the two early failures return.                   *)

\* The part of CompensationInv beyond LeakInv.
PrepareStopsInv ==
    /\ phase = "prepare" => prepStops = << >> /\ prepResult = "none"
    /\ CompensationStopsStartedTaskOnce

LEMMA InitCompensationInv == Init => CompensationInv
<1> SUFFICES ASSUME Init PROVE CompensationInv
  OBVIOUS
<1>1. LeakInv
  BY InitLeakInv
<1>2. QED
  BY <1>1 DEF Init, CompensationInv, CompensationStopsStartedTaskOnce

\* Each step keeps prepare's stop history: only stopFargateTaskOnError adds
\* to it, once, and then prepare returns its error.
LEMMA NextCompensationInv ==
  CompensationInv /\ [Next]_vars => CompensationInv'
<1> SUFFICES ASSUME CompensationInv, [Next]_vars PROVE CompensationInv'
  OBVIOUS
<1>0. LeakInv /\ PrepareStopsInv
  BY DEF CompensationInv, PrepareStopsInv
<1>1. LeakInv'
  BY <1>0, NextLeakInv
<1>2. PrepareStopsInv'
  <2> USE <1>0 DEF PrepareStopsInv, CompensationStopsStartedTaskOnce
  \* the steps that leave prepare's outcome, its ARN and its stops alone
  <2>1. ASSUME UNCHANGED << prepStops, prepResult, taskARN >>,
               phase' = "prepare" => phase = "prepare"
        PROVE  PrepareStopsInv'
    BY <2>1
  <2>2. ASSUME stage = "prepare", pc \in {"init", "keygen"},
               UNCHANGED << prepStops, taskARN >>,
               PrepareReturns("err") \/ UNCHANGED << prepResult, phase >>
        PROVE  PrepareStopsInv'
    <3>1. phase = "prepare" /\ taskARN = NoArn /\ prepStops = << >>
      BY <2>2 DEF LeakInv, StageInPhase, NothingStartedYet
    <3>2. QED
      BY <2>2, <3>1 DEF PrepareReturns
  <2>3. CASE PrepareInit
    BY <2>2, <2>3 DEF PrepareInit
  <2>4. CASE CreateKeyPair
    BY <2>2, <2>4 DEF CreateKeyPair
  <2>5. CASE StartNewFargateTask
    <3>1. phase = "prepare"
      BY <2>5 DEF StartNewFargateTask, LeakInv, StageInPhase
    <3>2. QED
      BY <2>5, <3>1 DEF StartNewFargateTask, PrepareReturns
  <2>6. CASE StopFargateTaskOnError
    <3>1. phase = "prepare" /\ prepStops = << >>
      BY <2>6 DEF StopFargateTaskOnError, LeakInv, StageInPhase
    <3>2. prepResult' = "err" /\ phase' = "cleanup" /\ taskARN' = taskARN
      BY <2>6 DEF StopFargateTaskOnError, PrepareReturns
    <3>3. CASE taskARN = NoArn
      BY <2>6, <3>1, <3>2, <3>3 DEF StopFargateTaskOnError
    <3>4. CASE taskARN # NoArn
      <4>1. prepStops' = Append(<< >>, taskARN)
        BY <2>6, <3>1, <3>4 DEF StopFargateTaskOnError
      <4>2. QED
        BY <3>2, <3>4, <4>1
    <3>5. QED
      BY <3>3, <3>4
  <2>7. CASE GracefulKill
    <3>1. stage = "prepare" => phase = "prepare"
      BY DEF LeakInv, StageInPhase
    <3>2. QED
      BY <2>7, <3>1 DEF GracefulKill, PrepareReturns, StageReturns
  <2>8. CASE PersistTaskARN \/ WaitUntilTaskRunning \/ GetContainerIP
             \/ PersistContainerIP
    <3>1. phase = "prepare"
      BY <2>8 DEF PersistTaskARN, WaitUntilTaskRunning, GetContainerIP,
                  PersistContainerIP, LeakInv, StageInPhase
    <3>2. UNCHANGED << prepStops, taskARN >>
      BY <2>8 DEF PersistTaskARN, WaitUntilTaskRunning, GetContainerIP,
                  PersistContainerIP
    <3>3. prepResult' \in {prepResult, "ok", "crash"}
      BY <2>8 DEF PersistTaskARN, WaitUntilTaskRunning, GetContainerIP,
                  PersistContainerIP, PrepareReturns
    <3>4. phase' = "prepare" => prepResult' = prepResult
      BY <2>8 DEF PersistTaskARN, WaitUntilTaskRunning, GetContainerIP,
                  PersistContainerIP, PrepareReturns
    <3>5. QED
      BY <3>1, <3>2, <3>3, <3>4
  <2>9. CASE RunStep \/ CleanupStep \/ TaskReachesRunning \/ TaskStopsItself
             \/ TerminationSignal \/ UNCHANGED vars
    BY <2>1, <2>9 DEF RunStep, CleanupStep, RunCheckArgs, ReadScript,
                      ObtainTaskData, ExecuteScript, CleanupInit,
                      CleanupGetData, CleanupStopTask, CleanupClear,
                      TaskReachesRunning, TaskStopsItself, TerminationSignal,
                      vars
  <2>10. CASE RunnerStep
    BY <2>1, <2>10 DEF RunnerStep, InvokePrepare, InvokeRun, FinishScripts,
                       InvokeCleanup, FinishJob
  <2>11. QED
    BY <2>3, <2>4, <2>5, <2>6, <2>7, <2>8, <2>9, <2>10
    DEF Next, PrepareStep
<1>3. QED
  BY <1>1, <1>2 DEF CompensationInv, PrepareStopsInv

\* The compensation of a failed prepare: when prepare returned an error
\* through stopFargateTaskOnError or an earlier check, StopTask was called
\* exactly once on the ARN RunTask returned, and never when RunTask
\* returned "" (for every set of ARNs and every bound on the stages).
THEOREM CompensationCorrect == Spec => []CompensationStopsStartedTaskOnce
<1>1. CompensationInv => CompensationStopsStartedTaskOnce
  BY DEF CompensationInv
<1>2. QED
  BY <1>1, InitCompensationInv, NextCompensationInv, PTL DEF Spec

-----------------------------------------------------------------------------
(* Idempotent cleanup.  CleanupStopsOnlyBeforeSuccess needs to know why a  *)
(* retried cleanup cannot reach StopTask: the successful one removed the  *)
(* file (CleanedRecordGone), nothing writes it again because prepare does *)
(* not run after cleanup, and CleanupHolds makes a cleanup past Get hold   *)
(* the file's data.                                                        *)

\* Init establishes CleanedRecordGone.
LEMMA InitCleanedRecordGone == Init => CleanedRecordGone
BY DEF Init, CleanedRecordGone

\* Every step preserves CleanedRecordGone, given LeakInv.
LEMMA NextCleanedRecordGone ==
    LeakInv /\ CleanedRecordGone /\ [Next]_vars => CleanedRecordGone'
<1> SUFFICES ASSUME LeakInv, CleanedRecordGone, [Next]_vars
             PROVE  CleanedRecordGone'
  OBVIOUS
<1> USE DEF LeakInv, TypeOK, StageInPhase, AfterCleanup, CleanedRecordGone,
            Absent, Corrupt, Stored, PrepareReturns, StageReturns
<1>1. CASE PrepareInit
  BY <1>1 DEF PrepareInit
<1>2. CASE CreateKeyPair
  BY <1>2 DEF CreateKeyPair
<1>3. CASE StartNewFargateTask
  BY <1>3 DEF StartNewFargateTask
<1>4. CASE PersistTaskARN
  BY <1>4 DEF PersistTaskARN, Persist
<1>5. CASE WaitUntilTaskRunning
  BY <1>5 DEF WaitUntilTaskRunning
<1>6. CASE GetContainerIP
  BY <1>6 DEF GetContainerIP
<1>7. CASE PersistContainerIP
  BY <1>7 DEF PersistContainerIP
<1>8. CASE StopFargateTaskOnError
  BY <1>8 DEF StopFargateTaskOnError, StopTask
<1>9. CASE RunCheckArgs
  BY <1>9 DEF RunCheckArgs
<1>10. CASE ReadScript
  BY <1>10 DEF ReadScript
<1>11. CASE ObtainTaskData
  BY <1>11 DEF ObtainTaskData, GetMetadata
<1>12. CASE ExecuteScript
  BY <1>12 DEF ExecuteScript
<1>13. CASE CleanupInit
  BY <1>13 DEF CleanupInit
<1>14. CASE CleanupGetData
  BY <1>14 DEF CleanupGetData, GetMetadata
<1>15. CASE CleanupStopTask
  BY <1>15 DEF CleanupStopTask
<1>16. CASE CleanupClear
  <2>1. CASE file.kind # "absent" /\ file' = Absent /\ cleanedOk' = TRUE
    BY <2>1
  <2>2. CASE UNCHANGED << file, cleanedOk >>
    BY <2>2
  <2>3. QED
    BY <1>16, <2>1, <2>2 DEF CleanupClear
<1>17. CASE InvokePrepare
  BY <1>17 DEF InvokePrepare, Invoke
<1>18. CASE InvokeRun
  BY <1>18 DEF InvokeRun, Invoke
<1>19. CASE FinishScripts
  BY <1>19 DEF FinishScripts
<1>20. CASE InvokeCleanup
  BY <1>20 DEF InvokeCleanup, Invoke
<1>21. CASE FinishJob
  BY <1>21 DEF FinishJob
<1>22. CASE TaskReachesRunning
  BY <1>22 DEF TaskReachesRunning
<1>23. CASE TaskStopsItself
  BY <1>23 DEF TaskStopsItself
<1>24. CASE TerminationSignal
  BY <1>24 DEF TerminationSignal
<1>25. CASE GracefulKill
  BY <1>25 DEF GracefulKill
<1>26. CASE UNCHANGED vars
  BY <1>26 DEF vars
<1>27. QED
  BY <1>1, <1>2, <1>3, <1>4, <1>5, <1>6, <1>7, <1>8, <1>9, <1>10,
     <1>11, <1>12, <1>13, <1>14, <1>15, <1>16, <1>17, <1>18, <1>19,
     <1>20, <1>21, <1>22, <1>23, <1>24, <1>25, <1>26
  DEF Next, PrepareStep, RunStep, CleanupStep, RunnerStep

\* A retried cleanup never stops a task again once a cleanup succeeded.
LEMMA NoStopAfterCleaned ==
    LeakInv /\ CleanedRecordGone /\ [Next]_vars
        => (cleanedOk => cleanupStops' = cleanupStops)
<1> SUFFICES ASSUME LeakInv, CleanedRecordGone, [Next]_vars, cleanedOk
             PROVE  cleanupStops' = cleanupStops
  OBVIOUS
<1> USE DEF LeakInv, CleanupHolds, CleanedRecordGone, PrepareReturns,
            StageReturns
<1>1. CASE PrepareInit
  BY <1>1 DEF PrepareInit
<1>2. CASE CreateKeyPair
  BY <1>2 DEF CreateKeyPair
<1>3. CASE StartNewFargateTask
  BY <1>3 DEF StartNewFargateTask
<1>4. CASE PersistTaskARN
  BY <1>4 DEF PersistTaskARN, Persist
<1>5. CASE WaitUntilTaskRunning
  BY <1>5 DEF WaitUntilTaskRunning
<1>6. CASE GetContainerIP
  BY <1>6 DEF GetContainerIP
<1>7. CASE PersistContainerIP
  BY <1>7 DEF PersistContainerIP
<1>8. CASE StopFargateTaskOnError
  BY <1>8 DEF StopFargateTaskOnError, StopTask
<1>9. CASE RunCheckArgs
  BY <1>9 DEF RunCheckArgs
<1>10. CASE ReadScript
  BY <1>10 DEF ReadScript
<1>11. CASE ObtainTaskData
  BY <1>11 DEF ObtainTaskData, GetMetadata
<1>12. CASE ExecuteScript
  BY <1>12 DEF ExecuteScript
<1>13. CASE CleanupInit
  BY <1>13 DEF CleanupInit
<1>14. CASE CleanupGetData
  BY <1>14 DEF CleanupGetData, GetMetadata
<1>15. CASE CleanupStopTask
  BY <1>15 DEF CleanupStopTask
<1>16. CASE CleanupClear
  BY <1>16 DEF CleanupClear
<1>17. CASE InvokePrepare
  BY <1>17 DEF InvokePrepare, Invoke
<1>18. CASE InvokeRun
  BY <1>18 DEF InvokeRun, Invoke
<1>19. CASE FinishScripts
  BY <1>19 DEF FinishScripts
<1>20. CASE InvokeCleanup
  BY <1>20 DEF InvokeCleanup, Invoke
<1>21. CASE FinishJob
  BY <1>21 DEF FinishJob
<1>22. CASE TaskReachesRunning
  BY <1>22 DEF TaskReachesRunning
<1>23. CASE TaskStopsItself
  BY <1>23 DEF TaskStopsItself
<1>24. CASE TerminationSignal
  BY <1>24 DEF TerminationSignal
<1>25. CASE GracefulKill
  BY <1>25 DEF GracefulKill
<1>26. CASE UNCHANGED vars
  BY <1>26 DEF vars
<1>27. QED
  BY <1>1, <1>2, <1>3, <1>4, <1>5, <1>6, <1>7, <1>8, <1>9, <1>10,
     <1>11, <1>12, <1>13, <1>14, <1>15, <1>16, <1>17, <1>18, <1>19,
     <1>20, <1>21, <1>22, <1>23, <1>24, <1>25, <1>26
  DEF Next, PrepareStep, RunStep, CleanupStep, RunnerStep

\* Cleanup is idempotent: after a cleanup has returned success, a retried
\* cleanup (the job runner may invoke it again) fails on the missing
\* metadata file and never calls StopTask again (for every set of ARNs and
\* every bound on the stages).
THEOREM CleanupIdempotent == Spec => CleanupStopsOnlyBeforeSuccess
<1>1. Spec => [](LeakInv /\ CleanedRecordGone)
  BY SpecLeakInv, InitCleanedRecordGone, NextCleanedRecordGone, PTL DEF Spec
<1>2. QED
  BY <1>1, NoStopAfterCleaned, PTL DEF Spec, CleanupStopsOnlyBeforeSuccess

=============================================================================
