----------------------- MODULE DriverRefinementProofs -----------------------
(***************************************************************************)
(* Proofs that the job's metadata file is complete when prepare succeeds,  *)
(* that run only ever connects to the job's task, and that Driver          *)
(* implements the job life cycle of JobLifecycle under the refinement      *)
(* mapping of Driver, for every set of ARNs and every bound.  RecordInv   *)
(* (in Driver) is the inductive invariant; it extends LeakInv, whose       *)
(* preservation DriverProofs proves.                                       *)
(***************************************************************************)
EXTENDS DriverProofs

USE ConstantsAssumption

\* The part of RecordInv beyond LeakInv.
RecordParts ==
    /\ HandleRecorded
    /\ RunHolds
    /\ phase = "prepare" => execTargets = {}
    /\ PrepareSuccessLeavesRecord
    /\ ScriptsRunOnJobTask

LEMMA InitRecordInv == Init => RecordInv
<1> SUFFICES ASSUME Init PROVE RecordInv
  OBVIOUS
<1>1. LeakInv
  BY InitLeakInv
<1>2. QED
  BY <1>1 DEF Init, RecordInv, HandleRecorded, RunHolds,
             PrepareSuccessLeavesRecord, ScriptsRunOnJobTask

\* Each step keeps the record invariant: the file changes only by the
\* writes of prepare and the Clear of cleanup, taskARN only in prepare, and
\* run connects to the address it read from the file.
LEMMA NextRecordInv == RecordInv /\ [Next]_vars => RecordInv'
<1> SUFFICES ASSUME RecordInv, [Next]_vars PROVE RecordInv'
  OBVIOUS
<1>0. LeakInv /\ RecordParts
  BY DEF RecordInv, RecordParts
<1>1. LeakInv'
  BY <1>0, NextLeakInv
<1>2. RecordParts'
  <2> USE <1>0 DEF RecordParts, HandleRecorded, RunHolds,
                   PrepareSuccessLeavesRecord, ScriptsRunOnJobTask
  <2>1. ASSUME UNCHANGED << file, stage, pc, taskARN, taskData, phase,
                            execTargets >>
        PROVE  RecordParts'
    BY <2>1
  \* the steps of prepare that do not write the file
  <2>2. ASSUME stage = "prepare", stage' \in {"prepare", "none"},
               UNCHANGED << file, execTargets >>,
               pc' \notin {"wait", "getIP", "persistIP"} \/ stage' # "prepare"
                 \/ UNCHANGED << pc, taskARN >>,
               phase' \in {"prepare", "cleanup"}
        PROVE  RecordParts'
    <3>1. phase = "prepare"
      BY <2>2 DEF LeakInv, StageInPhase
    <3>2. QED
      BY <2>2, <3>1
  <2>3. CASE PrepareInit
    BY <2>2, <2>3 DEF PrepareInit, PrepareReturns
  <2>4. CASE CreateKeyPair
    BY <2>2, <2>4 DEF CreateKeyPair, PrepareReturns
  <2>5. CASE StartNewFargateTask
    <3>1. /\ stage = "prepare" /\ stage' \in {"prepare", "none"}
          /\ UNCHANGED << file, execTargets >>
          /\ phase' \in {"prepare", "cleanup"}
      BY <2>5 DEF StartNewFargateTask, PrepareReturns, LeakInv, StageInPhase
    <3>2. pc' \notin {"wait", "getIP", "persistIP"} \/ stage' # "prepare"
      BY <2>5 DEF StartNewFargateTask, PrepareReturns
    <3>3. QED
      BY <2>2, <3>1, <3>2
  <2>6. CASE WaitUntilTaskRunning
    BY <2>2, <2>6 DEF WaitUntilTaskRunning
  <2>7. CASE GetContainerIP
    BY <2>2, <2>7 DEF GetContainerIP, PrepareReturns
  <2>8. CASE StopFargateTaskOnError
    BY <2>2, <2>8 DEF StopFargateTaskOnError, PrepareReturns
  <2>9. CASE PersistTaskARN
    <3>1. phase = "prepare"
      BY <2>9 DEF PersistTaskARN, LeakInv, StageInPhase
    <3>2. QED
      BY <2>9, <3>1 DEF PersistTaskARN, Persist
  <2>10. CASE PersistContainerIP
    <3>1. phase = "prepare" /\ taskData = [arn |-> taskARN, ip |-> taskARN]
      BY <2>10 DEF PersistContainerIP, LeakInv, StageInPhase, PrepareHolds
    <3>2. CASE file' = Stored(taskData) /\ PrepareReturns("ok")
      BY <2>10, <3>1, <3>2 DEF PersistContainerIP, PrepareReturns, Stored
    <3>3. CASE file' \in {file, Corrupt} /\ pc' = "compensate"
               /\ UNCHANGED << stage, prepResult, phase >>
      BY <2>10, <3>1, <3>3 DEF PersistContainerIP
    <3>4. QED
      BY <2>10, <3>2, <3>3 DEF PersistContainerIP
  <2>11. CASE RunCheckArgs \/ ReadScript
    BY <2>11 DEF RunCheckArgs, ReadScript, StageReturns
  <2>12. CASE ObtainTaskData
    BY <2>12 DEF ObtainTaskData, GetMetadata, StageReturns
  <2>13. CASE ExecuteScript
    <3>1. phase = "scripts" /\ file.kind = "data" /\ taskData = file.data
      BY <2>13 DEF ExecuteScript, LeakInv, StageInPhase
    <3>2. taskData.ip = taskARN
      BY <3>1 DEF Stored
    <3>3. QED
      BY <2>13, <3>1, <3>2 DEF ExecuteScript, StageReturns
  <2>14. CASE CleanupInit \/ CleanupGetData \/ CleanupStopTask
    <3>1. phase = "cleanup"
      BY <2>14 DEF CleanupInit, CleanupGetData, CleanupStopTask, LeakInv,
                   StageInPhase
    <3>2. QED
      BY <2>14, <3>1 DEF CleanupInit, CleanupGetData, CleanupStopTask,
                         GetMetadata, StageReturns
  <2>15. CASE CleanupClear
    <3>1. phase = "cleanup"
      BY <2>15 DEF CleanupClear, LeakInv, StageInPhase
    <3>2. QED
      BY <2>15, <3>1 DEF CleanupClear, StageReturns
  <2>16. CASE InvokePrepare \/ InvokeRun \/ InvokeCleanup
    BY <2>16 DEF InvokePrepare, InvokeRun, InvokeCleanup, Invoke
  <2>17. CASE FinishScripts \/ FinishJob
    BY <2>17 DEF FinishScripts, FinishJob
  <2>18. CASE TaskReachesRunning \/ TaskStopsItself \/ TerminationSignal
    BY <2>1, <2>18 DEF TaskReachesRunning, TaskStopsItself, TerminationSignal
  <2>19. CASE GracefulKill
    <3>1. stage = "prepare" => phase = "prepare"
      BY DEF LeakInv, StageInPhase
    <3>2. QED
      BY <2>19, <3>1 DEF GracefulKill, PrepareReturns, StageReturns
  <2>20. CASE UNCHANGED vars
    BY <2>1, <2>20 DEF vars
  <2>21. QED
    BY <2>3, <2>4, <2>5, <2>6, <2>7, <2>8, <2>9, <2>10, <2>11, <2>12, <2>13,
       <2>14, <2>15, <2>16, <2>17, <2>18, <2>19, <2>20
    DEF Next, PrepareStep, RunStep, CleanupStep, RunnerStep
<1>3. QED
  BY <1>1, <1>2 DEF RecordInv, RecordParts

\* RecordInv holds in every reachable state.
LEMMA SpecRecordInv == Spec => []RecordInv
BY InitRecordInv, NextRecordInv, PTL DEF Spec

-----------------------------------------------------------------------------
(* The refinement.  A step that leaves the tasks' life, the file, the      *)
(* phase, the release and the connections alone is an abstract stutter;   *)
(* every other step is one action of JobLifecycle.                        *)

\* A step that keeps every task's status keeps its life.
LEMMA UnitLifeUnchanged ==
  ASSUME UNCHANGED tasks
  PROVE  UnitLife' = UnitLife
BY DEF UnitLife, Live

\* A step that keeps the mapped state is an abstract stutter.
LEMMA StutterStep ==
  ASSUME UnitLife' = UnitLife,
         UNCHANGED << file, phase, cleanedOk, execTargets >>
  PROVE  [JL!JLNext]_JL!jlVars
BY DEF JL!jlVars

\* StopTask on a task that was started: the unit stops, or it had already.
LEMMA StopStep ==
  ASSUME TypeOK, NEW t \in Arns, tasks[t] # "NONE",
         tasks' = [tasks EXCEPT ![t] = "STOPPED"],
         UNCHANGED << file, phase, cleanedOk, execTargets >>
  PROVE  [JL!JLNext]_JL!jlVars
<1>1. CASE Live(t)
  <2>1. UnitLife' = [UnitLife EXCEPT ![t] = "STOPPED"]
    BY DEF UnitLife, Live, TypeOK
  <2>2. UnitLife[t] = "LIVE"
    BY <1>1 DEF UnitLife
  <2>3. JL!UnitStops
    BY <2>1, <2>2 DEF JL!UnitStops
  <2>4. QED
    BY <2>3 DEF JL!JLNext
<1>2. CASE ~Live(t)
  <2>1. tasks' = tasks
    BY <1>2 DEF Live, TypeOK, TaskStatus
  <2>2. QED
    BY <2>1, UnitLifeUnchanged, StutterStep
<1>3. QED
  BY <1>1, <1>2

\* prepare returns an error or is killed, stopping nothing
LEMMA PrepareFailsStep ==
  ASSUME phase = "prepare", phase' = "cleanup",
         UNCHANGED << tasks, file, cleanedOk, execTargets >>
  PROVE  [JL!JLNext]_JL!jlVars
<1>1. JL!PrepareFails
  BY UnitLifeUnchanged DEF JL!PrepareFails
<1>2. QED
  BY <1>1 DEF JL!JLNext

\* Every step of Driver from a state of RecordInv is a step of JobLifecycle
\* under the mapping, or a stutter of it.
LEMMA RefinementStep ==
  RecordInv /\ [Next]_vars => [JL!JLNext]_JL!jlVars
<1> SUFFICES ASSUME RecordInv, [Next]_vars PROVE [JL!JLNext]_JL!jlVars
  OBVIOUS
<1>0. /\ TypeOK /\ StageInPhase /\ PrepareHolds /\ NothingStartedYet
      /\ OneTaskPerJob /\ FileNamesJobTask /\ CleanupHolds
      /\ HandleRecorded /\ RunHolds
  BY DEF RecordInv, LeakInv
<1> USE <1>0
\* the steps that leave the mapped state alone
<1>1. ASSUME UNCHANGED << tasks, file, phase, cleanedOk, execTargets >>
      PROVE  [JL!JLNext]_JL!jlVars
  BY <1>1, UnitLifeUnchanged, StutterStep
\* the steps by which prepare returns an error
<1>2. ASSUME stage = "prepare", phase' = "cleanup",
             UNCHANGED << tasks, file, cleanedOk, execTargets >>
      PROVE  [JL!JLNext]_JL!jlVars
  BY <1>2, PrepareFailsStep DEF StageInPhase
<1>3. CASE PrepareInit \/ CreateKeyPair
  BY <1>1, <1>2, <1>3 DEF PrepareInit, CreateKeyPair, PrepareReturns
<1>4. CASE StartNewFargateTask
  <2>1. CASE \E t \in Arns : tasks[t] = "NONE"
                              /\ tasks' = [tasks EXCEPT ![t] = "PENDING"]
             /\ UNCHANGED << file, phase, cleanedOk, execTargets >>
    <3>1. PICK t \in Arns : tasks[t] = "NONE"
                            /\ tasks' = [tasks EXCEPT ![t] = "PENDING"]
      BY <2>1
    <3>2. phase = "prepare" /\ \A u \in Arns : tasks[u] = "NONE"
      BY <1>4 DEF StartNewFargateTask, NothingStartedYet, StageInPhase
    <3>3. UnitLife' = [UnitLife EXCEPT ![t] = "LIVE"]
      BY <3>1 DEF UnitLife, Live, TypeOK
    <3>4. \A u \in Arns : UnitLife[u] = "NONE"
      BY <3>2 DEF UnitLife
    <3>5. JL!StartUnit
      BY <2>1, <3>2, <3>3, <3>4 DEF JL!StartUnit, JL!Started
    <3>6. QED
      BY <3>5 DEF JL!JLNext
  <2>2. QED
    BY <1>1, <1>2, <1>4, <2>1 DEF StartNewFargateTask, PrepareReturns
<1>5. CASE PersistTaskARN
  <2>1. phase = "prepare" /\ taskARN \in Arns /\ tasks[taskARN] # "NONE"
    BY <1>5 DEF PersistTaskARN, StageInPhase, PrepareHolds, OneTaskPerJob,
                Started
  <2>0. UnitLife' = UnitLife /\ UnitLife[taskARN] # "NONE"
    BY <1>5, <2>1, UnitLifeUnchanged DEF PersistTaskARN, UnitLife
  <2>2. CASE file' = Stored([arn |-> taskARN, ip |-> NoIp])
    <3>1. JL!SaveHandle
      BY <1>5, <2>0, <2>1, <2>2 DEF PersistTaskARN, JL!SaveHandle, JL!Started,
                                    JL!Rec, Stored
    <3>2. QED
      BY <3>1 DEF JL!JLNext
  <2>3. CASE file' = Corrupt
    <3>1. JL!LoseRecord
      BY <1>5, <2>0, <2>1, <2>3 DEF PersistTaskARN, JL!LoseRecord, Corrupt,
                                    NoData
    <3>2. QED
      BY <3>1 DEF JL!JLNext
  <2>4. QED
    BY <1>1, <1>5, <2>2, <2>3 DEF PersistTaskARN, Persist
<1>6. CASE WaitUntilTaskRunning
  BY <1>1, <1>6 DEF WaitUntilTaskRunning
<1>7. CASE GetContainerIP
  BY <1>1, <1>2, <1>7 DEF GetContainerIP, PrepareReturns
<1>8. CASE PersistContainerIP
  <2>1. /\ phase = "prepare" /\ taskARN \in Arns /\ tasks[taskARN] # "NONE"
        /\ file = Stored([arn |-> taskARN, ip |-> NoIp])
        /\ taskData = [arn |-> taskARN, ip |-> taskARN]
    BY <1>8 DEF PersistContainerIP, StageInPhase, PrepareHolds,
                OneTaskPerJob, Started, HandleRecorded
  <2>0. UnitLife' = UnitLife /\ UnitLife[taskARN] # "NONE"
    BY <1>8, <2>1, UnitLifeUnchanged DEF PersistContainerIP, UnitLife
  <2>2. CASE file' = Stored(taskData) /\ PrepareReturns("ok")
    <3>1. JL!PrepareSucceeds
      BY <1>8, <2>0, <2>1, <2>2 DEF PersistContainerIP, PrepareReturns,
                                    JL!PrepareSucceeds, JL!Started, JL!Rec,
                                    Stored
    <3>2. QED
      BY <3>1 DEF JL!JLNext
  <2>3. CASE file' = Corrupt /\ UNCHANGED phase
    <3>1. JL!LoseRecord
      BY <1>8, <2>0, <2>1, <2>3 DEF PersistContainerIP, JL!LoseRecord,
                                    Corrupt, NoData
    <3>2. QED
      BY <3>1 DEF JL!JLNext
  <2>4. QED
    BY <1>1, <1>8, <2>2, <2>3 DEF PersistContainerIP
<1>9. CASE StopFargateTaskOnError
  <2>1. phase = "prepare" /\ phase' = "cleanup"
        /\ UNCHANGED << file, cleanedOk, execTargets >>
    BY <1>9 DEF StopFargateTaskOnError, StageInPhase, PrepareReturns
  <2>2. CASE UNCHANGED tasks
    BY <2>1, <2>2, PrepareFailsStep
  <2>3. CASE taskARN # NoArn /\ ~ctxDone /\ taskARN \in Arns
             /\ tasks' = [tasks EXCEPT ![taskARN] = "STOPPED"]
    <3>1. tasks[taskARN] # "NONE"
      BY <2>3 DEF OneTaskPerJob, Started
    <3>2. CASE Live(taskARN)
      <4>1. UnitLife' = [UnitLife EXCEPT ![taskARN] = "STOPPED"]
        BY <2>3 DEF UnitLife, Live, TypeOK
      <4>2. UnitLife[taskARN] = "LIVE"
        BY <2>3, <3>2 DEF UnitLife, Live
      <4>3. JL!PrepareFails
        BY <2>1, <2>3, <4>1, <4>2 DEF JL!PrepareFails
      <4>4. QED
        BY <4>3 DEF JL!JLNext
    <3>3. CASE ~Live(taskARN)
      <4>1. tasks' = tasks
        BY <2>3, <3>1, <3>3 DEF Live, TypeOK, TaskStatus
      <4>2. QED
        BY <2>1, <4>1, PrepareFailsStep
    <3>4. QED
      BY <3>2, <3>3
  <2>4. QED
    BY <1>9, <2>2, <2>3 DEF StopFargateTaskOnError, StopTask
<1>10. CASE RunCheckArgs \/ ReadScript \/ ObtainTaskData
  BY <1>1, <1>10 DEF RunCheckArgs, ReadScript, ObtainTaskData, GetMetadata,
                     StageReturns
<1>11. CASE ExecuteScript
  <2>1. phase = "scripts" /\ file.kind = "data" /\ taskData = file.data
    BY <1>11 DEF ExecuteScript, StageInPhase, RunHolds
  <2>2. JL!RunScript
    BY <1>11, <2>1, UnitLifeUnchanged DEF ExecuteScript, JL!RunScript
  <2>3. QED
    BY <2>2 DEF JL!JLNext
<1>12. CASE CleanupInit \/ CleanupGetData
  BY <1>1, <1>12 DEF CleanupInit, CleanupGetData, GetMetadata, StageReturns
<1>13. CASE CleanupStopTask
  <2>1. CASE tasks' = [tasks EXCEPT ![taskData.arn] = "STOPPED"]
             /\ taskData.arn \in Arns
    <3>1. tasks[taskData.arn] # "NONE"
      BY <1>13 DEF CleanupStopTask, CleanupHolds, FileNamesJobTask,
                   OneTaskPerJob, Started
    <3>2. QED
      BY <1>13, <2>1, <3>1, StopStep DEF CleanupStopTask
  <2>2. QED
    BY <1>1, <1>13, <2>1 DEF CleanupStopTask, StageReturns
<1>14. CASE CleanupClear
  <2>1. CASE file.kind # "absent" /\ file' = Absent /\ cleanedOk' = TRUE
    <3>1. LeakInv'
      BY NextLeakInv DEF RecordInv
    <3>2. \A t \in Arns : UnitLife[t] # "LIVE"
      <4>1. \A t \in Arns : ~Live(t)'
        BY <2>1, <3>1 DEF LeakInv, AfterCleanup
      <4>2. UNCHANGED tasks
        BY <1>14 DEF CleanupClear
      <4>3. QED
        BY <4>1, <4>2 DEF UnitLife, Live
    <3>3. phase = "cleanup" /\ file.kind = "data"
      BY <1>14 DEF CleanupClear, StageInPhase, CleanupHolds
    <3>4. JL!DeleteRecord
      BY <1>14, <2>1, <3>2, <3>3, UnitLifeUnchanged
      DEF CleanupClear, JL!DeleteRecord, Absent, NoData
    <3>5. QED
      BY <3>4 DEF JL!JLNext
  <2>2. QED
    BY <1>1, <1>14, <2>1 DEF CleanupClear, StageReturns
<1>15. CASE InvokePrepare \/ InvokeRun \/ InvokeCleanup
  BY <1>1, <1>15 DEF InvokePrepare, InvokeRun, InvokeCleanup
<1>16. CASE FinishScripts
  <2>1. JL!EndScripts
    BY <1>16, UnitLifeUnchanged DEF FinishScripts, JL!EndScripts
  <2>2. QED
    BY <2>1 DEF JL!JLNext
<1>17. CASE FinishJob
  <2>1. JL!EndJob
    BY <1>17, UnitLifeUnchanged DEF FinishJob, JL!EndJob
  <2>2. QED
    BY <2>1 DEF JL!JLNext
<1>18. CASE TaskReachesRunning
  <2>1. UnitLife' = UnitLife
    BY <1>18 DEF TaskReachesRunning, UnitLife, Live, TypeOK
  <2>2. QED
    BY <1>18, <2>1, StutterStep DEF TaskReachesRunning
<1>19. CASE TaskStopsItself
  <2>1. PICK t \in Arns : Live(t) /\ tasks' = [tasks EXCEPT ![t] = "STOPPED"]
    BY <1>19 DEF TaskStopsItself
  <2>2. tasks[t] # "NONE"
    BY <2>1 DEF Live
  <2>3. QED
    BY <1>19, <2>1, <2>2, StopStep DEF TaskStopsItself
<1>20. CASE TerminationSignal
  BY <1>1, <1>20 DEF TerminationSignal
<1>21. CASE GracefulKill
  BY <1>1, <1>2, <1>21 DEF GracefulKill, PrepareReturns, StageReturns
<1>22. CASE UNCHANGED vars
  BY <1>1, <1>22 DEF vars
<1>23. QED
  BY <1>3, <1>4, <1>5, <1>6, <1>7, <1>8, <1>9, <1>10, <1>11, <1>12, <1>13,
     <1>14, <1>15, <1>16, <1>17, <1>18, <1>19, <1>20, <1>21, <1>22
  DEF Next, PrepareStep, RunStep, CleanupStep, RunnerStep

-----------------------------------------------------------------------------
(* The theorems.                                                           *)

\* When prepare has succeeded, the metadata file holds the ARN of the job's
\* task and its address (the two writes of PrepareCommand.CustomExecute both
\* completed, and run and cleanup never rewrite the file).
THEOREM PrepareSuccessRecorded == Spec => []PrepareSuccessLeavesRecord
<1>1. RecordInv => PrepareSuccessLeavesRecord
  BY DEF RecordInv
<1>2. QED
  BY <1>1, SpecRecordInv, PTL

\* The run stage only ever connects to the address of the task prepare
\* started (never to ":22", which an empty ContainerIP would give).
THEOREM RunTargetsJobTask == Spec => []ScriptsRunOnJobTask
<1>1. RecordInv => ScriptsRunOnJobTask
  BY DEF RecordInv
<1>2. QED
  BY <1>1, SpecRecordInv, PTL

\* The driver implements the job life cycle of JobLifecycle: its initial
\* state is one of the life cycle's, and each of its steps is a step of the
\* life cycle or leaves the mapped state unchanged.
THEOREM Refinement == Spec => ImplementsJobLifecycle
<1>1. Init => JL!JLInit
  BY DEF Init, JL!JLInit, UnitLife, Live, Absent, NoData
<1>2. RecordInv /\ [Next]_vars => [JL!JLNext]_JL!jlVars
  BY RefinementStep
<1>3. QED
  BY <1>1, <1>2, SpecRecordInv, PTL DEF Spec, ImplementsJobLifecycle, JL!JLSpec

-----------------------------------------------------------------------------
(* The abstract guarantees, carried over by the refinement.                *)

\* The driver keeps the life cycle's guarantees under the mapping: at most
\* one ECS task is ever started for a job, the run stages connect only to
\* that task's address, and once a cleanup released the record no task of
\* the job is pending or running.
THEOREM DriverJobSafe == Spec => []JL!JobSafety
<1> USE DEF JL!JobSafety
<1>1. RecordInv => JL!OneUnitPerJob
  BY DEF RecordInv, LeakInv, OneTaskPerJob, Started, JL!OneUnitPerJob,
         JL!Started, UnitLife
<1>2. RecordInv => JL!ScriptsOnJobUnit
  BY ConstantsAssumption
     DEF RecordInv, LeakInv, TypeOK, OneTaskPerJob, ScriptsRunOnJobTask,
         Started, JL!ScriptsOnJobUnit, JL!Started, UnitLife
<1>3. RecordInv => JL!ReleasedAfterUnitsStop
  BY DEF RecordInv, LeakInv, AfterCleanup, JL!ReleasedAfterUnitsStop,
         UnitLife
<1>4. QED
  BY <1>1, <1>2, <1>3, SpecRecordInv, PTL

=============================================================================
