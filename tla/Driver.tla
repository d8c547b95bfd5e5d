------------------------------- MODULE Driver -------------------------------
(***************************************************************************)
(* The life of one CI job on the Fargate custom-executor driver: the job   *)
(* runner invokes the "prepare", "run" and "cleanup" stages one after the  *)
(* other, each as a separate process of the driver, and the only state    *)
(* handed from one stage to the next is the metadata file of the job      *)
(* (task/metadata.go).  AWS ECS is modelled by the status of every task    *)
(* it may start.  Between two blocking calls of a stage the environment    *)
(* may act: ECS starts or stops a task, the job runner sends SIGTERM       *)
(* (which cancels the stage's context) and, after its grace period,        *)
(* kills the process.                                                      *)
(*                                                                         *)
(* Data is abstracted: the address of task t is represented by t itself,   *)
(* the private key and the script are left out (they do not decide any    *)
(* control flow of the orchestration).                                     *)
(***************************************************************************)
EXTENDS Naturals, Sequences

CONSTANTS
    Arns,          \* ARNs ECS may hand out for a new task
    NoArn,         \* the empty string "" returned by RunTask on error
    NoIp,          \* the empty ContainerIP of task.Data before it is known
    MaxRuns,       \* bound on the "run" stages the job runner invokes
    MaxCleanups    \* bound on the "cleanup" invocations (a retried cleanup)

ASSUME ConstantsAssumption ==
    /\ NoArn \notin Arns
    /\ NoIp \notin Arns
    /\ NoArn # NoIp
    /\ MaxRuns \in Nat
    /\ MaxCleanups \in Nat \ {0}

VARIABLES
    tasks,        \* ECS: the status of every task
    file,         \* the job's metadata file
    stage,        \* the driver process running now: "none", "prepare", "run", "cleanup"
    pc,           \* the next call of that process's handler
    ctxDone,      \* the process's context was cancelled (SIGTERM/SIGINT)
    taskARN,      \* prepare: the ARN RunTask returned (NoArn until it does)
    taskData,     \* run/cleanup: the task.Data read from the metadata file
    phase,        \* the job runner: "prepare", "scripts", "cleanup", "done"
    runs,         \* the job runner: "run" stages invoked
    cleanups,     \* the job runner: "cleanup" stages invoked
    prepResult,   \* how prepare ended: "none", "ok", "err", "crash"
    cleanedOk,    \* some cleanup returned without error
    prepStops,    \* history: the ARNs prepare passed to StopTask
    cleanupStops, \* history: the ARNs cleanup passed to StopTask
    execTargets   \* history: the hosts run connected to

vars == << tasks, file, stage, pc, ctxDone, taskARN, taskData, phase, runs,
           cleanups, prepResult, cleanedOk, prepStops, cleanupStops, execTargets >>

TaskStatus == {"NONE", "PENDING", "RUNNING", "STOPPED"}

\* task.Data: TaskARN and ContainerIP (the private key is left out)
Data == [arn : Arns \cup {NoArn}, ip : Arns \cup {NoIp}]

\* the zero value task.Data{}
NoData == [arn |-> NoArn, ip |-> NoIp]

\* The metadata file: absent, holding a JSON document that does not decode
\* (a WriteFile that failed after truncating it), or holding a task.Data.
FileState == [kind : {"absent", "corrupt", "data"}, data : Data]

Absent == [kind |-> "absent", data |-> NoData]

Corrupt == [kind |-> "corrupt", data |-> NoData]

Stored(d) == [kind |-> "data", data |-> d]

PrepareSteps == {"init", "keygen", "runTask", "persistARN", "wait", "getIP",
                 "persistIP", "compensate"}

RunSteps == {"args", "read", "get", "exec"}

CleanupSteps == {"init", "get", "stop", "clear"}

Live(t) == tasks[t] \in {"PENDING", "RUNNING"}

-----------------------------------------------------------------------------
(* Stage processes returning.  The job runner goes on with the scripts    *)
(* only after a successful prepare; after anything else it goes to        *)
(* cleanup, which it always runs.                                         *)

PrepareReturns(res) ==
    /\ stage' = "none"
    /\ pc' = "idle"
    /\ prepResult' = res
    /\ phase' = IF res = "ok" THEN "scripts" ELSE "cleanup"

StageReturns ==
    /\ stage' = "none"
    /\ pc' = "idle"

-----------------------------------------------------------------------------
(* prepare: PrepareCommand.CustomExecute                                    *)

\* abstractCustomCommand.Execute and PrepareCommand.init: the runner adapter
\* and the AWS session; a failure returns before anything else.
PrepareInit ==
    /\ stage = "prepare" /\ pc = "init"
    /\ \/ pc' = "keygen" /\ UNCHANGED << stage, prepResult, phase >>
       \/ PrepareReturns("err")
    /\ UNCHANGED << tasks, file, ctxDone, taskARN, taskData, runs, cleanups,
                    cleanedOk, prepStops, cleanupStops, execTargets >>

\* keyFactory.Create(defaultBitSize)
CreateKeyPair ==
    /\ stage = "prepare" /\ pc = "keygen"
    /\ \/ pc' = "runTask" /\ UNCHANGED << stage, prepResult, phase >>
       \/ PrepareReturns("err")
    /\ UNCHANGED << tasks, file, ctxDone, taskARN, taskData, runs, cleanups,
                    cleanedOk, prepStops, cleanupStops, execTargets >>

\* startNewFargateTask / awsFargate.RunTask.  On success ECS has a new
\* PENDING task and the ARN is returned.  On error the ARN is "" and the
\* handler goes to stopFargateTaskOnError; a request sent on a live
\* context may nevertheless have started a task whose response was lost
\* (a cancel in flight is this step followed by TerminationSignal; a
\* context already cancelled sends nothing).  An answer with an empty
\* Tasks list makes Tasks[0] panic.
StartNewFargateTask ==
    /\ stage = "prepare" /\ pc = "runTask"
    /\ \/ /\ ~ctxDone
          /\ \E t \in Arns :
               /\ tasks[t] = "NONE"
               /\ tasks' = [tasks EXCEPT ![t] = "PENDING"]
               /\ taskARN' = t
          /\ pc' = "persistARN"
          /\ UNCHANGED << stage, prepResult, phase >>
       \/ /\ UNCHANGED << tasks, taskARN >>
          /\ pc' = "compensate"
          /\ UNCHANGED << stage, prepResult, phase >>
       \/ /\ ~ctxDone
          /\ \E t \in Arns :
               /\ tasks[t] = "NONE"
               /\ tasks' = [tasks EXCEPT ![t] = "PENDING"]
          /\ UNCHANGED taskARN
          /\ pc' = "compensate"
          /\ UNCHANGED << stage, prepResult, phase >>
       \/ /\ ~ctxDone
          /\ UNCHANGED << tasks, taskARN >>
          /\ PrepareReturns("crash")
    /\ UNCHANGED << file, ctxDone, taskData, runs, cleanups, cleanedOk,
                    prepStops, cleanupStops, execTargets >>

\* fsMetadataManager.Persist: WriteFile truncates the file, then writes it.
\* It fails either before touching the file or after truncating it.
Persist(d, next) ==
    \/ file' = Stored(d) /\ pc' = next
    \/ file' \in {file, Corrupt} /\ pc' = "compensate"

\* (mutant) the error of the first write is not checked
PersistTaskARNUnchecked ==
    /\ stage = "prepare" /\ pc = "persistARN"
    /\ file' \in {Stored([arn |-> taskARN, ip |-> NoIp]), file, Corrupt}
    /\ pc' = "wait"
    /\ UNCHANGED << tasks, stage, ctxDone, taskARN, taskData, phase, runs,
                    cleanups, prepResult, cleanedOk, prepStops, cleanupStops,
                    execTargets >>

\* persistDataForLaterStages(task.Data{TaskARN, PrivateKey})
PersistTaskARN ==
    /\ stage = "prepare" /\ pc = "persistARN"
    /\ Persist([arn |-> taskARN, ip |-> NoIp], "wait")
    /\ UNCHANGED << tasks, stage, ctxDone, taskARN, taskData, phase, runs,
                    cleanups, prepResult, cleanedOk, prepStops, cleanupStops,
                    execTargets >>

\* waitFargateTaskReady, first half: WaitUntilTasksRunningWithContext polls
\* DescribeTasks; it succeeds once the task is RUNNING, fails once it is
\* STOPPED, when its attempts run out, or when the context is cancelled.
WaitUntilTaskRunning ==
    /\ stage = "prepare" /\ pc = "wait"
    /\ \/ tasks[taskARN] = "RUNNING" /\ ~ctxDone /\ pc' = "getIP"
       \/ tasks[taskARN] \in {"PENDING", "STOPPED"} /\ pc' = "compensate"
       \/ ctxDone /\ pc' = "compensate"
    /\ UNCHANGED << tasks, file, stage, ctxDone, taskARN, taskData, phase,
                    runs, cleanups, prepResult, cleanedOk, prepStops,
                    cleanupStops, execTargets >>

\* waitFargateTaskReady, second half: GetContainerIP describes the task and
\* reads the address of its network interface (through EC2 for a public
\* address).  The descriptor of a task that has stopped may lack the
\* interface, and indexing it panics.
GetContainerIP ==
    /\ stage = "prepare" /\ pc = "getIP"
    /\ \/ /\ ~ctxDone
          /\ taskData' = [arn |-> taskARN, ip |-> taskARN]
          /\ pc' = "persistIP"
          /\ UNCHANGED << stage, prepResult, phase >>
       \/ /\ UNCHANGED taskData
          /\ pc' = "compensate"
          /\ UNCHANGED << stage, prepResult, phase >>
       \/ /\ tasks[taskARN] = "STOPPED"
          /\ UNCHANGED taskData
          /\ PrepareReturns("crash")
    /\ UNCHANGED << tasks, file, ctxDone, taskARN, runs, cleanups, cleanedOk,
                    prepStops, cleanupStops, execTargets >>

\* (mutant) the error of the second write is not checked
PersistContainerIPUnchecked ==
    /\ stage = "prepare" /\ pc = "persistIP"
    /\ file' \in {Stored(taskData), file, Corrupt}
    /\ PrepareReturns("ok")
    /\ UNCHANGED << tasks, ctxDone, taskARN, taskData, runs, cleanups,
                    cleanedOk, prepStops, cleanupStops, execTargets >>

\* persistDataForLaterStages(taskDetails) with ContainerIP set; success of
\* this write is the success of prepare.
PersistContainerIP ==
    /\ stage = "prepare" /\ pc = "persistIP"
    /\ \/ /\ file' = Stored(taskData)
          /\ PrepareReturns("ok")
       \/ /\ file' \in {file, Corrupt}
          /\ pc' = "compensate"
          /\ UNCHANGED << stage, prepResult, phase >>
    /\ UNCHANGED << tasks, ctxDone, taskARN, taskData, runs, cleanups,
                    cleanedOk, prepStops, cleanupStops, execTargets >>

\* StopTask on ECS: a cancelled context fails the call; otherwise it may
\* fail, or it sets the task's desired status to STOPPED (a task that has
\* already stopped stays stopped).
StopTask(t) ==
    \/ ~ctxDone /\ t \in Arns /\ tasks' = [tasks EXCEPT ![t] = "STOPPED"]
    \/ UNCHANGED tasks

\* (mutant) the taskARN == "" guard is dropped
StopFargateTaskOnErrorUnguarded ==
    /\ stage = "prepare" /\ pc = "compensate"
    /\ StopTask(taskARN)
    /\ prepStops' = Append(prepStops, taskARN)
    /\ PrepareReturns("err")
    /\ UNCHANGED << file, ctxDone, taskARN, taskData, runs, cleanups,
                    cleanedOk, cleanupStops, execTargets >>

\* stopFargateTaskOnError, then the error is returned.  Nothing is stopped
\* when RunTask returned "".  A failing StopTask is only logged.
StopFargateTaskOnError ==
    /\ stage = "prepare" /\ pc = "compensate"
    /\ \/ /\ taskARN = NoArn
          /\ UNCHANGED << tasks, prepStops >>
       \/ /\ taskARN # NoArn
          /\ StopTask(taskARN)
          /\ prepStops' = Append(prepStops, taskARN)
    /\ PrepareReturns("err")
    /\ UNCHANGED << file, ctxDone, taskARN, taskData, runs, cleanups,
                    cleanedOk, cleanupStops, execTargets >>

-----------------------------------------------------------------------------
(* run: RunCommand.CustomExecute                                            *)

\* fewer than two arguments: ErrMissingRequiredArguments before anything
RunCheckArgs ==
    /\ stage = "run" /\ pc = "args"
    /\ \/ pc' = "read" /\ UNCHANGED stage
       \/ StageReturns
    /\ UNCHANGED << tasks, file, ctxDone, taskARN, taskData, phase, runs,
                    cleanups, prepResult, cleanedOk, prepStops, cleanupStops,
                    execTargets >>

\* readFileContent(scriptPath)
ReadScript ==
    /\ stage = "run" /\ pc = "read"
    /\ \/ pc' = "get" /\ UNCHANGED stage
       \/ StageReturns
    /\ UNCHANGED << tasks, file, ctxDone, taskARN, taskData, phase, runs,
                    cleanups, prepResult, cleanedOk, prepStops, cleanupStops,
                    execTargets >>

\* fsMetadataManager.Get: a missing file is os.ErrNotExist, a corrupt one a
\* decoding error, and reading the file may fail.
GetMetadata(next) ==
    \/ /\ file.kind = "data"
       /\ taskData' = file.data
       /\ pc' = next
       /\ UNCHANGED stage
    \/ /\ UNCHANGED taskData
       /\ StageReturns

\* obtainTaskData
ObtainTaskData ==
    /\ stage = "run" /\ pc = "get"
    /\ GetMetadata("exec")
    /\ UNCHANGED << tasks, file, ctxDone, taskARN, phase, runs, cleanups,
                    prepResult, cleanedOk, prepStops, cleanupStops, execTargets >>

\* executeScriptOnTaskContainer: the SSH executor connects to
\* ContainerIP:port and runs the script (its inner steps are the module
\* SshExecutor).  An empty ContainerIP makes the address ":22", the local
\* host.  Whatever Execute returns, run returns.
ExecuteScript ==
    /\ stage = "run" /\ pc = "exec"
    /\ execTargets' = execTargets \cup {taskData.ip}
    /\ StageReturns
    /\ UNCHANGED << tasks, file, ctxDone, taskARN, taskData, phase, runs,
                    cleanups, prepResult, cleanedOk, prepStops, cleanupStops >>

-----------------------------------------------------------------------------
(* cleanup: CleanupCommand.CustomExecute                                    *)

\* abstractCustomCommand.Execute and CleanupCommand.init
CleanupInit ==
    /\ stage = "cleanup" /\ pc = "init"
    /\ \/ pc' = "get" /\ UNCHANGED stage
       \/ StageReturns
    /\ UNCHANGED << tasks, file, ctxDone, taskARN, taskData, phase, runs,
                    cleanups, prepResult, cleanedOk, prepStops, cleanupStops,
                    execTargets >>

\* metadataManager.Get
CleanupGetData ==
    /\ stage = "cleanup" /\ pc = "get"
    /\ GetMetadata("stop")
    /\ UNCHANGED << tasks, file, ctxDone, taskARN, phase, runs, cleanups,
                    prepResult, cleanedOk, prepStops, cleanupStops, execTargets >>

\* (mutant) the error of StopTask is not checked
CleanupStopTaskUnchecked ==
    /\ stage = "cleanup" /\ pc = "stop"
    /\ cleanupStops' = Append(cleanupStops, taskData.arn)
    /\ \/ /\ ~ctxDone
          /\ taskData.arn \in Arns
          /\ tasks' = [tasks EXCEPT ![taskData.arn] = "STOPPED"]
       \/ UNCHANGED tasks
    /\ pc' = "clear"
    /\ UNCHANGED << stage, file, ctxDone, taskARN, taskData, phase, runs,
                    cleanups, prepResult, cleanedOk, prepStops, execTargets >>

\* awsFargate.StopTask(taskData.TaskARN); on error return, keeping the file
CleanupStopTask ==
    /\ stage = "cleanup" /\ pc = "stop"
    /\ cleanupStops' = Append(cleanupStops, taskData.arn)
    /\ \/ /\ ~ctxDone
          /\ taskData.arn \in Arns
          /\ tasks' = [tasks EXCEPT ![taskData.arn] = "STOPPED"]
          /\ pc' = "clear"
          /\ UNCHANGED stage
       \/ /\ UNCHANGED tasks
          /\ StageReturns
    /\ UNCHANGED << file, ctxDone, taskARN, taskData, phase, runs, cleanups,
                    prepResult, cleanedOk, prepStops, execTargets >>

\* (mutant) Clear reports success without removing the file
CleanupClearKeepsFile ==
    /\ stage = "cleanup" /\ pc = "clear"
    /\ cleanedOk' = TRUE
    /\ StageReturns
    /\ UNCHANGED << tasks, file, ctxDone, taskARN, taskData, phase, runs,
                    cleanups, prepResult, prepStops, cleanupStops, execTargets >>

\* metadataManager.Clear: checks the file exists, then removes it
CleanupClear ==
    /\ stage = "cleanup" /\ pc = "clear"
    /\ \/ /\ file.kind # "absent"
          /\ file' = Absent
          /\ cleanedOk' = TRUE
       \/ UNCHANGED << file, cleanedOk >>
    /\ StageReturns
    /\ UNCHANGED << tasks, ctxDone, taskARN, taskData, phase, runs, cleanups,
                    prepResult, prepStops, cleanupStops, execTargets >>

-----------------------------------------------------------------------------
(* The job runner (custom executor): prepare once, then any number of run  *)
(* stages (it goes on after a failed one), then cleanup, which an operator *)
(* may retry.  A new process starts with a fresh context.                  *)

Invoke(s, first) ==
    /\ stage = "none"
    /\ stage' = s
    /\ pc' = first
    /\ ctxDone' = FALSE

InvokePrepare ==
    /\ phase = "prepare"
    /\ Invoke("prepare", "init")
    /\ UNCHANGED << tasks, file, taskARN, taskData, phase, runs, cleanups,
                    prepResult, cleanedOk, prepStops, cleanupStops, execTargets >>

InvokeRun ==
    /\ phase = "scripts" /\ runs < MaxRuns
    /\ Invoke("run", "args")
    /\ runs' = runs + 1
    /\ taskData' = NoData
    /\ UNCHANGED << tasks, file, taskARN, phase, cleanups, prepResult,
                    cleanedOk, prepStops, cleanupStops, execTargets >>

FinishScripts ==
    /\ phase = "scripts" /\ stage = "none"
    /\ phase' = "cleanup"
    /\ UNCHANGED << tasks, file, stage, pc, ctxDone, taskARN, taskData, runs,
                    cleanups, prepResult, cleanedOk, prepStops, cleanupStops,
                    execTargets >>

InvokeCleanup ==
    /\ phase = "cleanup" /\ cleanups < MaxCleanups
    /\ Invoke("cleanup", "init")
    /\ cleanups' = cleanups + 1
    /\ taskData' = NoData
    /\ UNCHANGED << tasks, file, taskARN, phase, runs, prepResult, cleanedOk,
                    prepStops, cleanupStops, execTargets >>

FinishJob ==
    /\ phase = "cleanup" /\ stage = "none" /\ cleanups > 0
    /\ phase' = "done"
    /\ UNCHANGED << tasks, file, stage, pc, ctxDone, taskARN, taskData, runs,
                    cleanups, prepResult, cleanedOk, prepStops, cleanupStops,
                    execTargets >>

-----------------------------------------------------------------------------
(* The environment: ECS and the signals of the job runner.                 *)

TaskReachesRunning ==
    /\ \E t \in Arns :
         /\ tasks[t] = "PENDING"
         /\ tasks' = [tasks EXCEPT ![t] = "RUNNING"]
    /\ UNCHANGED << file, stage, pc, ctxDone, taskARN, taskData, phase, runs,
                    cleanups, prepResult, cleanedOk, prepStops, cleanupStops,
                    execTargets >>

\* the task's essential container exits or fails to start
TaskStopsItself ==
    /\ \E t \in Arns :
         /\ Live(t)
         /\ tasks' = [tasks EXCEPT ![t] = "STOPPED"]
    /\ UNCHANGED << file, stage, pc, ctxDone, taskARN, taskData, phase, runs,
                    cleanups, prepResult, cleanedOk, prepStops, cleanupStops,
                    execTargets >>

\* TerminationHandler.HandleSignals: SIGTERM/SIGINT cancels the context
TerminationSignal ==
    /\ stage # "none" /\ ~ctxDone
    /\ ctxDone' = TRUE
    /\ UNCHANGED << tasks, file, stage, pc, taskARN, taskData, phase, runs,
                    cleanups, prepResult, cleanedOk, prepStops, cleanupStops,
                    execTargets >>

\* the job runner kills the process once the grace period after SIGTERM
\* is over
GracefulKill ==
    /\ stage # "none" /\ ctxDone
    /\ IF stage = "prepare" THEN PrepareReturns("crash")
                            ELSE StageReturns /\ UNCHANGED << prepResult, phase >>
    /\ UNCHANGED << tasks, file, ctxDone, taskARN, taskData, runs, cleanups,
                    cleanedOk, prepStops, cleanupStops, execTargets >>

-----------------------------------------------------------------------------

Init ==
    /\ tasks = [t \in Arns |-> "NONE"]
    /\ file = Absent
    /\ stage = "none"
    /\ pc = "idle"
    /\ ctxDone = FALSE
    /\ taskARN = NoArn
    /\ taskData = NoData
    /\ phase = "prepare"
    /\ runs = 0
    /\ cleanups = 0
    /\ prepResult = "none"
    /\ cleanedOk = FALSE
    /\ prepStops = << >>
    /\ cleanupStops = << >>
    /\ execTargets = {}

PrepareStep ==
    \/ PrepareInit \/ CreateKeyPair \/ StartNewFargateTask \/ PersistTaskARN
    \/ WaitUntilTaskRunning \/ GetContainerIP \/ PersistContainerIP
    \/ StopFargateTaskOnError

RunStep == RunCheckArgs \/ ReadScript \/ ObtainTaskData \/ ExecuteScript

CleanupStep == CleanupInit \/ CleanupGetData \/ CleanupStopTask \/ CleanupClear

RunnerStep ==
    InvokePrepare \/ InvokeRun \/ FinishScripts \/ InvokeCleanup \/ FinishJob

Next ==
    \/ PrepareStep \/ RunStep \/ CleanupStep \/ RunnerStep
    \/ TaskReachesRunning \/ TaskStopsItself
    \/ TerminationSignal \/ GracefulKill

Spec == Init /\ [][Next]_vars

-----------------------------------------------------------------------------
(* Properties                                                              *)

TypeOK ==
    /\ tasks \in [Arns -> TaskStatus]
    /\ file \in FileState
    /\ stage \in {"none", "prepare", "run", "cleanup"}
    /\ pc \in {"idle"} \cup PrepareSteps \cup RunSteps \cup CleanupSteps
    /\ ctxDone \in BOOLEAN
    /\ taskARN \in Arns \cup {NoArn}
    /\ taskData \in Data
    /\ phase \in {"prepare", "scripts", "cleanup", "done"}
    /\ runs \in 0..MaxRuns
    /\ cleanups \in 0..MaxCleanups
    /\ prepResult \in {"none", "ok", "err", "crash"}
    /\ cleanedOk \in BOOLEAN
    /\ prepStops \in Seq(Arns \cup {NoArn})
    /\ cleanupStops \in Seq(Arns \cup {NoArn})
    /\ execTargets \subseteq Arns \cup {NoIp}

\* Compensation in prepare (stopFargateTaskOnError): when prepare returns an
\* error, StopTask was called exactly once, on the ARN RunTask returned, if
\* RunTask succeeded, and never if RunTask failed.
CompensationStopsStartedTaskOnce ==
    prepResult = "err" =>
        prepStops = IF taskARN = NoArn THEN << >> ELSE << taskARN >>

\* No silent leak: once a cleanup has returned success, no task of the job
\* is still pending or running on ECS, whatever failed, was cancelled or
\* was killed in prepare, run or an earlier cleanup.
NoTaskLeftAfterCleanup ==
    cleanedOk => \A t \in Arns : ~Live(t)

\* The run stage only ever connects to the address of the task this job's
\* prepare started (never to ":22", the runner's own host, which an empty
\* ContainerIP in the metadata file would give).
ScriptsRunOnJobTask ==
    \A h \in execTargets : h = taskARN

\* When prepare returns success (and the job runner goes on with the run
\* stages), the metadata file holds a task.Data with the ARN RunTask returned
\* and that task's address, and it keeps holding it for every run stage:
\* neither write of prepare was skipped or left half done.
PrepareSuccessLeavesRecord ==
    phase = "scripts" =>
        /\ file.kind = "data"
        /\ file.data = [arn |-> taskARN, ip |-> taskARN]

\* Spec (data model, life cycle): the record is written right after RunTask
\* "so Cleanup can always find and stop the unit even if a later Prepare
\* step fails": when the job is over, no task it started is still pending
\* or running on ECS.
JobEndsWithNoLiveTask ==
    phase = "done" => \A t \in Arns : ~Live(t)

\* Cleanup is idempotent: after a cleanup has returned success, a retried
\* cleanup fails on the missing metadata file and never calls StopTask
\* again.
CleanupStopsOnlyBeforeSuccess ==
    [][cleanedOk => cleanupStops' = cleanupStops]_vars

-----------------------------------------------------------------------------
(* Refinement: the driver implements the job life cycle of JobLifecycle.   *)
(* A task is a unit; PENDING and RUNNING are both a live unit, so ECS      *)
(* starting a task is a stutter of the abstract specification.  The        *)
(* metadata file is the task record, a successful cleanup the release of   *)
(* the job, and the hosts run connected to are the addresses scripts ran   *)
(* on.  The processes, their contexts and their in-memory values are      *)
(* hidden.                                                                 *)

UnitLife ==
    [t \in Arns |-> IF tasks[t] = "NONE" THEN "NONE"
                    ELSE IF Live(t) THEN "LIVE" ELSE "STOPPED"]

JL == INSTANCE JobLifecycle
        WITH units <- UnitLife, record <- file, released <- cleanedOk,
             connected <- execTargets

\* Every step of the stages, the job runner, ECS and the signals is a step
\* of the promised life cycle or leaves it unchanged: one unit per job,
\* started in prepare; the record names it, gets its address only over its
\* handle (the first write is checked before waiting), is complete when
\* prepare succeeds, and is deleted only when no unit is live.
ImplementsJobLifecycle == JL!JLSpec

-----------------------------------------------------------------------------
(* The strengthening of the invariants that the proofs in DriverProofs    *)
(* are built on, each part checked by TLC as well.                        *)

Started(t) == tasks[t] # "NONE"

\* a stage process only runs in its phase of the job
StageInPhase ==
    /\ stage = "prepare" => phase = "prepare"
    /\ stage = "run" => phase = "scripts"
    /\ stage = "cleanup" => phase = "cleanup"

\* what prepare holds after RunTask returned an ARN
PrepareHolds ==
    /\ stage = "prepare" /\ pc \in {"persistARN", "wait", "getIP", "persistIP"}
         => taskARN \in Arns
    /\ stage = "prepare" /\ pc = "persistIP"
         => taskData = [arn |-> taskARN, ip |-> taskARN]

\* nothing is started before prepare calls RunTask
NothingStartedYet ==
    phase = "prepare" /\ (stage = "none" \/ pc \in {"init", "keygen", "runTask"})
        => /\ \A t \in Arns : tasks[t] = "NONE"
           /\ taskARN = NoArn
           /\ prepStops = << >>

\* RunTask is called once per job: at most one task is started, and it is
\* the one whose ARN prepare holds, when RunTask returned one
OneTaskPerJob ==
    /\ \A t, u \in Arns : Started(t) /\ Started(u) => t = u
    /\ taskARN # NoArn => taskARN \in Arns /\ Started(taskARN)

\* the metadata file names the job's task
FileNamesJobTask ==
    file.kind = "data" => taskARN # NoArn /\ file.data.arn = taskARN

\* cleanup past Get holds the file's data; past StopTask, its task is stopped
CleanupHolds ==
    /\ stage = "cleanup" /\ pc \in {"stop", "clear"}
         => file.kind = "data" /\ taskData = file.data
    /\ stage = "cleanup" /\ pc = "clear" => tasks[taskData.arn] = "STOPPED"

\* after a successful cleanup the job is over for ECS
AfterCleanup ==
    cleanedOk => /\ phase \in {"cleanup", "done"}
                 /\ \A t \in Arns : ~Live(t)

LeakInv ==
    /\ TypeOK
    /\ StageInPhase
    /\ PrepareHolds
    /\ NothingStartedYet
    /\ OneTaskPerJob
    /\ FileNamesJobTask
    /\ CleanupHolds
    /\ AfterCleanup

\* a successful cleanup removed the record, and no stage writes it again
CleanedRecordGone ==
    cleanedOk => file.kind = "absent"

\* prepare past its first write holds the handle record it wrote
HandleRecorded ==
    stage = "prepare" /\ pc \in {"wait", "getIP", "persistIP"}
        => file = Stored([arn |-> taskARN, ip |-> NoIp])

\* run about to execute holds what the file holds
RunHolds ==
    stage = "run" /\ pc = "exec" => file.kind = "data" /\ taskData = file.data

\* the strengthening behind the refinement and the record properties
RecordInv ==
    /\ LeakInv
    /\ HandleRecorded
    /\ RunHolds
    /\ phase = "prepare" => execTargets = {}
    /\ PrepareSuccessLeavesRecord
    /\ ScriptsRunOnJobTask

\* prepare calls StopTask only from stopFargateTaskOnError, which returns
\* right after it: while the job is in prepare nothing has been stopped and
\* prepare has not ended
CompensationInv ==
    /\ LeakInv
    /\ phase = "prepare" => prepStops = << >> /\ prepResult = "none"
    /\ CompensationStopsStartedTaskOnce

=============================================================================
