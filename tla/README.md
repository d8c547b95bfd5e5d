# TLA+ models of the Fargate custom-executor driver

This directory holds TLA+ specifications of the driver in `src/`, and TLC
configurations and TLAPS proofs for them. The driver lets a GitLab Runner
run a CI job in an AWS Fargate task.

## The system and how its parts interact

The job runner runs the driver binary four times per job, each time as a
separate process: `config`, `prepare`, then one `run` per script, then
`cleanup`. The processes share no memory. The only state handed from one
stage to the next is the job's metadata file (`task/metadata.go`), which
holds a `task.Data` (TaskARN, ContainerIP, PrivateKey).

| Part | Source | State it keeps | Operations |
|---|---|---|---|
| Stage orchestrator | `cmd/fargate/commands/custom/{prepare,run,cleanup,custom}.go` | none across stages; the ARN and task data in memory within a stage | prepare's seven steps plus `stopFargateTaskOnError`; run's four steps; cleanup's Get, StopTask, Clear |
| Remote compute adapter | `aws/fargate.go` | ECS and EC2 clients | RunTask, WaitUntilTaskRunning, GetContainerIP, StopTask |
| Metadata store | `task/metadata.go`, `internal/fs/fs.go` | one JSON file per job | Persist (truncate, then write), Get, Clear |
| Key pair factory | `internal/ssh/key_factory.go` | none | Create |
| SSH executor | `executors/ssh/**` | the SSH client of one Execute call | connect, executeScript (a goroutine racing the context), the deferred disconnect |
| Runner adapter | `internal/runner/adapter.go`, `cmd/fargate/main.go` | exit codes and job identity parsed from the environment | InitAdapter, GetAdapter, GenerateExitFromError |
| Termination handler | `internal/signal/termination_handler.go` | the process context | SIGTERM/SIGINT cancels the context |
| CLI application | `internal/cli/*.go` | hooks | Before hooks, then the command, then the After hooks |
| SSH service of the task image | `dockerfiles/ssh_service/main.go` | sshd and the HTTP configuration server of the task | key generation and config writes, then two servers in goroutines, a select, and a signal goroutine |

The SSH service is a separate program: it runs inside the Fargate task that
prepare starts, and it is the server the run stage's SSH executor dials.

What makes the system hard:
- Prepare has partial failures. Once RunTask has started a task, every later
  failure must stop it.
- The only handoff between stages is the file. A write that fails after
  truncating it, a kill between two steps, or a lost RunTask response
  decides whether cleanup can find the task.
- A SIGTERM cancels the context of the stage that is running, and the
  compensation reuses that context. After the grace period the job runner
  kills the process.
- The exit code is the only thing the job runner learns from a stage.

## Modules

### `Driver.tla`: the life cycle of one job

This module models the prepare, run and cleanup processes, the job runner
that starts them, ECS, and signals.

**Constants:**
- `Arns`: the task ARNs ECS may hand out.
- `NoArn` and `NoIp`: the empty strings.
- `MaxRuns` and `MaxCleanups`: bounds on the stages the job runner invokes.

**State:**
- `tasks`: the status of each ECS task.
- `file`: the metadata file. It is absent, corrupt (truncated by a failed write), or holds a `task.Data`.
- `stage` and `pc`: which process runs and its next call.
- `ctxDone`: the process context was cancelled.
- `taskARN` and `taskData`: the in-memory values of prepare, and of run or cleanup.
- `phase`, `runs` and `cleanups`: the job runner's state.
- `prepResult` and `cleanedOk`: how prepare and cleanup ended.
- `prepStops`, `cleanupStops` and `execTargets`: histories of the StopTask calls and of the hosts the run stages connected to.

**Actions.** Each call of a stage handler is one action, with every outcome the
code distinguishes:
- `StartNewFargateTask` has four outcomes:
  - success;
  - an error with no task started;
  - an error although ECS started a task (the response was lost). This outcome needs a live context: a request whose context is already cancelled is never sent. A cancel while the request is in flight is this step followed by `TerminationSignal`;
  - the `Tasks[0]` panic.
- `Persist` either writes the file, fails before touching it, or fails after truncating it.
- `WaitUntilTaskRunning` succeeds once the task runs. It fails when the task stops, when the waiter's attempts run out, or when the context is cancelled.
- `GetContainerIP` can panic on the descriptor of a stopped task.
- `StopFargateTaskOnError` has the `taskARN == ""` guard, and a StopTask failure is only logged.
- `CleanupStopTask` returns on error, keeping the file.
- `CleanupClear` checks that the file exists, then removes it.

Between two calls the environment may act: ECS starts or stops a task,
SIGTERM cancels the context, and after a SIGTERM a kill ends the process.
Data is abstracted: the address of task `t` is `t` itself. Keys and scripts
are left out, since they decide no control flow.

### `ExitCode.tla`: one invocation of the binary, from `main` to its exit status

This module models:
- the Before hooks;
- `InitAdapter`, in its parse order, leaving the adapter half filled on error;
- the command;
- the After hook (closing the log file);
- `main`, which calls `GetAdapter().GenerateExitFromError`.

Each of the four variables `InitAdapter` parses is either valid or not.

### `SshExecutor.tla`: one `Execute` call of the run stage

This module models `executor.Execute` (`executors/ssh/executor.go`) with the
code it calls in `internal/client` and `internal/session`.

**State:**
- `pc`: Execute's next step, from parsing the key to returning.
- `clientSet`, `conn` and `session`: the executor's client field, the TCP connection, and the SSH session.
- `worker`: the goroutine of `ExecuteScript`. It is not started, running, sending its result on the unbuffered channel, or done.
- `runErr` and `finishedFirst`: the command failed, and it returned before the context ended.
- `ctxDone`: the context was cancelled by the termination handler.
- `branch`, `sigint`, `scriptErr`, `discErr` and `err`: the select case taken, the SIGINT sent, and the three errors Execute merges.

**Actions:**
- `ParsePrivateKey` and `Dial` are the two halves of `connect`. `Dial` takes no context.
- `NewSession` fails with `ErrNotConnected` when no client is set. Its failure still runs the deferred disconnect.
- `Spawn` starts the goroutine.
- `EnterSelect` is the select. When both cases are ready it may take either, as Go does. When neither is ready it blocks in `waiting`.
- `ReceiveResult` and `SignalInterrupt` are its two branches.
- `CloseSession` is `executeScript`'s deferred Close.
- `Disconnect` is the deferred function of `Execute`, built on `CloseClient` (`executor.disconnect`). It keeps the execution error and reports a disconnect error only when there is none.
- The environment: `RemoteReturns` (the remote command ends, with or without an error) and `ContextCancelled` (SIGTERM).

The SSH handshake is its own step, `HandshakeAnswered`. It is taken by the
server, not by Execute, because `ssh.Dial` waits for the answer with no
timeout and no context.

### `JobLifecycle.tla`: what the driver promises about one job

This is an abstract specification with no processes. It describes the life
cycle of the job's unit and of its task record.

**State:**
- `units`: each unit is "NONE", "LIVE" or "STOPPED".
- `record`: the task record.
- `phase`: prepare, scripts, cleanup or done.
- `released`: the record was deleted.
- `connected`: the addresses scripts ran on.

**Actions:**
- `StartUnit`: at most one unit per job, in prepare.
- `UnitStops`: a unit stops at any time.
- `SaveHandle`: the record gets the started unit's handle.
- `LoseRecord`: a failed write.
- `PrepareSucceeds`: the address is written over the unit's own handle record.
- `PrepareFails`: it may stop one live unit.
- `RunScript`: scripts run on the recorded address.
- `DeleteRecord`: only once no unit is live.
- `EndScripts` and `EndJob`.

`Driver` implements it (`ImplementsJobLifecycle`) under this refinement
mapping:
- `units <- UnitLife`: a task is "NONE" before ECS knows it, "LIVE" while PENDING or RUNNING, and "STOPPED" after.
- `record <- file`.
- `released <- cleanedOk`.
- `connected <- execTargets`.

`phase` maps to itself. Every other step of `Driver` is a stutter of the
abstract spec: the process steps, the signals, reads, and a failed
StopTask.

### `SshService.tla`: the SSH service of the task image

This module models `main` of `dockerfiles/ssh_service/main.go`.

**Processes:**
- `main`, through its four setup steps (`Setup`: each succeeds or panics), then `run`'s select (`EnterSelect`).
- The signal goroutine: `Notify`, then `NotifierCancels`.
- The sshd goroutine: `SshdStart`, which fails at once on a cancelled context; `SshdKilled`; and `SshdDies` on its own.
- The HTTP server's closing goroutine: `CloserCloses`, after `<-ctx.Done()`.
- The HTTP server's serving goroutine: `ListenerStart`, with `ErrServerClosed` at once on a closed server; and `ListenerStops`.
- ECS: `StopSignal` (SIGTERM), then `StopTimeoutKill` (SIGKILL).

`Send(g)` is a send on an unbuffered channel. If run's select is blocked,
it takes the value and panics; otherwise the goroutine waits to be
selected. A SIGTERM that arrives before `signal.Notify` has its default
effect and kills the process.

### Proof modules

- `DriverProofs.tla` and `DriverRefinementProofs.tla` hold the TLAPS proofs about `Driver`.
- `JobLifecycleProofs.tla` holds the proofs about the abstract `JobLifecycle`.
- `SshExecutorProofs.tla` and `SshServiceProofs.tla` hold the proofs about the two SSH components.

Each proof module extends the module it is about and `TLAPS`.

### MC modules

`MCDriver.tla` instantiates `Arns` with two model values, so that the ARN
RunTask returns and the ARN of a task started by a lost response can differ.
The two ARNs are symmetric. `MCExitCode.tla` defines the environments the
job runner may start the driver in.

## Runs

| Run | Config | Expect | What it shows |
|---|---|---|---|
| `driver_safety` | `MCDriver.cfg` | pass | All of `PrepareSuccessLeavesRecord`, `CompensationStopsStartedTaskOnce`, `NoTaskLeftAfterCleanup`, `ScriptsRunOnJobTask` and `CleanupStopsOnlyBeforeSuccess` hold, and `Driver` implements `JobLifecycle` (`ImplementsJobLifecycle`), in every interleaving of stages, ECS, SIGTERM and kills. |
| `driver_orphan_task` | `MCDriverOrphan.cfg` | violation | `JobEndsWithNoLiveTask` fails: a task whose RunTask answer was lost is never stopped. |
| `ssh_executor_safety` | `SshExecutor.cfg` | pass | `ReportsScriptOutcome`, `ReleasedOnEveryPath` and `InterruptBeforeClose` hold in every interleaving of Execute with the command ending and the context ending. |
| `ssh_executor_liveness` | `SshExecutorLive.cfg` | pass | `CancellationEndsExecute`: once the context ends, Execute returns even if the command never ends. |
| `ssh_executor_race` | `SshExecutorRace.cfg` | violation | `FirstSignalWins` fails: a command that failed before the context ended is reported as success. |
| `ssh_executor_handshake_hang` | `SshExecutorHandshake.cfg` | violation | `CancellationEndsExecute` fails without the server's fairness: a handshake that is never answered keeps a cancelled Execute blocked. |
| `ssh_service` | `SshService.cfg` | pass | `StopsOnlyWhenAsked`: the service exits only on a signal or a real failure. `SignalEndsService`: after SIGTERM it exits on its own, before any SIGKILL. |
| `ssh_service_shutdown` | `SshServiceShutdown.cfg` | violation | `ShutdownIsClean` fails: a SIGTERM during startup can make the service panic with "ssh server exited with error". |
| `exit_code_valid_env` | `ExitCodeValidEnv.cfg` | violation | `FailureExitCodeIsConfigured` fails: a Before-hook failure exits 2, through the `GetAdapter` panic. |
| `exit_code_bad_build_code` | `ExitCodeBadBuildCode.cfg` | violation | `FailureNeverExitsZero` fails: a malformed `BUILD_FAILURE_EXIT_CODE` makes every failing stage exit 0. |

### Bounds

The bounds are two ARNs, `MaxRuns = 2` and `MaxCleanups = 2`. The
orphan-task run uses `MaxRuns = 1`.

- Two ARNs are enough for a lost RunTask response to start a different task from the one a later step knows. They are also enough for "at most one task per job" to be testable.
- Two run stages show that run never changes the file, and that a second run reads what the first read.
- Two cleanups are a failed cleanup followed by a retry, and also a retry after a successful cleanup, which is the idempotence case.

The driver has no loop beyond these stages, so larger bounds repeat the same
interleavings. `SshExecutor` and `SshService` have no constants. Their state
spaces are finite and TLC explores all of them.

### The SIGTERM panic of the SSH service

`run` selects on sshd's error channel, the HTTP server's error channel and
`ctx.Done()`. The signal goroutine prints "Received %v, exitting" and
cancels the context, so a signal is meant to end the service through the
`ctx.Done()` case. But the same context is the one given to
`exec.CommandContext`. Suppose SIGTERM arrives after `Notify` and before
`run` reaches its select. sshd's `Start` then fails at once, or sshd is
killed, and its goroutine sends the error. The select is entered with two
cases ready and may take the error: the service panics with "ssh server
exited with error" although nothing failed (`main.go:176`).

### The handshake without a timeout

`connect` calls `ssh.Dial` with a `ClientConfig` that has no `Timeout`, and
`Dial` takes no context. The TCP connect is bounded by the operating
system. The SSH handshake is not: it waits for the server. When a server
accepts the connection and never answers, a SIGTERM to the run stage
cancels a context that nothing is watching. `ssh_executor_handshake_hang`
drops the server's fairness, and TLC finds the behaviour that stays in
`handshake` forever after the context ended.

### The race in `ExecuteScript`

The spec says that when the command finishing races the context ending, the
first signal wins. The code cannot guarantee it. Suppose the command fails,
then SIGTERM arrives, and both happen before the calling goroutine reaches
`select` (`session.go:32`). Both cases are then ready, and Go picks one at
random. If the `ctx.Done()` case wins, the code sends SIGINT to a command
that has already ended and returns nil. The run stage then reports a failed
script as a success, and the goroutine stays blocked on its send.

### Fairness

`Driver` has no liveness property, and so it states no fairness. Whether a
job ends depends on calls that the driver cannot bound:
- `ExecuteScript` runs Execute, which waits for the remote script with no
  timeout, and for a handshake that may never be answered (see
  `SshExecutor`).
- Every ECS call, the waiter's DescribeTasks polls included, goes through
  the SDK's default HTTP client, which has no overall timeout.

A fairness condition on these steps would assume the property it was meant
to show. It is the job runner's timeout, a SIGTERM and then a kill, that
ends a stage that hangs.

`SshExecutor`'s `ExecuteFairSpec` assumes weak fairness of Execute's own
steps, including the TCP part of `Dial`, and nothing of the remote command.
`FairSpec` adds weak fairness of `HandshakeAnswered`: the task's sshd
answers a handshake. That is the assumption under which
`CancellationEndsExecute` holds. Without it, the property fails (see above).

`SshService`'s `FairSpec` assumes weak fairness of the service's own
goroutines. The Go scheduler runs every runnable goroutine. ECS's SIGTERM
and SIGKILL and sshd dying are not forced. `SignalEndsService` therefore
shows that the service ends without ECS's SIGKILL.

## What is proved (TLAPS)

`DriverProofs.tla` proves these for every set `Arns` and every bound:
- `TypeCorrect`: `Spec => []TypeOK`.
- `NoLeakAfterCleanup`: `Spec => []NoTaskLeftAfterCleanup`.
- `CompensationCorrect`: `Spec => []CompensationStopsStartedTaskOnce`.

The only assumption is `ConstantsAssumption`: `NoArn` and `NoIp` are
distinct and not ARNs, `MaxRuns` is a natural number, and `MaxCleanups` is
a positive natural number.

`NoTaskLeftAfterCleanup` is not inductive. A successful Clear only tells us
that the task cleanup read from the file is stopped. The inductive
invariant `LeakInv` adds why that is the only task:
- `NothingStartedYet`: nothing is started before RunTask.
- `OneTaskPerJob`: at most one task is ever started, and it is the one whose ARN prepare holds.
- `FileNamesJobTask`: the file names that task.
- `CleanupHolds`: cleanup past Get holds the file's data, and past StopTask that task is stopped.
- `StageInPhase` and `PrepareHolds`: where each process can be.
- `AfterCleanup`: after success no task is live. It also keeps the phase in cleanup or done, so that no later prepare can start another task.

The proof has three lemmas:
- `InitLeakInv`: Init implies `LeakInv`.
- `NextLeakInv`: every action preserves `LeakInv`. It has one case per action, with `NextTypeOK` proving the types first.
- `SpecLeakInv`: `Spec => []LeakInv`, by PTL.

`CompensationStopsStartedTaskOnce` is not inductive either. A step of
`stopFargateTaskOnError` appends to `prepStops`, and the history then has one
entry only because it was empty before. `CompensationInv` adds that, while
the job is in prepare, nothing has been stopped and prepare has no result.
It also includes `LeakInv`, which gives two facts:
- a prepare process runs only in the prepare phase;
- `taskARN` is still "" at the two failures before RunTask.

`InitCompensationInv` and `NextCompensationInv` establish it. The step
proof groups the actions into those that leave prepare's outcome, ARN and
stops alone, and the prepare steps, each treated on its own.

`DriverRefinementProofs.tla` proves these:
- `PrepareSuccessRecorded`: `Spec => []PrepareSuccessLeavesRecord`.
- `RunTargetsJobTask`: `Spec => []ScriptsRunOnJobTask`.
- `Refinement`: `Spec => ImplementsJobLifecycle`, that is, `Driver` implements `JobLifecycle` under the mapping above.

All three rest on the inductive invariant `RecordInv`. It is `LeakInv` plus
these facts:
- `HandleRecorded`: between the first and the second write of prepare, the file holds the handle record.
- `RunHolds`: a run stage at Execute holds the file's data.
- Nothing has run a script during prepare.
- The two properties themselves.

`HandleRecorded` is what makes the second write a step of `PrepareSucceeds`.
That step is allowed only over the unit's own handle record.

`RefinementStep` shows that `RecordInv /\ [Next]_vars` implies a step or a
stutter of `JobLifecycle`. It has one case per action, and three lemmas
serve it:
- `StutterStep`: a step that leaves the mapped state alone.
- `StopStep`: a stop is `UnitStops` or a stutter.
- `PrepareFailsStep`.

`UnitLifeUnchanged` lets the steps that leave `tasks` alone reuse the
mapping. The theorem then follows by PTL from `Init => JL!JLInit`, the step
lemma, and `SpecRecordInv`.

`DriverJobSafe` shows `Spec => []JL!JobSafety`. It proves each conjunct
of the mapped `JobSafety` from `RecordInv`: `OneTaskPerJob` gives one
started unit, `ScriptsRunOnJobTask` with `TypeOK` and `ConstantsAssumption`
(neither `NoArn` nor `NoIp` is a handle) puts every connected address on
that started unit, and `AfterCleanup` leaves no unit `LIVE`. Under the
mapping, `JobSafety` says three things about the driver:
- at most one ECS task is started per job;
- the run stages connect only to that task's address;
- once cleanup has released the record, no task of the job is pending or running.

**Idempotent cleanup.** `DriverProofs` proves `CleanupIdempotent`:
`Spec => CleanupStopsOnlyBeforeSuccess`. It is an action property, and it
needs a reason why a retried cleanup cannot reach StopTask. That reason is
`CleanedRecordGone`: after a successful cleanup the file is absent. Prepare,
the only writer, never runs again, because `AfterCleanup` and
`StageInPhase` keep the job out of the prepare phase. Together with
`CleanupHolds`, `NoStopAfterCleaned` shows that no step after success
changes `cleanupStops`, since a cleanup at StopTask holds data read from
the file. TLC checked `CleanedRecordGone` as an invariant of
`driver_safety` before it was proved.

**The abstract life cycle.** `JobLifecycleProofs` proves
`JobLifecycleSafe`: `JLSpec => []JobSafety`, for every set of handles. The
inductive invariant `JLInv` adds these to `JobSafety` and the types:
- the record names only a started unit;
- while scripts run, the record holds that unit's own address;
- a released job is past prepare, the only phase that starts units.

**The SSH executor.** `SshExecutorProofs` proves, with no assumption on
constants (the module has none):
- `ReleasedOnEveryPathHolds`: `Spec => []ReleasedOnEveryPath`.
- `ReportsOutcome`: `Spec => []ReportsScriptOutcome`.
- `InterruptPrecedesClose`: `Spec => InterruptBeforeClose`.

All three rest on `ExecInv`, which was checked by TLC before the proof.
It has two parts:
- `ResourcesInv`: an open connection is held by the client, and only between the handshake and the disconnect. The session exists only after the handshake, and is open only between the spawn and the deferred Close.
- `OutcomeInv`: which errors Execute has merged at each step. `err` is set only on return. A select branch fixes `scriptErr`: the command's error on the finished branch; nil with SIGINT sent, or the signal error, on the cancelled branch. With no branch taken, a return carries the connect, key or session error.

`InterruptBeforeClose` follows because `CloseSession` is the only step
that closes the session, and at `closeSession` a branch was taken. The
finished branch has a worker that already sent, so the command is not
running. The cancelled branch has sent SIGINT or failed to.

**The SSH service.** `SshServiceProofs` proves `StopsOnlyOnRequest`:
`Spec => []StopsOnlyWhenAsked`. Its inductive invariant `ServiceInv`
traces every exit back to a cause:
- a pending signal, or a cancelled context, follows SIGTERM;
- a closed HTTP server follows the context's end;
- a pending error on a server's channel follows a signal or a failure.

## What is only model-checked

- `CancellationEndsExecute` and `SignalEndsService`. These are liveness properties, checked by TLC on finite state spaces. Liveness, fairness and ENABLED are out of reach of the TLAPS backends.
- The violation runs. Each of them shows a counterexample, and there is nothing to prove about it.
- Everything in `ExitCode`. Its only properties are the two that the code violates.

## Not modelled

- **The `config` stage.** It is one JSON write to standard output.
- **Configuration loading, logging, encoding and the environment resolver.** These are pure I/O. Their only effect on control flow, a failing hook, is in `ExitCode`.
- **`GenerateFilename`.** It is a sha256 over the job identity. The model has one job, hence one file.
- **The SSH service's data.** Its key generation, file contents and served configuration are data.
- **The output of the remote command.** Its streams are data, which decides no control flow in `Execute`.

## Plan

1. Compose `SshExecutor` with `Driver`'s run stage, so that an interrupted run's nil error reaches the job runner's view of the job.
2. Compose `SshService` with the executor's handshake: a service still starting when the run stage dials.
3. Prove type correctness and the inductive invariants of `Driver`'s composition with `SshExecutor`, once that composition exists.
