------------------------------ MODULE ExitCode ------------------------------
(***************************************************************************)
(* One invocation of the driver binary, from main() to its exit code: the  *)
(* application's Before hooks, the command (abstractCustomCommand.Execute: *)
(* runner.InitAdapter, then the stage's CustomExecute), the After hooks,   *)
(* and main() choosing the exit code from the error                        *)
(* (Adapter.GenerateExitFromError).  The job runner passes the exit codes  *)
(* it wants for a build failure and a system failure in two environment    *)
(* variables; each is either a valid integer or not.                       *)
(***************************************************************************)
EXTENDS Integers

CONSTANTS
    BuildCode,     \* the value of BUILD_FAILURE_EXIT_CODE, when it parses
    SystemCode,    \* the value of SYSTEM_FAILURE_EXIT_CODE, when it parses
    RunnerEnvs     \* the environments the job runner may start the driver in

\* exit status of a Go program that dies of an unrecovered panic
PanicExitCode == 2

VARIABLES
    env,        \* the job runner's environment: which variables parse
    pc,         \* "before", "command", "after", "exit", "exited"
    adapter,    \* runner.adapter: allocated or nil, and its two exit codes
    logFile,    \* setLoggingToFile opened a log file (closeLogFile closes it)
    failed,     \* app.Run returns an error
    exitCode    \* the process's exit status, once exited

vars == << env, pc, adapter, logFile, failed, exitCode >>

\* the four variables InitAdapter parses: the two exit codes, pipeline id
\* and job id (an empty id is 0; a malformed one is an error)
Env == [build : BOOLEAN, system : BOOLEAN, pipeline : BOOLEAN, job : BOOLEAN]

Adapter ==
    [allocated : BOOLEAN, buildFailureExitCode : Int, systemFailureExitCode : Int]

\* the nil *Adapter of the package variable before InitAdapter
NilAdapter ==
    [allocated |-> FALSE, buildFailureExitCode |-> 0, systemFailureExitCode |-> 0]

Init ==
    /\ env \in RunnerEnvs
    /\ pc = "before"
    /\ adapter = NilAdapter
    /\ logFile = FALSE
    /\ failed = FALSE
    /\ exitCode = 0

\* setUpApplication's Before hooks, in order: set the logger,
\* loadConfigurationFile, loadCliArgsEnvVars, updateLogLevel,
\* updateLogFormat, setLoggingToFile, logStartupMessage.  The first error
\* stops them and is app.Run's error; the command is not run.
BeforeHooks ==
    /\ pc = "before"
    /\ \/ /\ pc' = "command"
          /\ logFile' \in BOOLEAN
          /\ UNCHANGED failed
       \/ /\ pc' = "after"
          /\ failed' = TRUE
          /\ UNCHANGED logFile
    /\ UNCHANGED << env, adapter, exitCode >>

\* getExitCodeFromVariable: the value, or -1 when it does not parse
ParsedCode(valid, code) == IF valid THEN code ELSE -1

\* abstractCustomCommand.Execute: runner.InitAdapter allocates the adapter
\* (zero exit codes), fills in the build-failure code, the system-failure
\* code, the job identity, and returns at the first variable that does
\* not parse, with the fields filled so far; then the stage's
\* CustomExecute runs (modelled in Driver), succeeding or not.
RunCommand ==
    /\ pc = "command"
    /\ adapter' =
         [allocated             |-> TRUE,
          buildFailureExitCode  |-> ParsedCode(env.build, BuildCode),
          systemFailureExitCode |-> IF env.build
                                    THEN ParsedCode(env.system, SystemCode)
                                    ELSE 0]
    /\ IF env.build /\ env.system /\ env.pipeline /\ env.job
          THEN failed' \in BOOLEAN
          ELSE failed' = TRUE
    /\ pc' = "after"
    /\ UNCHANGED << env, logFile, exitCode >>

\* the After hook closeLogFile: a no-op, or closing the log file, which may
\* fail; its error becomes app.Run's error when there was none
AfterHooks ==
    /\ pc = "after"
    /\ \/ UNCHANGED failed
       \/ logFile /\ failed' = TRUE
    /\ pc' = "exit"
    /\ UNCHANGED << env, adapter, logFile, exitCode >>

\* main: on an error, runner.GetAdapter() (which panics when InitAdapter
\* never ran) and GenerateExitFromError: the build-failure code for a
\* BuildFailureError (none is ever created), else the system-failure code
Exit ==
    /\ pc = "exit"
    /\ exitCode' = CASE ~failed              -> 0
                     [] ~adapter.allocated -> PanicExitCode
                     [] OTHER                -> adapter.systemFailureExitCode
    /\ pc' = "exited"
    /\ UNCHANGED << env, adapter, logFile, failed >>

Next == BeforeHooks \/ RunCommand \/ AfterHooks \/ Exit

Spec == Init /\ [][Next]_vars

-----------------------------------------------------------------------------

TypeOK ==
    /\ env \in Env
    /\ pc \in {"before", "command", "after", "exit", "exited"}
    /\ adapter \in Adapter
    /\ logFile \in BOOLEAN
    /\ failed \in BOOLEAN
    /\ exitCode \in Int

\* The exit codes the job runner configured: those of the two variables
\* that parse.
ConfiguredCodes ==
    (IF env.build THEN {BuildCode} ELSE {}) \cup
    (IF env.system THEN {SystemCode} ELSE {})

\* Spec, external interfaces: a stage that fails exits with one of the two
\* exit codes the job runner configured (build failure or system failure).
FailureExitCodeIsConfigured ==
    pc = "exited" /\ failed => exitCode \in ConfiguredCodes

\* A stage that fails never exits 0: the job runner would take it for a
\* success (for prepare: go on to run the scripts).
FailureNeverExitsZero ==
    pc = "exited" /\ failed => exitCode # 0

=============================================================================
