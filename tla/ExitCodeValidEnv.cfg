CONSTANTS
    BuildCode = 1
    SystemCode = 3
    RunnerEnvs <- MCAllValid
SPECIFICATION Spec
\* the process exits
CHECK_DEADLOCK FALSE
INVARIANT FailureExitCodeIsConfigured
