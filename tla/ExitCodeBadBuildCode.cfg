CONSTANTS
    BuildCode = 1
    SystemCode = 3
    RunnerEnvs <- MCBadBuildCode
SPECIFICATION Spec
\* the process exits
CHECK_DEADLOCK FALSE
INVARIANT FailureNeverExitsZero
