----------------------------- MODULE MCExitCode -----------------------------
(* ExitCode for TLC: the environments of the two questions asked of it.     *)
EXTENDS ExitCode

\* the job runner sets every variable, each to a valid value
MCAllValid ==
    {[build |-> TRUE, system |-> TRUE, pipeline |-> TRUE, job |-> TRUE]}

\* BUILD_FAILURE_EXIT_CODE does not parse; everything else does
MCBadBuildCode ==
    {[build |-> FALSE, system |-> TRUE, pipeline |-> TRUE, job |-> TRUE]}

=============================================================================
