SPECIFICATION Spec
\* the process may exit, after which nothing happens
CHECK_DEADLOCK FALSE
INVARIANT ShutdownIsClean
