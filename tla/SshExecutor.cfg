SPECIFICATION Spec
\* Execute returns; nothing runs after it
CHECK_DEADLOCK FALSE
INVARIANT ReportsScriptOutcome
INVARIANT ReleasedOnEveryPath
PROPERTY InterruptBeforeClose
