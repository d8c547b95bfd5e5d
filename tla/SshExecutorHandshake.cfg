SPECIFICATION ExecuteFairSpec
\* Execute returns; nothing runs after it
CHECK_DEADLOCK FALSE
PROPERTY CancellationEndsExecute
