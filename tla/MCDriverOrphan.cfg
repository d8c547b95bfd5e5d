CONSTANTS
    a1 = a1
    a2 = a2
    Arns <- MCArns
    NoArn = NoArn
    NoIp = NoIp
    MaxRuns = 1
    MaxCleanups = 2
SYMMETRY MCSymmetry
SPECIFICATION Spec
\* the job ends: the job runner invokes nothing after the last cleanup
CHECK_DEADLOCK FALSE
INVARIANT JobEndsWithNoLiveTask
