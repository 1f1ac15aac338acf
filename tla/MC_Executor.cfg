CONSTANTS
    N <- MCN
    Workflows <- MCWorkflows
    ExitCodes = {0, 1, 2}
    MaxGlobalRetries = 1
    MaxFaults = 2
    MaxRuns = 2

SPECIFICATION Spec

INVARIANT TypeOK
INVARIANT ResumeNeverReexecutes
 
