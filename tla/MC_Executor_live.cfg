CONSTANTS
    N <- MCN
    Workflows <- MCForwardWorkflows
    ExitCodes = {0, 1, 2}
    MaxGlobalRetries = 1
    MaxFaults = 1
    MaxRuns = 2

SPECIFICATION Spec

PROPERTY RunTerminates
