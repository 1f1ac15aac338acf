CONSTANTS
    N <- MCN
    Workflows <- MCWhenWorkflows
    ExitCodes = {0, 1, 2}
    MaxGlobalRetries = 1
    MaxFaults = 0
    MaxRuns = 2

SPECIFICATION Spec

INVARIANT ZeroExitMeansCompleted
