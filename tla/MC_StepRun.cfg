CONSTANTS
    NSteps <- MCNSteps
    Secrets = {"s1"}
    Workflows <- MCWorkflows
    ExitCodes = {0, 1, 2}
    MaxRetries = 1
    MaxRestarts = 1

SPECIFICATION Spec

\* The run ends when the last step is recorded: nothing is enabled then.
CHECK_DEADLOCK FALSE

INVARIANT TypeOK
PROPERTY AttemptsFollowPolicy
