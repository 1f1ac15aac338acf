\* A deadline of 4 ticks and a poll interval of 2: the first sleep fits
\* before the deadline, the second does not, so both sleep branches run.
CONSTANTS
    Timeout = 4
    PollTicks = 2
    MinCounts = {0, 1, 2}
    MaxFiles = 3
    MaxPolls = 6
SPECIFICATION Spec
INVARIANT TypeOK WaitOutcomeSound
\* A wait ends (exit 0, 2 or 124) and then takes no step; the model also
\* stops when MaxPolls polls are spent.
CHECK_DEADLOCK FALSE
