\* Two items of two children: a resume can find a complete iteration
\* before an incomplete one, and a half-done iteration.
CONSTANTS
    NItems = 2
    NChildren = 2
    MaxCrashes = 2
    MaxResumes = 3
SPECIFICATION Spec
INVARIANT ChildNotRerun
\* A run stops for good once it completes or its resume budget is spent.
CHECK_DEADLOCK FALSE
