SPECIFICATION Spec
CONSTANTS
    QueueSize = 2
    AudioSize = 1
    MaxRuns = 2
    MaxResults = 3
INVARIANTS NothingBreaks
CHECK_DEADLOCK FALSE
