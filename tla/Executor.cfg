SPECIFICATION FairSpec
CONSTANTS
    Clients = {c1, c2}
    Tasks = {t1, t2, t3}
    Destroys = TRUE
    NoThread = NoThread
    NoTask = NoTask
INVARIANTS NoSleepOnTasks TakesOnlyTasks OnePlacePerTask
PROPERTY QueuedTasksRun
CHECK_DEADLOCK FALSE
