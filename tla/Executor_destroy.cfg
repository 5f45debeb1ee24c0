SPECIFICATION FairSpec
CONSTANTS
    Clients = {c1}
    Tasks = {t1}
    Destroys = TRUE
    NoThread = NoThread
    NoTask = NoTask

PROPERTY DestructorReturns
CHECK_DEADLOCK FALSE
