SPECIFICATION Spec
CONSTANTS
    r1 = r1
    r2 = r2
    r3 = r3
    r4 = r4
    Requests = {r1, r2, r3, r4}
    ActionOf <- MCActionOf
    Pads = {1, 2}
    Depth = 2
    QueueSize = 2
    AudioSize = 1
    MaxRuns = 2
    MaxResults = 3
    Kinds = {"stream", "plain", "camera"}
    Clients = {b1, b2}
    MaxClients = 2
    NoRequest = NoRequest
INVARIANTS TypeOK NothingInUseIsTaken NothingIsLeft NewestAreKept
PROPERTIES StopsComeToAnEnd NewClientsSeeAKeyFrame RequestsAreAnswered
CHECK_DEADLOCK FALSE
