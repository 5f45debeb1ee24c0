SPECIFICATION Progress
CONSTANTS
    camera = camera
    m1 = m1
    m2 = m2
    Camera = camera
    TopDown <- Two
    FedBy <- Serial
    Frames = {f1, f2}
    Capacity = 1
    Commands = {"create", "start", "stop", "destroy", "destroy_all"}
    StartFailures = FALSE
    NoFrame = NoFrame
    Nobody = Nobody
    Posters = {p1}
    Fetchers = {q1}
    Controllers = {c1}
    Msgs = {a}
    Timeouts = {"timed", "forever"}
    ControlOps = {"interrupt", "reset"}
    NoThread = NoThread
    NoMsg = NoMsg
INVARIANTS NoFrameOutlivesMmf
PROPERTIES FramesReturn CommandsEnd InboxCallsReturn
