SPECIFICATION Spec
CONSTANTS
    c1 = c1
    c2 = c2
    m1 = m1
    m2 = m2
    m3 = m3
    m4 = m4
    s1 = s1
    Cameras = {c1, c2}
    Models = {m1, m2}
    Streams = {s1}
    NoId = NoId
    DepsOf <- Flow
    DepsFirst = TRUE
    Policies = {"skip"}
    Failures <- NoFailure
    Ops = {"create", "destroy"}
    VB_POOL4_TOTAL = 4
    VB_BUFFER_RESERVE = 1
    MAX_PARALLEL_MODELS = 3
    MAX_SERIAL_MODELS = 3
INVARIANTS FreedNodesAreLeftAlone
