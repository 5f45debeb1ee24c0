SPECIFICATION Spec
CONSTANTS
    c1 = c1
    c2 = c2
    m1 = m1
    m2 = m2
    m3 = m3
    m4 = m4
    s1 = s1
    Cameras = {c1}
    Models = {m1, m2, m3, m4}
    Streams = {}
    NoId = NoId
    DepsOf <- Chains
    DepsFirst = TRUE
    Policies = {"free", "skip"}
    Failures <- NoFailure
    Ops = {"create", "stop", "destroy", "destroy_all"}
    VB_POOL4_TOTAL = 4
    VB_BUFFER_RESERVE = 1
    MAX_PARALLEL_MODELS = 3
    MAX_SERIAL_MODELS = 3
INVARIANTS ModelLimits RunsWithDependencies
