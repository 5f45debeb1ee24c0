SPECIFICATION Spec
CONSTANTS
    camera = camera
    m1 = m1
    m2 = m2
    Camera = camera
    TopDown <- Two
    FedBy <- Parallel
    Frames = {f1, f2, f3, f4, f5}
    Capacity = 1
    Commands = {"create", "start", "stop", "destroy", "destroy_all"}
    StartFailures = TRUE
    NoFrame = NoFrame
    Nobody = Nobody
SYMMETRY Symmetry
INVARIANTS TypeOK RefsAreExact PostsReachLiveNodes ThreadsHaveNodes InFlightBounded
