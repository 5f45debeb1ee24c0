SPECIFICATION Spec
CONSTANTS
    b1 = b1
    b2 = b2
    h1 = h1
    h2 = h2
    t1 = t1
    i1 = i1
    i2 = i2
    BlockSize <- MCBlockSize
    OtherBlocks <- MCOtherBlocks
    ImageSize <- MCImageSize
    Jobs <- MCJobs
    Memories = {m1, m2}
    FrameVariables = {f1, f2}
    Plans = {p1, p2}
    Processors = {v1, v2}
    Inputs = {"i1", "i2"}
    Outputs = {"o1", "o2", "o3"}
    TooLarge = {"o3"}
    ModelOutputs = {o1, o2}
    Primary = o1
    Regions = {"r1", "r2"}
    Fits = {"letterbox", "none", "other"}
    Centres = {TRUE, FALSE}
    Nothing = Nothing
    None = None
    NoPicture = NoPicture
    Loops = {"node", "pipeline"}
    TicksPerMs = 3
    Intervals = {100, 340}
    ProcTimes = {0, 80, 1200}
    ReadTimes = {0, 60}
    Grain = 60
    Horizon = 400
SYMMETRY Alike
INVARIANTS TypeOK UpWhileNeeded OneOwnerPerBlock CallersHoldLivePictures VpssLeavesNothing AnswersAreAboutTheFrame LimitIsObeyed
PROPERTY OnlyMishapsMislead
CHECK_DEADLOCK FALSE
