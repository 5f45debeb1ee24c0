SPECIFICATION Spec
CONSTANTS
    Posters = {p1}
    Fetchers = {f1, f2}
    Controllers = {c1}
    Msgs = {a, b}
    Capacity = 2
    Timeouts = {"now", "timed"}
    ControlOps = {"interrupt", "reset", "clear"}
    ResetAnytime = FALSE
    NoThread = NoThread
    NoMsg = NoMsg

INVARIANTS WithinCapacity PopsOnlyMessages MessagesAreAttended
PROPERTY ImplementsMailbox
