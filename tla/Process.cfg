SPECIFICATION MCSpec
CONSTANTS
    h1 = h1
    h2 = h2
    h3 = h3
    t1 = t1
    t2 = t2
    None = None
    Threads = {t1, t2}
    Handles = {h1, h2, h3}
    SlotCount = 2
    MaxStray = 1
    BufferLengths = {0, 20, 64}
    MaxCalls = 2
    launcher = launcher
    parent = parent
    narrow = narrow
    broker = broker
    wide = wide
    MATCHES_ARRAY_SIZE = 4
SYMMETRY KeySymmetry
INVARIANT SlotsAreOpen RedirectionRight OwnedAndReleased AcceptedArrives LocalesApart SuccessIsArmed NamesAreDescribed
PROPERTY ImplementsView
CHECK_DEADLOCK FALSE
