SPECIFICATION MCSpec
CONSTANTS
    f1 = f1
    f2 = f2
    b1 = b1
    b2 = b2
    b3 = b3
    t1 = t1
    t2 = t2
    None = None
    Functions = {f1, f2}
    Blocks = {b1, b2, b3}
    Threads = {t1, t2}
    PatchFails = TRUE
    ProtectFails = TRUE
    Quiescent = TRUE
    Entry = 2
    Short = 3
    Long = 4
    Half = 4
    FileAlignment = 2
    SectionAlignment = 4
    BitsOf = 4
    MemPaths = {"m1", "m2"}
    Files = {"f1", "f2"}
    Handles = {h1, h2, h3}
    NoHandle = closed
    MaxLoads = 4
SYMMETRY Symmetry
INVARIANT JumpHasTrampoline SoundYet DecodedRight HookTransparent EntryMoves SoughtIsFound ImagesRight ViewsAreTheirs
CHECK_DEADLOCK FALSE
