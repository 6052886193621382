SPECIFICATION MCSpec
CONSTANTS
    NoFrame = NoFrame
    AnyWindow = AnyWindow
    Edits = {edit}
    Others = {dialog}
    Single = {}
    Double = {zhong, wen}
    Triple = {euro}
    Lost = {snowman}
    MaxNested = 2
    EditText = 3
    MessageText = 2
    Common = {"common"}
    Local = {"local"}
    Alien = {"alien"}
    Empty = "empty"
    Lossy = "lossy"
    Absent = "absent"
    Threads = {t1, t2}
    None = None
    Objects = {i1, i2}
    SystemFont = i1
    Made = {f1, f2, f3}
    DCs = {d1, d2}
    Tables <- NameTables
    Host = "zh"
    Target = "ja"
    English = "en"
    MaxRounds = 3
    Readers = {r}
    Mappings = {m1, m2}
    Unfit = {}
    Copies = {c1, c2, c3}
    Dbcs = TRUE
    WritesFail = TRUE
    HostReturns = FALSE
    MaxChanges = 1
    MaxSwitches = 2
    MaxInits = 2
SYMMETRY Symmetry
INVARIANT BytesPaired Transparent TextArrives TextSurvives FontsStay
    NoDanglingReader CopiesShowTarget SynchronizedInForce
PROPERTY QueueKept
CHECK_DEADLOCK FALSE
