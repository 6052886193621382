SPECIFICATION WindowsSpec
CONSTANTS
    o = o
    f = f
    a0 = a0
    a1 = a1
    a2 = a2
    w0 = w0
    w1 = w1
    w2 = w2
    Threads = {o}
    Owner = o
    AnsiProcs = {a0, a1, a2}
    WideProcs = {w0, w1, w2}
    ClassProcs = {a0, w0}
    WindowProcW = WindowProcW
    Null = Null
    MaxNested = 2
    Foreign = "never"
    Windows = {main, child, button}
    Params = {pointer}
    NoFrame = NoFrame
    NullParam = NullParam
    MaxCreations = 3
INVARIANT EachOnce CreatedRight
PROPERTY AnsiSetWraps ImplementsAnsiWindow
CHECK_DEADLOCK FALSE
