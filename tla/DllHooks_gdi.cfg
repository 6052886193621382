SPECIFICATION MCSpec
CONSTANTS
    b1 = b1
    b2 = b2
    b3 = b3
    b4 = b4
    None = None
    Dlls = {"GDI32"}
    Functions = {"GetStockObject", "EnumFontFamiliesA"}
    Blocks = {b1, b2, b3}
    PatchFails = FALSE
    ProtectFails = FALSE
    HooksFail = FALSE
    MaxLoads = 1
SYMMETRY Symmetry
INVARIANT GoneIsUnhooked
CHECK_DEADLOCK FALSE
