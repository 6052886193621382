SPECIFICATION MCSpec
CONSTANTS
    b1 = b1
    b2 = b2
    b3 = b3
    b4 = b4
    None = None
    Dlls = {"KERNELBASE", "KERNEL32", "GDI32"}
    Functions = {"GetNamedLocaleHashNode", "GetUserDefaultUILanguage", "QueryFontAssocStatus", "GetStockObject"}
    Blocks = {b1, b2, b3, b4}
    PatchFails = TRUE
    ProtectFails = FALSE
    HooksFail = TRUE
    MaxLoads = 2
SYMMETRY Symmetry
INVARIANT HooksFollow HooksGo
CHECK_DEADLOCK FALSE
