CONSTANTS
  None = None
  nt1 = nt1
  gui1 = gui1
  f1 = f1
  f2 = f2
  t1 = t1
  Calls = {nt1, gui1}
  Gui = {gui1}
  Filters = {f1, f2}
  Threads = {t1}
  MaxFilterNumber = 2
  InitialPatchCapacity = 2
  MaxRefCount = 1
  MaxGuiLoads = 1
  CoreUnloads = FALSE
SPECIFICATION MCSpec

INVARIANTS NoFault
CHECK_DEADLOCK FALSE
