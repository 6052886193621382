CONSTANTS
  None = None
  nt1 = nt1
  gui1 = gui1
  f1 = f1
  f2 = f2
  t1 = t1
  Calls = {nt1, gui1}
  Gui = {gui1}
  Filters = {f1}
  Threads = {t1}
  MaxFilterNumber = 2
  InitialPatchCapacity = 1
  MaxRefCount = 2
  MaxGuiLoads = 2
  CoreUnloads = TRUE
SPECIFICATION MCSpec
INVARIANTS NoFaultYet JumpHasOriginal RollbackUnseen RegisteredIsReached
PROPERTIES CallsReturn
CHECK_DEADLOCK FALSE
