CONSTANTS
  None = None
  L = L
  a = a
  b = b
  c = c
  d = d
  Procs = {L, a, b, c, d}
  Launcher = L
  Mortal = {L, a, b, c, d}
  Arch <- ArchCross
  MaxLaunches = 1
SPECIFICATION FairSpec
CONSTRAINT OneChild
INVARIANTS EntryIsSound OutcomeIsTrue
PROPERTIES ImplementsLife CreationsReturn
CHECK_DEADLOCK FALSE
