\* Two processes, three operations of up to two blocks each, two crashes, log
\* space for two operations at a time.
CONSTANTS
  Procs = {p1, p2}
  Blocks = {b1, b2, b3}
  LOGBLOCKS = 6
  MAXOPBLOCKS = 3
  OpBlocks = 2
  MaxOps = 3
  MaxCrashes = 2
  None = None
SPECIFICATION Spec
INVARIANTS TypeOK PinnedWhileLogged CommitIsDurable
PROPERTY ImplementsAtomicDisk
CHECK_DEADLOCK FALSE
