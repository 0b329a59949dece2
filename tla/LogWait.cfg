\* Three processes, four operations, log space for two at a time, no crash:
\* the processes that wait for log space.
CONSTANTS
  Procs = {p1, p2, p3}
  Blocks = {b1, b2}
  LOGBLOCKS = 4
  MAXOPBLOCKS = 2
  OpBlocks = 1
  MaxOps = 4
  MaxCrashes = 0
  None = None
SPECIFICATION Spec
PROPERTY BeginOpReturns
CHECK_DEADLOCK FALSE
