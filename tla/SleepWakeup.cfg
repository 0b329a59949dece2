CONSTANTS
  c1 = c1  c2 = c2  b1 = b1  b2 = b2  l1 = l1  l2 = l2
  NoProc = NoProc
  NoChan = NoChan
  NCPU = 2
  Procs = {p1, p2, p3}
  Chans = {c1, c2}
  Buckets = {b1}
  CondLocks = {l1, l2}
  Bucket <- OneBucket
  CondLock <- TwoLocks
SYMMETRY Symmetry
SPECIFICATION Spec
INVARIANTS TypeOK QueueIsSleepers SchedCannotPanic RunnableIsSwitchedOut WakeupMissesNobody LockOrder
PROPERTY ImplementsCondVar
CHECK_DEADLOCK FALSE
