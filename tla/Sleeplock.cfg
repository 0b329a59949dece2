CONSTANTS
  c1 = c1  c2 = c2  b1 = b1  l1 = l1  l2 = l2
  NoProc = NoProc
  NoChan = NoChan
  NCPU = 3
  Procs = {p1, p2, p3}
  Chans = {c1}
  Buckets = {b1}
  CondLocks = {l1}
  Bucket <- OneBucket
  CondLock <- OwnLocks
  MaxRounds = 1
  MaxKills = 1
  MaxTicks = 1
SPECIFICATION SpecS
INVARIANTS SleeplockExclusion FreeLockWakes
PROPERTY AcquireSleepReturns
CHECK_DEADLOCK FALSE
