CONSTANTS
  rchan = rchan  wchan = wchan  b1 = b1  l1 = l1
  NoProc = NoProc
  NoChan = NoChan
  NCPU = 3
  Procs = {w1, r1, r2}
  Writers = {w1}
  Readers = {r1, r2}
  Chans = {rchan, wchan}
  Buckets = {b1}
  CondLocks = {l1}
  Bucket <- OneBucket
  CondLock <- OneLock
  PIPESIZE = 2
  Word = 4
  MaxN = 2
  MaxCalls = 1
  MaxKills = 0
SPECIFICATION SpecP
INVARIANT WakeupOneSuffices
CHECK_DEADLOCK FALSE
