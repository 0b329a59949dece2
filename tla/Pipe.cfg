CONSTANTS
  rchan = rchan  wchan = wchan  b1 = b1  l1 = l1
  NoProc = NoProc
  NoChan = NoChan
  NCPU = 2
  Procs = {w1, r1}
  Writers = {w1}
  Readers = {r1}
  Chans = {rchan, wchan}
  Buckets = {b1}
  CondLocks = {l1}
  Bucket <- OneBucket
  CondLock <- OneLock
  PIPESIZE = 2
  Word = 4
  MaxN = 3
  MaxCalls = 2
  MaxKills = 1
SPECIFICATION SpecP
INVARIANTS PipeFIFO NoUseAfterFree WakeupOneSuffices
PROPERTY CloseWakesAll
CHECK_DEADLOCK FALSE
