-------------------------- MODULE SleepWakeupLocks ---------------------------
(*****************************************************************************)
(* Every step of SleepWakeup keeps each spinlock where the labels of its     *)
(* holder say it is.                                                         *)
(*****************************************************************************)
EXTENDS SleepWakeupLemmas

\* Every step keeps the condition locks where their labels say they are.
LEMMA CondLockStep ==
  ASSUME IInv, NEW p \in Procs, KernelStep(p) \/ Client(p)
  PROVE  CondLockInv'
<1> USE BucketAssumption, CondLockAssumption, NullAssumption
<1>a. TypeOK /\ StateAt(p) /\ CondLockInv
  BY DEF IInv, StateInv
<1>1. CASE Dispatch(p)
  BY <1>a, <1>1 DEF TypeOK, CondLockInv, InCond, StateAt, LabelInv, Dispatch, Goto
<1>2. CASE Sched(p)
  BY <1>a, <1>2 DEF TypeOK, CondLockInv, InCond, StateAt, LabelInv, Sched, Goto
<1>3. CASE Yield(p)
  <2>1. /\ pc[p] \in {"user", "sleep8", "wake1", "kill1"}
        /\ pc[p] \in {"user", "wake1", "kill1"} => ret[p] = "user"
        /\ pc[p] = "sleep8" => ret[p] = "crit"
        /\ chan[p] = NoChan /\ saved[p] = "user"
    BY <1>3, YieldLabels
  <2> QED BY <1>3, <2>1 DEF IInv, TypeOK, CondLockInv, InCond, Yield, HoldsNothing
<1>4. CASE YieldReturn(p)
  <2>1. /\ saved[p] \in {"user", "sleep8", "wake1", "kill1"}
        /\ saved[p] # "sleep8" => ret[p] = "user"
        /\ saved[p] = "sleep8" => ret[p] = "crit"
        /\ chan[p] = NoChan /\ state[p] = "RUNNING"
        /\ saved[p] \in {"sleep8", "wake1"} => arg[p] \in Chans
        /\ saved[p] = "kill1" => victim[p] \in Procs
    BY <1>4, YieldReturnLabels
  <2> QED BY <1>4, <2>1 DEF IInv, TypeOK, CondLockInv, InCond, YieldReturn, Goto
<1>5. CASE SleepAcquireBucket(p)
  BY <1>a, <1>5 DEF TypeOK, CondLockInv, InCond, StateAt, LabelInv, SleepAcquireBucket, Goto
<1>6. CASE SleepAcquireProc(p)
  BY <1>a, <1>6 DEF TypeOK, CondLockInv, InCond, StateAt, LabelInv, SleepAcquireProc, Goto
<1>7. CASE SleepReleaseLk(p)
  BY <1>a, <1>7 DEF TypeOK, CondLockInv, InCond, StateAt, LabelInv, SleepReleaseLk, Goto
<1>8. CASE SleepEnqueue(p)
  BY <1>a, <1>8 DEF TypeOK, CondLockInv, InCond, StateAt, LabelInv, SleepEnqueue, Goto
<1>9. CASE SleepReleaseBucket(p)
  BY <1>a, <1>9 DEF TypeOK, CondLockInv, InCond, StateAt, LabelInv, SleepReleaseBucket, Goto
<1>10. CASE SleepTidyUp(p)
  BY <1>a, <1>10 DEF TypeOK, CondLockInv, InCond, StateAt, LabelInv, SleepTidyUp, Goto
<1>11. CASE SleepReacquireLk(p)
  <2>1. pc[p] = "sleep8" /\ ret[p] = "crit" /\ arg[p] \in Chans
    BY <1>11 DEF SleepReacquireLk, Return, Goto, IInv, StateInv, StateAt, LabelInv
  <2>2. \A l \in CondLocks : condLock[l] # p
    BY <2>1 DEF IInv, CondLockInv, InCond
  <2>3. /\ pc' = [pc EXCEPT ![p] = "crit"] /\ ret' = [ret EXCEPT ![p] = "user"]
        /\ arg' = [arg EXCEPT ![p] = NoChan]
        /\ condLock[CondLock[arg[p]]] = NoProc
        /\ condLock' = [condLock EXCEPT ![CondLock[arg[p]]] = p]
    BY <1>11, <2>1 DEF SleepReacquireLk, Return, Goto
  <2> DEFINE m == CondLock[arg[p]]
  <2>4. m \in CondLocks /\ condLock'[m] = p
    BY <2>1, <2>3 DEF IInv, TypeOK
  <2>5. \A l \in CondLocks : l # m => condLock'[l] = condLock[l]
    BY <2>3 DEF IInv, TypeOK
  <2>6. \A q \in Procs : q # p =>
          pc'[q] = pc[q] /\ ret'[q] = ret[q] /\ arg'[q] = arg[q]
    BY <2>3 DEF IInv, TypeOK
  <2>7. pc'[p] = "crit"
    BY <2>3 DEF IInv, TypeOK
  <2> HIDE DEF m
  <2> QED BY <2>2, <2>3, <2>4, <2>5, <2>6, <2>7 DEF IInv, TypeOK, CondLockInv, InCond
<1>12. CASE WakeupAcquireBucket(p)
  BY <1>a, <1>12 DEF TypeOK, CondLockInv, InCond, StateAt, LabelInv, WakeupAcquireBucket, Goto
<1>13. CASE WakeupSkip(p)
  BY <1>a, <1>13 DEF TypeOK, CondLockInv, InCond, StateAt, LabelInv, WakeupSkip, pvars
<1>14. CASE WakeupAcquireProc(p)
  BY <1>a, <1>14 DEF TypeOK, CondLockInv, InCond, StateAt, LabelInv, WakeupAcquireProc, Goto
<1>15. CASE WakeupTest(p)
  BY <1>a, <1>15 DEF TypeOK, CondLockInv, InCond, StateAt, LabelInv, WakeupTest, Goto
<1>16. CASE WakeupReleaseBucket(p)
  <2>1. CondLockInv /\ ret[p] \in {"user", "crit"} /\ pc[p] = "wake2"
    BY <1>16 DEF IInv, TypeOK, WakeupReleaseBucket, Return, Goto
  <2>2. /\ pc'[p] = ret[p] /\ ret'[p] = "user"
        /\ \A q \in Procs : q # p => pc'[q] = pc[q] /\ ret'[q] = ret[q] /\ arg'[q] = arg[q]
        /\ condLock' = condLock
    BY <1>16 DEF IInv, TypeOK, WakeupReleaseBucket, Return, Goto
  <2>3. \A q \in Procs : InCond(q)' <=> InCond(q)
    BY <2>1, <2>2 DEF InCond
  <2>4. \A q \in Procs : pc'[q] \in {"sleep1", "sleep2", "sleep3"} =>
          pc[q] \in {"sleep1", "sleep2", "sleep3"} /\ arg'[q] = arg[q]
    BY <2>1, <2>2
  <2>5. \A l \in CondLocks : condLock'[l] = condLock[l]
    BY <2>2
  <2>6. \A l \in CondLocks, q \in Procs : condLock'[l] = q =>
          /\ InCond(q)'
          /\ pc'[q] \in {"sleep1", "sleep2", "sleep3"} => l = CondLock[arg'[q]]
    BY <1>a, <2>3, <2>4, <2>5 DEF CondLockInv
  <2>7. \A l, m \in CondLocks :
          condLock'[l] = condLock'[m] => l = m \/ condLock'[l] = NoProc
    BY <1>a, <2>5 DEF CondLockInv
  <2>8. \A q \in Procs : InCond(q)' => \E l \in CondLocks : condLock'[l] = q
    BY <1>a, <2>3, <2>5 DEF CondLockInv
  <2> QED BY <2>6, <2>7, <2>8 DEF CondLockInv
<1>17. CASE KillAcquireProc(p)
  BY <1>a, <1>17 DEF TypeOK, CondLockInv, InCond, StateAt, LabelInv, KillAcquireProc, Goto
<1>18. CASE KillMark(p)
  <2>1. /\ pc[p] = "kill2" /\ ret[p] = "user"
        /\ \A q \in Procs : q # p => pc'[q] = pc[q] /\ ret'[q] = ret[q] /\ arg'[q] = arg[q]
        /\ pc'[p] \in {"wake1", "user"} /\ ret'[p] = "user"
        /\ condLock' = condLock /\ bucketLock' = bucketLock
    BY <1>18, KillMarkEffect
  <2>2. CondLockInv
    BY DEF IInv
  <2>3. \A q \in Procs : InCond(q)' <=> InCond(q)
    BY <2>1 DEF InCond
  <2>4. \A q \in Procs : pc'[q] \in {"sleep1", "sleep2", "sleep3"} =>
          pc[q] \in {"sleep1", "sleep2", "sleep3"} /\ arg'[q] = arg[q]
    BY <2>1
  <2>5. \A l \in CondLocks : condLock'[l] = condLock[l]
    BY <2>1
  <2>6. \A l \in CondLocks, q \in Procs : condLock'[l] = q =>
          /\ InCond(q)'
          /\ pc'[q] \in {"sleep1", "sleep2", "sleep3"} => l = CondLock[arg'[q]]
    BY <1>a, <2>3, <2>4, <2>5 DEF CondLockInv
  <2>7. \A l, m \in CondLocks :
          condLock'[l] = condLock'[m] => l = m \/ condLock'[l] = NoProc
    BY <1>a, <2>5 DEF CondLockInv
  <2>8. \A q \in Procs : InCond(q)' => \E l \in CondLocks : condLock'[l] = q
    BY <1>a, <2>3, <2>5 DEF CondLockInv
  <2> QED BY <2>6, <2>7, <2>8 DEF CondLockInv
<1>19. CASE ClientAcquire(p)
  <2>1. PICK m \in CondLocks : AcquireCond(p, m, "user", "crit")
    BY <1>19 DEF ClientAcquire
  <2>2. \A l \in CondLocks : condLock[l] # p
    BY <2>1 DEF AcquireCond, Goto, IInv, CondLockInv, InCond
  <2> QED BY <2>1, <2>2 DEF IInv, TypeOK, CondLockInv, InCond, AcquireCond, Goto
<1>20. CASE ClientRelease(p)
  BY <1>a, <1>20 DEF TypeOK, CondLockInv, InCond, StateAt, LabelInv, ClientRelease, ReleaseCond, Goto
<1>21. CASE ClientSleep(p)
  BY <1>a, <1>21 DEF TypeOK, CondLockInv, InCond, StateAt, LabelInv, ClientSleep, CallSleep, Goto,
        pvars
<1>22. CASE ClientWakeup(p)
  BY <1>a, <1>22 DEF TypeOK, CondLockInv, InCond, StateAt, LabelInv, ClientWakeup, CallWakeup, Goto,
        pvars
<1>23. CASE ClientKill(p)
  BY <1>a, <1>23 DEF TypeOK, CondLockInv, InCond, StateAt, LabelInv, ClientKill, CallKill, Goto,
        pvars
<1> QED BY <1>1, <1>2, <1>3, <1>4, <1>5, <1>6, <1>7, <1>8, <1>9, <1>10, <1>11,
      <1>12, <1>13, <1>14, <1>15, <1>16, <1>17, <1>18, <1>19, <1>20, <1>21,
      <1>22, <1>23
     DEF KernelStep, Progress, Sleep, Wakeup, Kill, Client
\* Every step keeps the bucket locks where their labels say they are.
LEMMA BucketLockStep ==
  ASSUME IInv, NEW p \in Procs, KernelStep(p) \/ Client(p)
  PROVE  BucketLockInv'
<1> USE BucketAssumption, CondLockAssumption, NullAssumption
<1>a. TypeOK /\ StateAt(p) /\ BucketLockInv
  BY DEF IInv, StateInv
<1>1. CASE Dispatch(p)
  BY <1>a, <1>1 DEF TypeOK, BucketLockInv, InBucket, StateAt, LabelInv, Dispatch, Goto
<1>2. CASE Sched(p)
  BY <1>a, <1>2 DEF TypeOK, BucketLockInv, InBucket, StateAt, LabelInv, Sched, Goto
<1>3. CASE Yield(p)
  <2>1. /\ pc[p] \in {"user", "sleep8", "wake1", "kill1"}
        /\ pc[p] \in {"user", "wake1", "kill1"} => ret[p] = "user"
        /\ pc[p] = "sleep8" => ret[p] = "crit"
        /\ chan[p] = NoChan /\ saved[p] = "user"
    BY <1>3, YieldLabels
  <2> QED BY <1>3, <2>1 DEF IInv, TypeOK, BucketLockInv, InBucket, Yield, HoldsNothing
<1>4. CASE YieldReturn(p)
  <2>1. /\ saved[p] \in {"user", "sleep8", "wake1", "kill1"}
        /\ saved[p] # "sleep8" => ret[p] = "user"
        /\ saved[p] = "sleep8" => ret[p] = "crit"
        /\ chan[p] = NoChan /\ state[p] = "RUNNING"
        /\ saved[p] \in {"sleep8", "wake1"} => arg[p] \in Chans
        /\ saved[p] = "kill1" => victim[p] \in Procs
    BY <1>4, YieldReturnLabels
  <2> QED BY <1>4, <2>1 DEF IInv, TypeOK, BucketLockInv, InBucket, YieldReturn, Goto
<1>5. CASE SleepAcquireBucket(p)
  BY <1>a, <1>5 DEF TypeOK, BucketLockInv, InBucket, StateAt, LabelInv, SleepAcquireBucket, Goto
<1>6. CASE SleepAcquireProc(p)
  BY <1>a, <1>6 DEF TypeOK, BucketLockInv, InBucket, StateAt, LabelInv, SleepAcquireProc, Goto
<1>7. CASE SleepReleaseLk(p)
  BY <1>a, <1>7 DEF TypeOK, BucketLockInv, InBucket, StateAt, LabelInv, SleepReleaseLk, Goto
<1>8. CASE SleepEnqueue(p)
  BY <1>a, <1>8 DEF TypeOK, BucketLockInv, InBucket, StateAt, LabelInv, SleepEnqueue, Goto
<1>9. CASE SleepReleaseBucket(p)
  BY <1>a, <1>9 DEF TypeOK, BucketLockInv, InBucket, StateAt, LabelInv, SleepReleaseBucket, Goto
<1>10. CASE SleepTidyUp(p)
  BY <1>a, <1>10 DEF TypeOK, BucketLockInv, InBucket, StateAt, LabelInv, SleepTidyUp, Goto
<1>11. CASE SleepReacquireLk(p)
  BY <1>a, <1>11 DEF TypeOK, BucketLockInv, InBucket, StateAt, LabelInv, SleepReacquireLk, Goto,
        Return
<1>12. CASE WakeupAcquireBucket(p)
  BY <1>a, <1>12 DEF TypeOK, BucketLockInv, InBucket, StateAt, LabelInv, WakeupAcquireBucket, Goto
<1>13. CASE WakeupSkip(p)
  BY <1>a, <1>13 DEF TypeOK, BucketLockInv, InBucket, StateAt, LabelInv, WakeupSkip, pvars
<1>14. CASE WakeupAcquireProc(p)
  BY <1>a, <1>14 DEF TypeOK, BucketLockInv, InBucket, StateAt, LabelInv, WakeupAcquireProc, Goto
<1>15. CASE WakeupTest(p)
  BY <1>a, <1>15 DEF TypeOK, BucketLockInv, InBucket, StateAt, LabelInv, WakeupTest, Goto
<1>16. CASE WakeupReleaseBucket(p)
  <2>1. pc[p] = "wake2" /\ arg[p] \in Chans /\ ret[p] \in {"user", "crit"}
    BY <1>16 DEF WakeupReleaseBucket, Return, Goto, IInv, TypeOK, StateInv, StateAt, LabelInv
  <2>2. /\ pc' = [pc EXCEPT ![p] = ret[p]]
        /\ arg' = [arg EXCEPT ![p] = NoChan]
        /\ bucketLock' = [bucketLock EXCEPT ![Bucket[arg[p]]] = NoProc]
    BY <1>16 DEF WakeupReleaseBucket, Return, Goto
  <2> QED BY <2>1, <2>2 DEF IInv, TypeOK, BucketLockInv, InBucket
<1>17. CASE KillAcquireProc(p)
  BY <1>a, <1>17 DEF TypeOK, BucketLockInv, InBucket, StateAt, LabelInv, KillAcquireProc, Goto
<1>18. CASE KillMark(p)
  <2>1. /\ pc[p] = "kill2" /\ ret[p] = "user"
        /\ \A q \in Procs : q # p => pc'[q] = pc[q] /\ ret'[q] = ret[q] /\ arg'[q] = arg[q]
        /\ pc'[p] \in {"wake1", "user"} /\ ret'[p] = "user"
        /\ condLock' = condLock /\ bucketLock' = bucketLock
    BY <1>18, KillMarkEffect
  <2>2. BucketLockInv
    BY DEF IInv
  <2>3. \A q \in Procs : /\ InBucket(q)' <=> InBucket(q)
                         /\ InBucket(q) => arg'[q] = arg[q]
    BY <2>1 DEF InBucket
  <2>4. \A b \in Buckets : bucketLock'[b] = bucketLock[b]
    BY <2>1
  <2>5. ASSUME NEW b \in Buckets, NEW q \in Procs
        PROVE  bucketLock'[b] = q <=> InBucket(q)' /\ b = Bucket[arg'[q]]
    BY <2>2, <2>3, <2>4 DEF BucketLockInv
  <2> QED BY <2>5 DEF BucketLockInv
<1>19. CASE ClientAcquire(p)
  BY <1>a, <1>19 DEF TypeOK, BucketLockInv, InBucket, StateAt, LabelInv, ClientAcquire, AcquireCond,
        Goto
<1>20. CASE ClientRelease(p)
  BY <1>a, <1>20 DEF TypeOK, BucketLockInv, InBucket, StateAt, LabelInv, ClientRelease, ReleaseCond,
        Goto
<1>21. CASE ClientSleep(p)
  BY <1>a, <1>21 DEF TypeOK, BucketLockInv, InBucket, StateAt, LabelInv, ClientSleep, CallSleep,
        Goto, pvars
<1>22. CASE ClientWakeup(p)
  BY <1>a, <1>22 DEF TypeOK, BucketLockInv, InBucket, StateAt, LabelInv, ClientWakeup, CallWakeup,
        Goto, pvars
<1>23. CASE ClientKill(p)
  BY <1>a, <1>23 DEF TypeOK, BucketLockInv, InBucket, StateAt, LabelInv, ClientKill, CallKill, Goto,
        pvars
<1> QED BY <1>1, <1>2, <1>3, <1>4, <1>5, <1>6, <1>7, <1>8, <1>9, <1>10, <1>11,
      <1>12, <1>13, <1>14, <1>15, <1>16, <1>17, <1>18, <1>19, <1>20, <1>21,
      <1>22, <1>23
     DEF KernelStep, Progress, Sleep, Wakeup, Kill, Client
\* Every step keeps the process locks where their labels say they are.
LEMMA ProcLockStep ==
  ASSUME IInv, NEW p \in Procs, KernelStep(p) \/ Client(p)
  PROVE  ProcLockInv'
<1> USE BucketAssumption, CondLockAssumption, NullAssumption
<1>a. TypeOK /\ StateAt(p) /\ ProcLockInv
  BY DEF IInv, StateInv
<1>1. CASE Dispatch(p)
  BY <1>a, <1>1 DEF TypeOK, ProcLockInv, StateAt, LabelInv, Dispatch, Goto
<1>2. CASE Sched(p)
  BY <1>a, <1>2 DEF TypeOK, ProcLockInv, StateAt, LabelInv, Sched, Goto
<1>3. CASE Yield(p)
  <2>1. /\ pc[p] \in {"user", "sleep8", "wake1", "kill1"}
        /\ pc[p] \in {"user", "wake1", "kill1"} => ret[p] = "user"
        /\ pc[p] = "sleep8" => ret[p] = "crit"
        /\ chan[p] = NoChan /\ saved[p] = "user"
    BY <1>3, YieldLabels
  <2> QED BY <1>3, <2>1 DEF IInv, TypeOK, ProcLockInv, Yield, HoldsNothing
<1>4. CASE YieldReturn(p)
  <2>1. /\ saved[p] \in {"user", "sleep8", "wake1", "kill1"}
        /\ saved[p] # "sleep8" => ret[p] = "user"
        /\ saved[p] = "sleep8" => ret[p] = "crit"
        /\ chan[p] = NoChan /\ state[p] = "RUNNING"
        /\ saved[p] \in {"sleep8", "wake1"} => arg[p] \in Chans
        /\ saved[p] = "kill1" => victim[p] \in Procs
    BY <1>4, YieldReturnLabels
  <2> QED BY <1>4, <2>1 DEF IInv, TypeOK, ProcLockInv, YieldReturn, Goto
<1>5. CASE SleepAcquireBucket(p)
  BY <1>a, <1>5 DEF TypeOK, ProcLockInv, StateAt, LabelInv, SleepAcquireBucket, Goto
<1>6. CASE SleepAcquireProc(p)
  BY <1>a, <1>6 DEF TypeOK, ProcLockInv, StateAt, LabelInv, SleepAcquireProc, Goto
<1>7. CASE SleepReleaseLk(p)
  BY <1>a, <1>7 DEF TypeOK, ProcLockInv, StateAt, LabelInv, SleepReleaseLk, Goto
<1>8. CASE SleepEnqueue(p)
  BY <1>a, <1>8 DEF TypeOK, ProcLockInv, StateAt, LabelInv, SleepEnqueue, Goto
<1>9. CASE SleepReleaseBucket(p)
  BY <1>a, <1>9 DEF TypeOK, ProcLockInv, StateAt, LabelInv, SleepReleaseBucket, Goto
<1>10. CASE SleepTidyUp(p)
  BY <1>a, <1>10 DEF TypeOK, ProcLockInv, StateAt, LabelInv, SleepTidyUp, Goto
<1>11. CASE SleepReacquireLk(p)
  BY <1>a, <1>11 DEF TypeOK, ProcLockInv, StateAt, LabelInv, SleepReacquireLk, Goto, Return
<1>12. CASE WakeupAcquireBucket(p)
  BY <1>a, <1>12 DEF TypeOK, ProcLockInv, StateAt, LabelInv, WakeupAcquireBucket, Goto
<1>13. CASE WakeupSkip(p)
  BY <1>a, <1>13 DEF TypeOK, ProcLockInv, StateAt, LabelInv, WakeupSkip, pvars
<1>14. CASE WakeupAcquireProc(p)
  BY <1>a, <1>14 DEF TypeOK, ProcLockInv, StateAt, LabelInv, WakeupAcquireProc, Goto
<1>15. CASE WakeupTest(p)
  BY <1>a, <1>15 DEF TypeOK, ProcLockInv, StateAt, LabelInv, WakeupTest, Goto
<1>16. CASE WakeupReleaseBucket(p)
  BY <1>a, <1>16 DEF TypeOK, ProcLockInv, StateAt, LabelInv, WakeupReleaseBucket, Goto, Return
<1>17. CASE KillAcquireProc(p)
  BY <1>a, <1>17 DEF TypeOK, ProcLockInv, StateAt, LabelInv, KillAcquireProc, Goto
<1>18. CASE KillMark(p)
  BY <1>a, <1>18 DEF TypeOK, ProcLockInv, StateAt, LabelInv, KillMark, Goto, Return
<1>19. CASE ClientAcquire(p)
  BY <1>a, <1>19 DEF TypeOK, ProcLockInv, StateAt, LabelInv, ClientAcquire, AcquireCond, Goto
<1>20. CASE ClientRelease(p)
  BY <1>a, <1>20 DEF TypeOK, ProcLockInv, StateAt, LabelInv, ClientRelease, ReleaseCond, Goto
<1>21. CASE ClientSleep(p)
  BY <1>a, <1>21 DEF TypeOK, ProcLockInv, StateAt, LabelInv, ClientSleep, CallSleep, Goto, pvars
<1>22. CASE ClientWakeup(p)
  BY <1>a, <1>22 DEF TypeOK, ProcLockInv, StateAt, LabelInv, ClientWakeup, CallWakeup, Goto, pvars
<1>23. CASE ClientKill(p)
  BY <1>a, <1>23 DEF TypeOK, ProcLockInv, StateAt, LabelInv, ClientKill, CallKill, Goto, pvars
<1> QED BY <1>1, <1>2, <1>3, <1>4, <1>5, <1>6, <1>7, <1>8, <1>9, <1>10, <1>11,
      <1>12, <1>13, <1>14, <1>15, <1>16, <1>17, <1>18, <1>19, <1>20, <1>21,
      <1>22, <1>23
     DEF KernelStep, Progress, Sleep, Wakeup, Kill, Client
=============================================================================
