-------------------------- MODULE SleepWakeupQueues --------------------------
(*****************************************************************************)
(* Every step of SleepWakeup keeps the labels, the states and the queues     *)
(* consistent.                                                               *)
(*****************************************************************************)
EXTENDS SleepWakeupLemmas

\* Every step keeps labels, states and channels consistent.
LEMMA StateStep ==
  ASSUME IInv, NEW p \in Procs, KernelStep(p) \/ Client(p)
  PROVE  StateInv'
<1> USE BucketAssumption, CondLockAssumption, NullAssumption
<1>a. TypeOK /\ StateInv /\ ProcLockInv
  BY DEF IInv
<1>1. CASE Dispatch(p)
  BY <1>a, <1>1 DEF TypeOK, ProcLockInv, StateInv, StateAt, LabelInv, Dispatch, Goto
<1>2. CASE Sched(p)
  BY <1>a, <1>2 DEF TypeOK, ProcLockInv, StateInv, StateAt, LabelInv, Sched, Goto
<1>3. CASE Yield(p)
  <2>1. /\ pc[p] \in {"user", "sleep8", "wake1", "kill1"}
        /\ pc[p] \in {"user", "wake1", "kill1"} => ret[p] = "user"
        /\ pc[p] = "sleep8" => ret[p] = "crit"
        /\ chan[p] = NoChan /\ saved[p] = "user"
    BY <1>3, YieldLabels
  <2> QED BY <1>3, <2>1 DEF IInv, TypeOK, StateInv, StateAt, LabelInv, Yield, HoldsNothing
<1>4. CASE YieldReturn(p)
  <2>1. /\ saved[p] \in {"user", "sleep8", "wake1", "kill1"}
        /\ saved[p] # "sleep8" => ret[p] = "user"
        /\ saved[p] = "sleep8" => ret[p] = "crit"
        /\ chan[p] = NoChan /\ state[p] = "RUNNING"
        /\ saved[p] \in {"sleep8", "wake1"} => arg[p] \in Chans
        /\ saved[p] = "kill1" => victim[p] \in Procs
    BY <1>4, YieldReturnLabels
  <2>2. /\ pc'[p] = saved[p] /\ saved'[p] = "user"
        /\ \A q \in Procs : q # p => pc'[q] = pc[q] /\ saved'[q] = saved[q]
        /\ UNCHANGED <<state, chan, ret, arg, victim>>
    BY <1>4 DEF YieldReturn, Goto, IInv, TypeOK
  <2>3. StateAt(p)'
    BY <2>1, <2>2 DEF StateAt, LabelInv
  <2>4. ASSUME NEW q \in Procs, q # p PROVE StateAt(q)'
    BY <2>2, <2>4 DEF IInv, StateInv, StateAt, LabelInv
  <2> QED BY <2>3, <2>4 DEF StateInv, StateAt
<1>5. CASE SleepAcquireBucket(p)
  BY <1>a, <1>5 DEF TypeOK, ProcLockInv, StateInv, StateAt, LabelInv, SleepAcquireBucket, Goto
<1>6. CASE SleepAcquireProc(p)
  BY <1>a, <1>6 DEF TypeOK, ProcLockInv, StateInv, StateAt, LabelInv, SleepAcquireProc, Goto
<1>7. CASE SleepReleaseLk(p)
  BY <1>a, <1>7 DEF TypeOK, ProcLockInv, StateInv, StateAt, LabelInv, SleepReleaseLk, Goto
<1>8. CASE SleepEnqueue(p)
  BY <1>a, <1>8 DEF TypeOK, ProcLockInv, StateInv, StateAt, LabelInv, SleepEnqueue, Goto
<1>9. CASE SleepReleaseBucket(p)
  BY <1>a, <1>9 DEF TypeOK, ProcLockInv, StateInv, StateAt, LabelInv, SleepReleaseBucket, Goto
<1>10. CASE SleepTidyUp(p)
  BY <1>a, <1>10 DEF TypeOK, ProcLockInv, StateInv, StateAt, LabelInv, SleepTidyUp, Goto
<1>11. CASE SleepReacquireLk(p)
  BY <1>a, <1>11 DEF TypeOK, ProcLockInv, StateInv, StateAt, LabelInv, SleepReacquireLk, Goto, Return
<1>12. CASE WakeupAcquireBucket(p)
  BY <1>a, <1>12 DEF TypeOK, ProcLockInv, StateInv, StateAt, LabelInv, WakeupAcquireBucket, Goto
<1>13. CASE WakeupSkip(p)
  BY <1>a, <1>13 DEF TypeOK, ProcLockInv, StateInv, StateAt, LabelInv, WakeupSkip, pvars
<1>14. CASE WakeupAcquireProc(p)
  BY <1>a, <1>14 DEF TypeOK, ProcLockInv, StateInv, StateAt, LabelInv, WakeupAcquireProc, Goto
<1>15. CASE WakeupTest(p)
  BY <1>a, <1>15 DEF TypeOK, ProcLockInv, StateInv, StateAt, LabelInv, WakeupTest, Goto
<1>16. CASE WakeupReleaseBucket(p)
  BY <1>a, <1>16 DEF TypeOK, ProcLockInv, StateInv, StateAt, LabelInv, WakeupReleaseBucket, Goto,
        Return
<1>17. CASE KillAcquireProc(p)
  BY <1>a, <1>17 DEF TypeOK, ProcLockInv, StateInv, StateAt, LabelInv, KillAcquireProc, Goto
<1>18. CASE KillMark(p)
  BY <1>a, <1>18 DEF TypeOK, ProcLockInv, StateInv, StateAt, LabelInv, KillMark, Goto, Return
<1>19. CASE ClientAcquire(p)
  BY <1>a, <1>19 DEF TypeOK, ProcLockInv, StateInv, StateAt, LabelInv, ClientAcquire, AcquireCond,
        Goto
<1>20. CASE ClientRelease(p)
  BY <1>a, <1>20 DEF TypeOK, ProcLockInv, StateInv, StateAt, LabelInv, ClientRelease, ReleaseCond,
        Goto
<1>21. CASE ClientSleep(p)
  BY <1>a, <1>21 DEF TypeOK, ProcLockInv, StateInv, StateAt, LabelInv, ClientSleep, CallSleep, Goto,
        pvars
<1>22. CASE ClientWakeup(p)
  BY <1>a, <1>22 DEF TypeOK, ProcLockInv, StateInv, StateAt, LabelInv, ClientWakeup, CallWakeup,
        Goto, pvars
<1>23. CASE ClientKill(p)
  BY <1>a, <1>23 DEF TypeOK, ProcLockInv, StateInv, StateAt, LabelInv, ClientKill, CallKill, Goto,
        pvars
<1> QED BY <1>1, <1>2, <1>3, <1>4, <1>5, <1>6, <1>7, <1>8, <1>9, <1>10, <1>11,
      <1>12, <1>13, <1>14, <1>15, <1>16, <1>17, <1>18, <1>19, <1>20, <1>21,
      <1>22, <1>23
     DEF KernelStep, Progress, Sleep, Wakeup, Kill, Client
\* Every step keeps the queues equal to the sleepers.
LEMMA QueueStep ==
  ASSUME IInv, NEW p \in Procs, KernelStep(p) \/ Client(p)
  PROVE  QueueIsSleepers'
<1> USE BucketAssumption, CondLockAssumption, NullAssumption
<1>a. TypeOK /\ StateAt(p) /\ QueueIsSleepers
  BY DEF IInv, StateInv
<1>1. CASE Dispatch(p)
  BY <1>a, <1>1 DEF TypeOK, QueueIsSleepers, SleepersOf, StateAt, LabelInv, Dispatch, Goto
<1>2. CASE Sched(p)
  BY <1>a, <1>2 DEF TypeOK, QueueIsSleepers, SleepersOf, StateAt, LabelInv, Sched, Goto
<1>3. CASE Yield(p)
  <2>1. \A b \in Buckets : SleepersOf(b)' = SleepersOf(b)
    <3>1. state[p] = "RUNNING"
      BY <1>3, YieldLabels DEF IInv, StateInv, StateAt
    <3> QED BY <1>3, <3>1 DEF IInv, TypeOK, SleepersOf, Yield
  <2>2. UNCHANGED <<queue, chan, echan>>
    BY <1>3 DEF Yield
  <2> QED BY <1>a, <2>1, <2>2 DEF QueueIsSleepers
<1>4. CASE YieldReturn(p)
  BY <1>a, <1>4 DEF TypeOK, QueueIsSleepers, SleepersOf, StateAt, LabelInv, YieldReturn, Goto
<1>5. CASE SleepAcquireBucket(p)
  BY <1>a, <1>5 DEF TypeOK, QueueIsSleepers, SleepersOf, StateAt, LabelInv, SleepAcquireBucket, Goto
<1>6. CASE SleepAcquireProc(p)
  BY <1>a, <1>6 DEF TypeOK, QueueIsSleepers, SleepersOf, StateAt, LabelInv, SleepAcquireProc, Goto
<1>7. CASE SleepReleaseLk(p)
  BY <1>a, <1>7 DEF TypeOK, QueueIsSleepers, SleepersOf, StateAt, LabelInv, SleepReleaseLk, Goto
<1>8. CASE SleepEnqueue(p)
  <2>1. pc[p] = "sleep4"
    BY <1>8 DEF SleepEnqueue, Goto
  <2> PICK d \in {Bucket[arg[p]]} : TRUE
    OBVIOUS
  <2> DEFINE add == wq_add_locked(queue[d], p)
  <2>2. /\ arg[p] \in Chans /\ d \in Buckets /\ state[p] = "RUNNING"
        /\ \A c \in Buckets : p \notin Range(queue[c])
        /\ Range(add) = Range(queue[d]) \cup {p}
        /\ Distinct(add)
    BY <2>1, EnqueueAddsNew, ZenonT(30)
  <2>3. /\ queue'[d] = add
        /\ \A b \in Buckets : b # d => queue'[b] = queue[b]
        /\ \A q \in Procs : q # p =>
             state'[q] = state[q] /\ chan'[q] = chan[q] /\ echan'[q] = echan[q]
        /\ state'[p] = "SLEEPING" /\ chan'[p] = arg[p] /\ echan'[p] = arg[p]
    BY <1>8, <2>2 DEF SleepEnqueue, IInv, TypeOK
  <2>4. SleepersOf(d)' = SleepersOf(d) \cup {p}
    BY <2>2, <2>3 DEF SleepersOf
  <2>5. \A b \in Buckets : b # d => SleepersOf(b)' = SleepersOf(b)
    BY <2>2, <2>3 DEF SleepersOf
  <2> HIDE DEF add
  <2>6. ASSUME NEW b \in Buckets
        PROVE  /\ Range(queue'[b]) = SleepersOf(b)'
               /\ Distinct(queue'[b])
               /\ \A q \in Range(queue'[b]) : echan'[q] = chan'[q]
    <3>1. Range(queue[b]) = SleepersOf(b) /\ Distinct(queue[b])
      BY DEF IInv, QueueIsSleepers, Distinct
    <3>2. \A q \in Range(queue[b]) : q \in Procs /\ q # p /\ echan[q] = chan[q]
      BY <2>2 DEF IInv, QueueIsSleepers, SleepersOf
    <3>3. CASE b = d
      <4>1. queue'[b] = add /\ Range(add) = SleepersOf(b) \cup {p}
        BY <2>2, <2>3, <3>1, <3>3
      <4>2. \A q \in Range(add) : echan'[q] = chan'[q]
        BY <2>3, <3>1, <3>2, <4>1
      <4> QED BY <2>2, <2>4, <3>3, <4>1, <4>2, ZenonT(30)
    <3>4. CASE b # d
      BY <2>3, <2>5, <3>1, <3>2, <3>4
    <3> QED BY <3>3, <3>4
  <2> QED BY <2>6 DEF QueueIsSleepers, Distinct
<1>9. CASE SleepReleaseBucket(p)
  BY <1>a, <1>9 DEF TypeOK, QueueIsSleepers, SleepersOf, StateAt, LabelInv, SleepReleaseBucket, Goto
<1>10. CASE SleepTidyUp(p)
  <2>1. pc[p] = "sleep7" /\ state[p] = "RUNNING"
    BY <1>10 DEF SleepTidyUp, Goto, IInv, StateInv, StateAt
  <2>2. \A q \in Procs : state[q] = "SLEEPING" => chan'[q] = chan[q]
    BY <1>10, <2>1 DEF IInv, TypeOK, SleepTidyUp
  <2>3. \A b \in Buckets : SleepersOf(b)' = SleepersOf(b)
    BY <1>10, <2>2 DEF SleepersOf, SleepTidyUp
  <2>4. \A b \in Buckets : \A q \in Range(queue[b]) : state[q] = "SLEEPING" /\ q \in Procs
    BY DEF IInv, QueueIsSleepers, SleepersOf
  <2>5. UNCHANGED <<queue, echan>>
    BY <1>10 DEF SleepTidyUp
  <2> QED BY <1>a, <2>2, <2>3, <2>4, <2>5 DEF QueueIsSleepers
<1>11. CASE SleepReacquireLk(p)
  BY <1>a, <1>11 DEF TypeOK, QueueIsSleepers, SleepersOf, StateAt, LabelInv, SleepReacquireLk, Goto,
        Return
<1>12. CASE WakeupAcquireBucket(p)
  BY <1>a, <1>12 DEF TypeOK, QueueIsSleepers, SleepersOf, StateAt, LabelInv, WakeupAcquireBucket,
        Goto
<1>13. CASE WakeupSkip(p)
  BY <1>a, <1>13 DEF TypeOK, QueueIsSleepers, SleepersOf, StateAt, LabelInv, WakeupSkip, pvars
<1>14. CASE WakeupAcquireProc(p)
  BY <1>a, <1>14 DEF TypeOK, QueueIsSleepers, SleepersOf, StateAt, LabelInv, WakeupAcquireProc, Goto
<1>15. CASE WakeupTest(p)
  <2>1. pc[p] = "wake3"
    BY <1>15 DEF WakeupTest, Goto
  <2> PICK e \in {Head(todo[p])}, d \in {Bucket[arg[p]]} : TRUE
    OBVIOUS
  <2> DEFINE rem == wq_remove_locked(queue[d], e)
  <2>2. /\ arg[p] \in Chans /\ d \in Buckets /\ e \in Procs
        /\ state[e] = "SLEEPING" /\ chan[e] = arg[p]
        /\ e \in Range(queue[d])
        /\ Range(rem) = Range(queue[d]) \ {e}
        /\ Distinct(rem)
    BY <2>1, WakeupTestMatches, ZenonT(30)
  <2>3. /\ queue'[d] = rem
        /\ \A b \in Buckets : b # d => queue'[b] = queue[b]
        /\ \A q \in Procs : q # e => state'[q] = state[q] /\ echan'[q] = echan[q]
        /\ state'[e] = "RUNNABLE"
        /\ chan' = chan
    BY <1>15, <2>2 DEF WakeupTest, IInv, TypeOK
  <2>4. SleepersOf(d)' = SleepersOf(d) \ {e}
    BY <2>2, <2>3 DEF SleepersOf
  <2>5. \A b \in Buckets : b # d => SleepersOf(b)' = SleepersOf(b)
    BY <2>2, <2>3 DEF SleepersOf
  <2> HIDE DEF rem
  <2>6. ASSUME NEW b \in Buckets
        PROVE  /\ Range(queue'[b]) = SleepersOf(b)'
               /\ Distinct(queue'[b])
               /\ \A q \in Range(queue'[b]) : echan'[q] = chan'[q]
    <3>1. Range(queue[b]) = SleepersOf(b) /\ Distinct(queue[b])
      BY DEF IInv, QueueIsSleepers, Distinct
    <3>2. \A q \in Range(queue[b]) : q \in Procs /\ echan[q] = chan[q]
      BY DEF IInv, QueueIsSleepers, SleepersOf
    <3>3. CASE b = d
      BY <2>2, <2>3, <2>4, <3>1, <3>2, <3>3, ZenonT(30)
    <3>4. CASE b # d
      <4>1. e \notin SleepersOf(b)'
        BY <2>3 DEF SleepersOf
      <4> QED BY <2>3, <2>5, <3>1, <3>2, <3>4, <4>1
    <3> QED BY <3>3, <3>4
  <2> QED BY <2>6 DEF QueueIsSleepers, Distinct
<1>16. CASE WakeupReleaseBucket(p)
  BY <1>a, <1>16 DEF TypeOK, QueueIsSleepers, SleepersOf, StateAt, LabelInv, WakeupReleaseBucket,
        Goto, Return
<1>17. CASE KillAcquireProc(p)
  BY <1>a, <1>17 DEF TypeOK, QueueIsSleepers, SleepersOf, StateAt, LabelInv, KillAcquireProc, Goto
<1>18. CASE KillMark(p)
  BY <1>a, <1>18 DEF TypeOK, QueueIsSleepers, SleepersOf, StateAt, LabelInv, KillMark, Goto, Return
<1>19. CASE ClientAcquire(p)
  BY <1>a, <1>19 DEF TypeOK, QueueIsSleepers, SleepersOf, StateAt, LabelInv, ClientAcquire,
        AcquireCond, Goto
<1>20. CASE ClientRelease(p)
  BY <1>a, <1>20 DEF TypeOK, QueueIsSleepers, SleepersOf, StateAt, LabelInv, ClientRelease,
        ReleaseCond, Goto
<1>21. CASE ClientSleep(p)
  BY <1>a, <1>21 DEF TypeOK, QueueIsSleepers, SleepersOf, StateAt, LabelInv, ClientSleep, CallSleep,
        Goto, pvars
<1>22. CASE ClientWakeup(p)
  BY <1>a, <1>22 DEF TypeOK, QueueIsSleepers, SleepersOf, StateAt, LabelInv, ClientWakeup,
        CallWakeup, Goto, pvars
<1>23. CASE ClientKill(p)
  BY <1>a, <1>23 DEF TypeOK, QueueIsSleepers, SleepersOf, StateAt, LabelInv, ClientKill, CallKill,
        Goto, pvars
<1> QED BY <1>1, <1>2, <1>3, <1>4, <1>5, <1>6, <1>7, <1>8, <1>9, <1>10, <1>11,
      <1>12, <1>13, <1>14, <1>15, <1>16, <1>17, <1>18, <1>19, <1>20, <1>21,
      <1>22, <1>23
     DEF KernelStep, Progress, Sleep, Wakeup, Kill, Client
=============================================================================
