-------------------------- MODULE SleepWakeupProofs --------------------------
(*****************************************************************************)
(* The theorems about SleepWakeup, for any set of processes, channels,       *)
(* buckets and condition locks, any hash and any number of harts.            *)
(*****************************************************************************)
EXTENDS SleepWakeupLocks, SleepWakeupQueues

\* Every step keeps wakeup's cursors on the queue.
LEMMA CursorStep ==
  ASSUME IInv, NEW p \in Procs, KernelStep(p) \/ Client(p)
  PROVE  CursorInv'
<1> USE BucketAssumption, CondLockAssumption, NullAssumption
<1>a. TypeOK /\ StateAt(p) /\ CursorInv
  BY DEF IInv, StateInv
<1>1. CASE Dispatch(p)
  <2>1. LeavesCursors(p)
    BY <1>a, <1>1 DEF LeavesCursors, TypeOK, StateAt, Dispatch, Goto
  <2> QED BY <2>1, CursorQuiet
<1>2. CASE Sched(p)
  <2>1. LeavesCursors(p)
    BY <1>a, <1>2 DEF LeavesCursors, TypeOK, StateAt, Sched, Goto
  <2> QED BY <2>1, CursorQuiet
<1>3. CASE Yield(p)
  <2>1. pc[p] \notin {"wake2", "wake3"} /\ state[p] = "RUNNING"
    BY <1>3, YieldLabels DEF IInv, StateInv, StateAt
  <2>2. LeavesCursors(p)
    BY <1>a, <1>3, <2>1 DEF LeavesCursors, TypeOK, Yield
  <2> QED BY <2>2, CursorQuiet
<1>4. CASE YieldReturn(p)
  <2>1. saved[p] \notin {"wake2", "wake3"} /\ pc[p] = "yield2"
    BY <1>4, YieldReturnLabels, ZenonT(30) DEF YieldReturn, Goto
  <2>2. LeavesCursors(p)
    BY <1>a, <1>4, <2>1 DEF LeavesCursors, TypeOK, YieldReturn, Goto
  <2> QED BY <2>2, CursorQuiet
<1>5. CASE SleepAcquireBucket(p)
  <2>1. LeavesCursors(p)
    BY <1>a, <1>5 DEF LeavesCursors, TypeOK, StateAt, SleepAcquireBucket, Goto
  <2> QED BY <2>1, CursorQuiet
<1>6. CASE SleepAcquireProc(p)
  <2>1. LeavesCursors(p)
    BY <1>a, <1>6 DEF LeavesCursors, TypeOK, StateAt, SleepAcquireProc, Goto
  <2> QED BY <2>1, CursorQuiet
<1>7. CASE SleepReleaseLk(p)
  <2>1. LeavesCursors(p)
    BY <1>a, <1>7 DEF LeavesCursors, TypeOK, StateAt, SleepReleaseLk, Goto
  <2> QED BY <2>1, CursorQuiet
<1>8. CASE SleepEnqueue(p)
  <2>1. pc[p] = "sleep4"
    BY <1>8 DEF SleepEnqueue, Goto
  <2> PICK d \in {Bucket[arg[p]]} : TRUE
    OBVIOUS
  <2>2. /\ arg[p] \in Chans /\ d \in Buckets /\ state[p] = "RUNNING"
        /\ \A c \in Buckets : p \notin Range(queue[c])
    BY <2>1, EnqueueAddsNew
  <2>3. /\ \A b \in Buckets : b # d => queue'[b] = queue[b]
        /\ \A q \in Procs : q # p =>
             /\ state'[q] = state[q] /\ chan'[q] = chan[q] /\ echan'[q] = echan[q]
             /\ pc'[q] = pc[q]
        /\ pc'[p] = "sleep5" /\ chan'[p] = arg[p]
        /\ UNCHANGED <<todo, arg, one>>
    BY <1>8, <2>2 DEF SleepEnqueue, Goto, IInv, TypeOK
  <2>4. ASSUME NEW q \in Procs, pc[q] \in {"wake2", "wake3"}
        PROVE  arg[q] \in Chans /\ Bucket[arg[q]] \in Buckets /\ Bucket[arg[q]] # d
    <3>1. arg[q] \in Chans
      BY <2>4 DEF IInv, StateInv, StateAt, LabelInv
    <3>2. p # q
      BY <2>1, <2>4
    <3> QED BY <2>1, <2>2, <2>4, <3>1, <3>2, BucketExclusion DEF InBucket
  <2>5. ASSUME NEW q \in Procs, q # p PROVE CursorAt(q)'
    <3>1. PICK b \in {Bucket[arg[q]]} : TRUE
      OBVIOUS
    <3>2. ASSUME pc[q] \in {"wake2", "wake3"}
          PROVE  /\ queue'[b] = queue[b]
                 /\ \A r \in Range(queue[b]) : echan'[r] = echan[r]
                 /\ \A r \in Procs : state'[r] = "SLEEPING" /\ chan'[r] = arg[q] =>
                      state[r] = "SLEEPING" /\ chan[r] = arg[q]
      <4>1. b \in Buckets /\ b # d /\ arg[q] # arg[p]
        BY <2>4, <3>2
      <4>2. \A r \in Range(queue[b]) : r \in Procs /\ r # p
        BY <2>2, <4>1 DEF IInv, QueueIsSleepers, SleepersOf
      <4> QED BY <2>3, <4>1, <4>2
    <3>3. pc'[q] = pc[q] /\ todo'[q] = todo[q] /\ arg'[q] = arg[q] /\ one'[q] = one[q]
      BY <2>3, <2>5
    <3> QED BY <3>2, <3>3, CursorFrame
  <2>6. CursorAt(p)'
    <3>1. todo[p] = <<>>
      BY <2>1 DEF IInv, CursorInv, CursorAt
    <3>2. todo'[p] = <<>> /\ DOMAIN todo'[p] = {} /\ pc'[p] = "sleep5"
      BY <2>3, <3>1
    <3> QED BY <3>2 DEF CursorAt
  <2> QED BY <2>5, <2>6 DEF CursorInv
<1>9. CASE SleepReleaseBucket(p)
  <2>1. LeavesCursors(p)
    BY <1>a, <1>9 DEF LeavesCursors, TypeOK, StateAt, SleepReleaseBucket, Goto
  <2> QED BY <2>1, CursorQuiet
<1>10. CASE SleepTidyUp(p)
  <2>1. LeavesCursors(p)
    BY <1>a, <1>10 DEF LeavesCursors, TypeOK, StateAt, SleepTidyUp, Goto
  <2> QED BY <2>1, CursorQuiet
<1>11. CASE SleepReacquireLk(p)
  <2>1. LeavesCursors(p)
    BY <1>a, <1>11 DEF LeavesCursors, TypeOK, StateAt, SleepReacquireLk, Goto, Return
  <2> QED BY <2>1, CursorQuiet
<1>12. CASE WakeupAcquireBucket(p)
  <2> DEFINE d == Bucket[arg[p]]
  <2>1. pc[p] = "wake1" /\ arg[p] \in Chans /\ d \in Buckets
    BY <1>12 DEF WakeupAcquireBucket, Goto, IInv, StateInv, StateAt, LabelInv
  <2>2. /\ todo'[p] = queue[d] /\ pc'[p] = "wake2"
        /\ \A q \in Procs : q # p => todo'[q] = todo[q] /\ pc'[q] = pc[q]
        /\ UNCHANGED <<state, chan, echan, queue, arg, one>>
    BY <1>12, <2>1 DEF WakeupAcquireBucket, Goto, IInv, TypeOK
  <2>3. /\ \A i \in DOMAIN queue[d] : queue[d][i] \in Range(queue[d])
        /\ \A i, j \in DOMAIN queue[d] : i # j => queue[d][i] # queue[d][j]
    BY <2>1 DEF Range, IInv, QueueIsSleepers
  <2>4. ASSUME NEW r \in Procs, state[r] = "SLEEPING", chan[r] = arg[p]
        PROVE  \E i \in DOMAIN queue[d] : queue[d][i] = r
    <3>1. r \in Range(queue[d])
      BY <2>1, <2>4 DEF IInv, QueueIsSleepers, SleepersOf
    <3> QED BY <3>1 DEF Range
  <2> HIDE DEF d
  <2>5. \A i \in DOMAIN todo'[p] : todo'[p][i] \in Range(queue'[Bucket[arg'[p]]])
    BY <2>2, <2>3 DEF d
  <2>6. CursorAt(p)'
    <3>1. \A i, j \in DOMAIN todo'[p] : i # j => todo'[p][i] # todo'[p][j]
      BY <2>2, <2>3
    <3>2. ASSUME NEW r \in Procs, state'[r] = "SLEEPING", chan'[r] = arg'[p]
          PROVE  \E i \in DOMAIN todo'[p] : todo'[p][i] = r
      <4>1. state[r] = "SLEEPING" /\ chan[r] = arg[p]
        BY <2>2, <3>2
      <4>2. \E i \in DOMAIN queue[d] : queue[d][i] = r
        BY <2>4, <4>1
      <4> QED BY <2>2, <4>2
    <3> QED BY <2>2, <2>5, <3>1, <3>2 DEF CursorAt
  <2>7. ASSUME NEW q \in Procs, q # p PROVE CursorAt(q)'
    <3>1. PICK b \in {Bucket[arg[q]]} : TRUE
      OBVIOUS
    <3> QED BY <2>2, <2>7, CursorFrame
  <2> QED BY <2>6, <2>7 DEF CursorInv
<1>13. CASE WakeupSkip(p)
  <2> DEFINE d == Bucket[arg[p]]
             s == todo[p]
  <2>1. /\ pc[p] = "wake2" /\ s # <<>> /\ s \in Seq(Procs)
        /\ echan[Head(s)] # arg[p] /\ todo'[p] = Tail(s)
        /\ \A q \in Procs : q # p => todo'[q] = todo[q]
        /\ UNCHANGED <<pc, state, chan, echan, queue, arg, one>>
    BY <1>13 DEF WakeupSkip, pvars, IInv, TypeOK
  <2>2. /\ arg[p] \in Chans /\ d \in Buckets
        /\ \A i \in DOMAIN s : s[i] \in Range(queue[d])
        /\ Distinct(s)
    BY <2>1, BucketAssumption, ZenonT(30) DEF IInv, StateInv, StateAt, LabelInv, CursorInv, CursorAt, Distinct
  <2>3. /\ \A i \in DOMAIN Tail(s) : i + 1 \in DOMAIN s /\ Tail(s)[i] = s[i + 1]
        /\ \A i \in DOMAIN s : i # 1 =>
             i - 1 \in DOMAIN Tail(s) /\ Tail(s)[i - 1] = s[i]
        /\ Head(s) = s[1] /\ Distinct(Tail(s))
    BY <2>1, <2>2, TailLemma
  <2>4. ASSUME ~one[p], NEW r \in Procs, state[r] = "SLEEPING", chan[r] = arg[p]
        PROVE  \E i \in DOMAIN Tail(s) : Tail(s)[i] = r
    <3>1. PICK i \in DOMAIN s : s[i] = r
      BY <2>1, <2>4 DEF IInv, CursorInv, CursorAt
    <3>2. echan[r] = arg[p]
      BY <2>2, <2>4, <3>1 DEF IInv, QueueIsSleepers
    <3>3. i # 1
      BY <2>1, <2>3, <3>1, <3>2, ZenonT(30)
    <3> QED BY <2>3, <3>1, <3>3, SMTT(30)
  <2>5. \A i \in DOMAIN Tail(s) : Tail(s)[i] \in Range(queue[d])
    BY <2>2, <2>3
  <2>6. CursorAt(p)'
    BY <2>1, <2>3, <2>4, <2>5 DEF CursorAt, Distinct
  <2>7. ASSUME NEW q \in Procs, q # p PROVE CursorAt(q)'
    <3>1. PICK b \in {Bucket[arg[q]]} : TRUE
      OBVIOUS
    <3> QED BY <2>1, <2>7, CursorFrame
  <2> QED BY <2>6, <2>7 DEF CursorInv
<1>14. CASE WakeupAcquireProc(p)
  BY <1>a, <1>14 DEF TypeOK, CursorInv, CursorAt, StateAt, LabelInv, WakeupAcquireProc, Goto
<1>15. CASE WakeupTest(p)
  <2>1. pc[p] = "wake3"
    BY <1>15 DEF WakeupTest, Goto
  <2> PICK s \in {todo[p]}, e \in {Head(todo[p])}, d \in {Bucket[arg[p]]} : TRUE
    OBVIOUS
  <2> DEFINE rem == wq_remove_locked(queue[d], e)
  <2>2. /\ arg[p] \in Chans /\ d \in Buckets /\ e \in Procs
        /\ s # <<>> /\ s \in Seq(Procs) /\ Distinct(s)
        /\ state[e] = "SLEEPING" /\ chan[e] = arg[p]
        /\ e \in Range(queue[d])
        /\ Range(rem) = Range(queue[d]) \ {e}
    BY <2>1, WakeupTestMatches, ZenonT(30)
  <2>3. /\ queue'[d] = rem
        /\ \A b \in Buckets : b # d => queue'[b] = queue[b]
        /\ \A q \in Procs : q # e => state'[q] = state[q] /\ echan'[q] = echan[q]
        /\ state'[e] = "RUNNABLE"
        /\ \A q \in Procs : q # p => todo'[q] = todo[q] /\ pc'[q] = pc[q]
        /\ pc'[p] = "wake2"
        /\ UNCHANGED <<chan, arg, one>>
    BY <1>15, <2>2 DEF WakeupTest, Goto, IInv, TypeOK
  <2>4. /\ one[p] => todo'[p] = <<>>
        /\ ~one[p] => todo'[p] = Tail(s)
    <3>1. todo' = [todo EXCEPT ![p] = IF one[p] THEN <<>> ELSE Tail(s)]
      BY <1>15, <2>2 DEF WakeupTest
    <3> QED BY <3>1 DEF IInv, TypeOK
  <2>5. /\ \A i \in DOMAIN Tail(s) : i + 1 \in DOMAIN s /\ Tail(s)[i] = s[i + 1]
        /\ \A i \in DOMAIN s : i # 1 =>
             i - 1 \in DOMAIN Tail(s) /\ Tail(s)[i - 1] = s[i]
        /\ e = s[1] /\ Distinct(Tail(s)) /\ Range(Tail(s)) = Range(s) \ {e}
    BY <2>2, TailLemma
  <2>6. \A i \in DOMAIN s : s[i] \in Range(queue[d])
    BY DEF IInv, CursorInv, CursorAt
  <2>7. ASSUME NEW q \in Procs, q # p, pc[q] \in {"wake2", "wake3"}
        PROVE  arg[q] \in Chans /\ Bucket[arg[q]] \in Buckets /\ Bucket[arg[q]] # d
    <3>1. arg[q] \in Chans
      BY <2>7 DEF IInv, StateInv, StateAt, LabelInv
    <3> QED BY <2>1, <2>2, <2>7, <3>1, BucketExclusion DEF InBucket
  <2>8. \A b \in Buckets : b # d => e \notin Range(queue[b])
    BY <2>2 DEF IInv, QueueIsSleepers, SleepersOf
  <2> HIDE DEF rem
  <2>9. ASSUME NEW q \in Procs, q # p PROVE CursorAt(q)'
    <3>1. PICK b \in {Bucket[arg[q]]} : TRUE
      OBVIOUS
    <3>2. ASSUME pc[q] \in {"wake2", "wake3"}
          PROVE  /\ queue'[b] = queue[b]
                 /\ \A r \in Range(queue[b]) : echan'[r] = echan[r]
                 /\ \A r \in Procs : state'[r] = "SLEEPING" /\ chan'[r] = arg[q] =>
                      state[r] = "SLEEPING" /\ chan[r] = arg[q]
      <4>1. b \in Buckets /\ b # d
        BY <2>7, <2>9, <3>2
      <4>2. \A r \in Range(queue[b]) : r \in Procs /\ r # e
        BY <2>8, <4>1 DEF IInv, QueueIsSleepers, SleepersOf
      <4> QED BY <2>2, <2>3, <4>1, <4>2
    <3>3. pc'[q] = pc[q] /\ todo'[q] = todo[q] /\ arg'[q] = arg[q] /\ one'[q] = one[q]
      BY <2>3, <2>9
    <3> QED BY <3>2, <3>3, CursorFrame
  <2>10. CASE one[p]
    <3>1. CursorAt(p)'
      <4>1. todo'[p] = <<>> /\ pc'[p] = "wake2"
        BY <2>3, <2>4, <2>10
      <4>2. DOMAIN todo'[p] = {}
        BY <4>1
      <4>3. one'[p]
        BY <2>3, <2>10, Zenon
      <4> QED BY <4>1, <4>2, <4>3 DEF CursorAt
    <3> QED BY <2>9, <3>1 DEF CursorInv
  <2>11. CASE ~one[p]
    <3>1. todo'[p] = Tail(s)
      BY <2>4, <2>11
    <3>2. \A i \in DOMAIN Tail(s) : Tail(s)[i] \in Range(queue'[d])
      <4>1. \A i \in DOMAIN Tail(s) : Tail(s)[i] \in Range(queue[d])
        BY <2>5, <2>6
      <4>2. \A i \in DOMAIN Tail(s) : Tail(s)[i] \in Range(Tail(s))
        BY DEF Range
      <4>3. \A i \in DOMAIN Tail(s) : Tail(s)[i] # e
        BY <2>5, <4>2
      <4> QED BY <2>2, <2>3, <4>1, <4>3
    <3>3. \A i, j \in DOMAIN Tail(s) : i # j => Tail(s)[i] # Tail(s)[j]
      BY <2>5 DEF Distinct
    <3>4. ASSUME NEW r \in Procs, state'[r] = "SLEEPING", chan'[r] = arg'[p]
          PROVE  \E i \in DOMAIN Tail(s) : Tail(s)[i] = r
      <4>1. r # e /\ state[r] = "SLEEPING" /\ chan[r] = arg[p]
        BY <2>2, <2>3, <3>4
      <4>2. PICK i \in DOMAIN s : s[i] = r
        BY <2>1, <2>11, <4>1 DEF IInv, CursorInv, CursorAt
      <4>3. i # 1
        BY <2>5, <4>1, <4>2
      <4> QED BY <2>5, <4>2, <4>3, ZenonT(30)
    <3>5. CursorAt(p)'
      <4>1. queue'[Bucket[arg'[p]]] = queue'[d] /\ pc'[p] = "wake2"
        BY <2>3
      <4> QED BY <3>1, <3>2, <3>3, <3>4, <4>1 DEF CursorAt
    <3> QED BY <2>9, <3>5 DEF CursorInv
  <2> QED BY <2>10, <2>11
<1>16. CASE WakeupReleaseBucket(p)
  <2>1. pc[p] = "wake2" /\ todo[p] = <<>> /\ ret[p] \in {"user", "crit"}
    BY <1>16 DEF WakeupReleaseBucket, Return, Goto, IInv, TypeOK
  <2>2. /\ pc'[p] = ret[p]
        /\ \A q \in Procs : q # p => pc'[q] = pc[q] /\ arg'[q] = arg[q] /\ one'[q] = one[q]
        /\ UNCHANGED <<state, chan, echan, queue, todo>>
    BY <1>16 DEF WakeupReleaseBucket, Return, Goto, IInv, TypeOK
  <2>3. CursorAt(p)'
    <3>1. todo'[p] = <<>> /\ DOMAIN todo'[p] = {} /\ pc'[p] \in {"user", "crit"}
      BY <2>1, <2>2
    <3> QED BY <3>1, ZenonT(30) DEF CursorAt
  <2>4. ASSUME NEW q \in Procs, q # p PROVE CursorAt(q)'
    <3>1. PICK b \in {Bucket[arg[q]]} : TRUE
      OBVIOUS
    <3> QED BY <2>2, <2>4, CursorFrame
  <2> QED BY <2>3, <2>4 DEF CursorInv
<1>17. CASE KillAcquireProc(p)
  <2>1. LeavesCursors(p)
    BY <1>a, <1>17 DEF LeavesCursors, TypeOK, StateAt, KillAcquireProc, Goto
  <2> QED BY <2>1, CursorQuiet
<1>18. CASE KillMark(p)
  <2>1. /\ pc[p] = "kill2" /\ pc'[p] \in {"wake1", "user"}
        /\ \A q \in Procs : q # p =>
             pc'[q] = pc[q] /\ ret'[q] = ret[q] /\ arg'[q] = arg[q] /\ one'[q] = one[q]
        /\ UNCHANGED <<state, chan, echan, queue, todo>>
    BY <1>18, KillMarkEffect, ZenonT(30)
  <2> QED BY <2>1, CursorQuiet, ZenonT(30) DEF LeavesCursors
<1>19. CASE ClientAcquire(p)
  <2>1. LeavesCursors(p)
    BY <1>a, <1>19 DEF LeavesCursors, TypeOK, StateAt, ClientAcquire, AcquireCond, Goto
  <2> QED BY <2>1, CursorQuiet
<1>20. CASE ClientRelease(p)
  <2>1. LeavesCursors(p)
    BY <1>a, <1>20 DEF LeavesCursors, TypeOK, StateAt, ClientRelease, ReleaseCond, Goto
  <2> QED BY <2>1, CursorQuiet
<1>21. CASE ClientSleep(p)
  <2>1. LeavesCursors(p)
    BY <1>a, <1>21 DEF LeavesCursors, TypeOK, StateAt, ClientSleep, CallSleep, Goto, pvars
  <2> QED BY <2>1, CursorQuiet
<1>22. CASE ClientWakeup(p)
  <2>1. LeavesCursors(p)
    BY <1>a, <1>22 DEF LeavesCursors, TypeOK, StateAt, ClientWakeup, CallWakeup, Goto, pvars
  <2> QED BY <2>1, CursorQuiet
<1>23. CASE ClientKill(p)
  <2>1. LeavesCursors(p)
    BY <1>a, <1>23 DEF LeavesCursors, TypeOK, StateAt, ClientKill, CallKill, Goto, pvars
  <2> QED BY <2>1, CursorQuiet
<1> QED BY <1>1, <1>2, <1>3, <1>4, <1>5, <1>6, <1>7, <1>8, <1>9, <1>10, <1>11,
      <1>12, <1>13, <1>14, <1>15, <1>16, <1>17, <1>18, <1>19, <1>20, <1>21,
      <1>22, <1>23
     DEF KernelStep, Progress, Sleep, Wakeup, Kill, Client
-----------------------------------------------------------------------------
(* The inductive invariant and what follows from it.                       *)

\* The processes that kfork() has just made RUNNABLE satisfy the invariant.
LEMMA InitIInv ==
  ASSUME Init
  PROVE  IInv
<1> USE NullAssumption
<1>1. TypeOK
  BY DEF Init, TypeOK, Labels
<1>2. CondLockInv
  BY DEF Init, CondLockInv, InCond
<1>3. BucketLockInv
  BY DEF Init, BucketLockInv, InBucket
<1>4. ProcLockInv
  BY DEF Init, ProcLockInv
<1>5. StateInv
  BY DEF Init, StateInv, StateAt, LabelInv
<1>6. QueueIsSleepers
  BY DEF Init, QueueIsSleepers, SleepersOf, Range
<1>7. CursorInv
  BY DEF Init, CursorInv, CursorAt
<1> QED BY <1>1, <1>2, <1>3, <1>4, <1>5, <1>6, <1>7 DEF IInv

\* Every step of the kernel and of its callers preserves the invariant.
LEMMA StepIInv ==
  ASSUME IInv, [Next]_vars
  PROVE  IInv'
<1>1. CASE Next
  <2>1. PICK p \in Procs : KernelStep(p) \/ Client(p)
    BY <1>1 DEF Next
  <2> QED BY <2>1, TypeStep, CondLockStep, BucketLockStep, ProcLockStep, StateStep,
             QueueStep, CursorStep DEF IInv
<1>2. CASE UNCHANGED vars
  <2>1. TypeOK'
    BY <1>2 DEF vars, pvars, cvars, IInv, TypeOK
  <2>2. CondLockInv'
    BY <1>2 DEF vars, pvars, cvars, IInv, CondLockInv, InCond
  <2>3. BucketLockInv'
    BY <1>2 DEF vars, pvars, cvars, IInv, BucketLockInv, InBucket
  <2>7. ProcLockInv'
    BY <1>2 DEF vars, pvars, cvars, IInv, ProcLockInv
  <2>4. StateInv'
    <3>1. StateInv /\ UNCHANGED <<pc, saved, ret, arg, victim, state, chan>>
      BY <1>2 DEF vars, pvars, cvars, IInv
    <3>2. ASSUME NEW q \in Procs PROVE StateAt(q)'
      <4>1. StateAt(q)
        BY <3>1 DEF StateInv
      <4> QED BY <3>1, <4>1 DEF StateAt, LabelInv
    <3> QED BY <3>2 DEF StateInv
  <2>5. QueueIsSleepers'
    BY <1>2 DEF vars, pvars, cvars, IInv, QueueIsSleepers, SleepersOf
  <2>6. CursorInv'
    <3>1. CursorInv /\ UNCHANGED <<pc, todo, arg, one, queue, echan, state, chan>>
      BY <1>2 DEF vars, pvars, cvars, IInv
    <3>2. ASSUME NEW q \in Procs PROVE CursorAt(q)'
      <4>1. CursorAt(q)
        BY <3>1 DEF CursorInv
      <4> QED BY <3>1, <4>1 DEF CursorAt
    <3> QED BY <3>2 DEF CursorInv
  <2> QED BY <2>1, <2>2, <2>3, <2>4, <2>5, <2>6, <2>7 DEF IInv
<1> QED BY <1>1, <1>2

\* The inductive invariant holds in every state that sleep(), wakeup(),
\* wakeup_one(), kkill(), yield() and scheduler() can reach, for any number of
\* processes, channels, buckets, condition locks and harts and for any hash.
THEOREM Invariance == Spec => []IInv
BY InitIInv, StepIInv, PTL DEF Spec

\* Every variable of the wait queue, the process table and the locks keeps its
\* type.
THEOREM TypeCorrect == Spec => []TypeOK
<1>1. IInv => TypeOK
  BY DEF IInv
<1> QED BY <1>1, Invariance, PTL

\* The lists of waitqueue.c hold exactly the sleepers of their bucket, each
\* once: nobody sleeps without an entry that wakeup() can find, and no entry
\* outlives its sleep.
THEOREM QueuesHoldSleepers == Spec => []QueueIsSleepers
<1>1. IInv => QueueIsSleepers
  BY DEF IInv
<1> QED BY <1>1, Invariance, PTL

\* None of the panics of sched() (proc.c:487-494) can be reached from sleep()
\* or yield().
THEOREM SchedSafe == Spec => []SchedCannotPanic
<1>1. ASSUME IInv PROVE SchedCannotPanic
  <2> SUFFICES ASSUME NEW p \in Procs, pc[p] = "sched"
               PROVE  /\ procLock[p] = p
                      /\ state[p] # "RUNNING"
                      /\ \A l \in CondLocks : condLock[l] # p
                      /\ \A b \in Buckets : bucketLock[b] # p
                      /\ \A q \in Procs \ {p} : procLock[q] # p
    BY DEF SchedCannotPanic
  <2>1. procLock[p] = p /\ \A q \in Procs \ {p} : procLock[q] # p
    BY <1>1 DEF IInv, ProcLockInv
  <2>2. state[p] # "RUNNING"
    BY <1>1 DEF IInv, StateInv, StateAt
  <2>3. \A l \in CondLocks : condLock[l] # p
    BY <1>1 DEF IInv, CondLockInv, InCond
  <2>4. \A b \in Buckets : bucketLock[b] # p
    BY <1>1 DEF IInv, BucketLockInv, InBucket
  <2> QED BY <2>1, <2>2, <2>3, <2>4
<1> QED BY <1>1, Invariance, PTL

\* The locks of a sleeping or waking process are always taken in the order lk,
\* bucket, p->lock and at most one of each kind is held, so that no cycle of
\* processes waiting for each other's spinlocks can form.
THEOREM LocksOrdered == Spec => []LockOrder
<1>1. ASSUME IInv PROVE LockOrder
  <2> SUFFICES ASSUME NEW p \in Procs
               PROVE  /\ WaitsForCond(p) => \A l \in CondLocks : condLock[l] # p
                      /\ WaitsForCond(p) \/ WaitsForBucket(p) =>
                           \A b \in Buckets : bucketLock[b] # p
                      /\ WaitsForCond(p) \/ WaitsForBucket(p) \/ WaitsForProc(p) =>
                           \A q \in Procs : procLock[q] # p
    BY DEF LockOrder
  <2>1. WaitsForCond(p) => \A l \in CondLocks : condLock[l] # p
    BY <1>1 DEF IInv, CondLockInv, InCond, WaitsForCond
  <2>2. WaitsForCond(p) \/ WaitsForBucket(p) => \A b \in Buckets : bucketLock[b] # p
    BY <1>1 DEF IInv, BucketLockInv, InBucket, WaitsForCond, WaitsForBucket
  <2>3. WaitsForCond(p) \/ WaitsForBucket(p) \/ WaitsForProc(p) =>
          \A q \in Procs : procLock[q] # p
    BY <1>1 DEF IInv, ProcLockInv, WaitsForCond, WaitsForBucket, WaitsForProc
  <2> QED BY <2>1, <2>2, <2>3
<1> QED BY <1>1, Invariance, PTL

\* A process that scheduler() may pick has left its kernel stack.
THEOREM SwitchedOut == Spec => []RunnableIsSwitchedOut
<1>1. ASSUME IInv PROVE RunnableIsSwitchedOut
  <2> SUFFICES ASSUME NEW p \in Procs, state[p] = "RUNNABLE", procLock[p] = NoProc
               PROVE  pc[p] = "off"
    BY DEF RunnableIsSwitchedOut
  <2>1. pc[p] \in {"sleep5", "sched", "off"}
    BY <1>1 DEF IInv, StateInv, StateAt
  <2>2. pc[p] \notin {"sleep5", "sched"}
    BY <1>1, NullAssumption DEF IInv, ProcLockInv
  <2> QED BY <2>1, <2>2
<1> QED BY <1>1, Invariance, PTL

\* When the loop of wakeup() ends, nobody sleeps on its channel.
THEOREM WakeupComplete == Spec => []WakeupMissesNobody
<1>1. ASSUME IInv PROVE WakeupMissesNobody
  <2> SUFFICES ASSUME NEW p \in Procs, pc[p] = "wake2", todo[p] = <<>>, ~one[p],
                      NEW q \in Procs, state[q] = "SLEEPING", chan[q] = arg[p]
               PROVE  FALSE
    BY DEF WakeupMissesNobody
  <2>1. CursorAt(p)
    BY <1>1 DEF IInv, CursorInv
  <2>2. \E i \in DOMAIN todo[p] : todo[p][i] = q
    BY <2>1 DEF CursorAt
  <2>3. DOMAIN todo[p] = {}
    OBVIOUS
  <2> QED BY <2>2, <2>3
<1> QED BY <1>1, Invariance, PTL
=============================================================================
