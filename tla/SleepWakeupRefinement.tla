------------------------ MODULE SleepWakeupRefinement ------------------------
(***************************************************************************)
(* sleep(), wakeup() and wakeup_one() implement CondVar, for any set of    *)
(* processes, channels, buckets and condition locks and any hash.          *)
(***************************************************************************)
EXTENDS SleepWakeupProofs

\* Nothing that CondVar sees of q changes.
CVUnchanged(q) ==
  /\ WaitingOn(q)' = WaitingOn(q)
  /\ WakingOn(q)' = WakingOn(q)
  /\ Single(q)' <=> Single(q)
  /\ Owed(q)' = Owed(q)

\* A step that changes nothing CondVar sees of any process is a stutter.
LEMMA Stutter ==
  ASSUME \A q \in Procs : CVUnchanged(q)
  PROVE  UNCHANGED CV!cvvars
<1>1. [q \in Procs |-> WaitingOn(q)]' = [q \in Procs |-> WaitingOn(q)]
  BY DEF CVUnchanged
<1>2. [q \in Procs |-> WakingOn(q)]' = [q \in Procs |-> WakingOn(q)]
  BY DEF CVUnchanged
<1>3. [q \in Procs |-> Single(q)]' = [q \in Procs |-> Single(q)]
  <2>1. \A q \in Procs : Single(q)' = Single(q)
    BY DEF CVUnchanged, Single
  <2> QED BY <2>1
<1>4. [q \in Procs |-> Owed(q)]' = [q \in Procs |-> Owed(q)]
  BY DEF CVUnchanged
<1> QED BY <1>1, <1>2, <1>3, <1>4 DEF CV!cvvars

\* A step of p between labels outside the sections that CondVar sees, which
\* makes nobody sleep and wakes nobody.
LEMMA QuietStep ==
  ASSUME IInv, NEW p \in Procs,
         pc[p] \notin {"sleep4", "wake2", "wake3"},
         pc'[p] \notin {"sleep4", "wake2", "wake3"},
         \A q \in Procs : q # p =>
           pc'[q] = pc[q] /\ arg'[q] = arg[q] /\ one'[q] = one[q],
         \A q \in Procs : /\ state'[q] = "SLEEPING" <=> state[q] = "SLEEPING"
                          /\ state[q] = "SLEEPING" => chan'[q] = chan[q],
         UNCHANGED <<echan, todo>>
  PROVE  UNCHANGED CV!cvvars
<1>1. ASSUME NEW q \in Procs PROVE WaitingOn(q)' = WaitingOn(q)
  BY DEF WaitingOn
<1>2. ASSUME NEW q \in Procs PROVE WakingOn(q)' = WakingOn(q)
  BY DEF WakingOn, Awake
<1>3. ASSUME NEW q \in Procs PROVE Single(q)' <=> Single(q)
  <2>1. CASE q = p
    BY <2>1 DEF Single, Awake
  <2>2. CASE q # p
    BY <2>2 DEF Single, Awake
  <2> QED BY <2>1, <2>2
<1>4. ASSUME NEW q \in Procs PROVE Owed(q)' = Owed(q)
  <2>1. CASE q = p
    <3>1. todo[p] = <<>>
      BY DEF IInv, CursorInv, CursorAt
    <3> QED BY <2>1, <3>1 DEF Owed, Range
  <2>2. CASE q # p
    BY <2>2 DEF Owed
  <2> QED BY <2>1, <2>2
<1> QED BY <1>1, <1>2, <1>3, <1>4, Stutter DEF CVUnchanged

\* sleep() starts to wait when it releases lk (proc.c:559).
LEMMA WaitStep ==
  ASSUME IInv, NEW p \in Procs, SleepReleaseLk(p)
  PROVE  CV!Next
<1>0. TypeOK /\ StateAt(p)
  BY DEF IInv, StateInv
<1>1. /\ pc[p] = "sleep3" /\ pc'[p] = "sleep4" /\ arg[p] \in Chans
      /\ state[p] # "SLEEPING"
      /\ \A q \in Procs : q # p => pc'[q] = pc[q]
      /\ UNCHANGED <<state, chan, echan, arg, one, todo>>
  BY <1>0 DEF SleepReleaseLk, Goto, TypeOK, StateAt, LabelInv
<1>2. WaitingOn(p) = NoChan /\ WaitingOn(p)' = arg[p]
  BY <1>1 DEF WaitingOn
<1>3. \A q \in Procs : q # p => WaitingOn(q)' = WaitingOn(q)
  BY <1>1 DEF WaitingOn
<1>4. \A q \in Procs : /\ WakingOn(q)' = WakingOn(q) /\ Owed(q)' = Owed(q)
                       /\ Single(q)' = Single(q)
  <2>1. \A q \in Procs : Awake(q)' <=> Awake(q)
    BY <1>1 DEF Awake
  <2> QED BY <1>1, <2>1 DEF WakingOn, Owed, Single, Awake
<1>5. CV!Wait(p, arg[p])
  <2>1. [q \in Procs |-> WaitingOn(q)]' =
          [[q \in Procs |-> WaitingOn(q)] EXCEPT ![p] = arg[p]]
    BY <1>2, <1>3, ZenonT(30)
  <2> QED BY <1>2, <1>4, <2>1 DEF CV!Wait
<1> QED BY <1>1, <1>5 DEF CV!Next

\* Linking the entry and setting chan and state (proc.c:562-564) is not visible
\* any more: the process already waits.
LEMMA EnqueueStep ==
  ASSUME IInv, NEW p \in Procs, SleepEnqueue(p)
  PROVE  UNCHANGED CV!cvvars
<1>0. TypeOK /\ StateAt(p)
  BY DEF IInv, StateInv
<1>1. /\ pc[p] = "sleep4" /\ pc'[p] = "sleep5" /\ arg[p] \in Chans
      /\ state[p] = "RUNNING" /\ state'[p] = "SLEEPING" /\ chan'[p] = arg[p]
      /\ \A q \in Procs : q # p =>
           pc'[q] = pc[q] /\ state'[q] = state[q] /\ chan'[q] = chan[q] /\ echan'[q] = echan[q]
      /\ UNCHANGED <<arg, one, todo>>
  BY <1>0 DEF SleepEnqueue, Goto, TypeOK, StateAt, LabelInv
<1>2. ASSUME NEW q \in Procs PROVE WaitingOn(q)' = WaitingOn(q)
  BY <1>1 DEF WaitingOn
<1>3. ASSUME NEW q \in Procs PROVE Awake(q)' <=> Awake(q)
  BY <1>1 DEF Awake
<1>4. ASSUME NEW q \in Procs PROVE WakingOn(q)' = WakingOn(q) /\ (Single(q)' <=> Single(q))
  BY <1>1, <1>3 DEF WakingOn, Single
<1>5. ASSUME NEW q \in Procs PROVE Owed(q)' = Owed(q)
  <2>1. \A r \in Range(todo[q]) : r \in Procs /\ r # p
    <3>1. CASE pc[q] \in {"wake2", "wake3"}
      <4>1. arg[q] \in Chans /\ CursorAt(q)
        BY <3>1 DEF IInv, StateInv, StateAt, LabelInv, CursorInv
      <4>2. PICK b \in Buckets : b = Bucket[arg[q]]
        BY <4>1, BucketAssumption
      <4>3. \A r \in Range(todo[q]) : r \in Range(queue[b])
        BY <4>1, <4>2 DEF CursorAt, Range
      <4> QED BY <1>1, <4>3 DEF IInv, QueueIsSleepers, SleepersOf
    <3>2. CASE pc[q] \notin {"wake2", "wake3"}
      <4>1. todo[q] = <<>>
        BY <3>2 DEF IInv, CursorInv, CursorAt
      <4> QED BY <4>1 DEF Range
    <3> QED BY <3>1, <3>2
  <2> QED BY <1>1, <2>1 DEF Owed
<1> QED BY <1>2, <1>4, <1>5, Stutter DEF CVUnchanged

\* wakeup() looks at the channel when it takes the lock of the bucket: the
\* entries for the channel are exactly its sleepers.
LEMMA BeginStep ==
  ASSUME IInv, NEW p \in Procs, WakeupAcquireBucket(p)
  PROVE  CV!Next
<1> PICK d \in {Bucket[arg[p]]} : TRUE
  OBVIOUS
<1>1. /\ pc[p] = "wake1" /\ pc'[p] = "wake2" /\ arg[p] \in Chans /\ d \in Buckets
      /\ bucketLock[d] = NoProc /\ todo'[p] = queue[d]
      /\ \A q \in Procs : q # p => pc'[q] = pc[q] /\ todo'[q] = todo[q]
      /\ UNCHANGED <<state, chan, echan, arg, one>>
  BY BucketAssumption
     DEF WakeupAcquireBucket, Goto, IInv, TypeOK, StateInv, StateAt, LabelInv
<1>2. \A q \in Procs : WaitingOn(q)' = WaitingOn(q)
  BY <1>1 DEF WaitingOn
<1>3. /\ WakingOn(p) = NoChan /\ WakingOn(p)' = arg[p]
      /\ \A q \in Procs : q # p => WakingOn(q)' = WakingOn(q)
  BY <1>1 DEF WakingOn, Awake
<1>4. /\ Single(p)' = one[p] /\ one[p] \in BOOLEAN
      /\ \A q \in Procs : q # p => Single(q)' = Single(q)
  <2>1. one[p] \in BOOLEAN /\ \A q \in Procs : one[q] \in BOOLEAN
    BY DEF IInv, TypeOK
  <2>2. Awake(p)' /\ one'[p] = one[p]
    BY <1>1 DEF Awake
  <2>3. \A q \in Procs : q # p => (Awake(q)' <=> Awake(q)) /\ one'[q] = one[q]
    BY <1>1 DEF Awake
  <2>4. Single(p)' = one[p]
    BY <2>1, <2>2, Zenon DEF Single
  <2>5. \A q \in Procs : q # p => Single(q)' = Single(q)
    BY <2>3 DEF Single
  <2> QED BY <2>1, <2>4, <2>5
<1>5. Owed(p)' = {q \in Procs : WaitingOn(q) = arg[p]}
  <2>1. Owed(p)' = {q \in Range(queue[d]) : echan[q] = arg[p]}
    BY <1>1 DEF Owed
  <2>2. /\ Range(queue[d]) = SleepersOf(d)
        /\ \A q \in Range(queue[d]) : echan[q] = chan[q]
    BY <1>1 DEF IInv, QueueIsSleepers
  <2>3. ASSUME NEW q \in Procs PROVE ~(pc[q] = "sleep4" /\ arg[q] = arg[p])
    BY <1>1, NullAssumption DEF IInv, BucketLockInv, InBucket
  <2>4. ASSUME NEW q \in Procs PROVE WaitingOn(q) = arg[p] <=>
                                       state[q] = "SLEEPING" /\ chan[q] = arg[p]
    <3>1. pc[q] = "sleep4" => state[q] # "SLEEPING"
      BY DEF IInv, StateInv, StateAt
    <3> QED BY <1>1, <2>3, <3>1, NullAssumption DEF WaitingOn
  <2> QED BY <2>1, <2>2, <2>4 DEF SleepersOf
<1>6. \A q \in Procs : q # p => Owed(q)' = Owed(q)
  BY <1>1 DEF Owed
<1>7. CV!Begin(p, arg[p], one[p])
  <2>1. [q \in Procs |-> WaitingOn(q)]' = [q \in Procs |-> WaitingOn(q)]
    BY <1>2
  <2>2. [q \in Procs |-> WakingOn(q)]' = [[q \in Procs |-> WakingOn(q)] EXCEPT ![p] = arg[p]]
    BY <1>3, ZenonT(30)
  <2>3. [q \in Procs |-> Single(q)]' = [[q \in Procs |-> Single(q)] EXCEPT ![p] = one[p]]
    BY <1>4, ZenonT(30)
  <2>4. CV!Waiters(arg[p]) = {q \in Procs : WaitingOn(q) = arg[p]}
    BY DEF CV!Waiters
  <2>5. [q \in Procs |-> Owed(q)]' =
          [[q \in Procs |-> Owed(q)] EXCEPT ![p] = CV!Waiters(arg[p])]
    BY <1>5, <1>6, <2>4, ZenonT(30)
  <2> QED BY <1>3, <2>1, <2>2, <2>3, <2>5 DEF CV!Begin
<1> QED BY <1>1, <1>4, <1>7 DEF CV!Next

\* Passing an entry of another channel wakes nobody.
LEMMA SkipStep ==
  ASSUME IInv, NEW p \in Procs, WakeupSkip(p)
  PROVE  UNCHANGED CV!cvvars
<1> PICK s \in {todo[p]} : TRUE
  OBVIOUS
<1>1. /\ pc[p] = "wake2" /\ s # <<>> /\ s \in Seq(Procs) /\ echan[Head(s)] # arg[p]
      /\ todo'[p] = Tail(s)
      /\ \A q \in Procs : q # p => todo'[q] = todo[q]
      /\ UNCHANGED <<pc, state, chan, echan, arg, one>>
  BY DEF WakeupSkip, pvars, IInv, TypeOK
<1>2. Distinct(s)
  BY DEF IInv, CursorInv, CursorAt, Distinct
<1>3. Range(Tail(s)) = Range(s) \ {Head(s)}
  BY <1>1, <1>2, TailLemma
<1>4. Owed(p)' = Owed(p)
  BY <1>1, <1>3 DEF Owed
<1>5. \A q \in Procs : q # p => Owed(q)' = Owed(q)
  BY <1>1 DEF Owed
<1>6. \A q \in Procs : /\ WaitingOn(q)' = WaitingOn(q) /\ WakingOn(q)' = WakingOn(q)
                       /\ Single(q)' = Single(q)
  BY <1>1 DEF WaitingOn, WakingOn, Single, Awake
<1> QED BY <1>4, <1>5, <1>6, Stutter DEF CVUnchanged

\* Taking e->proc->lock wakes nobody yet.
LEMMA AcquireProcStep ==
  ASSUME IInv, NEW p \in Procs, WakeupAcquireProc(p)
  PROVE  UNCHANGED CV!cvvars
<1>1. /\ pc[p] = "wake2" /\ pc'[p] = "wake3"
      /\ \A q \in Procs : q # p => pc'[q] = pc[q]
      /\ UNCHANGED <<state, chan, echan, arg, one, todo>>
  BY DEF WakeupAcquireProc, Goto, IInv, TypeOK
<1>2. \A q \in Procs : WaitingOn(q)' = WaitingOn(q) /\ Owed(q)' = Owed(q)
  BY <1>1 DEF WaitingOn, Owed
<1>3. \A q \in Procs : Awake(q)' <=> Awake(q)
  BY <1>1 DEF Awake
<1>4. \A q \in Procs : WakingOn(q)' = WakingOn(q) /\ Single(q)' = Single(q)
  BY <1>1, <1>3 DEF WakingOn, Single
<1> QED BY <1>2, <1>4, Stutter DEF CVUnchanged

\* The test under e->proc->lock succeeds and wakes one of the processes that
\* wakeup() owes a wake-up.
LEMMA WakeStep ==
  ASSUME IInv, NEW p \in Procs, WakeupTest(p)
  PROVE  CV!Next
<1> PICK s \in {todo[p]}, e \in {Head(todo[p])}, d \in {Bucket[arg[p]]} : TRUE
  OBVIOUS
<1>1. pc[p] = "wake3"
  BY DEF WakeupTest, Goto
<1>2. /\ arg[p] \in Chans /\ d \in Buckets /\ e \in Procs
      /\ s # <<>> /\ s \in Seq(Procs) /\ Distinct(s)
      /\ state[e] = "SLEEPING" /\ chan[e] = arg[p]
  BY <1>1, WakeupTestMatches
<1>3. echan[e] = arg[p] /\ pc[e] # "sleep4"
  BY <1>1, <1>2 DEF IInv, CursorInv, CursorAt, StateInv, StateAt
<1>4. /\ \A q \in Procs : q # e => state'[q] = state[q] /\ echan'[q] = echan[q]
      /\ state'[e] = "RUNNABLE" /\ echan'[e] = NoChan
      /\ \A q \in Procs : q # p => todo'[q] = todo[q] /\ pc'[q] = pc[q]
      /\ pc'[p] = "wake2"
      /\ UNCHANGED <<chan, arg, one>>
  BY <1>2 DEF WakeupTest, Goto, IInv, TypeOK
<1>5. todo' = [todo EXCEPT ![p] = IF one[p] THEN <<>> ELSE Tail(s)]
  BY <1>2 DEF WakeupTest
<1>6. /\ WaitingOn(e) = arg[p] /\ WaitingOn(e)' = NoChan
      /\ \A q \in Procs : q # e => WaitingOn(q)' = WaitingOn(q)
  <2>1. e # p
    BY <1>1, <1>2 DEF IInv, StateInv, StateAt
  <2> QED BY <1>1, <1>2, <1>3, <1>4, <2>1 DEF WaitingOn
<1>7. \A q \in Procs : Awake(q)' <=> Awake(q)
  BY <1>1, <1>4 DEF Awake
<1>8. WakingOn(p) = arg[p] /\ \A q \in Procs : WakingOn(q)' = WakingOn(q)
  BY <1>1, <1>4, <1>7 DEF WakingOn, Awake
<1>9. \A q \in Procs : Single(q)' = Single(q)
  BY <1>4, <1>7 DEF Single
<1>10. Single(p) <=> one[p]
  BY <1>1 DEF Single, Awake
<1>11. /\ Range(Tail(s)) = Range(s) \ {e} /\ e \in Range(s)
       /\ Range(s) \subseteq Procs
  <2>1. e = s[1] /\ 1 \in DOMAIN s /\ Range(Tail(s)) = Range(s) \ {e}
    BY <1>2, TailLemma
  <2>2. \A i \in DOMAIN s : s[i] \in Procs
    BY <1>2
  <2>3. e \in Range(s)
    BY <2>1 DEF Range
  <2>4. Range(s) \subseteq Procs
    BY <2>2 DEF Range
  <2> QED BY <2>1, <2>3, <2>4
<1>12. e \in Owed(p)
  BY <1>3, <1>11 DEF Owed
<1>13. one[p] => Owed(p)' = {}
  <2>1. one[p] => todo'[p] = <<>>
    BY <1>5 DEF IInv, TypeOK
  <2> QED BY <2>1 DEF Owed, Range
<1>14. ~one[p] => Owed(p)' = Owed(p) \ {e}
  <2>1. ~one[p] => todo'[p] = Tail(s)
    BY <1>5 DEF IInv, TypeOK
  <2>2. ASSUME ~one[p] PROVE Owed(p)' = {q \in Range(s) \ {e} : echan'[q] = arg[p]}
    BY <1>4, <1>11, <2>1, <2>2, ZenonT(30) DEF Owed
  <2>3. \A q \in Range(s) \ {e} : echan'[q] = echan[q]
    BY <1>4, <1>11
  <2> QED BY <2>2, <2>3 DEF Owed
<1>15. ASSUME NEW q \in Procs, q # p PROVE Owed(q)' = Owed(q)
  <2>1. ASSUME NEW r \in Range(todo[q]) PROVE r \in Procs /\ r # e
    <3>1. pc[q] \in {"wake2", "wake3"}
      <4>1. todo[q] # <<>>
        BY <2>1 DEF Range
      <4> QED BY <4>1 DEF IInv, CursorInv, CursorAt
    <3>2. arg[q] \in Chans /\ CursorAt(q)
      BY <3>1 DEF IInv, StateInv, StateAt, LabelInv, CursorInv
    <3>3. PICK b \in Buckets : b = Bucket[arg[q]]
      BY <3>2, BucketAssumption
    <3>4. b # d
      BY <1>1, <1>2, <1>15, <3>1, <3>2, <3>3, BucketExclusion, SMTT(30) DEF InBucket
    <3>5. r \in Range(queue[b])
      BY <2>1, <3>2, <3>3 DEF CursorAt, Range
    <3>6. r \in SleepersOf(b)
      BY <3>5 DEF IInv, QueueIsSleepers
    <3> QED BY <1>2, <3>4, <3>6 DEF SleepersOf
  <2> QED BY <1>4, <1>15, <2>1 DEF Owed
<1>16. CV!Wake(p, e)
  <2>1. [q \in Procs |-> WaitingOn(q)]' = [[q \in Procs |-> WaitingOn(q)] EXCEPT ![e] = NoChan]
    BY <1>2, <1>6, ZenonT(30)
  <2>2. [q \in Procs |-> WakingOn(q)]' = [q \in Procs |-> WakingOn(q)]
    BY <1>8
  <2>3. [q \in Procs |-> Single(q)]' = [q \in Procs |-> Single(q)]
    BY <1>9
  <2>4. CASE one[p]
    <3>1. [q \in Procs |-> Owed(q)]' = [[q \in Procs |-> Owed(q)] EXCEPT ![p] = {}]
      BY <1>13, <1>15, <2>4, ZenonT(30)
    <3>2. [q \in Procs |-> Single(q)][p]
      BY <1>10, <2>4, Zenon
    <3> QED BY <1>2, <1>6, <1>8, <1>12, <2>1, <2>2, <2>3, <3>1, <3>2 DEF CV!Wake
  <2>5. CASE ~one[p]
    <3>1. [q \in Procs |-> Owed(q)]' = [[q \in Procs |-> Owed(q)] EXCEPT ![p] = @ \ {e}]
      BY <1>14, <1>15, <2>5, ZenonT(30)
    <3>2. ~[q \in Procs |-> Single(q)][p]
      BY <1>10, <2>5, Zenon
    <3> QED BY <1>2, <1>6, <1>8, <1>12, <2>1, <2>2, <2>3, <3>1, <3>2 DEF CV!Wake
  <2> QED BY <2>4, <2>5
<1> QED BY <1>2, <1>16 DEF CV!Next

\* wakeup() releases the bucket when it owes nobody a wake-up.
LEMMA EndStep ==
  ASSUME IInv, NEW p \in Procs, WakeupReleaseBucket(p)
  PROVE  CV!Next
<1>0. TypeOK /\ StateAt(p)
  BY DEF IInv, StateInv
<1>1. /\ pc[p] = "wake2" /\ pc'[p] \in {"user", "crit"} /\ arg[p] \in Chans
      /\ todo[p] = <<>> /\ state[p] # "SLEEPING"
      /\ \A q \in Procs : q # p => pc'[q] = pc[q] /\ arg'[q] = arg[q] /\ one'[q] = one[q]
      /\ UNCHANGED <<state, chan, echan, todo>>
  BY <1>0 DEF WakeupReleaseBucket, Return, Goto, TypeOK, StateAt, LabelInv
<1>2. \A q \in Procs : WaitingOn(q)' = WaitingOn(q)
  BY <1>1 DEF WaitingOn
<1>3. /\ WakingOn(p) # NoChan /\ WakingOn(p)' = NoChan
      /\ \A q \in Procs : q # p => WakingOn(q)' = WakingOn(q)
  BY <1>1, NullAssumption DEF WakingOn, Awake
<1>4. Single(p)' = FALSE
  BY <1>1 DEF Single, Awake
<1>5. \A q \in Procs : q # p => Single(q)' = Single(q)
  BY <1>1 DEF Single, Awake
<1>6. Owed(p) = {} /\ Owed(p)' = {}
  BY <1>1 DEF Owed, Range
<1>7. \A q \in Procs : q # p => Owed(q)' = Owed(q)
  BY <1>1 DEF Owed
<1>8. CV!End(p)
  <2>1. [q \in Procs |-> WaitingOn(q)]' = [q \in Procs |-> WaitingOn(q)]
    BY <1>2
  <2>2. [q \in Procs |-> WakingOn(q)]' = [[q \in Procs |-> WakingOn(q)] EXCEPT ![p] = NoChan]
    BY <1>3, ZenonT(30)
  <2>3. [q \in Procs |-> Single(q)]' = [[q \in Procs |-> Single(q)] EXCEPT ![p] = FALSE]
    BY <1>4, <1>5, ZenonT(30)
  <2>4. [q \in Procs |-> Owed(q)]' = [q \in Procs |-> Owed(q)]
    BY <1>6, <1>7
  <2> QED BY <1>3, <1>6, <2>1, <2>2, <2>3, <2>4 DEF CV!End
<1> QED BY <1>8 DEF CV!Next
-----------------------------------------------------------------------------
\* Every step of the kernel and of its callers is a step of CondVar or a
\* stutter.
LEMMA RefineStep ==
  ASSUME IInv, [Next]_vars
  PROVE  [CV!Next]_CV!cvvars
<1>1. ASSUME NEW p \in Procs, KernelStep(p) \/ Client(p)
      PROVE  CV!Next \/ UNCHANGED CV!cvvars
  <2> DEFINE Quiet ==
        /\ pc[p] \notin {"sleep4", "wake2", "wake3"}
        /\ pc'[p] \notin {"sleep4", "wake2", "wake3"}
        /\ \A q \in Procs : q # p =>
             pc'[q] = pc[q] /\ arg'[q] = arg[q] /\ one'[q] = one[q]
        /\ \A q \in Procs : /\ state'[q] = "SLEEPING" <=> state[q] = "SLEEPING"
                            /\ state[q] = "SLEEPING" => chan'[q] = chan[q]
        /\ UNCHANGED <<echan, todo>>
  <2>1. Quiet => UNCHANGED CV!cvvars
    BY QuietStep
  <2>a. TypeOK /\ StateAt(p)
    BY DEF IInv, StateInv
  <2>2. CASE Dispatch(p)
    <3>1. Quiet
      BY <2>a, <2>2 DEF Dispatch, Goto, TypeOK, StateAt
    <3> QED BY <2>1, <3>1
  <2>3. CASE Sched(p)
    <3>1. Quiet
      BY <2>a, <2>3 DEF Sched, Goto, TypeOK, StateAt
    <3> QED BY <2>1, <3>1
  <2>4. CASE Yield(p)
    <3>0. pc[p] \in {"user", "sleep8", "wake1", "kill1"}
      BY <2>4, YieldLabels
    <3>1. Quiet
      BY <2>a, <2>4, <3>0 DEF Yield, TypeOK, StateAt
    <3> QED BY <2>1, <3>1
  <2>5. CASE YieldReturn(p)
    <3>1. Quiet
      BY <2>a, <2>5, ZenonT(30) DEF YieldReturn, Goto, TypeOK, StateAt
    <3> QED BY <2>1, <3>1
  <2>6. CASE SleepAcquireBucket(p)
    <3>1. Quiet
      BY <2>a, <2>6 DEF SleepAcquireBucket, Goto, TypeOK, StateAt
    <3> QED BY <2>1, <3>1
  <2>7. CASE SleepAcquireProc(p)
    <3>1. Quiet
      BY <2>a, <2>7 DEF SleepAcquireProc, Goto, TypeOK, StateAt
    <3> QED BY <2>1, <3>1
  <2>8. CASE SleepReleaseBucket(p)
    <3>1. Quiet
      BY <2>a, <2>8 DEF SleepReleaseBucket, Goto, TypeOK, StateAt
    <3> QED BY <2>1, <3>1
  <2>9. CASE SleepTidyUp(p)
    <3>1. Quiet
      BY <2>a, <2>9, SMTT(30) DEF SleepTidyUp, Goto, TypeOK, StateAt
    <3> QED BY <2>1, <3>1
  <2>10. CASE SleepReacquireLk(p)
    <3>1. Quiet
      BY <2>a, <2>10, ZenonT(30) DEF SleepReacquireLk, Return, Goto, TypeOK, StateAt
    <3> QED BY <2>1, <3>1
  <2>11. CASE KillAcquireProc(p)
    <3>1. Quiet
      BY <2>a, <2>11, SMTT(30) DEF KillAcquireProc, Goto, TypeOK, StateAt
    <3> QED BY <2>1, <3>1
  <2>12. CASE KillMark(p)
    <3>1. Quiet
      BY <2>12, KillMarkEffect, ZenonT(30)
    <3> QED BY <2>1, <3>1
  <2>13. CASE ClientAcquire(p)
    <3>1. Quiet
      BY <2>a, <2>13 DEF ClientAcquire, AcquireCond, Goto, TypeOK, StateAt
    <3> QED BY <2>1, <3>1
  <2>14. CASE ClientRelease(p)
    <3>1. Quiet
      BY <2>a, <2>14 DEF ClientRelease, ReleaseCond, Goto, TypeOK, StateAt
    <3> QED BY <2>1, <3>1
  <2>15. CASE ClientSleep(p)
    <3>1. Quiet
      BY <2>a, <2>15 DEF ClientSleep, CallSleep, Goto, pvars, TypeOK, StateAt
    <3> QED BY <2>1, <3>1
  <2>16. CASE ClientWakeup(p)
    <3>1. Quiet
      BY <2>a, <2>16 DEF ClientWakeup, CallWakeup, Goto, pvars, TypeOK, StateAt
    <3> QED BY <2>1, <3>1
  <2>17. CASE ClientKill(p)
    <3>1. Quiet
      BY <2>a, <2>17 DEF ClientKill, CallKill, Goto, pvars, TypeOK, StateAt
    <3> QED BY <2>1, <3>1
  <2>18. CASE SleepReleaseLk(p)
    BY <2>18, WaitStep
  <2>19. CASE SleepEnqueue(p)
    BY <2>19, EnqueueStep
  <2>20. CASE WakeupAcquireBucket(p)
    BY <2>20, BeginStep
  <2>21. CASE WakeupSkip(p)
    BY <2>21, SkipStep
  <2>22. CASE WakeupAcquireProc(p)
    BY <2>22, AcquireProcStep
  <2>23. CASE WakeupTest(p)
    BY <2>23, WakeStep
  <2>24. CASE WakeupReleaseBucket(p)
    BY <2>24, EndStep
  <2> HIDE DEF Quiet
  <2> QED BY <1>1, <2>2, <2>3, <2>4, <2>5, <2>6, <2>7, <2>8, <2>9, <2>10, <2>11,
        <2>12, <2>13, <2>14, <2>15, <2>16, <2>17, <2>18, <2>19, <2>20, <2>21,
        <2>22, <2>23, <2>24
        DEF KernelStep, Progress, Sleep, Wakeup, Kill, Client
<1>2. CASE UNCHANGED vars
  <2>1. \A q \in Procs : CVUnchanged(q)
    BY <1>2, ZenonT(30) DEF vars, pvars, cvars, CVUnchanged, WaitingOn, WakingOn, Single, Owed, Awake
  <2> QED BY <2>1, Stutter
<1> QED BY <1>1, <1>2 DEF Next

\* sleep(), wakeup(), wakeup_one(), kkill() and the scheduler, in every
\* interleaving and for any number of processes, channels and buckets, keep the
\* promise CondVar makes to the callers: no wakeup that takes its bucket's lock
\* after a process gave up the condition lock fails to wake it.
THEOREM Refinement == Spec => ImplementsCondVar
<1>1. ASSUME Init PROVE CV!Init
  <2>1. \A q \in Procs : /\ WaitingOn(q) = NoChan /\ WakingOn(q) = NoChan
                         /\ Single(q) = FALSE
    BY <1>1 DEF Init, WaitingOn, WakingOn, Single, Awake
  <2>2. \A q \in Procs : Owed(q) = {}
    BY <1>1 DEF Init, Owed, Range
  <2> QED BY <2>1, <2>2, ZenonT(30) DEF CV!Init
<1> QED BY <1>1, RefineStep, Invariance, PTL DEF Spec, ImplementsCondVar, CV!Spec
=============================================================================
