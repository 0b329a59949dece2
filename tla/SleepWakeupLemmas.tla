-------------------------- MODULE SleepWakeupLemmas --------------------------
(*****************************************************************************)
(* Lemmas about SleepWakeup: the list operations and the cursor of wakeup(), *)
(* what the inductive invariant says where a step uses them, and that every  *)
(* step keeps the types.                                                     *)
(*****************************************************************************)
EXTENDS SleepWakeup, SequenceTheorems, TLAPS

\* No entry is on the list twice.
Distinct(s) == \A i, j \in DOMAIN s : i # j => s[i] # s[j]
-----------------------------------------------------------------------------
(* The list operations of waitqueue.c and the cursor of wakeup().          *)

\* wq_add_locked adds the entry and keeps the others.
LEMMA AddLemma ==
  ASSUME NEW S, NEW q \in Seq(S), NEW p \in S
  PROVE  /\ wq_add_locked(q, p) \in Seq(S)
         /\ Range(wq_add_locked(q, p)) = Range(q) \cup {p}
         /\ Distinct(q) /\ p \notin Range(q) => Distinct(wq_add_locked(q, p))
<1> DEFINE r == wq_add_locked(q, p)
<1>1. /\ r \in Seq(S)
      /\ Len(r) = Len(q) + 1
      /\ r[1] = p
      /\ \A i \in 1 .. Len(q) : r[i + 1] = q[i]
      /\ DOMAIN r = 1 .. Len(q) + 1
      /\ DOMAIN q = 1 .. Len(q)
      /\ Len(q) \in Nat
  BY DEF wq_add_locked
<1> HIDE DEF r
<1>2. Range(r) = Range(q) \cup {p}
  <2>1. ASSUME NEW i \in DOMAIN r PROVE r[i] \in Range(q) \cup {p}
    <3>1. CASE i = 1
      BY <1>1, <3>1
    <3>2. CASE i # 1
      <4>1. i - 1 \in 1 .. Len(q) /\ r[i - 1 + 1] = q[i - 1]
        BY <1>1, <2>1, <3>2
      <4> QED BY <1>1, <2>1, <4>1 DEF Range
    <3> QED BY <3>1, <3>2
  <2>2. ASSUME NEW i \in DOMAIN q PROVE q[i] \in Range(r)
    BY <1>1, <2>2 DEF Range
  <2>3. p \in Range(r)
    BY <1>1 DEF Range
  <2> QED BY <2>1, <2>2, <2>3 DEF Range
<1>3. ASSUME Distinct(q), p \notin Range(q) PROVE Distinct(r)
  <2> SUFFICES ASSUME NEW i \in DOMAIN r, NEW j \in DOMAIN r, i < j
               PROVE  r[i] # r[j]
    BY <1>1 DEF Distinct
  <2>1. j - 1 \in DOMAIN q /\ r[j] = q[j - 1]
    <3>1. j - 1 \in 1 .. Len(q) /\ r[j - 1 + 1] = q[j - 1]
      BY <1>1
    <3> QED BY <1>1, <3>1
  <2>2. CASE i = 1
    BY <1>1, <1>3, <2>1, <2>2 DEF Range
  <2>3. CASE i # 1
    <3>1. i - 1 \in 1 .. Len(q) /\ r[i - 1 + 1] = q[i - 1]
      BY <1>1, <2>3
    <3>2. i - 1 \in DOMAIN q /\ r[i] = q[i - 1] /\ i - 1 # j - 1
      BY <1>1, <3>1
    <3> QED BY <1>3, <2>1, <3>2 DEF Distinct
  <2> QED BY <2>2, <2>3
<1> QED BY <1>1, <1>2, <1>3 DEF r

\* wq_remove_locked takes out that entry and no other, at the head or not.
LEMMA RemoveLemma ==
  ASSUME NEW S, NEW q \in Seq(S), NEW p \in Range(q), Distinct(q)
  PROVE  /\ wq_remove_locked(q, p) \in Seq(S)
         /\ Range(wq_remove_locked(q, p)) = Range(q) \ {p}
         /\ Distinct(wq_remove_locked(q, p))
<1> DEFINE k == CHOOSE i \in DOMAIN q : q[i] = p
           r == [j \in 1 .. Len(q) - 1 |-> IF j < k THEN q[j] ELSE q[j + 1]]
<1>1. k \in DOMAIN q /\ q[k] = p
  BY DEF Range
<1>2. wq_remove_locked(q, p) = r
  BY <1>1 DEF wq_remove_locked
<1>3. DOMAIN q = 1 .. Len(q) /\ Len(q) \in Nat /\ k \in 1 .. Len(q)
  BY <1>1
<1> HIDE DEF k
<1>4. r \in Seq(S)
  <2>1. \A j \in 1 .. Len(q) - 1 : r[j] \in S
    BY <1>3, ElementOfSeq
  <2> QED BY <1>3, <2>1
<1>5. DOMAIN r = 1 .. Len(q) - 1
  OBVIOUS
<1>6. \A i \in DOMAIN q : i # k => \E j \in DOMAIN r : r[j] = q[i]
  <2> TAKE i \in DOMAIN q
  <2> HAVE i # k
  <2>1. CASE i < k
    BY <1>3, <2>1
  <2>2. CASE i > k
    <3>1. i - 1 \in DOMAIN r /\ r[i - 1] = q[i - 1 + 1] /\ i - 1 + 1 = i
      BY <1>3, <2>2
    <3> QED BY <3>1
  <2> QED BY <1>3, <2>1, <2>2
<1>7. \A j \in DOMAIN r : \E i \in DOMAIN q : i # k /\ r[j] = q[i]
  <2> TAKE j \in DOMAIN r
  <2>1. CASE j < k
    BY <1>3, <2>1
  <2>2. CASE ~(j < k)
    <3>1. j + 1 \in DOMAIN q /\ j + 1 # k /\ r[j] = q[j + 1]
      BY <1>3, <2>2
    <3> QED BY <3>1
  <2> QED BY <2>1, <2>2
<1>8. Range(r) = Range(q) \ {p}
  <2> HIDE DEF r
  <2>1. ASSUME NEW j \in DOMAIN r PROVE r[j] \in Range(q) \ {p}
    BY <1>1, <1>7, <2>1 DEF Range, Distinct
  <2>2. ASSUME NEW i \in DOMAIN q, q[i] # p PROVE q[i] \in Range(r)
    BY <1>1, <1>6, <2>2 DEF Range
  <2> QED BY <2>1, <2>2 DEF Range
<1>9. Distinct(r)
  <2> SUFFICES ASSUME NEW i \in DOMAIN r, NEW j \in DOMAIN r, i # j
               PROVE  r[i] # r[j]
    BY DEF Distinct
  <2> DEFINE up(x) == IF x < k THEN x ELSE x + 1
  <2>1. /\ up(i) \in DOMAIN q /\ up(j) \in DOMAIN q
        /\ up(i) # up(j)
        /\ r[i] = q[up(i)] /\ r[j] = q[up(j)]
    BY <1>3, <1>5
  <2> QED BY <2>1 DEF Distinct
<1> QED BY <1>2, <1>4, <1>8, <1>9

\* Moving the cursor on drops the entry it was at.
LEMMA TailLemma ==
  ASSUME NEW S, NEW s \in Seq(S), s # <<>>
  PROVE  /\ Tail(s) \in Seq(S)
         /\ Head(s) \in S
         /\ Head(s) = s[1] /\ 1 \in DOMAIN s
         /\ \A i \in DOMAIN Tail(s) : i + 1 \in DOMAIN s /\ Tail(s)[i] = s[i + 1]
         /\ \A i \in DOMAIN s : i # 1 =>
              i - 1 \in DOMAIN Tail(s) /\ Tail(s)[i - 1] = s[i]
         /\ Distinct(s) => Distinct(Tail(s)) /\ Range(Tail(s)) = Range(s) \ {Head(s)}
<1>1. /\ Tail(s) \in Seq(S)
      /\ Head(s) = s[1]
      /\ Len(s) \in Nat \ {0}
      /\ DOMAIN s = 1 .. Len(s)
      /\ DOMAIN Tail(s) = 1 .. Len(s) - 1
      /\ \A i \in 1 .. Len(s) - 1 : Tail(s)[i] = s[i + 1]
  OBVIOUS
<1>2. Head(s) \in S
  BY <1>1, ElementOfSeq
<1>3. \A i \in DOMAIN Tail(s) : i + 1 \in DOMAIN s /\ Tail(s)[i] = s[i + 1]
  BY <1>1
<1>4. \A i \in DOMAIN s : i # 1 => i - 1 \in DOMAIN Tail(s) /\ Tail(s)[i - 1] = s[i]
  <2> TAKE i \in DOMAIN s
  <2> HAVE i # 1
  <2>1. i - 1 \in 1 .. Len(s) - 1 /\ (i - 1) + 1 = i
    BY <1>1
  <2> QED BY <1>1, <2>1
<1>5. ASSUME Distinct(s) PROVE Distinct(Tail(s))
  <2> SUFFICES ASSUME NEW i \in DOMAIN Tail(s), NEW j \in DOMAIN Tail(s), i # j
               PROVE  Tail(s)[i] # Tail(s)[j]
    BY DEF Distinct
  <2>1. i + 1 # j + 1
    BY <1>1
  <2> QED BY <1>3, <1>5, <2>1 DEF Distinct
<1>6. ASSUME Distinct(s) PROVE Range(Tail(s)) = Range(s) \ {Head(s)}
  <2>1. ASSUME NEW i \in DOMAIN Tail(s) PROVE Tail(s)[i] \in Range(s) \ {Head(s)}
    <3>1. i + 1 \in DOMAIN s /\ Tail(s)[i] = s[i + 1] /\ i + 1 # 1 /\ 1 \in DOMAIN s
      BY <1>1, <1>3
    <3> QED BY <1>1, <1>6, <3>1 DEF Range, Distinct
  <2>2. ASSUME NEW i \in DOMAIN s, s[i] # Head(s) PROVE s[i] \in Range(Tail(s))
    <3>1. i # 1
      BY <1>1, <2>2
    <3> QED BY <1>4, <3>1 DEF Range
  <2> QED BY <2>1, <2>2 DEF Range
<1>7. 1 \in DOMAIN s
  BY <1>1
<1> QED BY <1>1, <1>2, <1>3, <1>4, <1>5, <1>6, <1>7
-----------------------------------------------------------------------------
(* What the invariant says where a step handles the queue or the cursor.   *)

\* The lock of the bucket excludes every other process that is in it.
LEMMA BucketExclusion ==
  ASSUME IInv, NEW p \in Procs, NEW q \in Procs, InBucket(p), InBucket(q),
         arg[p] \in Chans, Bucket[arg[p]] = Bucket[arg[q]]
  PROVE  p = q
BY BucketAssumption DEF IInv, BucketLockInv

\* Where wakeup() holds e->proc->lock its test always succeeds, and unlinking
\* the entry leaves the other sleepers on the queue.
LEMMA WakeupTestMatches ==
  ASSUME IInv, NEW p \in Procs, pc[p] = "wake3",
         NEW e \in {Head(todo[p])}, NEW b \in {Bucket[arg[p]]}
  PROVE  /\ arg[p] \in Chans /\ b \in Buckets /\ e \in Procs
         /\ todo[p] # <<>> /\ todo[p] \in Seq(Procs) /\ Distinct(todo[p])
         /\ procLock[e] = p /\ bucketLock[b] = p
         /\ state[e] = "SLEEPING" /\ chan[e] = arg[p] /\ echan[e] = arg[p]
         /\ e \in Range(queue[b])
         /\ wq_remove_locked(queue[b], e) \in Seq(Procs)
         /\ Range(wq_remove_locked(queue[b], e)) = Range(queue[b]) \ {e}
         /\ Distinct(wq_remove_locked(queue[b], e))
<1> USE BucketAssumption
<1>1. arg[p] \in Chans /\ b \in Buckets
  BY DEF IInv, StateInv, StateAt, LabelInv
<1>2. todo[p] \in Seq(Procs) /\ todo[p] # <<>> /\ echan[e] = arg[p]
  BY DEF IInv, TypeOK, CursorInv, CursorAt
<1>3. Distinct(todo[p])
  BY DEF IInv, CursorInv, CursorAt, Distinct
<1>4. e \in Procs /\ e = todo[p][1] /\ 1 \in DOMAIN todo[p]
  BY <1>2, TailLemma
<1>5. e \in Range(queue[b])
  BY <1>4 DEF IInv, CursorInv, CursorAt
<1>6. state[e] = "SLEEPING" /\ chan[e] = arg[p]
  BY <1>1, <1>2, <1>5 DEF IInv, QueueIsSleepers, SleepersOf
<1>7. procLock[e] = p /\ bucketLock[b] = p
  BY <1>1, <1>4 DEF IInv, ProcLockInv, BucketLockInv, InBucket
<1>8. queue[b] \in Seq(Procs) /\ Distinct(queue[b])
  BY <1>1 DEF IInv, TypeOK, QueueIsSleepers, Distinct
<1> QED BY <1>1, <1>2, <1>3, <1>4, <1>5, <1>6, <1>7, <1>8, RemoveLemma

\* A process that links its entry is on no queue yet.
LEMMA EnqueueAddsNew ==
  ASSUME IInv, NEW p \in Procs, pc[p] = "sleep4", NEW b \in {Bucket[arg[p]]}
  PROVE  /\ arg[p] \in Chans /\ b \in Buckets
         /\ state[p] = "RUNNING" /\ chan[p] = NoChan
         /\ bucketLock[b] = p /\ procLock[p] = p
         /\ \A c \in Buckets : p \notin Range(queue[c])
         /\ wq_add_locked(queue[b], p) \in Seq(Procs)
         /\ Range(wq_add_locked(queue[b], p)) = Range(queue[b]) \cup {p}
         /\ Distinct(wq_add_locked(queue[b], p))
<1> USE BucketAssumption
<1>1. arg[p] \in Chans /\ b \in Buckets /\ state[p] = "RUNNING" /\ chan[p] = NoChan
  BY DEF IInv, StateInv, StateAt, LabelInv
<1>2. \A c \in Buckets : p \notin Range(queue[c])
  BY <1>1 DEF IInv, QueueIsSleepers, SleepersOf
<1>3. bucketLock[b] = p /\ procLock[p] = p
  BY <1>1 DEF IInv, ProcLockInv, BucketLockInv, InBucket
<1>4. queue[b] \in Seq(Procs) /\ Distinct(queue[b])
  BY <1>1 DEF IInv, TypeOK, QueueIsSleepers, Distinct
<1> QED BY <1>1, <1>2, <1>3, <1>4, AddLemma
-----------------------------------------------------------------------------
\* A timer interrupt finds a process without spinlocks at one of four labels.
LEMMA YieldLabels ==
  ASSUME IInv, NEW p \in Procs, Yield(p)
  PROVE  /\ pc[p] \in {"user", "sleep8", "wake1", "kill1"}
         /\ pc[p] \in {"user", "wake1", "kill1"} => ret[p] = "user"
         /\ pc[p] = "sleep8" => ret[p] = "crit"
         /\ chan[p] = NoChan /\ saved[p] = "user"
<1> USE BucketAssumption, NullAssumption
<1>1. /\ pc[p] \notin {"off", "sched", "yield2"}
      /\ \A l \in CondLocks : condLock[l] # p
      /\ \A b \in Buckets : bucketLock[b] # p
      /\ \A q \in Procs : procLock[q] # p
  BY DEF Yield, HoldsNothing
<1>2. pc[p] \notin {"crit", "sleep1", "sleep2", "sleep3"}
  BY <1>1 DEF IInv, CondLockInv, InCond
<1>3. pc[p] \in {"wake1", "wake2", "wake3"} => ret[p] = "user"
  BY <1>1 DEF IInv, CondLockInv, InCond, TypeOK
<1>4. pc[p] \notin {"sleep4", "sleep5", "sleep7"}
  BY <1>1 DEF IInv, ProcLockInv
<1>5. pc[p] \notin {"wake2", "wake3"}
  BY <1>1 DEF IInv, BucketLockInv, InBucket, StateInv, StateAt, LabelInv
<1>6. pc[p] # "kill2"
  BY <1>1 DEF IInv, ProcLockInv, StateInv, StateAt, LabelInv
<1>7. pc[p] \in {"user", "sleep8", "wake1", "kill1"}
  BY <1>1, <1>2, <1>4, <1>5, <1>6 DEF IInv, TypeOK, Labels
<1> QED BY <1>3, <1>7 DEF IInv, StateInv, StateAt

\* It goes back to that label, with the lock state of that label.
LEMMA YieldReturnLabels ==
  ASSUME IInv, NEW p \in Procs, YieldReturn(p)
  PROVE  /\ saved[p] \in {"user", "sleep8", "wake1", "kill1"}
         /\ saved[p] # "sleep8" => ret[p] = "user"
         /\ saved[p] = "sleep8" => ret[p] = "crit"
         /\ chan[p] = NoChan
         /\ saved[p] \in {"sleep8", "wake1"} => arg[p] \in Chans
         /\ saved[p] = "kill1" => victim[p] \in Procs
         /\ state[p] = "RUNNING"
<1>1. TypeOK /\ StateAt(p) /\ pc[p] = "yield2"
  BY DEF YieldReturn, Goto, IInv, StateInv
<1> QED BY <1>1 DEF TypeOK, StateAt, LabelInv
-----------------------------------------------------------------------------
\* kkill() leaves its critical section for wakeup() or for its caller.
LEMMA KillMarkEffect ==
  ASSUME IInv, NEW p \in Procs, KillMark(p)
  PROVE  /\ pc[p] = "kill2" /\ ret[p] = "user"
         /\ \A q \in Procs : q # p =>
              pc'[q] = pc[q] /\ ret'[q] = ret[q] /\ arg'[q] = arg[q] /\ one'[q] = one[q]
         /\ pc'[p] \in {"wake1", "user"} /\ ret'[p] = "user"
         /\ UNCHANGED <<condLock, bucketLock, state, chan, echan, queue, saved, todo>>
<1>1. pc[p] = "kill2" /\ ret[p] = "user" /\ victim[p] \in Procs
  BY DEF KillMark, IInv, StateInv, StateAt, LabelInv
<1>2. UNCHANGED <<condLock, bucketLock, state, chan, echan, queue, saved, todo>>
  BY DEF KillMark
<1>3. CASE state[victim[p]] = "SLEEPING"
  <2>1. /\ pc' = [pc EXCEPT ![p] = "wake1"] /\ ret' = ret
        /\ arg' = [arg EXCEPT ![p] = chan[victim[p]]]
        /\ one' = [one EXCEPT ![p] = FALSE]
    BY <1>3 DEF KillMark, Goto
  <2> QED BY <1>1, <1>2, <2>1 DEF IInv, TypeOK
<1>4. CASE state[victim[p]] # "SLEEPING"
  <2>1. /\ pc' = [pc EXCEPT ![p] = ret[p]] /\ ret' = [ret EXCEPT ![p] = "user"]
        /\ arg' = [arg EXCEPT ![p] = NoChan]
        /\ one' = [one EXCEPT ![p] = FALSE]
    BY <1>4 DEF KillMark, Goto, Return
  <2> QED BY <1>1, <1>2, <2>1 DEF IInv, TypeOK
<1> QED BY <1>3, <1>4
-----------------------------------------------------------------------------
\* The cursor of a process that does not move, while the queue it walks and the
\* entries on it stay as they are and nobody goes to sleep on its channel.
LEMMA CursorFrame ==
  ASSUME IInv, NEW q \in Procs,
         pc'[q] = pc[q], todo'[q] = todo[q], arg'[q] = arg[q], one'[q] = one[q],
         NEW b \in {Bucket[arg[q]]},
         pc[q] \in {"wake2", "wake3"} =>
           /\ queue'[b] = queue[b]
           /\ \A r \in Range(queue[b]) : echan'[r] = echan[r]
           /\ \A r \in Procs : state'[r] = "SLEEPING" /\ chan'[r] = arg[q] =>
                state[r] = "SLEEPING" /\ chan[r] = arg[q]
  PROVE  CursorAt(q)'
<1>1. CursorAt(q)
  BY DEF IInv, CursorInv, CursorAt
<1>2. CASE pc[q] \notin {"wake2", "wake3"}
  <2>1. todo[q] = <<>>
    BY <1>1, <1>2 DEF CursorAt
  <2> QED BY <1>2, <2>1 DEF CursorAt
<1>3. CASE pc[q] \in {"wake2", "wake3"}
  <2>1. pc[q] = "wake3" => todo[q] # <<>> /\ echan'[Head(todo[q])] = arg[q]
    <3> SUFFICES ASSUME pc[q] = "wake3"
                 PROVE  todo[q] # <<>> /\ echan'[Head(todo[q])] = arg[q]
      OBVIOUS
    <3>1. todo[q] # <<>> /\ todo[q] \in Seq(Procs) /\ echan[Head(todo[q])] = arg[q]
      BY <1>1 DEF CursorAt, IInv, TypeOK
    <3>2. Head(todo[q]) = todo[q][1] /\ 1 \in DOMAIN todo[q]
      BY <3>1, TailLemma
    <3>3. Head(todo[q]) \in Range(queue[b])
      BY <1>1, <3>2 DEF CursorAt
    <3> QED BY <1>3, <3>1, <3>3
  <2>2. \A i \in DOMAIN todo[q] : todo[q][i] \in Range(queue'[b])
    BY <1>1, <1>3 DEF CursorAt
  <2>3. \A i, j \in DOMAIN todo[q] : i # j => todo[q][i] # todo[q][j]
    BY <1>1 DEF CursorAt
  <2>4. ~one[q] => \A r \in Procs : state'[r] = "SLEEPING" /\ chan'[r] = arg[q] =>
                     \E i \in DOMAIN todo[q] : todo[q][i] = r
    BY <1>1, <1>3 DEF CursorAt
  <2> QED BY <1>3, <2>1, <2>2, <2>3, <2>4 DEF CursorAt
<1> QED BY <1>2, <1>3
\* A step of p outside the loop of wakeup() that leaves the queues alone and
\* puts nobody to sleep.
LeavesCursors(p) ==
  /\ pc[p] \notin {"wake2", "wake3"} /\ pc'[p] \notin {"wake2", "wake3"}
  /\ \A q \in Procs : q # p =>
       pc'[q] = pc[q] /\ arg'[q] = arg[q] /\ one'[q] = one[q]
  /\ \A q \in Procs : state'[q] = "SLEEPING" =>
       state[q] = "SLEEPING" /\ chan'[q] = chan[q]
  /\ todo' = todo /\ queue' = queue /\ echan' = echan

\* Such a step moves no cursor of wakeup().
LEMMA CursorQuiet ==
  ASSUME IInv, NEW p \in Procs, LeavesCursors(p)
  PROVE  CursorInv'
<1>1. ASSUME NEW q \in Procs, q # p PROVE CursorAt(q)'
  <2>1. PICK b \in {Bucket[arg[q]]} : TRUE
    OBVIOUS
  <2>2. /\ pc'[q] = pc[q] /\ todo'[q] = todo[q] /\ arg'[q] = arg[q] /\ one'[q] = one[q]
        /\ queue'[b] = queue[b]
        /\ \A r \in Range(queue[b]) : echan'[r] = echan[r]
        /\ \A r \in Procs : state'[r] = "SLEEPING" /\ chan'[r] = arg[q] =>
             state[r] = "SLEEPING" /\ chan[r] = arg[q]
    BY <1>1 DEF LeavesCursors
  <2> QED BY <2>2, CursorFrame
<1>2. CursorAt(p)'
  <2>1. todo'[p] = <<>> /\ pc'[p] \notin {"wake2", "wake3"}
    BY DEF LeavesCursors, IInv, CursorInv, CursorAt
  <2>2. DOMAIN todo'[p] = {}
    BY <2>1
  <2> QED BY <2>1, <2>2 DEF CursorAt
<1> QED BY <1>1, <1>2 DEF CursorInv
-----------------------------------------------------------------------------
\* Every step keeps the types.
LEMMA TypeStep ==
  ASSUME IInv, NEW p \in Procs, KernelStep(p) \/ Client(p)
  PROVE  TypeOK'
<1> USE BucketAssumption, CondLockAssumption, NullAssumption
<1>a. TypeOK /\ StateAt(p)
  BY DEF IInv, StateInv
<1>1. CASE Dispatch(p)
  BY <1>a, <1>1 DEF TypeOK, StateAt, LabelInv, Labels, Dispatch, Goto
<1>2. CASE Sched(p)
  BY <1>a, <1>2 DEF TypeOK, StateAt, LabelInv, Labels, Sched, Goto
<1>3. CASE Yield(p)
  <2>1. pc[p] \in {"user", "sleep8", "wake1", "kill1"}
    BY <1>3, YieldLabels
  <2> QED BY <1>a, <1>3, <2>1 DEF TypeOK, Labels, Yield
<1>4. CASE YieldReturn(p)
  BY <1>a, <1>4 DEF TypeOK, StateAt, LabelInv, Labels, YieldReturn, Goto
<1>5. CASE SleepAcquireBucket(p)
  BY <1>a, <1>5 DEF TypeOK, StateAt, LabelInv, Labels, SleepAcquireBucket, Goto
<1>6. CASE SleepAcquireProc(p)
  BY <1>a, <1>6 DEF TypeOK, StateAt, LabelInv, Labels, SleepAcquireProc, Goto
<1>7. CASE SleepReleaseLk(p)
  BY <1>a, <1>7 DEF TypeOK, StateAt, LabelInv, Labels, SleepReleaseLk, Goto
<1>8. CASE SleepEnqueue(p)
  <2> DEFINE b == Bucket[arg[p]]
  <2>1. pc[p] = "sleep4"
    BY <1>8 DEF SleepEnqueue, Goto
  <2>2. arg[p] \in Chans /\ b \in Buckets /\ wq_add_locked(queue[b], p) \in Seq(Procs)
    BY <2>1, EnqueueAddsNew
  <2> QED BY <1>8, <2>2 DEF IInv, TypeOK, Labels, SleepEnqueue, Goto
<1>9. CASE SleepReleaseBucket(p)
  BY <1>a, <1>9 DEF TypeOK, StateAt, LabelInv, Labels, SleepReleaseBucket, Goto
<1>10. CASE SleepTidyUp(p)
  BY <1>a, <1>10 DEF TypeOK, StateAt, LabelInv, Labels, SleepTidyUp, Goto
<1>11. CASE SleepReacquireLk(p)
  BY <1>a, <1>11 DEF TypeOK, StateAt, LabelInv, Labels, SleepReacquireLk, Goto, Return
<1>12. CASE WakeupAcquireBucket(p)
  BY <1>a, <1>12 DEF TypeOK, StateAt, LabelInv, Labels, WakeupAcquireBucket, Goto
<1>13. CASE WakeupSkip(p)
  <2>1. Tail(todo[p]) \in Seq(Procs)
    BY <1>13, TailLemma DEF WakeupSkip, IInv, TypeOK
  <2> QED BY <1>13, <2>1 DEF IInv, TypeOK, WakeupSkip, pvars
<1>14. CASE WakeupAcquireProc(p)
  BY <1>a, <1>14 DEF TypeOK, StateAt, LabelInv, Labels, WakeupAcquireProc, Goto
<1>15. CASE WakeupTest(p)
  <2> DEFINE e == Head(todo[p])
             b == Bucket[arg[p]]
  <2>1. pc[p] = "wake3"
    BY <1>15, ZenonT(30) DEF WakeupTest, Goto
  <2>2. /\ b \in Buckets /\ e \in Procs
        /\ wq_remove_locked(queue[b], e) \in Seq(Procs)
        /\ todo[p] \in Seq(Procs) /\ todo[p] # <<>>
    BY <2>1, WakeupTestMatches, ZenonT(30)
  <2>3. Tail(todo[p]) \in Seq(Procs)
    BY <2>2, TailLemma, ZenonT(30)
  <2>4. queue' \in [Buckets -> Seq(Procs)]
    BY <1>15, <2>2, ZenonT(30) DEF IInv, TypeOK, WakeupTest
  <2>5. todo' \in [Procs -> Seq(Procs)]
    <3>1. todo \in [Procs -> Seq(Procs)] /\ <<>> \in Seq(Procs)
      BY DEF IInv, TypeOK
    <3>2. \/ todo' = [todo EXCEPT ![p] = Tail(todo[p])]
          \/ todo' = [todo EXCEPT ![p] = <<>>]
      BY <1>15, <3>1 DEF WakeupTest
    <3> QED BY <2>3, <3>1, <3>2, ZenonT(30)
  <2> QED BY <1>15, <2>2, <2>4, <2>5, ZenonT(30) DEF IInv, TypeOK, Labels, WakeupTest, Goto
<1>16. CASE WakeupReleaseBucket(p)
  BY <1>a, <1>16 DEF TypeOK, StateAt, LabelInv, Labels, WakeupReleaseBucket, Goto, Return
<1>17. CASE KillAcquireProc(p)
  BY <1>a, <1>17 DEF TypeOK, StateAt, LabelInv, Labels, KillAcquireProc, Goto
<1>18. CASE KillMark(p)
  <2>1. pc[p] = "kill2" /\ victim[p] \in Procs /\ ret[p] = "user"
    BY <1>18, ZenonT(30) DEF KillMark, IInv, StateInv, StateAt, LabelInv
  <2>2. killed' \in [Procs -> BOOLEAN]
    BY <1>18, <2>1 DEF IInv, TypeOK, KillMark
  <2>3. /\ procLock' \in [Procs -> Procs \cup {NoProc}]
        /\ victim' \in [Procs -> Procs \cup {NoProc}]
    BY <1>18, <2>1 DEF IInv, TypeOK, KillMark
  <2>4. /\ pc' \in [Procs -> Labels] /\ ret' \in [Procs -> {"user", "crit"}]
        /\ arg' \in [Procs -> Chans \cup {NoChan}] /\ one' \in [Procs -> BOOLEAN]
    <3>1. \/ /\ pc' = [pc EXCEPT ![p] = "wake1"]
             /\ arg' = [arg EXCEPT ![p] = chan[victim[p]]]
             /\ one' = [one EXCEPT ![p] = FALSE]
             /\ ret' = ret
          \/ /\ pc' = [pc EXCEPT ![p] = ret[p]]
             /\ ret' = [ret EXCEPT ![p] = "user"]
             /\ arg' = [arg EXCEPT ![p] = NoChan]
             /\ one' = [one EXCEPT ![p] = FALSE]
      BY <1>18, Zenon DEF KillMark, Goto, Return
    <3>2. chan[victim[p]] \in Chans \cup {NoChan}
      BY <2>1 DEF IInv, TypeOK
    <3>3. pc' \in [Procs -> Labels]
      <4>1. "wake1" \in Labels /\ ret[p] \in Labels
        BY <2>1 DEF Labels
      <4> QED BY <3>1, <4>1, ZenonT(30) DEF IInv, TypeOK
    <3>4. arg' \in [Procs -> Chans \cup {NoChan}]
      BY <3>1, <3>2, ZenonT(30) DEF IInv, TypeOK
    <3>5. ret' \in [Procs -> {"user", "crit"}]
      BY <3>1, ZenonT(30) DEF IInv, TypeOK
    <3>6. one' \in [Procs -> BOOLEAN]
      BY <3>1, ZenonT(30) DEF IInv, TypeOK
    <3> QED BY <3>3, <3>4, <3>5, <3>6
  <2> QED BY <1>18, <2>2, <2>3, <2>4 DEF IInv, TypeOK, KillMark
<1>19. CASE ClientAcquire(p)
  BY <1>a, <1>19 DEF TypeOK, StateAt, LabelInv, Labels, ClientAcquire, AcquireCond, Goto
<1>20. CASE ClientRelease(p)
  BY <1>a, <1>20 DEF TypeOK, StateAt, LabelInv, Labels, ClientRelease, ReleaseCond, Goto
<1>21. CASE ClientSleep(p)
  BY <1>a, <1>21 DEF TypeOK, StateAt, LabelInv, Labels, ClientSleep, CallSleep, Goto, pvars
<1>22. CASE ClientWakeup(p)
  BY <1>a, <1>22 DEF TypeOK, StateAt, LabelInv, Labels, ClientWakeup, CallWakeup, Goto, pvars
<1>23. CASE ClientKill(p)
  BY <1>a, <1>23 DEF TypeOK, StateAt, LabelInv, Labels, ClientKill, CallKill, Goto, pvars
<1> QED BY <1>1, <1>2, <1>3, <1>4, <1>5, <1>6, <1>7, <1>8, <1>9, <1>10, <1>11,
      <1>12, <1>13, <1>14, <1>15, <1>16, <1>17, <1>18, <1>19, <1>20, <1>21,
      <1>22, <1>23
     DEF KernelStep, Progress, Sleep, Wakeup, Kill, Client
=============================================================================
