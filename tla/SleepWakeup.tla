----------------------------- MODULE SleepWakeup -----------------------------
(***************************************************************************)
(* sleep(), wakeup(), wakeup_one(), kkill(), yield() and the scheduler of  *)
(* kernel/proc.c over the hash-bucketed wait queue of kernel/waitqueue.c.  *)
(*                                                                         *)
(* Grain: one step per acquire of a spinlock and one per release, with the *)
(* code executed under the lock folded into one of the two.  The one       *)
(* place where finer steps are visible to others is sleep() itself, which  *)
(* gives up the condition lock (proc.c:559) before it links its queue      *)
(* entry (proc.c:562), because wq_has_sleeper() reads the list head        *)
(* without a lock; these are two steps.                                    *)
(*                                                                         *)
(* A bucket's linked list is the sequence queue[b] of the processes whose  *)
(* entry is on it, head first; WaitQueueList shows that the pointer code   *)
(* implements this sequence.  A spinlock is a variable that names its      *)
(* holder; a process that spins is one whose acquire is not enabled.       *)
(*                                                                         *)
(* The client is the most general one the comments allow: it calls sleep,  *)
(* wakeup and wakeup_one with the condition lock held, and kkill with no   *)
(* lock held, in any order.  Modules that model a real client (Sleeplock,  *)
(* Pipe) extend this one and replace the client's actions.                 *)
(***************************************************************************)
EXTENDS WaitQueue, FiniteSets, Functions

CONSTANTS
  Procs,     \* the processes of the table proc[]
  Chans,     \* the channels slept on (addresses)
  Buckets,   \* the buckets of wt.buckets
  CondLocks, \* the condition locks lk given to sleep()
  Bucket,    \* wq_bucket_for: the bucket of each channel
  CondLock,  \* the condition lock that protects each channel
  NCPU,      \* the number of harts that run scheduler()
  NoProc,    \* a lock nobody holds
  NoChan     \* the channel 0

ASSUME BucketAssumption == Bucket \in [Chans -> Buckets]
ASSUME CondLockAssumption == CondLock \in [Chans -> CondLocks]
ASSUME NullAssumption == NoProc \notin Procs /\ NoChan \notin Chans
ASSUME NCPUAssumption == NCPU \in Nat \ {0}

VARIABLES
  condLock,   \* holder of each condition lock
  bucketLock, \* holder of each wt.buckets[i].lock
  procLock,   \* holder of each p->lock
  state,      \* p->state
  chan,       \* p->chan
  killed,     \* p->killed
  echan,      \* p->wq_entry.chan
  queue,      \* the entries linked from wt.buckets[i].head, head first
  pc,         \* where the process is; "off" when a scheduler runs instead
  saved,      \* where yield() was called from
  ret,        \* where the running call of sleep or wakeup returns to
  arg,        \* the channel argument of that call
  one,        \* whether that call is wakeup_one
  todo,       \* wakeup's cursor: the entry e and those linked after it
  victim      \* the process kkill has found for its pid

pvars == <<condLock, bucketLock, procLock, state, chan, killed, echan, queue>>
cvars == <<pc, saved, ret, arg, one, todo, victim>>
vars == <<pvars, cvars>>

\* The lockless test: it looks at the bucket, not at the channel.
wq_has_sleeper(c) == queue[Bucket[c]] # <<>>

HoldsNothing(p) ==
  /\ \A l \in CondLocks : condLock[l] # p
  /\ \A b \in Buckets : bucketLock[b] # p
  /\ \A q \in Procs : procLock[q] # p

OnCpu == {p \in Procs : pc[p] # "off"}
-----------------------------------------------------------------------------
(* Every process has just been made by allocproc() and kfork(): RUNNABLE,  *)
(* with a context that will release p->lock and go to user space, which is *)
(* what a return from yield() does too.                                    *)
Init ==
  /\ condLock = [l \in CondLocks |-> NoProc]
  /\ bucketLock = [b \in Buckets |-> NoProc]
  /\ procLock = [p \in Procs |-> NoProc]
  /\ state = [p \in Procs |-> "RUNNABLE"]
  /\ chan = [p \in Procs |-> NoChan]
  /\ killed = [p \in Procs |-> FALSE]
  /\ echan = [p \in Procs |-> NoChan]
  /\ queue = [b \in Buckets |-> <<>>]
  /\ pc = [p \in Procs |-> "off"]
  /\ saved = [p \in Procs |-> "user"]
  /\ ret = [p \in Procs |-> "user"]
  /\ arg = [p \in Procs |-> NoChan]
  /\ one = [p \in Procs |-> FALSE]
  /\ todo = [p \in Procs |-> <<>>]
  /\ victim = [p \in Procs |-> NoProc]

Goto(p, from, to) == pc[p] = from /\ pc' = [pc EXCEPT ![p] = to]

\* A call returns: its arguments are dead.
Return(p, from) ==
  /\ Goto(p, from, ret[p])
  /\ ret' = [ret EXCEPT ![p] = "user"]
  /\ arg' = [arg EXCEPT ![p] = NoChan]
  /\ one' = [one EXCEPT ![p] = FALSE]
-----------------------------------------------------------------------------
(* scheduler(), sched() and yield()                                        *)

\* scheduler() takes p->lock, finds p RUNNABLE and switches to it; p comes
\* back from its call of sched() holding p->lock.
Dispatch(p) ==
  /\ Cardinality(OnCpu) < NCPU
  /\ state[p] = "RUNNABLE"
  /\ procLock[p] = NoProc
  /\ Goto(p, "off", IF chan[p] = NoChan THEN "yield2" ELSE "sleep7")
  /\ procLock' = [procLock EXCEPT ![p] = p]
  /\ state' = [state EXCEPT ![p] = "RUNNING"]
  /\ UNCHANGED <<condLock, bucketLock, chan, killed, echan, queue,
                 saved, ret, arg, one, todo, victim>>

\* sched() switches to this hart's scheduler, which releases p->lock.
Sched(p) ==
  /\ Goto(p, "sched", "off")
  /\ procLock' = [procLock EXCEPT ![p] = NoProc]
  /\ UNCHANGED <<condLock, bucketLock, state, chan, killed, echan, queue,
                 saved, ret, arg, one, todo, victim>>

\* Mutant of Yield: acquire() does not turn interrupts off.
YieldAnywhere(p) ==
  /\ pc[p] \notin {"off", "sched", "yield2"}
  /\ procLock[p] = NoProc
  /\ procLock' = [procLock EXCEPT ![p] = p]
  /\ state' = [state EXCEPT ![p] = "RUNNABLE"]
  /\ saved' = [saved EXCEPT ![p] = pc[p]]
  /\ pc' = [pc EXCEPT ![p] = "sched"]
  /\ UNCHANGED <<condLock, bucketLock, chan, killed, echan, queue,
                 ret, arg, one, todo, victim>>

\* The timer interrupts p where interrupts are on, that is where it holds no
\* spinlock; yield() takes p->lock and makes p RUNNABLE.
Yield(p) ==
  /\ pc[p] \notin {"off", "sched", "yield2"}
  /\ HoldsNothing(p)
  /\ procLock[p] = NoProc
  /\ procLock' = [procLock EXCEPT ![p] = p]
  /\ state' = [state EXCEPT ![p] = "RUNNABLE"]
  /\ saved' = [saved EXCEPT ![p] = pc[p]]
  /\ pc' = [pc EXCEPT ![p] = "sched"]
  /\ UNCHANGED <<condLock, bucketLock, chan, killed, echan, queue,
                 ret, arg, one, todo, victim>>

YieldReturn(p) ==
  /\ Goto(p, "yield2", saved[p])
  /\ saved' = [saved EXCEPT ![p] = "user"]
  /\ procLock' = [procLock EXCEPT ![p] = NoProc]
  /\ UNCHANGED <<condLock, bucketLock, state, chan, killed, echan, queue,
                 ret, arg, one, todo, victim>>
-----------------------------------------------------------------------------
(* sleep(arg, CondLock[arg])                                               *)

SleepAcquireBucket(p) ==
  /\ Goto(p, "sleep1", "sleep2")
  /\ bucketLock[Bucket[arg[p]]] = NoProc
  /\ bucketLock' = [bucketLock EXCEPT ![Bucket[arg[p]]] = p]
  /\ UNCHANGED <<condLock, procLock, state, chan, killed, echan, queue,
                 saved, ret, arg, one, todo, victim>>

\* Mutant of SleepAcquireProc: sleep() relies on the bucket's lock alone.
SleepWithoutProcLock(p) ==
  /\ Goto(p, "sleep2", "sleep3")
  /\ UNCHANGED <<pvars, saved, ret, arg, one, todo, victim>>

SleepAcquireProc(p) ==
  /\ Goto(p, "sleep2", "sleep3")
  /\ procLock[p] = NoProc
  /\ procLock' = [procLock EXCEPT ![p] = p]
  /\ UNCHANGED <<condLock, bucketLock, state, chan, killed, echan, queue,
                 saved, ret, arg, one, todo, victim>>

SleepReleaseLk(p) ==
  /\ Goto(p, "sleep3", "sleep4")
  /\ condLock' = [condLock EXCEPT ![CondLock[arg[p]]] = NoProc]
  /\ UNCHANGED <<bucketLock, procLock, state, chan, killed, echan, queue,
                 saved, ret, arg, one, todo, victim>>

SleepEnqueue(p) ==
  /\ Goto(p, "sleep4", "sleep5")
  /\ queue' = [queue EXCEPT ![Bucket[arg[p]]] = wq_add_locked(@, p)]
  /\ echan' = [echan EXCEPT ![p] = arg[p]]
  /\ chan' = [chan EXCEPT ![p] = arg[p]]
  /\ state' = [state EXCEPT ![p] = "SLEEPING"]
  /\ UNCHANGED <<condLock, bucketLock, procLock, killed,
                 saved, ret, arg, one, todo, victim>>

\* Mutant of SleepReleaseBucket: sched() is called with the bucket locked.
SleepKeepsBucket(p) ==
  /\ Goto(p, "sleep5", "sched")
  /\ UNCHANGED <<pvars, saved, ret, arg, one, todo, victim>>

SleepReleaseBucket(p) ==
  /\ Goto(p, "sleep5", "sched")
  /\ bucketLock' = [bucketLock EXCEPT ![Bucket[arg[p]]] = NoProc]
  /\ UNCHANGED <<condLock, procLock, state, chan, killed, echan, queue,
                 saved, ret, arg, one, todo, victim>>

SleepTidyUp(p) ==
  /\ Goto(p, "sleep7", "sleep8")
  /\ chan' = [chan EXCEPT ![p] = NoChan]
  /\ procLock' = [procLock EXCEPT ![p] = NoProc]
  /\ UNCHANGED <<condLock, bucketLock, state, killed, echan, queue,
                 saved, ret, arg, one, todo, victim>>

SleepReacquireLk(p) ==
  /\ Return(p, "sleep8")
  /\ condLock[CondLock[arg[p]]] = NoProc
  /\ condLock' = [condLock EXCEPT ![CondLock[arg[p]]] = p]
  /\ UNCHANGED <<bucketLock, procLock, state, chan, killed, echan, queue,
                 saved, todo, victim>>

Sleep(p) ==
  \/ SleepAcquireBucket(p)
  \/ SleepAcquireProc(p)
  \/ SleepReleaseLk(p)
  \/ SleepEnqueue(p)
  \/ SleepReleaseBucket(p)
  \/ SleepTidyUp(p)
  \/ SleepReacquireLk(p)
-----------------------------------------------------------------------------
(* wakeup(arg), and wakeup_one(arg) when one[p]                            *)

WakeupAcquireBucket(p) ==
  /\ Goto(p, "wake1", "wake2")
  /\ bucketLock[Bucket[arg[p]]] = NoProc
  /\ bucketLock' = [bucketLock EXCEPT ![Bucket[arg[p]]] = p]
  /\ todo' = [todo EXCEPT ![p] = queue[Bucket[arg[p]]]]
  /\ UNCHANGED <<condLock, procLock, state, chan, killed, echan, queue,
                 saved, ret, arg, one, victim>>

\* The entry is for another channel that hashes to this bucket.
WakeupSkip(p) ==
  /\ pc[p] = "wake2"
  /\ todo[p] # <<>>
  /\ echan[Head(todo[p])] # arg[p]
  /\ todo' = [todo EXCEPT ![p] = Tail(@)]
  /\ UNCHANGED <<pvars, pc, saved, ret, arg, one, victim>>

WakeupAcquireProc(p) ==
  /\ Goto(p, "wake2", "wake3")
  /\ todo[p] # <<>>
  /\ echan[Head(todo[p])] = arg[p]
  /\ procLock[Head(todo[p])] = NoProc
  /\ procLock' = [procLock EXCEPT ![Head(todo[p])] = p]
  /\ UNCHANGED <<condLock, bucketLock, state, chan, killed, echan, queue,
                 saved, ret, arg, one, todo, victim>>

\* Mutant of WakeupTest: next is read after wq_remove_locked() has cleared it.
WakeupLosesNext(p) ==
  LET e == Head(todo[p])
      match == state[e] = "SLEEPING" /\ chan[e] = arg[p]
  IN  /\ Goto(p, "wake3", "wake2")
      /\ \/ /\ match
            /\ state' = [state EXCEPT ![e] = "RUNNABLE"]
            /\ queue' = [queue EXCEPT ![Bucket[arg[p]]] = wq_remove_locked(@, e)]
            /\ echan' = [echan EXCEPT ![e] = NoChan]
            /\ todo' = [todo EXCEPT ![p] = <<>>]
         \/ /\ ~match
            /\ todo' = [todo EXCEPT ![p] = Tail(@)]
            /\ UNCHANGED <<state, queue, echan>>
      /\ procLock' = [procLock EXCEPT ![e] = NoProc]
      /\ UNCHANGED <<condLock, bucketLock, chan, killed,
                     saved, ret, arg, one, victim>>

\* Mutant of WakeupTest: wakeup_one() does not stop at the first match.
WakeupOneGoesOn(p) ==
  LET e == Head(todo[p])
      match == state[e] = "SLEEPING" /\ chan[e] = arg[p]
  IN  /\ Goto(p, "wake3", "wake2")
      /\ \/ /\ match
            /\ state' = [state EXCEPT ![e] = "RUNNABLE"]
            /\ queue' = [queue EXCEPT ![Bucket[arg[p]]] = wq_remove_locked(@, e)]
            /\ echan' = [echan EXCEPT ![e] = NoChan]
            /\ todo' = [todo EXCEPT ![p] = Tail(@)]
         \/ /\ ~match
            /\ todo' = [todo EXCEPT ![p] = Tail(@)]
            /\ UNCHANGED <<state, queue, echan>>
      /\ procLock' = [procLock EXCEPT ![e] = NoProc]
      /\ UNCHANGED <<condLock, bucketLock, chan, killed,
                     saved, ret, arg, one, victim>>

\* The test under e->proc->lock, the two state changes when it succeeds, the
\* release, and the move to next, or out of the loop for wakeup_one.
WakeupTest(p) ==
  LET e == Head(todo[p])
      match == state[e] = "SLEEPING" /\ chan[e] = arg[p]
  IN  /\ Goto(p, "wake3", "wake2")
      /\ \/ /\ match
            /\ state' = [state EXCEPT ![e] = "RUNNABLE"]
            /\ queue' = [queue EXCEPT ![Bucket[arg[p]]] = wq_remove_locked(@, e)]
            /\ echan' = [echan EXCEPT ![e] = NoChan]
            /\ todo' = [todo EXCEPT ![p] = IF one[p] THEN <<>> ELSE Tail(@)]
         \/ /\ ~match
            /\ todo' = [todo EXCEPT ![p] = Tail(@)]
            /\ UNCHANGED <<state, queue, echan>>
      /\ procLock' = [procLock EXCEPT ![e] = NoProc]
      /\ UNCHANGED <<condLock, bucketLock, chan, killed,
                     saved, ret, arg, one, victim>>

WakeupReleaseBucket(p) ==
  /\ Return(p, "wake2")
  /\ todo[p] = <<>>
  /\ bucketLock' = [bucketLock EXCEPT ![Bucket[arg[p]]] = NoProc]
  /\ UNCHANGED <<condLock, procLock, state, chan, killed, echan, queue,
                 saved, todo, victim>>

Wakeup(p) ==
  \/ WakeupAcquireBucket(p)
  \/ WakeupSkip(p)
  \/ WakeupAcquireProc(p)
  \/ WakeupTest(p)
  \/ WakeupReleaseBucket(p)
-----------------------------------------------------------------------------
(* kkill(pid), once its scan of the table has reached the victim.  The     *)
(* scan takes and releases the locks of the processes before the victim    *)
(* and changes nothing.                                                    *)

KillAcquireProc(p) ==
  /\ Goto(p, "kill1", "kill2")
  /\ procLock[victim[p]] = NoProc
  /\ procLock' = [procLock EXCEPT ![victim[p]] = p]
  /\ UNCHANGED <<condLock, bucketLock, state, chan, killed, echan, queue,
                 saved, ret, arg, one, todo, victim>>

\* Mutant of KillMark: wakeup() is called with the victim's lock held.
KillKeepsProcLock(p) ==
  LET v == victim[p]
  IN  /\ pc[p] = "kill2"
      /\ killed' = [killed EXCEPT ![v] = TRUE]
      /\ victim' = [victim EXCEPT ![p] = NoProc]
      /\ \/ /\ state[v] = "SLEEPING"
            /\ Goto(p, "kill2", "wake1")
            /\ arg' = [arg EXCEPT ![p] = chan[v]]
            /\ one' = [one EXCEPT ![p] = FALSE]
            /\ UNCHANGED <<ret, procLock>>
         \/ /\ state[v] # "SLEEPING"
            /\ Return(p, "kill2")
            /\ procLock' = [procLock EXCEPT ![v] = NoProc]
      /\ UNCHANGED <<condLock, bucketLock, state, chan, echan, queue,
                     saved, todo>>

\* The victim's channel is read, its lock is released, and only then does
\* wakeup() take the bucket's lock.
KillMark(p) ==
  LET v == victim[p]
  IN  /\ pc[p] = "kill2"
      /\ killed' = [killed EXCEPT ![v] = TRUE]
      /\ procLock' = [procLock EXCEPT ![v] = NoProc]
      /\ victim' = [victim EXCEPT ![p] = NoProc]
      /\ \/ /\ state[v] = "SLEEPING"
            /\ Goto(p, "kill2", "wake1")
            /\ arg' = [arg EXCEPT ![p] = chan[v]]
            /\ one' = [one EXCEPT ![p] = FALSE]
            /\ UNCHANGED ret
         \/ /\ state[v] # "SLEEPING"
            /\ Return(p, "kill2")
      /\ UNCHANGED <<condLock, bucketLock, state, chan, echan, queue,
                     saved, todo>>

Kill(p) == KillAcquireProc(p) \/ KillMark(p)

\* The steps that take p's call, and p itself, forward.
Progress(p) ==
  \/ Dispatch(p) \/ Sched(p) \/ YieldReturn(p)
  \/ Sleep(p) \/ Wakeup(p) \/ Kill(p)

\* The steps of the kernel's own code on behalf of p.
KernelStep(p) == Progress(p) \/ Yield(p)
-----------------------------------------------------------------------------
(* Calls, from the label `from` of a client's code to the label `to` that  *)
(* the call returns to.                                                    *)

CallSleep(p, c, from, to) ==
  /\ Goto(p, from, "sleep1")
  /\ arg' = [arg EXCEPT ![p] = c]
  /\ ret' = [ret EXCEPT ![p] = to]
  /\ UNCHANGED <<pvars, saved, one, todo, victim>>

CallWakeup(p, c, justOne, from, to) ==
  /\ Goto(p, from, "wake1")
  /\ arg' = [arg EXCEPT ![p] = c]
  /\ one' = [one EXCEPT ![p] = justOne]
  /\ ret' = [ret EXCEPT ![p] = to]
  /\ UNCHANGED <<pvars, saved, todo, victim>>

CallKill(p, v, from, to) ==
  /\ Goto(p, from, "kill1")
  /\ victim' = [victim EXCEPT ![p] = v]
  /\ ret' = [ret EXCEPT ![p] = to]
  /\ UNCHANGED <<pvars, saved, arg, one, todo>>

AcquireCond(p, l, from, to) ==
  /\ Goto(p, from, to)
  /\ condLock[l] = NoProc
  /\ condLock' = [condLock EXCEPT ![l] = p]
  /\ UNCHANGED <<bucketLock, procLock, state, chan, killed, echan, queue,
                 saved, ret, arg, one, todo, victim>>

ReleaseCond(p, l, from, to) ==
  /\ Goto(p, from, to)
  /\ condLock' = [condLock EXCEPT ![l] = NoProc]
  /\ UNCHANGED <<bucketLock, procLock, state, chan, killed, echan, queue,
                 saved, ret, arg, one, todo, victim>>
-----------------------------------------------------------------------------
(* The most general client.                                                *)

ClientAcquire(p) == \E l \in CondLocks : AcquireCond(p, l, "user", "crit")

ClientRelease(p) ==
  \E l \in CondLocks : condLock[l] = p /\ ReleaseCond(p, l, "crit", "user")

ClientSleep(p) ==
  \E c \in Chans : condLock[CondLock[c]] = p /\ CallSleep(p, c, "crit", "crit")

ClientWakeup(p) ==
  \E c \in Chans, justOne \in BOOLEAN :
    condLock[CondLock[c]] = p /\ CallWakeup(p, c, justOne, "crit", "crit")

ClientKill(p) == \E v \in Procs : CallKill(p, v, "user", "user")

Client(p) ==
  \/ ClientAcquire(p) \/ ClientRelease(p)
  \/ ClientSleep(p) \/ ClientWakeup(p) \/ ClientKill(p)

Next == \E p \in Procs : KernelStep(p) \/ Client(p)

Spec == Init /\ [][Next]_vars
-----------------------------------------------------------------------------
(* Properties                                                              *)

Labels ==
  {"user", "crit", "off", "sched", "yield2",
   "sleep1", "sleep2", "sleep3", "sleep4", "sleep5", "sleep7", "sleep8",
   "wake1", "wake2", "wake3", "kill1", "kill2"}

\* Every variable has its type; in particular the timer preempts a process only
\* where it holds no spinlock (yield() in proc.c:502, push_off() in acquire()).
TypeOK ==
  /\ condLock \in [CondLocks -> Procs \cup {NoProc}]
  /\ bucketLock \in [Buckets -> Procs \cup {NoProc}]
  /\ procLock \in [Procs -> Procs \cup {NoProc}]
  /\ state \in [Procs -> {"RUNNABLE", "RUNNING", "SLEEPING"}]
  /\ chan \in [Procs -> Chans \cup {NoChan}]
  /\ killed \in [Procs -> BOOLEAN]
  /\ echan \in [Procs -> Chans \cup {NoChan}]
  /\ queue \in [Buckets -> Seq(Procs)]
  /\ pc \in [Procs -> Labels]
  /\ saved \in [Procs -> {"user", "sleep8", "wake1", "kill1"}]
  /\ ret \in [Procs -> {"user", "crit"}]
  /\ arg \in [Procs -> Chans \cup {NoChan}]
  /\ one \in [Procs -> BOOLEAN]
  /\ todo \in [Procs -> Seq(Procs)]
  /\ victim \in [Procs -> Procs \cup {NoProc}]

SleepersOf(b) == {p \in Procs : state[p] = "SLEEPING" /\ Bucket[chan[p]] = b}

\* A bucket's queue holds the entries of exactly the processes that are
\* SLEEPING on a channel of the bucket, each once and under that channel:
\* sleep() links the entry and wakeup() unlinks it (docs/design.md:108-112).
\* A stale entry would be woken in a later life of its process, a missing
\* one would sleep for ever.
QueueIsSleepers ==
  \A b \in Buckets :
    /\ Range(queue[b]) = SleepersOf(b)
    /\ \A i, j \in DOMAIN queue[b] : i # j => queue[b][i] # queue[b][j]
    /\ \A p \in Range(queue[b]) : echan[p] = chan[p]

\* sched() finds p->lock held, no other lock held, and the state changed: none
\* of its panics (proc.c:487-494) can be reached from sleep() or yield().
SchedCannotPanic ==
  \A p \in Procs : pc[p] = "sched" =>
    /\ procLock[p] = p
    /\ state[p] # "RUNNING"
    /\ \A l \in CondLocks : condLock[l] # p
    /\ \A b \in Buckets : bucketLock[b] # p
    /\ \A q \in Procs \ {p} : procLock[q] # p

\* Locks are taken in the order lk, bucket, p->lock (docs/design.md:116-125) and
\* at most one of each kind is held: a process that waits for a lock of one
\* kind holds none of that kind or of a later one, so no cycle of waiting
\* processes can form, whatever the channels hash to.
WaitsForCond(p) == pc[p] \in {"user", "sleep8"}
WaitsForBucket(p) == pc[p] \in {"sleep1", "wake1"}
WaitsForProc(p) == pc[p] \in {"sleep2", "kill1"} \/ (pc[p] = "wake2" /\ todo[p] # <<>>)

LockOrder ==
  \A p \in Procs :
    /\ WaitsForCond(p) => \A l \in CondLocks : condLock[l] # p
    /\ WaitsForCond(p) \/ WaitsForBucket(p) => \A b \in Buckets : bucketLock[b] # p
    /\ WaitsForCond(p) \/ WaitsForBucket(p) \/ WaitsForProc(p) =>
         \A q \in Procs : procLock[q] # p

\* A process that a scheduler may pick is not still running on another hart's
\* kernel stack: whoever made it RUNNABLE, its lock is free only after it has
\* switched away (proc.c:453-465).
RunnableIsSwitchedOut ==
  \A p \in Procs :
    state[p] = "RUNNABLE" /\ procLock[p] = NoProc => pc[p] = "off"

\* When wakeup() leaves its loop, nobody sleeps on its channel: the walk with
\* the saved next pointer skips no entry although entries are unlinked on
\* the way (proc.c:586-599).
WakeupMissesNobody ==
  \A p \in Procs :
    pc[p] = "wake2" /\ todo[p] = <<>> /\ ~one[p] =>
      \A q \in Procs : ~(state[q] = "SLEEPING" /\ chan[q] = arg[p])

\* From the release of the condition lock until its state is RUNNABLE again.
Waiting(p, c) ==
  \/ pc[p] = "sleep4" /\ arg[p] = c
  \/ state[p] = "SLEEPING" /\ chan[p] = c

Awake(p) == pc[p] \in {"wake2", "wake3"}

\* The state of CondVar: a process waits from the release of the condition
\* lock (sleep4) until its state is RUNNABLE, and a wakeup looks at the channel
\* when it takes the bucket's lock.
WaitingOn(p) ==
  IF pc[p] = "sleep4" THEN arg[p]
  ELSE IF state[p] = "SLEEPING" THEN chan[p] ELSE NoChan

WakingOn(p) == IF Awake(p) THEN arg[p] ELSE NoChan

Single(p) == Awake(p) /\ one[p]

Owed(p) == {q \in Range(todo[p]) : echan[q] = arg[p]}

CV == INSTANCE CondVar WITH
  waiting <- [p \in Procs |-> WaitingOn(p)],
  waking <- [p \in Procs |-> WakingOn(p)],
  single <- [p \in Procs |-> Single(p)],
  owed <- [p \in Procs |-> Owed(p)]

\* sleep(), wakeup() and wakeup_one() keep the promise of CondVar to their
\* callers: whoever gave up the condition lock before a wakeup takes the
\* bucket's lock is woken by it, or for wakeup_one one of them is, and nobody
\* else is woken.
ImplementsCondVar == CV!Spec
-----------------------------------------------------------------------------
(* The inductive invariant: where each lock is held, what each label says  *)
(* about the process at it, and what the queues and cursors hold.          *)

InBucket(p) == pc[p] \in {"sleep2", "sleep3", "sleep4", "sleep5", "wake2", "wake3"}

InCond(p) ==
  \/ pc[p] \in {"crit", "sleep1", "sleep2", "sleep3"}
  \/ pc[p] \in {"wake1", "wake2", "wake3"} /\ ret[p] = "crit"

CondLockInv ==
  /\ \A l \in CondLocks, p \in Procs : condLock[l] = p =>
       /\ InCond(p)
       /\ pc[p] \in {"sleep1", "sleep2", "sleep3"} => l = CondLock[arg[p]]
  /\ \A l, m \in CondLocks : condLock[l] = condLock[m] => l = m \/ condLock[l] = NoProc
  /\ \A p \in Procs : InCond(p) => \E l \in CondLocks : condLock[l] = p

BucketLockInv ==
  \A b \in Buckets, p \in Procs :
    bucketLock[b] = p <=> InBucket(p) /\ b = Bucket[arg[p]]

ProcLockInv ==
  \A q, p \in Procs :
    procLock[q] = p <=>
      \/ q = p /\ pc[p] \in {"sleep3", "sleep4", "sleep5", "sched", "sleep7", "yield2"}
      \/ pc[p] = "wake3" /\ q = Head(todo[p])
      \/ pc[p] = "kill2" /\ q = victim[p]

\* What the label a process is at, or will return to from yield(), says.
LabelInv(p, at) ==
  /\ at \in {"sleep1", "sleep2", "sleep3", "sleep4", "sleep8", "wake1", "wake2", "wake3"} =>
       arg[p] \in Chans
  /\ at \in {"kill1", "kill2"} => victim[p] \in Procs

StateAt(p) ==
  /\ LabelInv(p, pc[p])
  /\ LabelInv(p, saved[p])
  /\ saved[p] # "user" => pc[p] \in {"sched", "off", "yield2"} /\ chan[p] = NoChan
  /\ pc[p] \in {"user", "crit", "kill1", "kill2"} => ret[p] = "user"
  /\ pc[p] \in {"sched", "off", "yield2"} /\ chan[p] = NoChan /\ saved[p] # "sleep8" =>
       ret[p] = "user"
  /\ \/ pc[p] \in {"sleep1", "sleep2", "sleep3", "sleep4", "sleep8"}
     \/ saved[p] = "sleep8"
     \/ chan[p] # NoChan
     => ret[p] = "crit"
  /\ pc[p] \in {"sleep5", "sleep7"} => chan[p] # NoChan
  /\ chan[p] # NoChan => /\ pc[p] \in {"sleep5", "sched", "off", "sleep7"}
                         /\ arg[p] = chan[p]
  /\ state[p] = "RUNNING" <=> pc[p] \notin {"sleep5", "sched", "off"}
  /\ pc[p] = "sleep5" => state[p] = "SLEEPING"
  /\ pc[p] = "sched" => (state[p] = "SLEEPING" <=> chan[p] # NoChan)
  /\ state[p] = "SLEEPING" => chan[p] # NoChan

StateInv == \A p \in Procs : StateAt(p)

CursorAt(p) ==
  /\ pc[p] \notin {"wake2", "wake3"} => todo[p] = <<>>
  /\ pc[p] = "wake3" => todo[p] # <<>> /\ echan[Head(todo[p])] = arg[p]
  /\ \A i \in DOMAIN todo[p] : todo[p][i] \in Range(queue[Bucket[arg[p]]])
  /\ \A i, j \in DOMAIN todo[p] : i # j => todo[p][i] # todo[p][j]
  /\ pc[p] \in {"wake2", "wake3"} /\ ~one[p] =>
       \A q \in Procs : state[q] = "SLEEPING" /\ chan[q] = arg[p] =>
         \E i \in DOMAIN todo[p] : todo[p][i] = q

CursorInv == \A p \in Procs : CursorAt(p)

\* The facts about locks, labels, queues and cursors that every step of the
\* kernel's code preserves together.
IInv ==
  /\ TypeOK
  /\ CondLockInv
  /\ BucketLockInv
  /\ ProcLockInv
  /\ StateInv
  /\ QueueIsSleepers
  /\ CursorInv
=============================================================================
