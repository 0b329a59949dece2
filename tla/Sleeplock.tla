------------------------------ MODULE Sleeplock ------------------------------
(***************************************************************************)
(* acquiresleep() and releasesleep() of kernel/sleeplock.c, on top of      *)
(* sleep() and wakeup().  A sleeplock lk is the channel lk, and its        *)
(* condition lock is lk->lk.  Other processes may kkill() a waiter, which  *)
(* acquiresleep() does not look at: it is woken and sleeps again.          *)
(***************************************************************************)
EXTENDS SleepWakeup

CONSTANTS
  MaxRounds, \* how often each process takes a sleeplock
  MaxKills,  \* calls of kkill()
  MaxTicks   \* timer interrupts that preempt a process

ASSUME CondLockInjective ==
  \A c, d \in Chans : CondLock[c] = CondLock[d] => c = d

VARIABLES
  locked, \* lk->locked
  pid,    \* lk->pid
  slk,    \* the sleeplock each process wants or holds
  rounds, kills, ticks

svars == <<locked, pid, slk>>
bounds == <<rounds, kills, ticks>>
allvars == <<vars, svars, bounds>>

InitS ==
  /\ Init
  /\ locked = [c \in Chans |-> FALSE]
  /\ pid = [c \in Chans |-> NoProc]
  /\ slk = [p \in Procs |-> NoChan]
  /\ rounds = [p \in Procs |-> 0]
  /\ kills = 0
  /\ ticks = 0

AcquireSleepEnter(p) ==
  /\ rounds[p] < MaxRounds
  /\ \E c \in Chans : /\ AcquireCond(p, CondLock[c], "user", "as")
                      /\ slk' = [slk EXCEPT ![p] = c]
  /\ rounds' = [rounds EXCEPT ![p] = @ + 1]
  /\ UNCHANGED <<locked, pid, kills, ticks>>

\* while(lk->locked) sleep(lk, &lk->lk)
AcquireSleepWait(p) ==
  /\ pc[p] = "as" /\ locked[slk[p]]
  /\ CallSleep(p, slk[p], "as", "as")
  /\ UNCHANGED <<svars, bounds>>

\* Mutant of AcquireSleepTake: if instead of while, so that whoever returns
\* from sleep() takes the lock.
AcquireSleepGrabs(p) ==
  /\ pc[p] = "as"
  /\ ReleaseCond(p, CondLock[slk[p]], "as", "held")
  /\ locked' = [locked EXCEPT ![slk[p]] = TRUE]
  /\ pid' = [pid EXCEPT ![slk[p]] = p]
  /\ UNCHANGED <<slk, bounds>>

AcquireSleepTake(p) ==
  /\ pc[p] = "as"
  /\ ~locked[slk[p]]
  /\ ReleaseCond(p, CondLock[slk[p]], "as", "held")
  /\ locked' = [locked EXCEPT ![slk[p]] = TRUE]
  /\ pid' = [pid EXCEPT ![slk[p]] = p]
  /\ UNCHANGED <<slk, bounds>>

ReleaseSleepEnter(p) ==
  /\ pc[p] = "held"
  /\ AcquireCond(p, CondLock[slk[p]], "held", "rs")
  /\ UNCHANGED <<svars, bounds>>

\* Mutant of ReleaseSleepWake: only one waiter is woken.
ReleaseSleepWakesOne(p) ==
  /\ pc[p] = "rs"
  /\ CallWakeup(p, slk[p], TRUE, "rs", "rs2")
  /\ locked' = [locked EXCEPT ![slk[p]] = FALSE]
  /\ pid' = [pid EXCEPT ![slk[p]] = NoProc]
  /\ UNCHANGED <<slk, bounds>>

\* Mutant of ReleaseSleepWake: no wakeup at all.
ReleaseSleepForgets(p) ==
  /\ Goto(p, "rs", "rs2")
  /\ locked' = [locked EXCEPT ![slk[p]] = FALSE]
  /\ pid' = [pid EXCEPT ![slk[p]] = NoProc]
  /\ UNCHANGED <<pvars, saved, ret, arg, one, todo, victim, slk, bounds>>

ReleaseSleepWake(p) ==
  /\ pc[p] = "rs"
  /\ CallWakeup(p, slk[p], FALSE, "rs", "rs2")
  /\ locked' = [locked EXCEPT ![slk[p]] = FALSE]
  /\ pid' = [pid EXCEPT ![slk[p]] = NoProc]
  /\ UNCHANGED <<slk, bounds>>

ReleaseSleepLeave(p) ==
  /\ pc[p] = "rs2"
  /\ ReleaseCond(p, CondLock[slk[p]], "rs2", "user")
  /\ slk' = [slk EXCEPT ![p] = NoChan]
  /\ UNCHANGED <<locked, pid, bounds>>

\* A process in user space kills another one.
Killer(p) ==
  /\ kills < MaxKills
  /\ ClientKill(p)
  /\ kills' = kills + 1
  /\ UNCHANGED <<svars, rounds, ticks>>

Tick(p) ==
  /\ ticks < MaxTicks
  /\ Yield(p)
  /\ ticks' = ticks + 1
  /\ UNCHANGED <<svars, rounds, kills>>

\* The steps of a process that is in the kernel or holds a sleeplock.
Forward(p) ==
  \/ Progress(p) /\ UNCHANGED <<svars, bounds>>
  \/ AcquireSleepWait(p) \/ AcquireSleepTake(p)
  \/ ReleaseSleepEnter(p) \/ ReleaseSleepWake(p) \/ ReleaseSleepLeave(p)

NextS == \E p \in Procs : Forward(p) \/ AcquireSleepEnter(p) \/ Killer(p) \/ Tick(p)

\* A process in the kernel is scheduled and, with a hart of its own, goes on;
\* a holder of a sleeplock gives it back.
SpecS == InitS /\ [][NextS]_allvars /\ \A p \in Procs : WF_allvars(Forward(p))
-----------------------------------------------------------------------------
(* Properties                                                              *)

Holds(p) == pc[p] \in {"held", "rs"} \/ (pc[p] \in {"sched", "off", "yield2"} /\ saved[p] = "held")

\* At most one process is between acquiresleep() and releasesleep() of a
\* sleeplock, and holdingsleep() is true for it: bwrite(), brelse() and
\* iunlock() do not panic.
SleeplockExclusion ==
  \A p \in Procs : Holds(p) =>
    /\ locked[slk[p]] /\ pid[slk[p]] = p
    /\ \A q \in Procs \ {p} : Holds(q) => slk[q] # slk[p]

\* Nobody waits for a free sleeplock unless the releaser's wakeup() is still on
\* its way.
FreeLockWakes ==
  \A c \in Chans, q \in Procs :
    ~locked[c] /\ Waiting(q, c) =>
      \E p \in Procs : pc[p] \in {"wake1", "wake2", "wake3"} /\ arg[p] = c /\ ret[p] = "rs2"

\* Every acquiresleep() returns, when every holder releases.
AcquireSleepReturns ==
  \A p \in Procs : pc[p] = "as" ~> pc[p] = "held"
==============================================================================
