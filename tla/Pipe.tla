-------------------------------- MODULE Pipe ---------------------------------
(***************************************************************************)
(* pipewrite(), piperead() and pipeclose() of kernel/pipe.c on one pipe,   *)
(* on top of sleep(), wakeup() and wakeup_one().                           *)
(*                                                                         *)
(* The channels are &pi->nread and &pi->nwrite.  A pipe fills a page, so   *)
(* the two always hash to the same bucket, and so they do here.  The       *)
(* writer's bytes are numbered in the order in which they enter the ring.  *)
(* nread and nwrite are uints that wrap; Word stands for 2^32.             *)
(*                                                                         *)
(* A process has its end of the pipe open until it closes it; the last     *)
(* process to close an end calls pipeclose() (fileclose() in file.c).  A   *)
(* killed process makes no further call but that.                          *)
(*                                                                         *)
(* Timer preemption is left to SleepWakeup and Sleeplock: every process    *)
(* here has a hart of its own and may be slow at any step.                 *)
(***************************************************************************)
EXTENDS SleepWakeup

CONSTANTS
  Writers, Readers, \* the processes with each end open
  rchan, wchan,     \* &pi->nread and &pi->nwrite
  PIPESIZE,
  Word,             \* the range of a uint
  MaxN,             \* the largest n of a read or write
  MaxCalls,         \* calls of read and write of each process
  MaxKills          \* calls of kkill()

ASSUME PipeAssumption ==
  /\ Chans = {rchan, wchan} /\ rchan # wchan
  /\ \A c \in Chans, d \in Chans : Bucket[c] = Bucket[d] /\ CondLock[c] = CondLock[d]
  /\ Writers \subseteq Procs /\ Readers \subseteq Procs
  /\ PIPESIZE \in Nat \ {0} /\ Word \in Nat /\ PIPESIZE < Word /\ Word % PIPESIZE = 0

VARIABLES
  nread, nwrite, readopen, writeopen, data, \* struct pipe
  freed,     \* whether the page went to kfree()
  open,      \* the processes that have not closed their end
  n, i,      \* the arguments and the loop variable of read and write
  sent, got, \* the numbers of bytes written and read, ever
  skipped,   \* whether wq_has_sleeper() said no while somebody waited
  calls, kills

pipe == <<nread, nwrite, readopen, writeopen, data, freed>>
local == <<open, n, i>>
bounds == <<calls, kills>>
ghosts == <<sent, got, skipped>>
allvars == <<vars, pipe, local, bounds, ghosts>>

lk == CondLock[rchan]

InitP ==
  /\ Init
  /\ nread = 0 /\ nwrite = 0 /\ readopen = TRUE /\ writeopen = TRUE
  /\ data = [k \in 0 .. PIPESIZE - 1 |-> 0]
  /\ freed = FALSE
  /\ open = Writers \cup Readers
  /\ n = [p \in Procs |-> 0] /\ i = [p \in Procs |-> 0]
  /\ sent = 0 /\ got = 0 /\ skipped = FALSE
  /\ calls = [p \in Procs |-> 0] /\ kills = 0

Empty == nread = nwrite
\* Mutant of Full: one byte too late.
FullTooLate == nwrite = (nread + PIPESIZE + 1) % Word

Full == nwrite = (nread + PIPESIZE) % Word

\* if(wq_has_sleeper(c)) wakeup_one(c);
WakeupIfSleeper(p, c, from, to) ==
  /\ pc[p] = from
  /\ \/ wq_has_sleeper(c) /\ CallWakeup(p, c, TRUE, from, to) /\ UNCHANGED skipped
     \/ /\ ~wq_has_sleeper(c)
        /\ Goto(p, from, to)
        /\ skipped' = (skipped \/ \E q \in Procs : Waiting(q, c))
        /\ UNCHANGED <<pvars, saved, ret, arg, one, todo, victim>>

\* killed(p): p's own lock is free and is taken and released.
IsKilled(p) == procLock[p] = NoProc /\ killed[p]
NotKilled(p) == procLock[p] = NoProc /\ ~killed[p]

\* A read or write of k bytes begins.
Enter(p, to) ==
  /\ p \in open /\ calls[p] < MaxCalls /\ ~killed[p]
  /\ AcquireCond(p, lk, "user", to)
  /\ \E k \in 1 .. MaxN : n' = [n EXCEPT ![p] = k]
  /\ i' = [i EXCEPT ![p] = 0]
  /\ calls' = [calls EXCEPT ![p] = @ + 1]
  /\ UNCHANGED <<pipe, open, ghosts, kills>>

\* The call returns.
Leave(p, from) ==
  /\ pc[p] = from
  /\ ReleaseCond(p, lk, from, "user")
  /\ n' = [n EXCEPT ![p] = 0]
  /\ i' = [i EXCEPT ![p] = 0]
  /\ UNCHANGED <<pipe, open, ghosts, bounds>>

Step(p, from, to) ==
  Goto(p, from, to) /\ UNCHANGED <<pvars, saved, ret, arg, one, todo, victim>>
-----------------------------------------------------------------------------
(* pipewrite(): pw1 is the head of its loop, pw2 the call of sleep(), pw3  *)
(* what follows the loop.                                                  *)

WriteEnter(p) == p \in Writers /\ Enter(p, "pw1")

WriteAbort(p) ==
  /\ pc[p] = "pw1" /\ i[p] < n[p]
  /\ ~readopen \/ IsKilled(p)
  /\ Leave(p, "pw1")

\* Mutant of WriteFull: the writer leaves the reader asleep.
WriteFullSilently(p) ==
  /\ pc[p] = "pw1" /\ i[p] < n[p]
  /\ readopen /\ NotKilled(p) /\ Full
  /\ Step(p, "pw1", "pw2")
  /\ UNCHANGED <<pipe, local, bounds, ghosts>>

WriteFull(p) ==
  /\ pc[p] = "pw1" /\ i[p] < n[p]
  /\ readopen /\ NotKilled(p) /\ Full
  /\ WakeupIfSleeper(p, rchan, "pw1", "pw2")
  /\ UNCHANGED <<pipe, local, bounds, sent, got>>

WriteSleep(p) ==
  /\ CallSleep(p, wchan, "pw2", "pw1")
  /\ UNCHANGED <<pipe, local, bounds, ghosts>>

WriteByte(p) ==
  /\ i[p] < n[p]
  /\ readopen /\ NotKilled(p) /\ ~Full
  /\ Step(p, "pw1", "pw1")
  /\ sent' = sent + 1
  /\ data' = [data EXCEPT ![nwrite % PIPESIZE] = sent + 1]
  /\ nwrite' = (nwrite + 1) % Word
  /\ i' = [i EXCEPT ![p] = @ + 1]
  /\ UNCHANGED <<nread, readopen, writeopen, freed, open, n, bounds, got, skipped>>

\* copyin() fails.
WriteFault(p) ==
  /\ i[p] < n[p]
  /\ readopen /\ NotKilled(p) /\ ~Full
  /\ Step(p, "pw1", "pw3")
  /\ UNCHANGED <<pipe, local, bounds, ghosts>>

WriteDone(p) ==
  /\ i[p] = n[p]
  /\ Step(p, "pw1", "pw3")
  /\ UNCHANGED <<pipe, local, bounds, ghosts>>

WriteWakeup(p) ==
  /\ WakeupIfSleeper(p, rchan, "pw3", "pw4")
  /\ UNCHANGED <<pipe, local, bounds, sent, got>>

WriteLeave(p) == Leave(p, "pw4")

PipeWrite(p) ==
  \/ WriteAbort(p) \/ WriteFull(p) \/ WriteSleep(p) \/ WriteByte(p)
  \/ WriteFault(p) \/ WriteDone(p) \/ WriteWakeup(p) \/ WriteLeave(p)
-----------------------------------------------------------------------------
(* piperead(): pr1 is the loop that waits, pr2 the loop that copies.       *)

ReadEnter(p) == p \in Readers /\ Enter(p, "pr1")

ReadAbort(p) ==
  /\ pc[p] = "pr1" /\ Empty /\ writeopen /\ IsKilled(p)
  /\ Leave(p, "pr1")

ReadSleep(p) ==
  /\ Empty /\ writeopen /\ NotKilled(p)
  /\ CallSleep(p, rchan, "pr1", "pr1")
  /\ UNCHANGED <<pipe, local, bounds, ghosts>>

ReadStart(p) ==
  /\ ~Empty \/ ~writeopen
  /\ Step(p, "pr1", "pr2")
  /\ UNCHANGED <<pipe, local, bounds, ghosts>>

\* A byte is copied out; it is the one the reader is given.
ReadByte(p) ==
  /\ i[p] < n[p] /\ ~Empty
  /\ Step(p, "pr2", "pr2")
  /\ got' = got + 1
  /\ nread' = (nread + 1) % Word
  /\ i' = [i EXCEPT ![p] = @ + 1]
  /\ UNCHANGED <<nwrite, readopen, writeopen, data, freed, open, n, bounds, sent, skipped>>

\* The loop ends after n bytes or at an empty pipe.
ReadDone(p) ==
  /\ i[p] = n[p] \/ Empty
  /\ Step(p, "pr2", "pr3")
  /\ UNCHANGED <<pipe, local, bounds, ghosts>>

\* copyout() fails.
ReadFault(p) ==
  /\ i[p] < n[p] /\ ~Empty
  /\ Step(p, "pr2", "pr3")
  /\ UNCHANGED <<pipe, local, bounds, ghosts>>

ReadWakeup(p) ==
  /\ WakeupIfSleeper(p, wchan, "pr3", "pr4")
  /\ UNCHANGED <<pipe, local, bounds, sent, got>>

ReadLeave(p) == Leave(p, "pr4")

PipeRead(p) ==
  \/ ReadAbort(p) \/ ReadSleep(p) \/ ReadStart(p) \/ ReadByte(p)
  \/ ReadDone(p) \/ ReadFault(p) \/ ReadWakeup(p) \/ ReadLeave(p)
-----------------------------------------------------------------------------
(* close(), and pipeclose() when it drops the last reference to an end.    *)

Side(p) == IF p \in Writers THEN Writers ELSE Readers

CloseNotLast(p) ==
  /\ pc[p] = "user" /\ p \in open /\ open \cap Side(p) # {p}
  /\ open' = open \ {p}
  /\ UNCHANGED <<vars, pipe, n, i, bounds, ghosts>>

\* Mutant of CloseEnter: every close is taken for the last.
CloseEnterAlways(p) ==
  /\ p \in open
  /\ AcquireCond(p, lk, "user", "pc1")
  /\ open' = open \ {p}
  /\ UNCHANGED <<pipe, n, i, bounds, ghosts>>

CloseEnter(p) ==
  /\ p \in open /\ open \cap Side(p) = {p}
  /\ AcquireCond(p, lk, "user", "pc1")
  /\ open' = open \ {p}
  /\ UNCHANGED <<pipe, n, i, bounds, ghosts>>

\* Mutant of CloseWakeup: the channels are swapped.
CloseWakesOwnSide(p) ==
  /\ pc[p] = "pc1"
  /\ writeopen' = (writeopen /\ p \notin Writers)
  /\ readopen' = (readopen /\ p \in Writers)
  /\ CallWakeup(p, IF p \in Writers THEN wchan ELSE rchan, FALSE, "pc1", "pc2")
  /\ UNCHANGED <<nread, nwrite, data, freed, local, bounds, ghosts>>

\* Mutant of CloseWakeup: wakeup_one() in place of wakeup().
CloseWakesOne(p) ==
  /\ pc[p] = "pc1"
  /\ writeopen' = (writeopen /\ p \notin Writers)
  /\ readopen' = (readopen /\ p \in Writers)
  /\ CallWakeup(p, IF p \in Writers THEN rchan ELSE wchan, TRUE, "pc1", "pc2")
  /\ UNCHANGED <<nread, nwrite, data, freed, local, bounds, ghosts>>

CloseWakeup(p) ==
  /\ pc[p] = "pc1"
  /\ writeopen' = (writeopen /\ p \notin Writers)
  /\ readopen' = (readopen /\ p \in Writers)
  /\ CallWakeup(p, IF p \in Writers THEN rchan ELSE wchan, FALSE, "pc1", "pc2")
  /\ UNCHANGED <<nread, nwrite, data, freed, local, bounds, ghosts>>

\* Mutant of CloseRelease: the first end to close frees the page.
CloseFreesEarly(p) ==
  /\ pc[p] = "pc2"
  /\ ReleaseCond(p, lk, "pc2", IF readopen /\ writeopen THEN "user" ELSE "pc3")
  /\ UNCHANGED <<pipe, local, bounds, ghosts>>

\* release(&pi->lock), with kfree() to follow if both ends are closed.
CloseRelease(p) ==
  /\ pc[p] = "pc2"
  /\ ReleaseCond(p, lk, "pc2", IF readopen \/ writeopen THEN "user" ELSE "pc3")
  /\ UNCHANGED <<pipe, local, bounds, ghosts>>

CloseFree(p) ==
  /\ Step(p, "pc3", "user")
  /\ freed' = TRUE
  /\ UNCHANGED <<nread, nwrite, readopen, writeopen, data, local, bounds, ghosts>>

PipeClose(p) == CloseWakeup(p) \/ CloseRelease(p) \/ CloseFree(p)
-----------------------------------------------------------------------------
Killer(p) ==
  /\ kills < MaxKills
  /\ ClientKill(p)
  /\ kills' = kills + 1
  /\ UNCHANGED <<pipe, local, calls, ghosts>>

\* The steps of a process that is in the kernel.
Forward(p) ==
  \/ Progress(p) /\ UNCHANGED <<pipe, local, bounds, ghosts>>
  \/ PipeWrite(p) \/ PipeRead(p) \/ PipeClose(p)

\* The steps of a process in user space.
User(p) ==
  WriteEnter(p) \/ ReadEnter(p) \/ CloseNotLast(p) \/ CloseEnter(p) \/ Killer(p)

NextP == \E p \in Procs : Forward(p) \/ User(p)

SpecP == InitP /\ [][NextP]_allvars /\ \A p \in Procs : WF_allvars(Forward(p))
-----------------------------------------------------------------------------
(* Properties                                                              *)

\* The ring of struct pipe holds the bytes written and not yet read, in order:
\* no byte is lost, repeated, overwritten or read out of order, also when nread
\* and nwrite wrap (pipe.c:88, 96, 115, 125).
PipeFIFO ==
  /\ sent - got \in 0 .. PIPESIZE
  /\ (nwrite - nread) % Word = sent - got
  /\ \A k \in 0 .. sent - got - 1 : data[(nread + k) % PIPESIZE] = got + 1 + k

InPipe(p) ==
  \/ pc[p] \in {"pw1", "pw2", "pw3", "pw4", "pr1", "pr2", "pr3", "pr4", "pc1", "pc2"}
  \/ ret[p] # "user"

\* Once pipeclose() has given the page to kfree(), nobody is inside a call on
\* the pipe, waits on one of its channels or will return to its code.
NoUseAfterFree ==
  freed => /\ \A p \in Procs : ~InPipe(p) /\ p \notin open
           /\ condLock[lk] = NoProc

\* q sleeps although its condition holds, the pipe's lock is free, and nothing
\* under way will wake it: no wakeup on its channel, no process woken on its
\* channel that has not run yet, no killed peer that has still to exit.
Forgotten(q, c, ready) ==
  /\ Waiting(q, c) /\ ready
  /\ condLock[lk] = NoProc
  /\ \A p \in Procs : ~(pc[p] \in {"wake1", "wake2", "wake3"} /\ arg[p] = c)
  /\ \A p \in Procs : pc[p] \in {"off", "sched", "sleep7", "sleep8", "yield2"} /\ arg[p] = c =>
                        Waiting(p, c)
  /\ \A p \in open : killed[p] => Side(p) = Side(q)

\* The wakeups of pipewrite() and piperead() reach everyone they concern unless
\* a test of wq_has_sleeper() went wrong: a process that sleeps on the pipe has
\* nothing to read, or no room to write.
WakeupOneSuffices ==
  ~skipped =>
    /\ \A q \in Readers : ~Forgotten(q, rchan, ~Empty \/ ~writeopen)
    /\ \A q \in Writers : ~Forgotten(q, wchan, ~Full \/ ~readopen)

\* A reader does not sleep for ever while there is something to read.
ReaderGetsData ==
  \A q \in Readers : Waiting(q, rchan) /\ ~Empty ~> ~Waiting(q, rchan) \/ Empty

\* pipeclose() wakes everyone who waits for the other end.
CloseWakesAll ==
  /\ \A q \in Readers : Waiting(q, rchan) /\ ~writeopen ~> ~Waiting(q, rchan)
  /\ \A q \in Writers : Waiting(q, wchan) /\ ~readopen ~> ~Waiting(q, wchan)
==============================================================================
