--------------------------------- MODULE Log ---------------------------------
(***************************************************************************)
(* The write-ahead log of kernel/log.c over the buffer cache and the disk, *)
(* with a crash possible between any two disk writes, also during          *)
(* recovery.                                                               *)
(*                                                                         *)
(* Grain: a critical section of log.lock is one step, and so is each       *)
(* bwrite(), which returns when the block is on the disk.  A block is      *)
(* written whole or not at all.  sleep(&log, &log.lock) and wakeup(&log)   *)
(* are atomic here: every wakeup is called with log.lock held or after     *)
(* taking it, and SleepWakeup implements that (CondVar).                   *)
(*                                                                         *)
(* A block's content is the number of the operation that wrote it last.    *)
(* bread() of a block that is not cached reads it from the disk; the cache *)
(* may drop any block whose refcnt is 0, that is any unpinned one.         *)
(***************************************************************************)
EXTENDS Integers, Sequences, FiniteSets, Functions

CONSTANTS
  Procs,
  Blocks,      \* the home blocks of the file system
  LOGBLOCKS, MAXOPBLOCKS,
  OpBlocks,    \* the most blocks an operation really writes
  MaxOps,      \* operations in a behaviour
  MaxCrashes,
  None         \* a block that is not cached

ASSUME LogAssumption ==
  /\ LOGBLOCKS \in Nat /\ MAXOPBLOCKS \in Nat \ {0}
  /\ OpBlocks \in Nat /\ OpBlocks < MAXOPBLOCKS /\ MAXOPBLOCKS <= LOGBLOCKS
  /\ None \notin Nat

VARIABLES
  disk,        \* the home blocks on the disk
  dlog,        \* the log's data blocks on the disk
  dhead,       \* the header block on the disk: block[0 .. n-1]
  cache,       \* the buffers that hold home blocks
  pins,        \* how often bpin() was called for each
  lh,          \* log.lh: block[0 .. n-1]
  outstanding, committing, \* struct log
  pc,          \* where each process is
  op,          \* the number of its operation
  wrote,       \* the blocks its operation has logged
  tail,        \* the loop variable of write_log() and install_trans()
  boot,        \* where recover_from_log() is, or "up"
  ops, crashes

ondisk == <<disk, dlog, dhead>>
memory == <<cache, pins, lh, outstanding, committing>>
procs == <<pc, op, wrote, tail>>
bounds == <<ops, crashes>>
vars == <<ondisk, memory, procs, boot, bounds>>

Slots == 1 .. LOGBLOCKS

Init ==
  /\ disk = [b \in Blocks |-> 0]
  /\ dlog = [s \in Slots |-> 0]
  /\ dhead = <<>>
  /\ cache = [b \in Blocks |-> None]
  /\ pins = [b \in Blocks |-> 0]
  /\ lh = <<>> /\ outstanding = 0 /\ committing = FALSE
  /\ pc = [p \in Procs |-> "idle"]
  /\ op = [p \in Procs |-> 0]
  /\ wrote = [p \in Procs |-> {}]
  /\ tail = 1
  /\ boot = "head"
  /\ ops = 0 /\ crashes = 0

Goto(p, from, to) == pc[p] = from /\ pc' = [pc EXCEPT ![p] = to]

\* bread(b): the buffer's content.
bread(b) == IF cache[b] = None THEN disk[b] ELSE cache[b]

\* bget() recycles a buffer that nobody holds.
Evict(b) ==
  /\ cache[b] # None /\ pins[b] = 0
  /\ cache' = [cache EXCEPT ![b] = None]
  /\ UNCHANGED <<ondisk, pins, lh, outstanding, committing, procs, boot, bounds>>
-----------------------------------------------------------------------------
(* begin_op() and end_op()                                                 *)

\* A file system call begins.
Call(p) ==
  /\ boot = "up" /\ ops < MaxOps
  /\ Goto(p, "idle", "begin")
  /\ ops' = ops + 1
  /\ op' = [op EXCEPT ![p] = ops + 1]
  /\ UNCHANGED <<ondisk, memory, wrote, tail, boot, crashes>>


\* Whether this op might exhaust log space.
NoSpace == Len(lh) + (outstanding + 1) * MAXOPBLOCKS > LOGBLOCKS

BeginWait(p) ==
  /\ committing \/ NoSpace
  /\ Goto(p, "begin", "asleep")
  /\ UNCHANGED <<ondisk, memory, op, wrote, tail, boot, bounds>>

BeginOp(p) ==
  /\ ~committing /\ ~NoSpace
  /\ Goto(p, "begin", "op")
  /\ outstanding' = outstanding + 1
  /\ UNCHANGED <<ondisk, cache, pins, lh, committing, op, wrote, tail, boot, bounds>>

\* wakeup(&log), by a process that goes on at `to`.
WakeAll(p, to) ==
  pc' = [q \in Procs |-> IF q = p THEN to
                         ELSE IF pc[q] = "asleep" THEN "begin" ELSE pc[q]]

EndOp(p) ==
  /\ pc[p] = "op"
  /\ outstanding' = outstanding - 1
  /\ op' = [op EXCEPT ![p] = 0]
  /\ wrote' = [wrote EXCEPT ![p] = {}]
  /\ \/ /\ outstanding = 1
        /\ committing' = TRUE
        /\ pc' = [pc EXCEPT ![p] = "commit"]
     \/ /\ outstanding # 1
        /\ WakeAll(p, "idle")
        /\ UNCHANGED committing
  /\ UNCHANGED <<ondisk, cache, pins, lh, tail, boot, bounds>>

\* Mutant: bpin() also when the block is already in the log.
LogWritePinsAgain(p, b) ==
  /\ pc[p] = "op"
  /\ Cardinality(wrote[p] \cup {b}) <= OpBlocks
  /\ wrote' = [wrote EXCEPT ![p] = @ \cup {b}]
  /\ cache' = [cache EXCEPT ![b] = op[p]]
  /\ lh' = IF b \in Range(lh) THEN lh ELSE Append(lh, b)
  /\ pins' = [pins EXCEPT ![b] = @ + 1]
  /\ UNCHANGED <<ondisk, outstanding, committing, pc, op, tail, boot, bounds>>

\* bread(), the change of b->data, log_write() and brelse().
LogWrite(p, b) ==
  /\ pc[p] = "op"
  /\ Cardinality(wrote[p] \cup {b}) <= OpBlocks
  /\ wrote' = [wrote EXCEPT ![p] = @ \cup {b}]
  /\ cache' = [cache EXCEPT ![b] = op[p]]
  /\ \/ b \in Range(lh) /\ UNCHANGED <<lh, pins>>
     \/ /\ b \notin Range(lh)
        /\ lh' = Append(lh, b)
        /\ pins' = [pins EXCEPT ![b] = @ + 1]
  /\ UNCHANGED <<ondisk, outstanding, committing, pc, op, tail, boot, bounds>>
-----------------------------------------------------------------------------
(* commit(), by the process whose end_op() was the last.                   *)

\* Mutant: log.lh.n > 1.
CommitStartSkipsOne(p) ==
  /\ Goto(p, "commit", IF Len(lh) <= 1 THEN "done" ELSE "wlog")
  /\ tail' = 1
  /\ UNCHANGED <<ondisk, memory, op, wrote, boot, bounds>>

\* Mutant: the loops start one block too early.
CommitStartsAtZero(p) ==
  /\ Goto(p, "commit", IF lh = <<>> THEN "done" ELSE "wlog")
  /\ tail' = 0
  /\ UNCHANGED <<ondisk, memory, op, wrote, boot, bounds>>

\* log.lh.n > 0, or there is nothing to do.
CommitStart(p) ==
  /\ Goto(p, "commit", IF lh = <<>> THEN "done" ELSE "wlog")
  /\ tail' = 1
  /\ UNCHANGED <<ondisk, memory, op, wrote, boot, bounds>>

\* Whether the loop over the log has another round, and where it goes on.
Loop(p, at, to) ==
  /\ Goto(p, at, IF tail < Len(lh) THEN at ELSE to)
  /\ tail' = IF tail < Len(lh) THEN tail + 1 ELSE 1

\* An iteration of write_log().
WriteLog(p) ==
  /\ Loop(p, "wlog", "whead")
  /\ dlog' = [dlog EXCEPT ![tail] = bread(lh[tail])]
  /\ cache' = [cache EXCEPT ![lh[tail]] = bread(lh[tail])]
  /\ UNCHANGED <<disk, dhead, pins, lh, outstanding, committing, op, wrote, boot, bounds>>

\* Mutant: log.lh.n = 0 and its write_head() before install_trans().
WriteHeadErases(p) ==
  /\ Goto(p, "whead", "install")
  /\ dhead' = <<>>
  /\ UNCHANGED <<disk, dlog, memory, op, wrote, tail, boot, bounds>>

\* The first write_head(): the commit.
WriteHead(p) ==
  /\ Goto(p, "whead", "install")
  /\ dhead' = lh
  /\ UNCHANGED <<disk, dlog, memory, op, wrote, tail, boot, bounds>>

\* An iteration of install_trans(0).
Install(p) ==
  /\ Loop(p, "install", "erase")
  /\ disk' = [disk EXCEPT ![lh[tail]] = dlog[tail]]
  /\ cache' = [cache EXCEPT ![lh[tail]] = dlog[tail]]
  /\ pins' = [pins EXCEPT ![lh[tail]] = @ - 1]
  /\ UNCHANGED <<dlog, dhead, lh, outstanding, committing, op, wrote, boot, bounds>>

\* log.lh.n = 0 and the second write_head().
Erase(p) ==
  /\ Goto(p, "erase", "done")
  /\ lh' = <<>>
  /\ dhead' = <<>>
  /\ UNCHANGED <<disk, dlog, cache, pins, outstanding, committing, op, wrote, tail, boot, bounds>>

\* Mutant: no wakeup(&log) after the commit.
CommitEndSilently(p) ==
  /\ Goto(p, "done", "idle")
  /\ committing' = FALSE
  /\ UNCHANGED <<ondisk, cache, pins, lh, outstanding, op, wrote, tail, boot, bounds>>

CommitEnd(p) ==
  /\ pc[p] = "done"
  /\ WakeAll(p, "idle")
  /\ committing' = FALSE
  /\ UNCHANGED <<ondisk, cache, pins, lh, outstanding, op, wrote, tail, boot, bounds>>

Commit(p) ==
  \/ CommitStart(p) \/ WriteLog(p) \/ WriteHead(p)
  \/ Install(p) \/ Erase(p) \/ CommitEnd(p)
-----------------------------------------------------------------------------
(* A crash, and recover_from_log() at the next boot.                       *)

Crash ==
  /\ crashes < MaxCrashes
  /\ crashes' = crashes + 1
  /\ cache' = [b \in Blocks |-> None]
  /\ pins' = [b \in Blocks |-> 0]
  /\ lh' = <<>> /\ outstanding' = 0 /\ committing' = FALSE
  /\ pc' = [p \in Procs |-> "idle"]
  /\ op' = [p \in Procs |-> 0]
  /\ wrote' = [p \in Procs |-> {}]
  /\ tail' = 1
  /\ boot' = "head"
  /\ UNCHANGED <<ondisk, ops>>

ReadHead ==
  /\ boot = "head"
  /\ lh' = dhead
  /\ boot' = IF dhead = <<>> THEN "erase" ELSE "install"
  /\ UNCHANGED <<ondisk, cache, pins, outstanding, committing, procs, bounds>>

\* An iteration of install_trans(1).
RecoverInstall ==
  /\ boot = "install"
  /\ disk' = [disk EXCEPT ![lh[tail]] = dlog[tail]]
  /\ cache' = [cache EXCEPT ![lh[tail]] = dlog[tail]]
  /\ boot' = IF tail < Len(lh) THEN "install" ELSE "erase"
  /\ tail' = IF tail < Len(lh) THEN tail + 1 ELSE 1
  /\ UNCHANGED <<dlog, dhead, pins, lh, outstanding, committing, pc, op, wrote, bounds>>

RecoverErase ==
  /\ boot = "erase"
  /\ lh' = <<>> /\ dhead' = <<>>
  /\ boot' = "up"
  /\ UNCHANGED <<disk, dlog, cache, pins, outstanding, committing, procs, bounds>>

Recover == ReadHead \/ RecoverInstall \/ RecoverErase
-----------------------------------------------------------------------------
Step(p) == BeginWait(p) \/ BeginOp(p) \/ EndOp(p) \/ Commit(p)

Next ==
  \/ \E p \in Procs : Call(p) \/ Step(p) \/ \E b \in Blocks : LogWrite(p, b)
  \/ \E b \in Blocks : Evict(b)
  \/ Crash \/ Recover

\* Every operation comes to its end_op(), and recovery to its end.
Spec == Init /\ [][Next]_vars /\ WF_vars(Recover) /\ \A p \in Procs : WF_vars(Step(p))
-----------------------------------------------------------------------------
\* The log's state keeps its type: the loops of write_log() and install_trans()
\* stay within the log's slots, and lh and the header name home blocks.
TypeOK ==
  /\ disk \in [Blocks -> 0 .. MaxOps]
  /\ dlog \in [Slots -> 0 .. MaxOps]
  /\ Range(dhead) \subseteq Blocks /\ Range(lh) \subseteq Blocks
  /\ cache \in [Blocks -> (0 .. MaxOps) \cup {None}]
  /\ outstanding \in 0 .. Cardinality(Procs) /\ committing \in BOOLEAN
  /\ tail \in Slots
  /\ boot \in {"head", "install", "erase", "up"}


\* The blocks that install_trans() of the running commit has been through.
Installed == IF \E p \in Procs : pc[p] = "install"
             THEN {lh[i] : i \in 1 .. (tail - 1)}
             ELSE IF \E p \in Procs : pc[p] = "erase" THEN Range(lh) ELSE {}

\* A block is pinned once from the log_write() that puts it in the log until
\* install_trans() has written it home, and then not at all: no pin is lost
\* (the cache could drop a committed block) and none is left over (the buffer
\* could never be used again).
PinnedWhileLogged ==
  boot = "up" => \A b \in Blocks :
    pins[b] = IF b \in Range(lh) \ Installed THEN 1 ELSE 0

\* What recover_from_log() would make of the disk as it is now.
Recovered ==
  [b \in Blocks |-> IF b \in Range(dhead)
                    THEN dlog[CHOOSE i \in DOMAIN dhead : dhead[i] = b]
                    ELSE disk[b]]

\* What the file system reads.
Contents == IF boot = "up" THEN [b \in Blocks |-> bread(b)] ELSE Recovered

\* When the last end_op() of a group is through with commit(), every write of
\* every operation that has ended would survive a crash.
CommitIsDurable == \A p \in Procs : pc[p] = "done" => Recovered = Contents

AD == INSTANCE AtomicDisk WITH
        Values <- 0 .. MaxOps, Zero <- 0,
        durable <- Recovered, current <- Contents, active <- outstanding

\* The log makes the disk atomic: whatever is interleaved, and wherever the
\* crash comes, also in the middle of recovery, recovery finds all the writes
\* of a group of operations or none, and a read sees the last write.
ImplementsAtomicDisk == AD!Spec

\* begin_op() returns: a process that waits for a commit or for log space gets
\* its turn, unless the machine crashes.  MaxOps bounds the operations that can
\* overtake it: begin_op() is not fair, and an endless stream of others could
\* keep the log full.
BeginOpReturns == \A p \in Procs : pc[p] = "begin" ~> pc[p] \in {"op", "idle"}
==============================================================================
