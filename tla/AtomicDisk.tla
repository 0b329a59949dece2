------------------------------ MODULE AtomicDisk ------------------------------
(***************************************************************************)
(* What the log of kernel/log.c promises the file system: a disk on which  *)
(* the writes of the running operations become durable all at once, at a   *)
(* moment when no operation is half done, and a crash that goes back to    *)
(* the last such moment.                                                   *)
(***************************************************************************)
EXTENDS Integers

CONSTANTS Blocks, Values, Zero

VARIABLES
  durable, \* what a crash leaves
  current, \* what a read of a block returns
  active   \* the number of operations between begin_op() and end_op()

advars == <<durable, current, active>>

Init ==
  /\ durable = [b \in Blocks |-> Zero]
  /\ current = [b \in Blocks |-> Zero]
  /\ active = 0

Begin == active' = active + 1 /\ UNCHANGED <<durable, current>>

Write(b, v) ==
  /\ active > 0
  /\ current' = [current EXCEPT ![b] = v]
  /\ UNCHANGED <<durable, active>>

End == active > 0 /\ active' = active - 1 /\ UNCHANGED <<durable, current>>

Commit ==
  /\ active = 0
  /\ durable' = current
  /\ UNCHANGED <<current, active>>

Crash ==
  /\ current' = durable
  /\ active' = 0
  /\ UNCHANGED durable

Next ==
  \/ Begin \/ End \/ Commit \/ Crash
  \/ \E b \in Blocks, v \in Values : Write(b, v)

Spec == Init /\ [][Next]_advars
==============================================================================
