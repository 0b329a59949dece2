---------------------------- MODULE MCSleepWakeup ----------------------------
(* Small instances of SleepWakeup for TLC. *)
EXTENDS SleepWakeup, TLC
CONSTANTS c1, c2, b1, b2, l1, l2
\* Two channels of one bucket, under one lock each.
OneBucket == c1 :> b1 @@ c2 :> b1
TwoLocks == c1 :> l1 @@ c2 :> l2
Symmetry == Permutations(Procs)
==============================================================================
