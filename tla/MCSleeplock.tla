----------------------------- MODULE MCSleeplock -----------------------------
(* Small instances of Sleeplock for TLC. *)
EXTENDS Sleeplock, TLC
CONSTANTS c1, c2, b1, l1, l2
\* Two sleeplocks whose addresses hash to one bucket.
OneBucket == [c \in Chans |-> b1]
OwnLocks == [c \in Chans |-> IF c = c1 THEN l1 ELSE l2]
==============================================================================
