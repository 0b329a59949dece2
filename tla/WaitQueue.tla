------------------------------ MODULE WaitQueue ------------------------------
(* What the list operations of kernel/waitqueue.c do to a bucket, seen as  *)
(* the sequence of the processes whose entry is linked, head first.        *)
EXTENDS Integers, Sequences

\* Prepend the entry of p.
wq_add_locked(q, p) == <<p>> \o q

\* Mutant of wq_remove_locked: whatever entry is at the head goes.
RemoveHead(q, p) == Tail(q)

\* Unlink the entry of p, wherever it is.
wq_remove_locked(q, p) ==
  IF \E i \in DOMAIN q : q[i] = p
  THEN LET k == CHOOSE i \in DOMAIN q : q[i] = p
       IN  [j \in 1 .. Len(q) - 1 |-> IF j < k THEN q[j] ELSE q[j + 1]]
  ELSE q
==============================================================================
