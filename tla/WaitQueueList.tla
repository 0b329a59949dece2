---------------------------- MODULE WaitQueueList ----------------------------
(***************************************************************************)
(* The pointers of one bucket of kernel/waitqueue.c and the loops over     *)
(* them: wq_add_locked(), the walk of wakeup() and wakeup_one(), and       *)
(* wq_remove_locked() with its search for the predecessor.                 *)
(*                                                                         *)
(* All of it runs under the bucket's lock, so one operation is in progress *)
(* at a time; a step is one iteration of a loop.  The entries queued here  *)
(* are those of SLEEPING processes, so that the test of wakeup() under     *)
(* e->proc->lock succeeds whenever e->chan matches (this is                *)
(* QueueIsSleepers of SleepWakeup).                                        *)
(***************************************************************************)
EXTENDS WaitQueue, FiniteSets, Functions

CONSTANTS Procs, Chans, Null

ASSUME ListAssumption == Null \notin Procs \cup Chans /\ IsFiniteSet(Procs)

VARIABLES
  head,   \* b->head
  next,   \* entry->next
  echan,  \* entry->chan
  queued, \* entry->queued
  op,     \* "idle", "walk" (the loop of wakeup) or "search" (of wq_remove_locked)
  wchan,  \* the channel wakeup() was called with
  one,    \* whether it is wakeup_one()
  e,      \* the loop's entry
  nxt,    \* the loop's saved next
  t       \* the entry wq_remove_locked() is looking at

entries == <<head, next, echan, queued>>
vars == <<entries, op, wchan, one, e, nxt, t>>

\* procinit() and wq_init().
Init ==
  /\ head = Null
  /\ next = [p \in Procs |-> Null]
  /\ echan = [p \in Procs |-> Null]
  /\ queued = [p \in Procs |-> FALSE]
  /\ op = "idle" /\ wchan = Null /\ one = FALSE
  /\ e = Null /\ nxt = Null /\ t = Null

\* Mutant of Add: the old head is not linked behind the new entry.
AddDropsRest(p, c) ==
  /\ op = "idle"
  /\ ~queued[p]
  /\ echan' = [echan EXCEPT ![p] = c]
  /\ queued' = [queued EXCEPT ![p] = TRUE]
  /\ head' = p
  /\ UNCHANGED <<next, op, wchan, one, e, nxt, t>>

Add(p, c) ==
  /\ op = "idle"
  /\ ~queued[p]
  /\ echan' = [echan EXCEPT ![p] = c]
  /\ next' = [next EXCEPT ![p] = head]
  /\ queued' = [queued EXCEPT ![p] = TRUE]
  /\ head' = p
  /\ UNCHANGED <<op, wchan, one, e, nxt, t>>

WakeBegin(c, justOne) ==
  /\ op = "idle"
  /\ op' = "walk" /\ wchan' = c /\ one' = justOne /\ e' = head
  /\ UNCHANGED <<entries, nxt, t>>

WakeSkip ==
  /\ op = "walk" /\ e # Null /\ echan[e] # wchan
  /\ e' = next[e]
  /\ UNCHANGED <<entries, op, wchan, one, nxt, t>>

\* The loop variables when the loop goes on at n.
Continue(n) ==
  /\ op' = "walk" /\ e' = IF one THEN Null ELSE n
  /\ nxt' = Null /\ t' = Null

ClearEntry(p) ==
  /\ echan' = [echan EXCEPT ![p] = Null]
  /\ queued' = [queued EXCEPT ![p] = FALSE]

\* Mutant of WakeRemoveHead: the loop goes on at e->next, not at next.
WakeRereadsNext ==
  /\ op = "walk" /\ e # Null /\ echan[e] = wchan /\ head = e
  /\ head' = next[e]
  /\ next' = [next EXCEPT ![e] = Null]
  /\ ClearEntry(e)
  /\ Continue(Null)
  /\ UNCHANGED <<wchan, one>>

\* The entry matches and is the first: wq_remove_locked() moves b->head.
WakeRemoveHead ==
  /\ op = "walk" /\ e # Null /\ echan[e] = wchan /\ head = e
  /\ head' = next[e]
  /\ next' = [next EXCEPT ![e] = Null]
  /\ ClearEntry(e)
  /\ Continue(next[e])
  /\ UNCHANGED <<wchan, one>>

\* Mutant of WakeRemoveSearch: the search starts behind the head.
SearchSkipsHead ==
  /\ op = "walk" /\ e # Null /\ echan[e] = wchan /\ head # e
  /\ op' = "search" /\ nxt' = next[e] /\ t' = next[head]
  /\ UNCHANGED <<entries, wchan, one, e>>

WakeRemoveSearch ==
  /\ op = "walk" /\ e # Null /\ echan[e] = wchan /\ head # e
  /\ op' = "search" /\ nxt' = next[e] /\ t' = head
  /\ UNCHANGED <<entries, wchan, one, e>>

\* One more iteration; at the end of the list the search gives up and
\* wq_remove_locked() returns with nothing done.
SearchOn ==
  /\ op = "search" /\ next[t] # e
  /\ IF next[t] = Null
     THEN Continue(nxt)
     ELSE t' = next[t] /\ UNCHANGED <<op, e, nxt>>
  /\ UNCHANGED <<entries, wchan, one>>

\* Mutant of SearchUnlink: the predecessor is cut off from what follows.
SearchTruncates ==
  /\ op = "search" /\ next[t] = e
  /\ next' = [next EXCEPT ![t] = Null, ![e] = Null]
  /\ ClearEntry(e)
  /\ Continue(nxt)
  /\ UNCHANGED <<head, wchan, one>>

SearchUnlink ==
  /\ op = "search" /\ next[t] = e
  /\ next' = [next EXCEPT ![t] = next[e], ![e] = Null]
  /\ ClearEntry(e)
  /\ Continue(nxt)
  /\ UNCHANGED <<head, wchan, one>>

WakeEnd ==
  /\ op = "walk" /\ e = Null
  /\ op' = "idle" /\ wchan' = Null /\ one' = FALSE
  /\ UNCHANGED <<entries, e, nxt, t>>

Next ==
  \/ \E p \in Procs, c \in Chans : Add(p, c)
  \/ \E c \in Chans, justOne \in BOOLEAN : WakeBegin(c, justOne)
  \/ WakeSkip \/ WakeRemoveHead \/ WakeRemoveSearch
  \/ SearchOn \/ SearchUnlink \/ WakeEnd

Spec == Init /\ [][Next]_vars
-----------------------------------------------------------------------------
(* Properties                                                              *)

N == Cardinality(Procs)

\* The entry n links from the head, or Null.
At[n \in 0 .. N] ==
  IF n = 0 THEN head
  ELSE IF At[n - 1] = Null THEN Null ELSE next[At[n - 1]]

List == SelectSeq([n \in 1 .. N |-> At[n - 1]], LAMBDA p : p # Null)

\* The list of waitqueue.c ends, links each queued entry exactly once and no
\* other, and an entry that is not linked is cleared.
ListIsQueued ==
  /\ At[N] = Null
  /\ Range(List) = {p \in Procs : queued[p]}
  /\ Len(List) = Cardinality(Range(List))
  /\ \A p \in Procs : ~queued[p] => next[p] = Null /\ echan[p] = Null

\* The cursor of wakeup() and the next pointer it saved before the entry was
\* unlinked (proc.c:588, 614) stay on the list, and the entry that
\* wq_remove_locked() searches for lies ahead: it never returns with nothing done.
CursorOnList ==
  /\ e # Null => queued[e]
  /\ nxt # Null => queued[nxt]
  /\ op = "search" =>
       \E i, j \in DOMAIN List : i < j /\ List[i] = t /\ List[j] = e

\* What the loops do to the list is what SleepWakeup says of its sequence:
\* every step leaves it alone, prepends an unqueued entry, or unlinks a queued
\* one and keeps the others in order.
ListImplementsSequence ==
  [][\/ List' = List
     \/ \E p \in Procs : ~queued[p] /\ List' = wq_add_locked(List, p)
     \/ \E p \in Procs : /\ queued[p] /\ echan[p] = wchan
                         /\ List' = wq_remove_locked(List, p)]_vars

\* When wakeup() has walked the list, no entry of its channel is left on it.
WalkIsComplete ==
  [][WakeEnd /\ ~one => \A p \in Procs : queued[p] => echan[p] # wchan]_vars
==============================================================================
