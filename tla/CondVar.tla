------------------------------- MODULE CondVar -------------------------------
(***************************************************************************)
(* What sleep(), wakeup() and wakeup_one() promise their callers, with no  *)
(* queue, no bucket and no per-process lock in sight.                      *)
(*                                                                         *)
(* A process waits on a channel from the moment it gives up the condition  *)
(* lock.  A wakeup has a moment at which it looks at the channel: everyone *)
(* who waits there then is owed a wakeup, and the call may not end while   *)
(* anyone is owed one.  wakeup_one owes one process only, whichever it     *)
(* picks.  Nobody is woken who does not wait on the channel.               *)
(***************************************************************************)
EXTENDS FiniteSets

CONSTANTS Procs, Chans, NoChan

VARIABLES
  waiting, \* the channel each process waits on, or NoChan
  waking,  \* the channel each process is waking, or NoChan
  single,  \* whether that is a wakeup_one
  owed     \* the processes that call still has to wake

cvvars == <<waiting, waking, single, owed>>

Waiters(c) == {p \in Procs : waiting[p] = c}

Init ==
  /\ waiting = [p \in Procs |-> NoChan]
  /\ waking = [p \in Procs |-> NoChan]
  /\ single = [p \in Procs |-> FALSE]
  /\ owed = [p \in Procs |-> {}]

Wait(p, c) ==
  /\ waiting[p] = NoChan
  /\ waiting' = [waiting EXCEPT ![p] = c]
  /\ UNCHANGED <<waking, single, owed>>

Begin(p, c, s) ==
  /\ waking[p] = NoChan
  /\ waking' = [waking EXCEPT ![p] = c]
  /\ single' = [single EXCEPT ![p] = s]
  /\ owed' = [owed EXCEPT ![p] = Waiters(c)]
  /\ UNCHANGED waiting

Wake(p, q) ==
  /\ q \in owed[p]
  /\ waiting[q] = waking[p]
  /\ waiting' = [waiting EXCEPT ![q] = NoChan]
  /\ owed' = [owed EXCEPT ![p] = IF single[p] THEN {} ELSE @ \ {q}]
  /\ UNCHANGED <<waking, single>>

End(p) ==
  /\ waking[p] # NoChan
  /\ owed[p] = {}
  /\ waking' = [waking EXCEPT ![p] = NoChan]
  /\ single' = [single EXCEPT ![p] = FALSE]
  /\ UNCHANGED <<waiting, owed>>

Next ==
  \E p \in Procs :
    \/ \E c \in Chans : Wait(p, c)
    \/ \E c \in Chans, s \in BOOLEAN : Begin(p, c, s)
    \/ \E q \in Procs : Wake(p, q)
    \/ End(p)

Spec == Init /\ [][Next]_cvvars
==============================================================================
