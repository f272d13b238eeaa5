------------------------------- MODULE MCMutex -------------------------------
(* Three tasks: a holder, a waiter that is woken, and one behind it.       *)
EXTENDS Mutex

CONSTANTS t1, t2, t3
MCTasks == {t1, t2, t3}
MCKeys == 0 .. 2
==============================================================================
