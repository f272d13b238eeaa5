-------------------------- MODULE MCFuturesUnordered --------------------------
(* Two futures, and two threads that push and wake them.                   *)
EXTENDS FuturesUnordered, TLC

CONSTANTS a, b, x1, x2
MCTasks == {a, b}
MCThreads == {x1, x2}

(* Neither the tasks nor the threads are told apart.                       *)
Symmetry == Permutations(MCTasks) \cup Permutations(MCThreads)
==============================================================================
