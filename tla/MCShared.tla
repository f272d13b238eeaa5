------------------------------- MODULE MCShared -------------------------------
(* Three clones on two threads: one is blocked on, the other two are in a  *)
(* LocalPool, where the first of them may be given to run_until and spawns *)
(* the second.                                                             *)
EXTENDS Shared

CONSTANTS t1, t2, c1, c2, c3

TwoThreads == {t1, t2}
ThreeClones == {c1, c2, c3}
MCHome == [x \in ThreeClones |-> IF x = c1 THEN t1 ELSE t2]
MCParent == [x \in ThreeClones |-> IF x = c3 THEN c2 ELSE NoFut]
MCMains == {{c1}, {c1, c2}}
==============================================================================
