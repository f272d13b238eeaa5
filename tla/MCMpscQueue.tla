----------------------------- MODULE MCMpscQueue -----------------------------
(* Two producers and four addresses: the stub and up to three nodes, so    *)
(* that both producers can be mid-push behind a full node.                 *)
EXTENDS MpscQueue

CONSTANTS n1, n2, n3, n4, p1, p2, va, vb
MCNodes == {n1, n2, n3, n4}
MCProducers == {p1, p2}
MCValues == {va, vb}
==============================================================================
