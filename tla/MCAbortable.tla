----------------------------- MODULE MCAbortable -----------------------------
(* Two clones of one Abortable and two handles: registrations overlap each *)
(* other and the wake-ups of both handles.                                 *)
EXTENDS Abortable

CONSTANTS ta, tb, h1, h2
TwoTasks == {ta, tb}
TwoHandles == {h1, h2}
MCThreads == TwoTasks \cup TwoHandles
==============================================================================
