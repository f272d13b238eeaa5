------------------------------ MODULE WakerCell ------------------------------
(***************************************************************************)
(* What futures_core::task::AtomicWaker promises its users, without its    *)
(* bit field: a slot for one waker.  `register` puts a waker in the slot   *)
(* or, when a `wake` is going on at the same time, owes that waker a       *)
(* notification at once; `take` (the first half of `wake`) empties the     *)
(* slot and owes what was in it a notification; a waker that is owed a     *)
(* notification gets it.  AtomicWaker.tla implements this specification;   *)
(* the modules of the users of an AtomicWaker build on it.                 *)
(***************************************************************************)

CONSTANT Wakers    \* the tasks that can be registered

VARIABLES registered,  \* the slot: at most one waker
          owed,        \* wakers taken out of the slot and not yet woken
          notified     \* wakers woken since their task last ran

cellVars == <<registered, owed, notified>>

Init == /\ registered = {}
        /\ owed = {}
        /\ notified = {}

(* register(w): the slot now holds w, whatever it held before; or the call *)
(* overlapped a take and w is woken instead.                               *)
RegisterStored(w) == /\ registered' = {w}
                     /\ owed' = owed

RegisterRaced(w) == /\ registered = {}
                    /\ registered' = {}
                    /\ owed' = owed \cup {w}

Register(w) == RegisterStored(w) \/ RegisterRaced(w)

(* take(): whoever was registered is going to be woken.                    *)
Take == /\ owed' = owed \cup registered
        /\ registered' = {}

(* Waker::wake on a waker that was taken.  Two threads can hold the same   *)
(* waker, in which case it stays owed after the first of them woke it.     *)
Deliver(w) == /\ w \in owed
              /\ notified' = notified \cup {w}
              /\ owed' \in {owed, owed \ {w}}

(* The executor runs the task: a later wake is a new one.                  *)
Consume(w) == /\ w \in notified
              /\ notified' = notified \ {w}

Next == \/ \E w \in Wakers : Register(w) /\ UNCHANGED notified
        \/ Take /\ UNCHANGED notified
        \/ \E w \in Wakers : Deliver(w) /\ UNCHANGED registered
        \/ \E w \in Wakers : Consume(w) /\ UNCHANGED <<registered, owed>>

Spec == Init /\ [][Next]_cellVars
==============================================================================
