-------------------------------- MODULE BiLock --------------------------------
(***************************************************************************)
(* futures-util/src/lock/bilock.rs: a lock between two owners in one       *)
(* atomic pointer, which is null (unlocked), 1 (locked) or the boxed waker *)
(* of a task that waits for the lock.  One action per access to it.        *)
(* poll_lock takes &self, so a half can have several pollers; Pollers is   *)
(* the set of tasks that poll either half.                                 *)
(***************************************************************************)

CONSTANT Pollers

VARIABLES state,     \* Inner::state
          pc,        \* where each poller is
          wakee,     \* the boxed waker each poller is about to wake
          notified   \* pollers woken since they last ran

vars == <<state, pc, wakee, notified>>

(* Not pollers: the null pointer, invalid_ptr(1) and no box.               *)
Unlocked == "unlocked"
Locked == "locked"
NoBox == "nobox"
ASSUME PollersAssumption == {Unlocked, Locked, NoBox} \cap Pollers = {}

Init == /\ state = Unlocked
        /\ pc = [p \in Pollers |-> "idle"]
        /\ wakee = [p \in Pollers |-> NoBox]
        /\ notified = {}

Goto(p, label) == pc' = [pc EXCEPT ![p] = label]

------------------------------------------------------------------------------
(* poll_lock                                                               *)

(* A first poll, the poll after a wake-up, or a spurious one.              *)
PollLock(p) ==
  /\ pc[p] \in {"idle", "parked"}
  /\ notified' = notified \ {p}
  /\ Goto(p, "swap")
  /\ UNCHANGED <<state, wakee>>

(* BUG: finding one's own waker in the word is taken for one's turn.       *)
SwapTakesOwnTurn(p) ==
  /\ pc[p] = "swap"
  /\ state' = Locked
  /\ Goto(p, IF state \in {Unlocked, p} THEN "held" ELSE "park")
  /\ UNCHANGED <<wakee, notified>>

(* state.swap(1): the lock was free, held, or held with a waker parked in  *)
(* it, which is overwritten with this task's in its old box.               *)
Swap(p) ==
  /\ pc[p] = "swap"
  /\ state' = Locked
  /\ Goto(p, IF state = Unlocked THEN "held" ELSE "park")
  /\ UNCHANGED <<wakee, notified>>

(* BUG: a failed compare_exchange is reported as Pending.                  *)
ParkGivesUp(p) ==
  /\ pc[p] = "park"
  /\ state' = IF state = Locked THEN p ELSE state
  /\ Goto(p, "parked")
  /\ UNCHANGED <<wakee, notified>>

(* compare_exchange(1, me): parked; or unlocked meanwhile, try again; or   *)
(* the pointer is someone's waker: panic!("invalid state").                *)
Park(p) ==
  /\ pc[p] = "park"
  /\ \/ state = Locked   /\ state' = p /\ Goto(p, "parked")
     \/ state = Unlocked /\ Goto(p, "swap") /\ UNCHANGED state
     \/ state \in Pollers /\ Goto(p, "panic") /\ UNCHANGED state
  /\ UNCHANGED <<wakee, notified>>

(* The task loses interest: the future from lock() is dropped, its waker   *)
(* stays where it is.                                                      *)
Cancel(p) ==
  /\ pc[p] = "parked"
  /\ Goto(p, "idle")
  /\ UNCHANGED <<state, wakee, notified>>

------------------------------------------------------------------------------
(* unlock, by BiLockGuard::drop                                            *)

Unlock(p) ==
  /\ pc[p] = "held"
  /\ state' = Unlocked
  /\ \/ state = Unlocked /\ Goto(p, "panic") /\ UNCHANGED wakee
     \/ state = Locked /\ Goto(p, "idle") /\ UNCHANGED wakee
     \/ /\ state \in Pollers
        /\ wakee' = [wakee EXCEPT ![p] = state]
        /\ Goto(p, "wake")
  /\ UNCHANGED notified

Wake(p) ==
  /\ pc[p] = "wake"
  /\ notified' = notified \cup {wakee[p]}
  /\ wakee' = [wakee EXCEPT ![p] = NoBox]
  /\ Goto(p, "idle")
  /\ UNCHANGED state

------------------------------------------------------------------------------
(* A half is dropped for good, by itself or by reunite(), which drops both *)
(* and takes the value out.  The last one drops Inner.                     *)
DropHalf(p) ==
  /\ pc[p] = "idle"
  /\ Goto(p, "dropped")
  /\ UNCHANGED <<state, wakee, notified>>

------------------------------------------------------------------------------
Continue(p) == Swap(p) \/ Park(p) \/ Wake(p)

Next == \E p \in Pollers : PollLock(p) \/ Continue(p) \/ Cancel(p) \/ Unlock(p) \/ DropHalf(p)

Spec == Init /\ [][Next]_vars

------------------------------------------------------------------------------
PC == {"idle", "swap", "park", "parked", "held", "wake", "dropped", "panic"}

TypeOK == /\ state \in {Unlocked, Locked} \cup Pollers
          /\ pc \in [Pollers -> PC]
          /\ wakee \in [Pollers -> Pollers \cup {NoBox}]
          /\ notified \subseteq Pollers

(* At most one guard exists, although poll_lock's swap overwrites the word *)
(* before it knows whose it is.                                            *)
MutualExclusion == \A p, q \in Pollers : pc[p] = "held" /\ pc[q] = "held" => p = q

(* No panic of bilock.rs is reached: unlock never sees an unlocked lock, a *)
(* poller that lost its place never finds another's waker, and the assert  *)
(* of Inner::drop holds, that is, no boxed waker is leaked and no guard    *)
(* outlives its halves.                                                    *)
NoPanic ==
  /\ \A p \in Pollers : pc[p] # "panic"
  /\ (\A p \in Pollers : pc[p] = "dropped") => state = Unlocked

(* Both, whatever polls are given up and whichever half is dropped.        *)
LockIsSound == MutualExclusion /\ NoPanic

(* A task that poll_lock left Pending has its waker where the holder's     *)
(* unlock will find it, or has already been woken.  In particular its own  *)
(* spurious polls, which take the waker out and put it back, and an unlock *)
(* in the middle of one, lose nothing.                                     *)
ParkedIsReachable ==
  \A p \in Pollers :
    pc[p] = "parked" =>
      \/ p \in notified
      \/ state = p /\ \E q \in Pollers : pc[q] = "held"
      \/ \E q \in Pollers : wakee[q] = p
==============================================================================
