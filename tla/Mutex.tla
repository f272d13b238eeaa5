-------------------------------- MODULE Mutex --------------------------------
(***************************************************************************)
(* futures-util/src/lock/mutex.rs: a futures-aware mutex.  A word of two   *)
(* bits says whether the mutex is locked and whether the slab of waiters,  *)
(* which a std mutex protects, holds any.  The std mutex makes each access *)
(* to the slab, with the change of HAS_WAITERS inside it, one step;        *)
(* IS_LOCKED is accessed without it.  Owned and borrowed futures and       *)
(* guards have the same code.                                              *)
(*                                                                         *)
(* A task has at most one lock future at a time.                           *)
(***************************************************************************)
EXTENDS Integers, FiniteSets

CONSTANTS Tasks,      \* the tasks that use the mutex
          Keys        \* the keys of the slab: one per lock future is enough

ASSUME KeysAssumption == Keys \subseteq Nat

NoKey == -1            \* WAIT_KEY_NONE, usize::MAX: never a key of a slab

VARIABLES locked,       \* the IS_LOCKED bit
          has_waiters,  \* the HAS_WAITERS bit
          waiters,      \* the slab: a partial function from keys to waiters
          wait_key,     \* MutexLockFuture::wait_key of each task
          pc,           \* where each task is
          pending,      \* tasks whose lock future returned Pending
          notified      \* tasks woken since they last polled

wordVars == <<locked, has_waiters>>
vars == <<wordVars, waiters, wait_key, pc, pending, notified>>

Waiters == [task : Tasks, woken : BOOLEAN]

Init ==
  /\ locked = FALSE /\ has_waiters = FALSE
  /\ waiters = [k \in {} |-> 0]
  /\ wait_key = [t \in Tasks |-> NoKey]
  /\ pc = [t \in Tasks |-> "idle"]
  /\ pending = {} /\ notified = {}

Goto(t, label) == pc' = [pc EXCEPT ![t] = label]
Used == DOMAIN waiters

(* The waiter that `waiters.iter_mut().next()` finds: the lowest key.      *)
First(slab, k) == k \in DOMAIN slab /\ \A j \in DOMAIN slab : k <= j

(* Waiter::wake                                                            *)
WakeKey(slab, k) ==
  /\ waiters' = [slab EXCEPT ![k].woken = TRUE]
  /\ notified' = IF slab[k].woken THEN notified ELSE notified \cup {slab[k].task}

------------------------------------------------------------------------------
(* try_lock: no future, no waiting                                         *)
TryLock(t) ==
  /\ pc[t] = "idle" /\ wait_key[t] = NoKey
  /\ ~locked
  /\ locked' = TRUE
  /\ Goto(t, "locked")
  /\ UNCHANGED <<has_waiters, waiters, wait_key, pending, notified>>

(* MutexLockFuture::poll: the first try_lock                               *)
Poll(t) ==
  /\ pc[t] = "idle"
  /\ locked' = TRUE
  /\ Goto(t, IF locked THEN "insert" ELSE "remove")
  /\ pending' = pending \ {t}
  /\ notified' = notified \ {t}
  /\ UNCHANGED <<has_waiters, waiters, wait_key>>

(* The future enters the slab, or registers again under the key it has     *)
(* (Waiter::register), also when it had been woken.                        *)
Insert(t) ==
  /\ pc[t] = "insert"
  /\ \E k \in Keys :
       /\ IF wait_key[t] = NoKey THEN k \notin Used ELSE k = wait_key[t]
       /\ waiters' = [j \in Used \cup {k} |->
                        IF j = k THEN [task |-> t, woken |-> FALSE] ELSE waiters[j]]
       /\ wait_key' = [wait_key EXCEPT ![t] = k]
  /\ has_waiters' = (has_waiters \/ (wait_key[t] = NoKey /\ Used = {}))
  /\ Goto(t, "retry")
  /\ UNCHANGED <<locked, pending, notified>>

(* BUG: the future goes to sleep without the second try_lock.              *)
NoRetry(t) ==
  /\ pc[t] = "retry"
  /\ Goto(t, "idle")
  /\ pending' = pending \cup {t}
  /\ UNCHANGED <<locked, has_waiters, waiters, wait_key, notified>>

(* BUG: the second try_lock does not look at the old state.                *)
RetryTakesLock(t) ==
  /\ pc[t] = "retry"
  /\ locked' = TRUE
  /\ Goto(t, "remove")
  /\ UNCHANGED <<has_waiters, waiters, wait_key, pending, notified>>

(* The second try_lock, in case the mutex was unlocked meanwhile           *)
Retry(t) ==
  /\ pc[t] = "retry"
  /\ locked' = TRUE
  /\ IF locked THEN Goto(t, "idle") /\ pending' = pending \cup {t}
               ELSE Goto(t, "remove") /\ UNCHANGED pending
  /\ UNCHANGED <<has_waiters, waiters, wait_key, notified>>

(* remove_waker: the future leaves the slab.                               *)
Without(k) == [j \in Used \ {k} |-> waiters[j]]

(* BUG: HAS_WAITERS stays set when the last waiter leaves.                 *)
LeaveKeepsFlag(t) ==
  /\ wait_key' = [wait_key EXCEPT ![t] = NoKey]
  /\ UNCHANGED has_waiters

Leave(t) ==
  /\ wait_key' = [wait_key EXCEPT ![t] = NoKey]
  /\ has_waiters' = IF Used \subseteq {wait_key[t]} THEN FALSE ELSE has_waiters

(* remove_waker(wait_key, false), by the future that has the lock          *)
RemoveWaker(t) ==
  /\ pc[t] = "remove"
  /\ Goto(t, "locked")
  /\ IF wait_key[t] = NoKey
     THEN UNCHANGED <<has_waiters, waiters, wait_key>>
     ELSE Leave(t) /\ waiters' = Without(wait_key[t])
  /\ UNCHANGED <<locked, pending, notified>>

(* BUG: a future that was woken and is dropped wakes nobody in its stead.  *)
DropFutureSilently(t) ==
  /\ pc[t] = "idle" /\ wait_key[t] # NoKey
  /\ Leave(t) /\ waiters' = Without(wait_key[t])
  /\ pending' = pending \ {t}
  /\ notified' = notified \ {t}
  /\ UNCHANGED <<locked, pc>>

(* MutexLockFuture::drop: remove_waker(wait_key, true).  A future that was *)
(* woken passes the wake-up on to the first waiter left.                   *)
DropFuture(t) ==
  /\ pc[t] = "idle" /\ wait_key[t] # NoKey
  /\ Leave(t)
  /\ LET rest == Without(wait_key[t])
         n == notified \ {t}
     IN \/ /\ ~waiters[wait_key[t]].woken \/ DOMAIN rest = {}
           /\ waiters' = rest
           /\ notified' = n
        \/ /\ waiters[wait_key[t]].woken
           /\ \E k \in DOMAIN rest :
                /\ First(rest, k)
                /\ waiters' = [rest EXCEPT ![k].woken = TRUE]
                /\ notified' = IF rest[k].woken THEN n ELSE n \cup {rest[k].task}
  /\ pending' = pending \ {t}
  /\ UNCHANGED <<locked, pc>>

(* MutexGuard::drop: unlock.  The flag read with the unlock decides        *)
(* whether to go through the slab.                                         *)
Unlock(t) ==
  /\ pc[t] = "locked"
  /\ locked' = FALSE
  /\ Goto(t, IF has_waiters THEN "unlock_wake" ELSE "idle")
  /\ UNCHANGED <<has_waiters, waiters, wait_key, pending, notified>>

UnlockWake(t) ==
  /\ pc[t] = "unlock_wake"
  /\ Goto(t, "idle")
  /\ \/ Used = {} /\ UNCHANGED <<waiters, notified>>
     \/ \E k \in Used : First(waiters, k) /\ WakeKey(waiters, k)
  /\ UNCHANGED <<locked, has_waiters, wait_key, pending>>

------------------------------------------------------------------------------
Step(t) == Insert(t) \/ Retry(t) \/ RemoveWaker(t) \/ UnlockWake(t)
Call(t) == TryLock(t) \/ Poll(t) \/ DropFuture(t) \/ Unlock(t)
Next == \E t \in Tasks : Step(t) \/ Call(t)

Spec == Init /\ [][Next]_vars

(* Calls under way go on, guards are dropped, and a task that was woken    *)
(* polls its future or drops it.                                           *)
FairSpec == Spec /\ \A t \in Tasks :
              /\ WF_vars(Step(t)) /\ WF_vars(Unlock(t))
              /\ WF_vars(t \in notified /\ (Poll(t) \/ DropFuture(t)))

------------------------------------------------------------------------------
TypeOK ==
  /\ locked \in BOOLEAN /\ has_waiters \in BOOLEAN
  /\ Used \subseteq Keys /\ waiters \in [Used -> Waiters]
  /\ wait_key \in [Tasks -> Keys \cup {NoKey}]
  /\ pc \in [Tasks -> {"idle", "insert", "retry", "remove", "locked", "unlock_wake"}]
  /\ pending \subseteq Tasks /\ notified \subseteq Tasks

(* The tasks that hold the mutex: a guard exists or is about to.           *)
Owners == {t \in Tasks : pc[t] \in {"remove", "locked"}}

(* There is at most one guard, and the bit says whether there is one.      *)
MutualExclusion == /\ \A t, u \in Owners : t = u
                   /\ locked <=> Owners # {}

(* Every entry of the slab belongs to the live future that has its key     *)
(* (`waiters[wait_key]` and `remove(wait_key)` do not panic), and          *)
(* HAS_WAITERS says whether there are entries.                             *)
SlabMatchesFutures ==
  /\ \A t \in Tasks : wait_key[t] # NoKey =>
       wait_key[t] \in Used /\ waiters[wait_key[t]].task = t
  /\ \A k \in Used : wait_key[waiters[k].task] = k
  /\ has_waiters <=> Used # {}

(* A future left Pending is in the slab, and one about to try again too;   *)
(* a task with no future is not.                                           *)
KeyMatchesPc ==
  /\ \A t \in pending : pc[t] = "idle" /\ wait_key[t] # NoKey
  /\ \A t \in Tasks : /\ pc[t] = "retry" => wait_key[t] # NoKey
                      /\ pc[t] \in {"locked", "unlock_wake"} => wait_key[t] = NoKey

(* A waiter marked Woken belongs to a task that is notified or polling.    *)
WokenIsNotified ==
  \A k \in Used : waiters[k].woken /\ pc[waiters[k].task] \in {"idle", "retry"} =>
                    waiters[k].task \in notified

(* When the mutex is free and a future sleeps in the slab, somebody is     *)
(* going to see to it: an unlocker about to wake the first waiter, a       *)
(* future that is about to try the lock, or a waiter that has been woken   *)
(* and whose task is notified.                                             *)
SomeoneWillLock ==
  ~locked /\ pending # {} =>
    \/ \E t \in Tasks : pc[t] \in {"unlock_wake", "insert", "retry"}
    \/ \E k \in Used : waiters[k].woken /\ waiters[k].task \in notified

(* A free mutex with futures waiting for it is acquired by someone, unless *)
(* they are all dropped.                                                   *)
WaitersProgress == (~locked /\ pending # {}) ~> (locked \/ pending = {})
==============================================================================
