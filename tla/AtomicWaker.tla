----------------------------- MODULE AtomicWaker -----------------------------
(***************************************************************************)
(* futures-core/src/task/__internal/atomic_waker.rs: one waker cell that   *)
(* any thread may register in, wake or take, guarded by a word with two    *)
(* lock bits.  One action per atomic operation on `state` and per access   *)
(* to the unsynchronised cell.  Any thread may start any call at any time. *)
(***************************************************************************)
EXTENDS Integers

CONSTANTS Threads,   \* threads that call register, wake or take
          Wakers,    \* one waker per task: will_wake holds of equal wakers only
          NoWaker    \* None

ASSUME NoWakerAssumption == NoWaker \notin Wakers

VARIABLES state,     \* AtomicWaker::state
          waker,     \* AtomicWaker::waker, an UnsafeCell<Option<Waker>>
          pc,        \* the next step of each thread's call
          arg,       \* the waker each thread's register call was given
          held,      \* the waker each thread is about to wake
          notified   \* tasks woken since they last ran

vars == <<state, waker, pc, arg, held, notified>>

WAITING == 0
REGISTERING == 1
WAKING == 2
BOTH == REGISTERING + WAKING     \* REGISTERING | WAKING

RegisterLocked == {"reg_store", "reg_release", "reg_take", "reg_swap"}
WakeLocked == {"take_cell", "take_swap"}
PC == {"idle", "reg_cas", "deliver"} \cup RegisterLocked \cup WakeLocked

Init == /\ state = WAITING
        /\ waker = NoWaker
        /\ pc = [t \in Threads |-> "idle"]
        /\ arg = [t \in Threads |-> NoWaker]
        /\ held = [t \in Threads |-> NoWaker]
        /\ notified = {}

Goto(t, label) == pc' = [pc EXCEPT ![t] = label]

------------------------------------------------------------------------------
(* register(w)                                                             *)

RegisterCall(t, w) ==
  /\ pc[t] = "idle"
  /\ arg' = [arg EXCEPT ![t] = w]
  /\ Goto(t, "reg_cas")
  /\ UNCHANGED <<state, waker, held, notified>>

(* BUG: the registering lock is taken although a wake holds the cell.      *)
RegisterCasIgnoresWaking(t) ==
  /\ pc[t] = "reg_cas"
  /\ \/ /\ state \in {WAITING, WAKING}
        /\ state' = REGISTERING
        /\ Goto(t, "reg_store")
     \/ /\ state \in {REGISTERING, BOTH}
        /\ Goto(t, "idle")
        /\ UNCHANGED state
  /\ UNCHANGED <<waker, arg, held, notified>>

(* The compare_exchange on entry: takes the registering lock, or finds a   *)
(* wake going on and is about to wake its own waker, or finds another      *)
(* register going on and is dropped.                                       *)
RegisterCas(t) ==
  /\ pc[t] = "reg_cas"
  /\ \/ /\ state = WAITING
        /\ state' = REGISTERING
        /\ Goto(t, "reg_store")
        /\ UNCHANGED <<arg, held>>
     \/ /\ state = WAKING
        /\ held' = [held EXCEPT ![t] = arg[t]]
        /\ arg' = [arg EXCEPT ![t] = NoWaker]
        /\ Goto(t, "deliver")
        /\ UNCHANGED state
     \/ /\ state \in {REGISTERING, BOTH}
        /\ arg' = [arg EXCEPT ![t] = NoWaker]
        /\ Goto(t, "idle")
        /\ UNCHANGED <<state, held>>
  /\ UNCHANGED <<waker, notified>>

(* The cell is written under the lock (an equal waker is left in place).   *)
RegisterStore(t) ==
  /\ pc[t] = "reg_store"
  /\ waker' = arg[t]
  /\ Goto(t, "reg_release")
  /\ UNCHANGED <<state, arg, held, notified>>

(* BUG: the lock is released whatever happened meanwhile.                  *)
RegisterReleaseBlind(t) ==
  /\ pc[t] = "reg_release"
  /\ state' = WAITING
  /\ arg' = [arg EXCEPT ![t] = NoWaker]
  /\ Goto(t, "idle")
  /\ UNCHANGED <<waker, held, notified>>

(* compare_exchange(REGISTERING, WAITING): fails when a take came between. *)
RegisterRelease(t) ==
  /\ pc[t] = "reg_release"
  /\ \/ /\ state = REGISTERING
        /\ state' = WAITING
        /\ arg' = [arg EXCEPT ![t] = NoWaker]
        /\ Goto(t, "idle")
     \/ /\ state # REGISTERING
        /\ Goto(t, "reg_take")
        /\ UNCHANGED <<state, arg>>
  /\ UNCHANGED <<waker, held, notified>>

RegisterTake(t) ==
  /\ pc[t] = "reg_take"
  /\ held' = [held EXCEPT ![t] = waker]
  /\ waker' = NoWaker
  /\ Goto(t, "reg_swap")
  /\ UNCHANGED <<state, arg, notified>>

RegisterSwap(t) ==
  /\ pc[t] = "reg_swap"
  /\ state' = WAITING
  /\ arg' = [arg EXCEPT ![t] = NoWaker]
  /\ Goto(t, "deliver")
  /\ UNCHANGED <<waker, held, notified>>

------------------------------------------------------------------------------
(* take(), and wake(), which is take() and then Waker::wake                *)

(* fetch_or(WAKING, _)                                                     *)
FetchOrWaking(s) == IF s \in {WAITING, REGISTERING} THEN s + WAKING ELSE s

TakeFetchOr(t) ==
  /\ pc[t] = "idle"
  /\ state' = FetchOrWaking(state)
  /\ IF state = WAITING THEN Goto(t, "take_cell") ELSE UNCHANGED pc
  /\ UNCHANGED <<waker, arg, held, notified>>

TakeCell(t) ==
  /\ pc[t] = "take_cell"
  /\ held' = [held EXCEPT ![t] = waker]
  /\ waker' = NoWaker
  /\ Goto(t, "take_swap")
  /\ UNCHANGED <<state, arg, notified>>

(* The lock is released; a caller that got Some(waker) wakes it next.      *)
TakeSwap(t) ==
  /\ pc[t] = "take_swap"
  /\ state' = WAITING
  /\ Goto(t, IF held[t] = NoWaker THEN "idle" ELSE "deliver")
  /\ UNCHANGED <<waker, arg, held, notified>>

(* waker.wake() of register and wake, waker.wake_by_ref() of register.     *)
Deliver(t) ==
  /\ pc[t] = "deliver"
  /\ notified' = notified \cup {held[t]}
  /\ held' = [held EXCEPT ![t] = NoWaker]
  /\ Goto(t, "idle")
  /\ UNCHANGED <<state, waker, arg>>

(* The executor polls a notified task.                                     *)
PollTask(w) ==
  /\ w \in notified
  /\ notified' = notified \ {w}
  /\ UNCHANGED <<state, waker, pc, arg, held>>

------------------------------------------------------------------------------
Begin(t) == TakeFetchOr(t) \/ \E w \in Wakers : RegisterCall(t, w)

Continue(t) == \/ RegisterCas(t) \/ RegisterStore(t) \/ RegisterRelease(t)
               \/ RegisterTake(t) \/ RegisterSwap(t)
               \/ TakeCell(t) \/ TakeSwap(t) \/ Deliver(t)

Next == \/ \E t \in Threads : Begin(t) \/ Continue(t)
        \/ \E w \in Wakers : PollTask(w)

Spec == Init /\ [][Next]_vars

------------------------------------------------------------------------------
(* Every value has its type; in particular `state` never leaves its two    *)
(* bits, so a fetch_or that finds WAKING set must not carry.               *)
TypeOK == /\ state \in {WAITING, REGISTERING, WAKING, BOTH}
          /\ waker \in Wakers \cup {NoWaker}
          /\ pc \in [Threads -> PC]
          /\ arg \in [Threads -> Wakers \cup {NoWaker}]
          /\ held \in [Threads -> Wakers \cup {NoWaker}]
          /\ notified \subseteq Wakers

InCell(t) == pc[t] \in RegisterLocked \cup WakeLocked

(* The UnsafeCell is never touched by two threads at once: between taking  *)
(* and releasing a lock bit a thread is alone there (no data race), though *)
(* nothing stops the other bit from being set meanwhile.                   *)
CellExclusion == \A t, u \in Threads : InCell(t) /\ InCell(u) => t = u

(* The debug_asserts of register and take and the unwrap() of the taken    *)
(* waker hold in every interleaving: a failed release CAS finds both bits, *)
(* the cell is then full, and take's swap finds WAKING alone.              *)
AssertsHold ==
  \A t \in Threads :
    /\ pc[t] = "reg_take" => state = BOTH /\ waker # NoWaker
    /\ pc[t] = "take_swap" => state = WAKING

(* Both: the lock bits guard the cell as the code assumes.                 *)
CellIsSound == CellExclusion /\ AssertsHold

------------------------------------------------------------------------------
(* Refinement mapping to WakerCell.  A registering thread's waker counts   *)
(* as registered from the moment it has the lock, and as owed a            *)
(* notification as soon as a concurrent take sets WAKING.                  *)
Registered == {w \in Wakers :
                 \/ state = WAITING /\ waker = w
                 \/ state = REGISTERING
                    /\ \E t \in Threads : pc[t] \in RegisterLocked /\ arg[t] = w}

Owed == {w \in Wakers :
           \/ \E t \in Threads : held[t] = w
           \/ \E t \in Threads : pc[t] = "take_cell" /\ waker = w
           \/ state = BOTH
              /\ \E t \in Threads : pc[t] \in RegisterLocked /\ arg[t] = w}

Cell == INSTANCE WakerCell WITH registered <- Registered, owed <- Owed

(* A register call that overlaps no other register call takes effect at    *)
(* its compare_exchange: its waker is in the slot, or it is owed a         *)
(* notification because a wake is going on.                                *)
RegisterTakesEffect ==
  [][\A t \in Threads :
       /\ pc[t] = "reg_cas"
       /\ pc'[t] # "reg_cas"
       /\ \A u \in Threads : pc[u] \notin RegisterLocked
       => arg[t] \in Registered' \cup Owed']_vars

(* AtomicWaker implements WakerCell: a wake that starts after register got *)
(* its lock never misses the registered waker, whichever thread ends up    *)
(* holding it, and no other waker is woken.  A register without effect on  *)
(* the slot would be a stutter of WakerCell: the second conjunct leaves it *)
(* only to a call that meets another register, while one that meets a wake *)
(* must wake its own task.                                                 *)
ImplementsWakerCell == Cell!Spec /\ RegisterTakesEffect
==============================================================================
