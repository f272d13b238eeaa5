------------------------------ MODULE Abortable ------------------------------
(***************************************************************************)
(* futures-util/src/abortable.rs: a future or stream that an AbortHandle   *)
(* on another thread can short-circuit.  AbortInner is a flag and an       *)
(* AtomicWaker, here with all its steps; the handles store the flag and    *)
(* wake, the Abortable checks the flag, polls the wrapped task, registers  *)
(* and checks again.  Abortable is Clone, and clones share one AbortInner: *)
(* Tasks is the set of clones, each polled by a task of its own.  The      *)
(* wrapped future decides by itself whether it is ready and never wakes    *)
(* its task, so that only abort() can.                                     *)
(***************************************************************************)
EXTENDS AtomicWaker

CONSTANTS Tasks,     \* clones of one Abortable, each with its own waker
          Handles    \* AbortHandles of the pair

ASSUME CallersAssumption == /\ Tasks \cap Handles = {}
                            /\ Threads = Tasks \cup Handles
                            /\ Wakers = Tasks

VARIABLES aborted,   \* AbortInner::aborted
          poll,      \* where each Abortable is in try_poll, or how it ended
          call,      \* where each handle is in abort()
          displaced  \* history: clones whose registration another one's has replaced

abortVars == <<aborted, poll, call>>
allVars == <<vars, abortVars, displaced>>

(* Every Abortable starts out scheduled for its first poll.                *)
AbortableInit == /\ Init
                 /\ aborted = FALSE
                 /\ poll = [t \in Tasks |-> "scheduled"]
                 /\ call = [h \in Handles |-> "idle"]
                 /\ displaced = {}

Polls(t, label) == poll' = [poll EXCEPT ![t] = label]

------------------------------------------------------------------------------
(* try_poll                                                                *)

PollCheck(t) ==
  /\ \/ poll[t] = "scheduled" /\ UNCHANGED vars
     \/ poll[t] = "waiting" /\ PollTask(t)
  /\ Polls(t, IF aborted THEN "Aborted" ELSE "inner")
  /\ UNCHANGED <<aborted, call, displaced>>

(* The wrapped task is pending; or a stream yields an item and is polled   *)
(* again; or a future or stream is done.                                   *)
PollInner(t) ==
  /\ poll[t] = "inner"
  /\ \E label \in {"register", "scheduled", "Ok"} : Polls(t, label)
  /\ UNCHANGED <<vars, aborted, call, displaced>>

(* BUG: the task goes to sleep without leaving its waker.                  *)
PollForgetsRegister(t) ==
  /\ poll[t] = "register"
  /\ Polls(t, "recheck")
  /\ UNCHANGED <<vars, aborted, call, displaced>>

PollRegister(t) ==
  /\ poll[t] = "register"
  /\ RegisterCall(t, t)
  /\ Polls(t, "recheck")
  /\ UNCHANGED <<aborted, call, displaced>>

(* BUG: the flag is not looked at again after registering.                 *)
PollNoRecheck(t) ==
  /\ poll[t] = "recheck" /\ pc[t] = "idle"
  /\ Polls(t, "waiting")
  /\ UNCHANGED <<vars, aborted, call, displaced>>

PollRecheck(t) ==
  /\ poll[t] = "recheck" /\ pc[t] = "idle"
  /\ Polls(t, IF aborted THEN "Aborted" ELSE "waiting")
  /\ UNCHANGED <<vars, aborted, call, displaced>>

------------------------------------------------------------------------------
(* AbortHandle::abort, which may be called any number of times             *)

AbortStore(h) ==
  /\ call[h] = "idle" /\ pc[h] = "idle"
  /\ aborted' = TRUE
  /\ call' = [call EXCEPT ![h] = "wake"]
  /\ UNCHANGED <<vars, poll, displaced>>

AbortWake(h) ==
  /\ call[h] = "wake"
  /\ TakeFetchOr(h)
  /\ call' = [call EXCEPT ![h] = "idle"]
  /\ UNCHANGED <<aborted, poll, displaced>>

(* The rest of a call of register or wake.  A clone that registers pushes  *)
(* out the one that is registered, or is turned away itself.               *)
InWaker(t) ==
  /\ Continue(t)
  /\ displaced' = IF pc[t] # "reg_cas" THEN displaced
                  ELSE IF state \in {REGISTERING, BOTH} THEN displaced \cup {t}
                  ELSE (displaced \cup Registered) \ {t}
  /\ UNCHANGED abortVars

------------------------------------------------------------------------------
Poll(t) == PollCheck(t) \/ PollInner(t) \/ PollRegister(t) \/ PollRecheck(t)

AbortableNext == \/ \E t \in Tasks : Poll(t)
                 \/ \E h \in Handles : AbortStore(h) \/ AbortWake(h)
                 \/ \E t \in Threads : InWaker(t)

AbortableSpec == AbortableInit /\ [][AbortableNext]_allVars

(* Scheduled tasks are polled, polls and calls of abort() go on.           *)
FairSpec == /\ AbortableSpec
            /\ \A t \in Tasks : WF_allVars(Poll(t))
            /\ \A h \in Handles : WF_allVars(AbortWake(h))
            /\ \A t \in Threads : WF_allVars(InWaker(t))

Results == {"Ok", "Aborted"}

AbortableTypeOK ==
  /\ aborted \in BOOLEAN
  /\ poll \in [Tasks -> {"scheduled", "waiting", "inner", "register", "recheck"} \cup Results]
  /\ call \in [Handles -> {"idle", "wake"}]
  /\ displaced \subseteq Tasks

Asleep(t) == poll[t] = "waiting" /\ t \notin notified

(* try_poll's two checks close the race with abort(): once abort() was     *)
(* called and no call of it is between its store and its wake, no task     *)
(* sleeps without a wake-up on its way, except a clone whose waker was     *)
(* pushed out of the AtomicWaker that the clones share.                    *)
AbortReachesTask ==
  \A t \in Tasks \ displaced : /\ aborted
                               /\ \A h \in Handles : call[h] = "idle"
                               /\ Asleep(t)
                               => t \in Owed

(* An aborted future or stream completes, even if the wrapped one never    *)
(* wakes its task, or it is a clone that sleeps with its waker pushed out. *)
(* (A stream that yields an item on every poll completes too, at the check *)
(* of a later poll.)                                                       *)
AbortCompletes ==
  \A t \in Tasks : aborted ~> (poll[t] \in Results \/ (Asleep(t) /\ t \in displaced))
==============================================================================
