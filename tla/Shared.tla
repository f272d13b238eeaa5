-------------------------------- MODULE Shared --------------------------------
(***************************************************************************)
(* futures-util/src/future/future/shared.rs: a future that is polled by    *)
(* whichever of its clones comes first.  The clones are the futures of the *)
(* executors of LocalPool, so that a wake-up is only worth something if it *)
(* gets through to the thread that polls the clone.                        *)
(*                                                                         *)
(* The inner future is polled with the Notifier as its waker.  It answers  *)
(* Pending, after which another thread will call the waker, or Ready, or   *)
(* it panics.  A clone may be dropped when it is its turn to be polled, as *)
(* a select does with the loser.                                           *)
(***************************************************************************)
EXTENDS LocalPool

CONSTANT MaxEvents     \* bound: Pending answers and panics of the inner future, and clones dropped

ASSUME SharedBounds == MaxEvents \in Nat

VARIABLES state,       \* Notifier::state
          slab,        \* Notifier::wakers: what is stored under the key of each clone
          lock,        \* who holds the Mutex around it
          live,        \* clones whose `inner` is Some
          step,        \* where each thread is in Shared::poll
          events,      \* how many of these are still to come
          due,         \* has the inner future still to call its waker?
          signal,      \* has it, since it was last polled; and who was polling it then
          abandoned    \* history: the clone that had to poll after such a call was dropped

IDLE == "IDLE"
POLLING == "POLLING"
COMPLETE == "COMPLETE"
POISONED == "POISONED"

sharedVars == <<state, slab, lock, live, step, events, due, signal, abandoned>>
allVars == <<localPoolVars, sharedVars>>
signalVars == <<due, signal, abandoned>>

NoSignal == [woken |-> FALSE, by |-> NoFut]

(* A key is None (NULL_WAKER_KEY), "waker", or "taken" when the waker has  *)
(* been called.  A slab that was dropped is "gone" everywhere.             *)
SharedInit == /\ state = IDLE
              /\ slab = [c \in Futs |-> "none"]
              /\ lock = NoFut
              /\ live = Futs
              /\ step = [t \in Threads |-> "load"]
              /\ events = MaxEvents
              /\ due = FALSE
              /\ signal = NoSignal
              /\ abandoned = FALSE

Step(t, label) == step' = [step EXCEPT ![t] = label]
Polling(t, label) == PollStarts(t) /\ step[t] = label
InInner == {t \in Threads : PollStarts(t) /\ step[t] \in {"inner", "answer", "release", "write"}}
Wakers == {c \in Futs : slab[c] = "waker"}
SlabGone == \E c \in Futs : slab[c] = "gone"

------------------------------------------------------------------------------
(* How a poll ends.  poll() takes `inner` out and puts it back if Pending. *)
(* A clone is spawned once.                                                *)
Continues(t, label) == Step(t, label) /\ UNCHANGED <<localPoolVars, live>>
Ready(t) == /\ PollReturnsReady(t, Spawned(cur[t]) \cap live) /\ Step(t, "load")
            /\ live' = live \ {cur[t]}
            /\ UNCHANGED <<notifyVars, wakeVars>>
IsPending(t) == /\ PollReturnsPending(t, Spawned(cur[t]) \cap live) /\ Step(t, "load")
                /\ UNCHANGED <<live, notifyVars, wakeVars>>
(* The fast path.                                                          *)
Load(t) ==
  /\ Polling(t, "load")
  /\ IF state = COMPLETE THEN Ready(t) ELSE Continues(t, "record")
  /\ UNCHANGED <<state, slab, lock, events, signalVars>>

(* BUG: a waker is stored under a key once, and not after it was called.   *)
RecordWakerOnce(t) ==
  /\ Polling(t, "record") /\ lock = NoFut
  /\ slab' = IF slab[cur[t]] # "none" THEN slab ELSE [slab EXCEPT ![cur[t]] = "waker"]
  /\ Continues(t, "cas")
  /\ UNCHANGED <<state, lock, events, signalVars>>

RecordWaker(t) ==
  /\ Polling(t, "record") /\ lock = NoFut
  /\ slab' = IF SlabGone THEN slab ELSE [slab EXCEPT ![cur[t]] = "waker"]
  /\ Continues(t, "cas")
  /\ UNCHANGED <<state, lock, events, signalVars>>

(* BUG: the inner future is polled by two clones at once.                  *)
LocksAlways(s) == s \in {IDLE, POLLING}

Locks(s) == s = IDLE
CompareExchange(t) ==
  /\ Polling(t, "cas")
  /\ CASE Locks(state) -> state' = POLLING /\ Continues(t, "inner")
       [] state = POLLING /\ ~Locks(state) -> UNCHANGED state /\ IsPending(t)
       [] state = COMPLETE -> UNCHANGED state /\ Ready(t)
       [] state = POISONED -> UNCHANGED state /\ Continues(t, "unwind")
  /\ UNCHANGED <<slab, lock, events, signalVars>>

(* The poll of the inner future: earlier calls of its waker have done      *)
(* their part.                                                             *)
InnerPoll(t) ==
  /\ Polling(t, "inner")
  /\ signal' = NoSignal
  /\ Continues(t, "answer")
  /\ UNCHANGED <<state, slab, lock, events, due, abandoned>>

(* It answers.  One that is Pending may call its waker, on whatever        *)
(* thread, before its poll has returned.                                   *)
InnerPends(t) ==
  /\ Polling(t, "answer") /\ events > 0
  /\ events' = events - 1
  /\ due' = TRUE
  /\ Continues(t, "release")
  /\ UNCHANGED <<state, slab, lock, signal, abandoned>>
InnerReady(t) ==
  /\ Polling(t, "answer")
  /\ Continues(t, "write")
  /\ UNCHANGED <<state, slab, lock, events, signalVars>>

(* BUG: a panic leaves the state as it is.                                 *)
ResetForgotten == state

(* Reset::drop.                                                            *)
Reset == POISONED
InnerPanics(t) ==
  /\ Polling(t, "answer") /\ events > 0
  /\ events' = events - 1
  /\ state' = Reset
  /\ Continues(t, "unwind")
  /\ UNCHANGED <<slab, lock, signalVars>>

Release(t) ==
  /\ Polling(t, "release")
  /\ state' = IDLE
  /\ IsPending(t)
  /\ UNCHANGED <<slab, lock, events, signalVars>>

(* The output is written and the state set to COMPLETE.                    *)
Write(t) ==
  /\ Polling(t, "write")
  /\ state' = COMPLETE
  /\ Continues(t, "drain")
  /\ UNCHANGED <<slab, lock, events, signalVars>>

(* All tasks are woken with the slab taken and its lock held.              *)
DrainWakers(t) ==
  /\ Polling(t, "drain") /\ lock = NoFut
  /\ lock' = t
  /\ wakes' = [wakes EXCEPT ![t] = Wakers]
  /\ slab' = [c \in Futs |-> "gone"]
  /\ Step(t, "unlock")
  /\ UNCHANGED <<poolVars, execVars, notifyVars, waking, live, state, events, signalVars>>

Unlock(t) ==
  /\ Polling(t, "unlock") /\ HasWoken(t)
  /\ lock' = NoFut
  /\ Ready(t)
  /\ UNCHANGED <<state, slab, events, signalVars>>

------------------------------------------------------------------------------
(* Shared::drop.  (A clone whose poll has panicked has no `inner` any more *)
(* and leaves its waker where it is.)                                      *)
Drop(t) ==
  /\ Polling(t, "load") /\ events > 0
  /\ slab[cur[t]] # "none" => lock = NoFut
  /\ events' = events - 1
  /\ slab' = IF SlabGone THEN slab ELSE [slab EXCEPT ![cur[t]] = "none"]
  /\ abandoned' = (abandoned \/ (signal.woken /\ signal.by = cur[t]))
  /\ Ready(t)
  /\ UNCHANGED <<state, lock, due, signal>>

(* A panic drops the other clones of the executor.                         *)
Unwind(t) ==
  /\ Polling(t, "unwind") /\ lock = NoFut
  /\ PollPanics(t) /\ Step(t, "load")
  /\ live' = live \ Of(t)
  /\ slab' = [c \in Futs |-> IF SlabGone \/ c \notin Of(t) \ {cur[t]} THEN slab[c] ELSE "none"]
  /\ UNCHANGED <<notifyVars, wakeVars, state, lock, events, signalVars>>

(* Notifier::wake_by_ref.                                                  *)
NotifierWake ==
  /\ due /\ lock = NoFut
  /\ due' = FALSE
  /\ signal' = [woken |-> TRUE,
                by |-> IF InInner = {} THEN NoFut ELSE cur[CHOOSE t \in InInner : TRUE]]
  /\ lock' = Env
  /\ wakes' = [wakes EXCEPT ![Env] = Wakers]
  /\ slab' = [c \in Futs |-> IF slab[c] = "waker" THEN "taken" ELSE slab[c]]
  /\ UNCHANGED <<poolVars, execVars, notifyVars, waking, live, step, state, events, abandoned>>

NotifierDone ==
  /\ lock = Env /\ HasWoken(Env)
  /\ lock' = NoFut
  /\ UNCHANGED <<localPoolVars, state, slab, live, step, events, signalVars>>

------------------------------------------------------------------------------
PollShared(t) == \/ Load(t) \/ RecordWaker(t) \/ CompareExchange(t) \/ InnerPoll(t)
                 \/ InnerPends(t) \/ InnerReady(t) \/ InnerPanics(t) \/ Release(t) \/ Write(t)
                 \/ DrainWakers(t) \/ Unlock(t) \/ Drop(t) \/ Unwind(t)
Run(t) == PollShared(t) \/ ((Executor(t) \/ Waker(t)) /\ UNCHANGED sharedVars)
Notify == NotifierWake \/ NotifierDone \/ (Waker(Env) /\ UNCHANGED sharedVars)

Init == LocalPoolInit /\ SharedInit
Next == Notify \/ \E t \in Threads : Run(t)
Spec == Init /\ [][Next]_allVars

(* Threads go on, and an inner future that was Pending calls its waker.    *)
FairSpec == Spec /\ WF_allVars(Notify) /\ \A t \in Threads : WF_allVars(Run(t))

------------------------------------------------------------------------------
SharedTypeOK == /\ LocalPoolTypeOK
                /\ state \in {IDLE, POLLING, COMPLETE, POISONED}
                /\ slab \in [Futs -> {"none", "waker", "taken", "gone"}]
                /\ lock \in Callers \cup {NoFut}
                /\ live \subseteq Futs

(* The inner future is behind an UnsafeCell: one clone at a time polls it  *)
(* or writes its output, while the state says POLLING, and never after it  *)
(* is COMPLETE or POISONED, so that the unreachable!() arms of poll are.   *)
(* The slab is there to be taken by the clone that completes.              *)
PolledByOne ==
  /\ Cardinality(InInner) = IF state = POLLING THEN 1 ELSE 0
  /\ \A t \in Threads : Polling(t, "drain") => state = COMPLETE /\ ~SlabGone

(* Who is going to poll, because it runs, or will be woken.                *)
WillWake(t) == unparked[t] \/ \E k \in Callers : AtStep(k, "swap") /\ Target(k) = t
WillRun(t) == exec[t] \notin {"wait", "park"} \/ WillWake(t)
WillPoll(c) ==
  LET t == Home[c]
  IN  \/ cur[t] = c /\ step[t] \in {"load", "record", "cas"}
      \/ \E k \in Callers : c \in wakes[k]
      \/ c \in queued \cup incoming /\ WillRun(t)
      \/ c \in main /\ (exec[t] = "call" \/ WillWake(t))

(* A wake-up of the inner future is not lost: as long as it has not been   *)
(* polled again some clone is about to, although the one that is polling   *)
(* turns the others away, and any of them may be dropped.  It is lost only *)
(* with the clone that was polling when the wake-up came.                  *)
WakeUpKept ==
  signal.woken /\ state = IDLE /\ live # {} /\ ~abandoned =>
    \E c \in live : WillPoll(c)

(* A thread that is parked without a token has its flag cleared, or is     *)
(* about to be unparked, whatever flag or token earlier calls have left.   *)
Parked(t) == At(t, "park") /\ ~token[t]
ParkedRightly(t) ==
  Parked(t) /\ unparked[t] => \E k \in Callers : AtStep(k, "unpark") /\ Target(k) = t

(* try_run_one and run_until_stalled return without progress only if the   *)
(* tasks that are queued are just being woken by another thread.           *)
StalledRightly(t) ==
  At(t, "stalled") /\ exec'[t] \in {"call", "done"} =>
    \A c \in queued \cap Of(t) :
      \E k \in Callers : AtStep(k, "swap") /\ waking[k].fut = c

(* No executor misses a wake-up: neither asleep nor when it gives up.      *)
NoWakeMissed == [][\A t \in Threads : ParkedRightly(t) /\ StalledRightly(t)]_allVars

(* "All handles will resolve to the same result": every thread gets to the *)
(* end, or panics, unless it sleeps because the clone that had to poll was *)
(* dropped, or because the inner future has panicked on another thread,    *)
(* which wakes nobody.                                                     *)
AllResolve ==
  <>(\A t \in Threads : \/ exec[t] \in {"done", "panicked"}
                        \/ Parked(t) /\ (abandoned \/ state = POISONED))
==============================================================================
