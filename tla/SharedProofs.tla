----------------------------- MODULE SharedProofs -----------------------------
(***************************************************************************)
(* For any number of clones, threads and executors: one clone at a time    *)
(* polls the inner future, no wake-up of it is lost, and no executor       *)
(* misses a wake-up of its own.                                            *)
(***************************************************************************)
EXTENDS Shared, FiniteSetTheorems, TLAPS

(* What each thread, the Mutex and the slab hold.                          *)
Steps == {"load", "record", "cas", "inner", "answer", "release", "write", "drain", "unlock",
          "unwind"}
InnerSteps == {"inner", "answer", "release", "write"}
Typed == /\ SharedTypeOK
         /\ main \in Mains
         /\ step \in [Threads -> Steps]
         /\ due \in BOOLEAN /\ abandoned \in BOOLEAN
         /\ signal \in [woken : BOOLEAN, by : Futs \cup {NoFut}]
         /\ \A k \in Callers : ~AtStep(k, "none") => waking[k].fut \in Futs

(* A thread is inside Shared::poll only while it polls.  The state word is *)
(* POLLING exactly when one thread has the inner future, COMPLETE when one *)
(* has written the output, and only that one takes the slab.               *)
Ordered ==
  /\ \A t \in Threads : step[t] # "load" => exec[t] = "poll"
  /\ \A t, u \in Threads : step[t] \in InnerSteps /\ step[u] \in InnerSteps => t = u
  /\ (\E t \in Threads : step[t] \in InnerSteps) <=> state = POLLING
  /\ \A t \in Threads : step[t] \in {"drain", "unlock"} => state = COMPLETE
  /\ \A t \in Threads : step[t] = "unwind" => state = POISONED
  /\ \A t, u \in Threads : step[t] = "drain" /\ step[u] = "drain" => t = u
  /\ \A t \in Threads : step[t] = "drain" => ~SlabGone
  /\ SlabGone => state = COMPLETE

(* A live clone is blocked on, in a pool, on its way into one, or still to *)
(* be spawned by a live clone; a thread polls a live clone of its own.     *)
Placed ==
  /\ pool \cap incoming = {} /\ main \cap (pool \cup incoming) = {}
  /\ pool \cup incoming \subseteq live
  /\ \A c \in live : c \in main \cup pool \cup incoming \/ Parent[c] \in live
  /\ \A t \in Threads : PollStarts(t) => cur[t] \in live \cap Of(t) \cap (main \cup pool)

(* The calls that take a future last as long as it does.                   *)
Blocking == {"block_on", "run_until"}
CallsFit ==
  /\ \A t \in Threads : op[t] \in Blocking /\ ~At(t, "panicked") => Of(t) \cap main \cap live # {}
  /\ \A t \in Threads : Of(t) \cap main \cap live # {} => op[t] \in Blocking
  /\ \A t \in Threads : op[t] = "block_on" => /\ Of(t) \subseteq main
                                              /\ exec[t] \in {"call", "poll", "wait", "park", "panicked"}
  /\ \A t \in Threads : At(t, "stalled") => op[t] \in {"try_run_one", "run_until_stalled"}

(* A thread that waits, or is about to give up, has nothing to poll, or is *)
(* going to be told; and one that is told is unparked.                     *)
BeingWoken(c) == \E k \in Callers : AtStep(k, "swap") /\ waking[k].fut = c
Sleeping ==
  /\ \A t \in Threads :
       exec[t] \in {"wait", "park", "stalled"} =>
         /\ incoming \cap Of(t) = {}
         /\ unparked[t] \/ \A c \in queued \cap Of(t) : BeingWoken(c)
  /\ \A t \in Threads : ParkedRightly(t)

(* Every live clone that has been spawned is about to be polled, or its    *)
(* waker is in the slab.                                                   *)
Notified(c) ==
  \/ \E k \in Callers : c \in wakes[k]
  \/ c \in queued \cup incoming
  \/ c \in main /\ (exec[Home[c]] = "call" \/ WillWake(Home[c]))
PolledAt(c, steps) == PollStarts(Home[c]) /\ cur[Home[c]] = c /\ step[Home[c]] \in steps
InReach(c) == slab[c] = "waker" \/ Notified(c) \/ PolledAt(c, {"load", "record"})
Open == state \in {IDLE, POLLING}
Attended == Open => /\ \A c \in live \cap (main \cup pool \cup incoming) : InReach(c)
                    /\ wakes[Env] # {} => lock = Env

(* After a call of the Notifier, the clone that was polling then has been  *)
(* notified; if there was none, everybody has.                             *)
PollerTold ==
  state = IDLE /\ signal.by # NoFut =>
    /\ signal.by \in live \cap (main \cup pool \cup incoming)
    /\ Notified(signal.by) \/ PolledAt(signal.by, {"load", "record", "cas"})
AllTold ==
  state = IDLE /\ signal.by = NoFut =>
    \A c \in live : slab[c] = "waker" => PolledAt(c, {"cas"})
PollingTold ==
  \A t \in Threads :
    step[t] \in {"answer", "release"} => signal.by = cur[t] /\ Notified(cur[t])
Signalled == signal.woken /\ ~abandoned => PollerTold /\ AllTold /\ PollingTold

SharedInv == /\ Typed /\ Ordered /\ Placed /\ CallsFit /\ Sleeping /\ Attended /\ Signalled

------------------------------------------------------------------------------
(* How the executor goes on after the pool has answered, and after a poll. *)

LEMMA ReturnGoes ==
  ASSUME Typed, NEW t \in Threads, Return(t)
  PROVE  /\ \E l \in {"done", "call"} : exec' = [exec EXCEPT ![t] = l]
         /\ op' = [op EXCEPT ![t] = "run"]
         /\ entered' \in [Threads -> BOOLEAN]
<1>1. PICK l \in {"done", "call"} : l = IF (pool' \cup incoming') \cap Of(t) = {} THEN "done" ELSE "call"
  OBVIOUS
<1>2. exec' = [exec EXCEPT ![t] = l]
  BY <1>1 DEF Return, Exec
<1> QED
  BY <1>2 DEF Return, Typed, SharedTypeOK, LocalPoolTypeOK

LEMMA PoolReturnsSome ==
  ASSUME Typed, NEW t \in Threads, PoolReturns(t, "some")
  PROVE  /\ entered' \in [Threads -> BOOLEAN]
         /\ \/ exec' = [exec EXCEPT ![t] = "drain"] /\ op' = op
            \/ /\ op[t] = "try_run_one" /\ op' = [op EXCEPT ![t] = "run"]
               /\ \E l \in {"done", "call"} : exec' = [exec EXCEPT ![t] = l]
<1>1. CASE op[t] = "try_run_one"
  <2>1. Return(t)
    BY <1>1 DEF PoolReturns, TryRunOneReturns
  <2> QED
    BY <1>1, <2>1, ReturnGoes
<1>2. CASE op[t] # "try_run_one"
  <2>1. Goes(t, "drain")
    BY <1>2 DEF PoolReturns, PollPoolReturns
  <2> QED
    BY <2>1 DEF Goes, Exec, Typed, SharedTypeOK, LocalPoolTypeOK
<1> QED
  BY <1>1, <1>2

LEMMA PoolReturnsOther ==
  ASSUME Typed, NEW t \in Threads, NEW a \in {"none", "pending"}, PoolReturns(t, a)
  PROVE  /\ entered' \in [Threads -> BOOLEAN]
         /\ \/ exec' = [exec EXCEPT ![t] = "drain"] /\ op' = op
            \/ /\ exec' = [exec EXCEPT ![t] = "wait"] /\ op' = op
               /\ incoming' \cap Of(t) = {}
            \/ /\ exec' = [exec EXCEPT ![t] = "stalled"] /\ op' = op
               /\ incoming' \cap Of(t) = {}
               /\ op[t] \in {"try_run_one", "run_until_stalled", "block_on"}
            \/ /\ op[t] # "run_until" /\ op' = [op EXCEPT ![t] = "run"]
               /\ \E l \in {"done", "call"} : exec' = [exec EXCEPT ![t] = l]
<1>0. op \in [Threads -> Ops] /\ entered \in [Threads -> BOOLEAN]
  BY DEF Typed, SharedTypeOK, LocalPoolTypeOK
<1>1. CASE op[t] = "try_run_one"
  <2>1. TryRunOneReturns(t, a)
    BY <1>1 DEF PoolReturns
  <2>2. CASE a # "pending"
    BY <1>1, <2>1, <2>2, ReturnGoes DEF TryRunOneReturns
  <2>3. CASE a = "pending" /\ HasIncoming(t)
    BY <1>0, <2>1, <2>3 DEF TryRunOneReturns, Goes, Exec
  <2>4. CASE a = "pending" /\ ~HasIncoming(t)
    <3>1. Goes(t, "stalled")
      BY <2>1, <2>4 DEF TryRunOneReturns
    <3> QED
      BY <1>0, <1>1, <2>4, <3>1 DEF Goes, Exec, HasIncoming
  <2> QED
    BY <2>2, <2>3, <2>4
<1>2. CASE op[t] # "try_run_one"
  <2>1. PollPoolReturns(t, a)
    BY <1>2 DEF PoolReturns
  <2>2. CASE HasIncoming(t)
    BY <1>0, <2>1, <2>2 DEF PollPoolReturns, Goes, Exec
  <2>3. CASE ~HasIncoming(t) /\ op[t] = "run_until"
    <3>1. Goes(t, "wait")
      BY <2>1, <2>3 DEF PollPoolReturns
    <3> QED
      BY <1>0, <2>3, <3>1 DEF Goes, Exec, HasIncoming
  <2>4. CASE ~HasIncoming(t) /\ op[t] # "run_until" /\ a = "none"
    <3>1. Return(t)
      BY <2>1, <2>4 DEF PollPoolReturns
    <3> QED
      BY <2>4, <3>1, ReturnGoes
  <2>5. CASE ~HasIncoming(t) /\ op[t] # "run_until" /\ a = "pending"
    <3>1. Goes(t, IF op[t] = "run" THEN "wait" ELSE "stalled")
      BY <2>1, <2>5 DEF PollPoolReturns
    <3> QED
      BY <1>0, <1>2, <2>5, <3>1 DEF Goes, Exec, HasIncoming, Ops
  <2> QED
    BY <2>2, <2>3, <2>4, <2>5
<1> QED
  BY <1>1, <1>2

(* The end of a poll, for whatever reason, and what is left alone.         *)
EndsPoll(t, l) ==
  /\ exec' = [exec EXCEPT ![t] = l]
  /\ cur' = [cur EXCEPT ![t] = NoFut]
  /\ step' = [step EXCEPT ![t] = "load"]
  /\ UNCHANGED <<main, unparked, token, wakes, waking>>

LEMMA ReadyEnds ==
  ASSUME Typed, NEW t \in Threads, Ready(t)
  PROVE  /\ \E l \in {"drain", "done", "call"} :
              /\ EndsPoll(t, l)
              /\ \/ op' = [op EXCEPT ![t] = "run"] /\ (cur[t] \in main \/ op[t] = "try_run_one")
                 \/ op' = op /\ cur[t] \notin main /\ l = "drain"
         /\ entered' \in [Threads -> BOOLEAN]
         /\ pool' = pool \ {cur[t]} /\ queued' = queued \ {cur[t]}
         /\ incoming' = incoming \cup (Spawned(cur[t]) \cap live)
         /\ live' = live \ {cur[t]}
<1>1. /\ PollReturnsReady(t, Spawned(cur[t]) \cap live) /\ Step(t, "load")
      /\ live' = live \ {cur[t]}
      /\ UNCHANGED <<notifyVars, wakeVars>>
  BY DEF Ready
<1>2. /\ cur' = [cur EXCEPT ![t] = NoFut] /\ pool' = pool \ {cur[t]} /\ queued' = queued \ {cur[t]}
      /\ incoming' = incoming \cup (Spawned(cur[t]) \cap live) /\ main' = main
      /\ IF cur[t] \in main THEN Return(t) ELSE PoolReturns(t, "some")
  BY <1>1 DEF PollReturnsReady
<1>3. step' = [step EXCEPT ![t] = "load"] /\ UNCHANGED <<unparked, token, wakes, waking>>
  BY <1>1 DEF Step, notifyVars, wakeVars
<1>4. CASE cur[t] \in main
  BY <1>1, <1>2, <1>3, <1>4, ReturnGoes DEF EndsPoll
<1>5. CASE cur[t] \notin main
  BY <1>1, <1>2, <1>3, <1>5, PoolReturnsSome DEF EndsPoll
<1> QED
  BY <1>4, <1>5

LEMMA PendingEnds ==
  ASSUME Typed, NEW t \in Threads, IsPending(t)
  PROVE  /\ \E l \in {"wait", "drain", "pool", "yield"} :
              /\ EndsPoll(t, l)
              /\ l = "wait" => cur[t] \in main /\ op[t] = "block_on"
              /\ op[t] = "block_on" /\ cur[t] \in main => l = "wait"
         /\ incoming' = incoming \cup (Spawned(cur[t]) \cap live)
         /\ UNCHANGED <<pool, queued, live, op, entered>>
<1>1. /\ PollReturnsPending(t, Spawned(cur[t]) \cap live) /\ Step(t, "load")
      /\ UNCHANGED <<live, notifyVars, wakeVars>>
  BY DEF IsPending
<1>2. /\ cur' = [cur EXCEPT ![t] = NoFut]
      /\ incoming' = incoming \cup (Spawned(cur[t]) \cap live)
      /\ IF cur[t] \in main THEN Exec(t, IF op[t] = "block_on" THEN "wait" ELSE "drain")
         ELSE \E label \in {"pool", "yield"} : Exec(t, label)
      /\ UNCHANGED <<pool, queued, main, op, entered>>
  BY <1>1 DEF PollReturnsPending
<1>3. step' = [step EXCEPT ![t] = "load"] /\ UNCHANGED <<unparked, token, wakes, waking>>
  BY <1>1 DEF Step, notifyVars, wakeVars
<1>4. CASE cur[t] \in main
  BY <1>1, <1>2, <1>3, <1>4 DEF EndsPoll, Exec
<1>5. CASE cur[t] \notin main
  BY <1>1, <1>2, <1>3, <1>5 DEF EndsPoll, Exec
<1> QED
  BY <1>4, <1>5

------------------------------------------------------------------------------
(* Types                                                                   *)

Execs == {"call", "poll", "wait", "park", "drain", "pool", "yield", "stalled", "done", "panicked"}

(* The types in groups: no step touches them all.                          *)
PoolTyped == pool \subseteq Futs /\ queued \subseteq pool /\ incoming \subseteq Futs
ExecTyped == /\ main \in Mains /\ op \in [Threads -> Ops] /\ exec \in [Threads -> Execs]
             /\ cur \in [Threads -> Futs \cup {NoFut}] /\ entered \in [Threads -> BOOLEAN]
NotifyTyped == unparked \in [Threads -> BOOLEAN] /\ token \in [Threads -> BOOLEAN]
WakeTyped == /\ wakes \in [Callers -> SUBSET Futs]
             /\ waking \in [Callers -> [step : {"none", "swap", "unpark"}, fut : Futs \cup {NoFut}]]
             /\ \A k \in Callers : ~AtStep(k, "none") => waking[k].fut \in Futs
CloneTyped == /\ state \in {IDLE, POLLING, COMPLETE, POISONED}
              /\ slab \in [Futs -> {"none", "waker", "taken", "gone"}]
              /\ lock \in Callers \cup {NoFut} /\ live \subseteq Futs
              /\ step \in [Threads -> Steps]
SignalTyped == /\ due \in BOOLEAN /\ abandoned \in BOOLEAN
               /\ signal \in [woken : BOOLEAN, by : Futs \cup {NoFut}]

LEMMA TypedInGroups ==
  Typed <=> PoolTyped /\ ExecTyped /\ NotifyTyped /\ WakeTyped /\ CloneTyped /\ SignalTyped
  BY DEF Typed, SharedTypeOK, LocalPoolTypeOK, PoolTyped, ExecTyped, NotifyTyped, WakeTyped,
     CloneTyped, SignalTyped, Execs

(* A clone is one of the futures, and polled on its own thread.            *)
LEMMA PolledTyped ==
  ASSUME Typed, Placed, NEW t \in Threads, PollStarts(t)
  PROVE  cur[t] \in live /\ cur[t] \in Futs /\ Home[cur[t]] = t /\ cur[t] \in main \cup pool
  BY DEF Typed, SharedTypeOK, Placed, Of

LEMMA MainsAreFuts ==
  ASSUME Typed
  PROVE  /\ main \subseteq Futs
         /\ \A c \in main : Parent[c] = NoFut /\ \A d \in main : Home[c] = Home[d] => c = d
         /\ \A t \in Threads : MainOf(t) \in Futs \cup {NoFut}
         /\ \A t \in Threads, c \in main : Home[c] = t => MainOf(t) = c
<1>1. main \in Mains
  BY DEF Typed
<1>2. main \subseteq Futs
  BY <1>1, FutsAssumption
<1>3. \A c \in main : Parent[c] = NoFut /\ \A d \in main : Home[c] = Home[d] => c = d
  BY <1>1, SpawnAssumption
<1>4. ASSUME NEW t \in Threads PROVE MainOf(t) \in Futs \cup {NoFut}
  BY <1>2 DEF MainOf
<1>5. ASSUME NEW t \in Threads, NEW c \in main, Home[c] = t PROVE MainOf(t) = c
  <2>1. c \in Of(t) \cap main
    BY <1>2, <1>5 DEF Of
  <2>2. \A d \in Of(t) \cap main : d = c
    BY <1>3, <1>5 DEF Of
  <2> QED
    BY <2>1, <2>2 DEF MainOf
<1> QED
  BY <1>2, <1>3, <1>4, <1>5

(* Steps of Shared::poll that stay in it.                                  *)
LEMMA ContinuesTyped ==
  ASSUME Typed, NEW t \in Threads, NEW l \in Steps, Continues(t, l)
  PROVE  PoolTyped' /\ ExecTyped' /\ NotifyTyped' /\ WakeTyped' /\ live' \subseteq Futs
         /\ step' \in [Threads -> Steps]
<1>1. /\ UNCHANGED <<pool, queued, incoming, main, op, exec, cur, entered, unparked, token, wakes,
                     waking, live>>
      /\ step' = [step EXCEPT ![t] = l]
  BY DEF Continues, Step, localPoolVars, poolVars, execVars, notifyVars, wakeVars
<1>2. PoolTyped' /\ ExecTyped' /\ NotifyTyped' /\ live' \subseteq Futs
  BY <1>1, TypedInGroups DEF PoolTyped, ExecTyped, NotifyTyped, CloneTyped
<1>3. WakeTyped'
  BY <1>1, TypedInGroups DEF WakeTyped, AtStep
<1>4. step' \in [Threads -> Steps]
  BY <1>1, TypedInGroups DEF CloneTyped
<1> QED
  BY <1>2, <1>3, <1>4

LEMMA EndsTyped ==
  ASSUME Typed, NEW t \in Threads, NEW l \in Execs, EndsPoll(t, l)
  PROVE  /\ main' \in Mains /\ exec' \in [Threads -> Execs]
         /\ cur' \in [Threads -> Futs \cup {NoFut}]
         /\ NotifyTyped' /\ WakeTyped' /\ step' \in [Threads -> Steps]
<1>1. /\ main' \in Mains /\ exec' \in [Threads -> Execs]
      /\ cur' \in [Threads -> Futs \cup {NoFut}]
      /\ step' \in [Threads -> Steps]
  BY TypedInGroups DEF EndsPoll, ExecTyped, CloneTyped, Steps
<1>2. NotifyTyped'
  BY TypedInGroups DEF EndsPoll, NotifyTyped
<1>3. WakeTyped'
  BY TypedInGroups DEF EndsPoll, WakeTyped, AtStep
<1> QED
  BY <1>1, <1>2, <1>3

LEMMA ReadyTyped ==
  ASSUME Typed, NEW t \in Threads, Ready(t)
  PROVE  PoolTyped' /\ ExecTyped' /\ NotifyTyped' /\ WakeTyped' /\ live' \subseteq Futs
         /\ step' \in [Threads -> Steps]
<1>1. PICK l \in {"drain", "done", "call"} :
        /\ EndsPoll(t, l)
        /\ \/ op' = [op EXCEPT ![t] = "run"] /\ (cur[t] \in main \/ op[t] = "try_run_one")
           \/ op' = op /\ cur[t] \notin main /\ l = "drain"
  BY ReadyEnds
<1>2. op' \in [Threads -> Ops]
  BY <1>1, TypedInGroups DEF ExecTyped, Ops
<1>3. PoolTyped' /\ live' \subseteq Futs
  BY ReadyEnds, TypedInGroups DEF PoolTyped, CloneTyped, Spawned
<1> QED
  BY <1>1, <1>2, <1>3, EndsTyped, ReadyEnds DEF ExecTyped, Execs

LEMMA PendingTyped ==
  ASSUME Typed, NEW t \in Threads, IsPending(t)
  PROVE  PoolTyped' /\ ExecTyped' /\ NotifyTyped' /\ WakeTyped' /\ live' \subseteq Futs
         /\ step' \in [Threads -> Steps]
<1>1. PICK l \in {"wait", "drain", "pool", "yield"} : EndsPoll(t, l)
  BY PendingEnds
<1>2. op' \in [Threads -> Ops] /\ entered' \in [Threads -> BOOLEAN]
  BY PendingEnds, TypedInGroups DEF ExecTyped
<1>3. PoolTyped' /\ live' \subseteq Futs
  BY PendingEnds, TypedInGroups DEF PoolTyped, CloneTyped, Spawned
<1> QED
  BY <1>1, <1>2, <1>3, EndsTyped DEF ExecTyped, Execs

LEMMA UnwindEnds ==
  ASSUME Typed, NEW t \in Threads, Unwind(t)
  PROVE  /\ EndsPoll(t, "panicked")
         /\ PollStarts(t) /\ step[t] = "unwind"
         /\ pool' = pool \ Of(t) /\ queued' = queued \ Of(t) /\ incoming' = incoming \ Of(t)
         /\ live' = live \ Of(t)
         /\ op' = op
         /\ slab' = [c \in Futs |-> IF SlabGone \/ c \notin Of(t) \ {cur[t]} THEN slab[c] ELSE "none"]
         /\ UNCHANGED <<state, lock, due, signal, abandoned>>
  BY DEF Unwind, PollPanics, EndsPoll, Exec, Step, Polling, notifyVars, wakeVars, signalVars

LEMMA UnwindTyped ==
  ASSUME Typed, NEW t \in Threads, Unwind(t)
  PROVE  Typed'
<1>1. /\ main' \in Mains /\ exec' \in [Threads -> Execs]
      /\ cur' \in [Threads -> Futs \cup {NoFut}]
      /\ NotifyTyped' /\ WakeTyped' /\ step' \in [Threads -> Steps]
  BY UnwindEnds, EndsTyped DEF Execs
<1>2. op' \in [Threads -> Ops] /\ entered' \in [Threads -> BOOLEAN]
  BY TypedInGroups DEF Unwind, PollPanics, ExecTyped
<1>3. PoolTyped' /\ live' \subseteq Futs
  BY UnwindEnds, TypedInGroups DEF PoolTyped, CloneTyped
<1>4. slab' \in [Futs -> {"none", "waker", "taken", "gone"}]
  BY UnwindEnds, TypedInGroups DEF CloneTyped
<1>5. /\ state' \in {IDLE, POLLING, COMPLETE, POISONED} /\ lock' \in Callers \cup {NoFut}
      /\ SignalTyped'
  BY UnwindEnds, TypedInGroups DEF CloneTyped, SignalTyped
<1>6. PoolTyped' /\ ExecTyped' /\ NotifyTyped' /\ WakeTyped' /\ CloneTyped' /\ SignalTyped'
  BY <1>1, <1>2, <1>3, <1>4, <1>5 DEF ExecTyped, CloneTyped
<1>7. Typed' <=> PoolTyped' /\ ExecTyped' /\ NotifyTyped' /\ WakeTyped' /\ CloneTyped' /\ SignalTyped'
  BY TypedInGroups, PTL
<1> QED
  BY <1>6, <1>7

(* Every other step of Shared::poll continues or ends the poll.            *)
Resumes(t) == (\E l \in Steps : Continues(t, l)) \/ Ready(t) \/ IsPending(t)

(* Which kind of step each step of Shared::poll is.                        *)
LEMMA ResumesOrNot ==
  ASSUME Typed, NEW t \in Threads, PollShared(t)
  PROVE  PollStarts(t) /\ (Resumes(t) \/ DrainWakers(t) \/ Unwind(t))
<1>1. PollStarts(t)
  BY DEF PollShared, Load, RecordWaker, CompareExchange, InnerPoll, InnerPends, InnerReady,
     InnerPanics, Release, Write, DrainWakers, Unlock, Drop, Unwind, Polling
<1>2. CASE CompareExchange(t)
  <2>0. state \in {IDLE, POLLING, COMPLETE, POISONED}
    BY TypedInGroups DEF CloneTyped
  <2>1. Resumes(t)
    <3>1. CASE state = IDLE
      BY <1>2, <3>1 DEF CompareExchange, Locks, Resumes, Steps, IDLE, POLLING, COMPLETE, POISONED
    <3>2. CASE state = POLLING
      BY <1>2, <3>2 DEF CompareExchange, Locks, Resumes, Steps, IDLE, POLLING, COMPLETE, POISONED
    <3>3. CASE state = COMPLETE
      BY <1>2, <3>3 DEF CompareExchange, Locks, Resumes, Steps, IDLE, POLLING, COMPLETE, POISONED
    <3>4. CASE state = POISONED
      BY <1>2, <3>4 DEF CompareExchange, Locks, Resumes, Steps, IDLE, POLLING, COMPLETE, POISONED
    <3> QED
      BY <2>0, <3>1, <3>2, <3>3, <3>4
  <2> QED
    BY <1>1, <2>1
<1>3. CASE Load(t) \/ Drop(t) \/ Unlock(t) \/ Release(t)
  BY <1>1, <1>3 DEF Load, Drop, Unlock, Release, Resumes, Steps
<1>4. CASE \/ RecordWaker(t) \/ InnerPoll(t) \/ InnerPends(t) \/ InnerReady(t) \/ InnerPanics(t)
           \/ Write(t)
  BY <1>1, <1>4 DEF RecordWaker, InnerPoll, InnerPends, InnerReady, InnerPanics, Write, Resumes,
     Steps
<1> QED
  BY <1>1, <1>2, <1>3, <1>4 DEF PollShared

LEMMA ResumesTyped ==
  ASSUME Typed, NEW t \in Threads, Resumes(t),
         state' \in {IDLE, POLLING, COMPLETE, POISONED},
         slab' \in [Futs -> {"none", "waker", "taken", "gone"}],
         lock' \in Callers \cup {NoFut}, SignalTyped'
  PROVE  Typed'
<1>1. PoolTyped' /\ ExecTyped' /\ NotifyTyped' /\ WakeTyped' /\ live' \subseteq Futs
      /\ step' \in [Threads -> Steps]
  BY ContinuesTyped, ReadyTyped, PendingTyped DEF Resumes
<1>2. CloneTyped'
  BY <1>1 DEF CloneTyped
<1>3. Typed' <=> PoolTyped' /\ ExecTyped' /\ NotifyTyped' /\ WakeTyped' /\ CloneTyped' /\ SignalTyped'
  BY TypedInGroups, PTL
<1> QED
  BY <1>1, <1>2, <1>3

LEMMA PollSharedTyped ==
  ASSUME Typed, Placed, NEW t \in Threads, PollShared(t)
  PROVE  Typed'
<1> DEFINE Slabs == [Futs -> {"none", "waker", "taken", "gone"}]
           States == {IDLE, POLLING, COMPLETE, POISONED}
<1>0. state \in States /\ slab \in Slabs /\ lock \in Callers \cup {NoFut} /\ SignalTyped
  BY TypedInGroups DEF CloneTyped
<1>1. ASSUME UNCHANGED <<due, signal, abandoned>> PROVE SignalTyped'
  BY <1>0, <1>1 DEF SignalTyped
<1>2. PollStarts(t) => cur[t] \in Futs
  BY PolledTyped
<1>3. CASE Load(t)
  <2>1. Resumes(t)
    BY <1>3 DEF Load, Resumes, Steps
  <2> QED
    BY <1>0, <1>1, <1>3, <2>1, ResumesTyped DEF Load, signalVars
<1>4. CASE RecordWaker(t)
  <2>1. Resumes(t)
    BY <1>4 DEF RecordWaker, Resumes, Steps
  <2>2. slab' \in Slabs
    BY <1>0, <1>4 DEF RecordWaker
  <2> QED
    BY <1>0, <1>1, <1>4, <2>1, <2>2, ResumesTyped DEF RecordWaker, signalVars
<1>5. CASE CompareExchange(t)
  <2>1. state' \in States /\ Resumes(t)
    <3>1. CASE state = IDLE
      BY <1>5, <3>1 DEF CompareExchange, Locks, Resumes, Steps, IDLE, POLLING, COMPLETE, POISONED
    <3>2. CASE state = POLLING
      BY <1>5, <3>2 DEF CompareExchange, Locks, Resumes, Steps, IDLE, POLLING, COMPLETE, POISONED
    <3>3. CASE state = COMPLETE
      BY <1>5, <3>3 DEF CompareExchange, Locks, Resumes, Steps, IDLE, POLLING, COMPLETE, POISONED
    <3>4. CASE state = POISONED
      BY <1>5, <3>4 DEF CompareExchange, Locks, Resumes, Steps, IDLE, POLLING, COMPLETE, POISONED
    <3> QED
      BY <1>0, <3>1, <3>2, <3>3, <3>4
  <2> QED
    BY <1>0, <1>1, <1>5, <2>1, ResumesTyped DEF CompareExchange, signalVars
<1>6. CASE InnerPoll(t)
  <2>1. Resumes(t)
    BY <1>6 DEF InnerPoll, Resumes, Steps
  <2>2. SignalTyped'
    BY <1>0, <1>6 DEF InnerPoll, SignalTyped, NoSignal
  <2> QED
    BY <1>0, <1>6, <2>1, <2>2, ResumesTyped DEF InnerPoll
<1>7. CASE InnerPends(t)
  <2>1. Resumes(t)
    BY <1>7 DEF InnerPends, Resumes, Steps
  <2>2. SignalTyped'
    BY <1>0, <1>7 DEF InnerPends, SignalTyped
  <2> QED
    BY <1>0, <1>7, <2>1, <2>2, ResumesTyped DEF InnerPends
<1>8. CASE InnerReady(t)
  <2>1. Resumes(t)
    BY <1>8 DEF InnerReady, Resumes, Steps
  <2> QED
    BY <1>0, <1>1, <1>8, <2>1, ResumesTyped DEF InnerReady, signalVars
<1>9. CASE InnerPanics(t)
  <2>1. Resumes(t)
    BY <1>9 DEF InnerPanics, Resumes, Steps
  <2> QED
    BY <1>0, <1>1, <1>9, <2>1, ResumesTyped DEF InnerPanics, Reset, signalVars
<1>10. CASE Release(t)
  <2>1. Resumes(t)
    BY <1>10 DEF Release, Resumes
  <2> QED
    BY <1>0, <1>1, <1>10, <2>1, ResumesTyped DEF Release, signalVars
<1>11. CASE Write(t)
  <2>1. Resumes(t)
    BY <1>11 DEF Write, Resumes, Steps
  <2> QED
    BY <1>0, <1>1, <1>11, <2>1, ResumesTyped DEF Write, signalVars
<1>12. CASE Unlock(t)
  <2>1. Resumes(t)
    BY <1>12 DEF Unlock, Resumes
  <2> QED
    BY <1>0, <1>1, <1>12, <2>1, ResumesTyped DEF Unlock, signalVars
<1>13. CASE Drop(t)
  <2>1. Resumes(t)
    BY <1>13 DEF Drop, Resumes
  <2>2. slab' \in Slabs
    BY <1>0, <1>13 DEF Drop
  <2>3. SignalTyped'
    BY <1>0, <1>13 DEF Drop, SignalTyped
  <2> QED
    BY <1>0, <1>13, <2>1, <2>2, <2>3, ResumesTyped DEF Drop
<1>14. CASE DrainWakers(t)
  <2>1. /\ UNCHANGED <<pool, queued, incoming, main, op, exec, cur, entered, unparked, token,
                       waking, live, state, due, signal, abandoned>>
        /\ lock' = t /\ wakes' = [wakes EXCEPT ![t] = Wakers]
        /\ slab' = [c \in Futs |-> "gone"] /\ step' = [step EXCEPT ![t] = "unlock"]
    BY <1>14 DEF DrainWakers, Step, poolVars, execVars, notifyVars, signalVars
  <2>2. PoolTyped' /\ ExecTyped' /\ NotifyTyped' /\ SignalTyped'
    BY <2>1, TypedInGroups DEF PoolTyped, ExecTyped, NotifyTyped, SignalTyped
  <2>3. WakeTyped'
    <3>1. Wakers \in SUBSET Futs
      BY DEF Wakers
    <3> QED
      BY <2>1, <3>1, TypedInGroups DEF WakeTyped, AtStep
  <2>4. CloneTyped'
    BY <2>1, TypedInGroups DEF CloneTyped, Steps, Callers
  <2>5. Typed' <=> PoolTyped' /\ ExecTyped' /\ NotifyTyped' /\ WakeTyped' /\ CloneTyped' /\ SignalTyped'
    BY TypedInGroups, PTL
  <2> QED
    BY <2>2, <2>3, <2>4, <2>5
<1>15. CASE Unwind(t)
  BY <1>15, UnwindTyped
<1> QED
  BY <1>3, <1>4, <1>5, <1>6, <1>7, <1>8, <1>9, <1>10, <1>11, <1>12, <1>13, <1>14, <1>15
  DEF PollShared

LEMMA ExecutorTyped ==
  ASSUME Typed, NEW t \in Threads, Executor(t), UNCHANGED sharedVars
  PROVE  Typed'
<1>1. UNCHANGED <<state, slab, lock, live, step, due, signal, abandoned>>
  BY DEF sharedVars
<1>2. CloneTyped' /\ SignalTyped'
  BY <1>1, TypedInGroups DEF CloneTyped, SignalTyped
<1>3. UNCHANGED <<main, wakes, waking>>
  BY DEF Executor, Enter, Wait, Park, DrainIncoming, PollPool, PoolYields, Stalled, wakeVars
<1>4. WakeTyped'
  BY <1>3, TypedInGroups DEF WakeTyped, AtStep
<1>5. ASSUME Turn(t)
      PROVE  exec' \in [Threads -> Execs] /\ cur' \in [Threads -> Futs \cup {NoFut}]
  BY <1>5, TypedInGroups, MainsAreFuts DEF Turn, Exec, ExecTyped, Execs
<1>6. ASSUME NEW a \in {"none", "pending"}, PoolReturns(t, a)
      PROVE  exec' \in [Threads -> Execs] /\ op' \in [Threads -> Ops] /\ entered' \in [Threads -> BOOLEAN]
  BY <1>6, PoolReturnsOther, TypedInGroups DEF ExecTyped, Execs, Ops
<1>7. ASSUME Return(t)
      PROVE  exec' \in [Threads -> Execs] /\ op' \in [Threads -> Ops] /\ entered' \in [Threads -> BOOLEAN]
  BY <1>7, ReturnGoes, TypedInGroups DEF ExecTyped, Execs, Ops
<1>8. PoolTyped' /\ ExecTyped' /\ NotifyTyped'
  <2>0. PoolTyped /\ ExecTyped /\ NotifyTyped
    BY TypedInGroups
  <2>1. CASE Enter(t)
    BY <1>5, <2>0, <2>1 DEF Enter, PoolTyped, ExecTyped, NotifyTyped, poolVars, notifyVars
  <2>2. CASE Wait(t)
    <3>1. CASE unparked[t]
      BY <1>5, <2>0, <2>2, <3>1 DEF Wait, PoolTyped, ExecTyped, NotifyTyped, poolVars
    <3>2. CASE ~unparked[t]
      BY <2>0, <2>2, <3>2 DEF Wait, Exec, PoolTyped, ExecTyped, NotifyTyped, poolVars, Execs
    <3> QED
      BY <3>1, <3>2
  <2>3. CASE Park(t)
    BY <2>0, <2>3 DEF Park, Exec, PoolTyped, ExecTyped, NotifyTyped, poolVars, Execs
  <2>4. CASE DrainIncoming(t)
    BY <2>0, <2>4 DEF DrainIncoming, Exec, PoolTyped, ExecTyped, NotifyTyped, notifyVars, Execs
  <2>5. CASE PollPool(t)
    <3>1. NotifyTyped' /\ main' \in Mains
      BY <2>0, <2>5 DEF PollPool, NotifyTyped, notifyVars, ExecTyped
    <3>2. ASSUME NEW c \in queued \cap Of(t),
                 queued' = queued \ {c}, cur' = [cur EXCEPT ![t] = c], Exec(t, "poll"),
                 UNCHANGED <<pool, incoming, op, entered>>
          PROVE  PoolTyped' /\ ExecTyped'
      BY <2>0, <3>1, <3>2 DEF PoolTyped, ExecTyped, Exec, Execs
    <3>3. ASSUME UNCHANGED <<poolVars, cur>>,
                 PoolReturns(t, IF pool \cap Of(t) = {} THEN "none" ELSE "pending")
          PROVE  PoolTyped' /\ ExecTyped'
      <4>1. exec' \in [Threads -> Execs] /\ op' \in [Threads -> Ops] /\ entered' \in [Threads -> BOOLEAN]
        <5>1. CASE pool \cap Of(t) = {}
          BY <1>6, <3>3, <5>1
        <5>2. CASE pool \cap Of(t) # {}
          BY <1>6, <3>3, <5>2
        <5> QED
          BY <5>1, <5>2
      <4> QED
        BY <2>0, <3>1, <3>3, <4>1 DEF PoolTyped, ExecTyped, poolVars
    <3> QED
      BY <2>5, <3>1, <3>2, <3>3 DEF PollPool
  <2>6. CASE PoolYields(t)
    <3>1. exec' \in [Threads -> Execs] /\ op' \in [Threads -> Ops] /\ entered' \in [Threads -> BOOLEAN]
      BY <1>6, <2>6 DEF PoolYields
    <3>2. NotifyTyped'
      BY <2>0, <2>6 DEF PoolYields, NotifyTyped
    <3> QED
      BY <2>0, <2>6, <3>1, <3>2 DEF PoolYields, PoolTyped, ExecTyped, poolVars
  <2>7. CASE Stalled(t)
    <3>1. exec' \in [Threads -> Execs] /\ op' \in [Threads -> Ops] /\ entered' \in [Threads -> BOOLEAN]
      BY <1>7, <2>0, <2>7 DEF Stalled, Goes, Exec, ExecTyped, Execs
    <3> QED
      BY <2>0, <2>7, <3>1 DEF Stalled, PoolTyped, ExecTyped, NotifyTyped, poolVars, notifyVars
  <2> QED
    BY <2>1, <2>2, <2>3, <2>4, <2>5, <2>6, <2>7 DEF Executor
<1>9. Typed' <=> PoolTyped' /\ ExecTyped' /\ NotifyTyped' /\ WakeTyped' /\ CloneTyped' /\ SignalTyped'
  BY TypedInGroups, PTL
<1> QED
  BY <1>2, <1>4, <1>8, <1>9

LEMMA WakerTyped ==
  ASSUME Typed, NEW k \in Callers, Waker(k), UNCHANGED sharedVars
  PROVE  Typed'
<1>1. UNCHANGED <<state, slab, lock, live, step, due, signal, abandoned>>
  BY DEF sharedVars
<1>2. CloneTyped' /\ SignalTyped'
  BY <1>1, TypedInGroups DEF CloneTyped, SignalTyped
<1>3. ExecTyped'
  BY TypedInGroups DEF ExecTyped, Waker, NextWaker, NotifySwap, Unpark, execVars
<1>4. PoolTyped' /\ NotifyTyped'
  BY TypedInGroups DEF PoolTyped, NotifyTyped, Waker, NextWaker, NotifySwap, Unpark, poolVars,
     notifyVars
<1>5. WakeTyped'
  <2>0. WakeTyped
    BY TypedInGroups
  <2>1. CASE NextWaker(k)
    BY <2>0, <2>1 DEF NextWaker, Waking, WakeTyped, AtStep
  <2>2. CASE NotifySwap(k)
    BY <2>0, <2>2 DEF NotifySwap, Waking, WakeTyped, AtStep
  <2>3. CASE Unpark(k)
    BY <2>0, <2>3 DEF Unpark, Waking, WakeTyped, AtStep
  <2> QED
    BY <2>1, <2>2, <2>3 DEF Waker
<1>6. Typed' <=> PoolTyped' /\ ExecTyped' /\ NotifyTyped' /\ WakeTyped' /\ CloneTyped' /\ SignalTyped'
  BY TypedInGroups, PTL
<1> QED
  BY <1>2, <1>3, <1>4, <1>5, <1>6

LEMMA NotifierTyped ==
  ASSUME Typed, Placed, NotifierWake \/ NotifierDone
  PROVE  Typed'
<1>1. UNCHANGED <<pool, queued, incoming, main, op, exec, cur, entered, unparked, token,
                  waking, live, step, state, abandoned>>
  BY DEF NotifierWake, NotifierDone, localPoolVars, poolVars, execVars, notifyVars, wakeVars,
     signalVars
<1>2. PoolTyped' /\ ExecTyped' /\ NotifyTyped'
  BY <1>1, TypedInGroups DEF PoolTyped, ExecTyped, NotifyTyped
<1>3. WakeTyped'
  <2>1. Wakers \in SUBSET Futs
    BY DEF Wakers
  <2>2. wakes' = [wakes EXCEPT ![Env] = Wakers] \/ wakes' = wakes
    BY DEF NotifierWake, NotifierDone, localPoolVars, wakeVars
  <2> QED
    BY <1>1, <2>1, <2>2, TypedInGroups DEF WakeTyped, AtStep
<1>4. CloneTyped'
  BY <1>1, TypedInGroups DEF CloneTyped, NotifierWake, NotifierDone, Callers
<1>5. SignalTyped'
  <2>1. CASE NotifierWake
    <3>1. PICK b : b = IF InInner = {} THEN NoFut ELSE cur[CHOOSE t \in InInner : TRUE]
      OBVIOUS
    <3>2. b \in Futs \cup {NoFut}
      <4>1. CASE InInner = {}
        BY <3>1, <4>1
      <4>2. CASE InInner # {}
        <5>1. PICK t \in InInner : t = CHOOSE u \in InInner : TRUE
          BY <4>2
        <5>2. t \in Threads /\ PollStarts(t)
          BY DEF InInner
        <5> QED
          BY <3>1, <4>2, <5>1, <5>2, PolledTyped
      <4> QED
        BY <4>1, <4>2
    <3>3. signal' = [woken |-> TRUE, by |-> b] /\ due' = FALSE
      BY <2>1, <3>1 DEF NotifierWake
    <3> QED
      BY <1>1, <3>2, <3>3, TypedInGroups DEF SignalTyped
  <2>2. CASE NotifierDone
    BY <1>1, <2>2, TypedInGroups DEF NotifierDone, signalVars, SignalTyped
  <2> QED
    BY <2>1, <2>2
<1>6. Typed' <=> PoolTyped' /\ ExecTyped' /\ NotifyTyped' /\ WakeTyped' /\ CloneTyped' /\ SignalTyped'
  BY TypedInGroups, PTL
<1> QED
  BY <1>2, <1>3, <1>4, <1>5, <1>6

------------------------------------------------------------------------------
(* The order of the steps of Shared::poll                                  *)

(* What a thread may do between two states of the word.                    *)
Moves(t, l) ==
  \/ /\ state' = state /\ (step[t] \in InnerSteps <=> l \in InnerSteps)
     /\ l \notin {"drain", "unlock"} /\ (l = "unwind" => state = POISONED)
  \/ state = IDLE /\ state' = POLLING /\ l = "inner"
  \/ step[t] \in InnerSteps /\ l = "unwind" /\ state' = POISONED
  \/ step[t] \in InnerSteps /\ l = "load" /\ state' = IDLE
  \/ step[t] \in InnerSteps /\ l = "drain" /\ state' = COMPLETE

LEMMA OrderedMoves ==
  ASSUME Typed, Ordered, NEW t \in Threads, NEW l \in Steps, step' = [step EXCEPT ![t] = l],
         l # "load" => exec'[t] = "poll", \A u \in Threads \ {t} : exec'[u] = exec[u],
         SlabGone' => SlabGone, Moves(t, l)
  PROVE  Ordered'
<1>1. step \in [Threads -> Steps] /\ step'[t] = l /\ \A u \in Threads \ {t} : step'[u] = step[u]
  BY DEF Typed
<1>2. \A u \in Threads : step'[u] # "load" => exec'[u] = "poll"
  BY <1>1 DEF Ordered
<1>3. CASE /\ state' = state /\ (step[t] \in InnerSteps <=> l \in InnerSteps)
           /\ l \notin {"drain", "unlock"} /\ (l = "unwind" => state = POISONED)
  <2>1. \A u \in Threads : step'[u] \in InnerSteps <=> step[u] \in InnerSteps
    BY <1>1, <1>3
  <2>2. \A u \in Threads : step'[u] \in {"drain", "unlock"} => step[u] = step'[u]
    BY <1>1, <1>3
  <2> QED
    BY <1>1, <1>2, <1>3, <2>1, <2>2 DEF Ordered
<1>4. CASE state = IDLE /\ state' = POLLING /\ l = "inner"
  <2>1. \A u \in Threads : step[u] \notin InnerSteps \cup {"drain", "unlock", "unwind"}
    BY <1>4 DEF Ordered, IDLE, POLLING, COMPLETE, POISONED
  <2>2. ~SlabGone'
    BY <1>4 DEF Ordered, IDLE, COMPLETE
  <2> QED
    BY <1>1, <1>2, <1>4, <2>1, <2>2 DEF Ordered, InnerSteps
<1>5. CASE step[t] \in InnerSteps /\ l = "unwind" /\ state' = POISONED
  <2>1. \A u \in Threads \ {t} : step[u] \notin InnerSteps \cup {"drain", "unlock", "unwind"}
    BY <1>5 DEF Ordered, POLLING, COMPLETE, POISONED
  <2>2. ~SlabGone'
    BY <1>5 DEF Ordered, POLLING, COMPLETE
  <2> QED
    BY <1>1, <1>2, <1>5, <2>1, <2>2 DEF Ordered, InnerSteps, POISONED, POLLING
<1>6. CASE step[t] \in InnerSteps /\ l = "load" /\ state' = IDLE
  <2>1. \A u \in Threads \ {t} : step[u] \notin InnerSteps \cup {"drain", "unlock", "unwind"}
    BY <1>6 DEF Ordered, POLLING, COMPLETE, POISONED
  <2>2. ~SlabGone'
    BY <1>6 DEF Ordered, POLLING, COMPLETE
  <2> QED
    BY <1>1, <1>2, <1>6, <2>1, <2>2 DEF Ordered, InnerSteps, IDLE, POLLING
<1>7. CASE step[t] \in InnerSteps /\ l = "drain" /\ state' = COMPLETE
  <2>1. \A u \in Threads \ {t} : step[u] \notin InnerSteps \cup {"drain", "unlock", "unwind"}
    BY <1>7 DEF Ordered, POLLING, COMPLETE, POISONED
  <2>2. ~SlabGone'
    BY <1>7 DEF Ordered, POLLING, COMPLETE
  <2> QED
    BY <1>1, <1>2, <1>7, <2>1, <2>2 DEF Ordered, InnerSteps, COMPLETE, POLLING
<1> QED
  BY <1>3, <1>4, <1>5, <1>6, <1>7 DEF Moves

LEMMA PollSharedOrdered ==
  ASSUME Typed, Ordered, NEW t \in Threads, PollShared(t)
  PROVE  Ordered'
<1>0. /\ step \in [Threads -> Steps] /\ exec \in [Threads -> Execs]
      /\ state \in {IDLE, POLLING, COMPLETE, POISONED}
  BY TypedInGroups DEF ExecTyped, CloneTyped
<1>1. ASSUME NEW l \in Steps, PollStarts(t), Continues(t, l), SlabGone' => SlabGone, Moves(t, l)
      PROVE  Ordered'
  <2>1. exec' = exec /\ step' = [step EXCEPT ![t] = l]
    BY <1>1 DEF Continues, Step, localPoolVars, execVars
  <2> QED
    BY <1>1, <2>1, OrderedMoves DEF PollStarts, At
<1>2. ASSUME Ready(t) \/ IsPending(t), SlabGone' => SlabGone, Moves(t, "load")
      PROVE  Ordered'
  <2>1. \E l \in Execs : EndsPoll(t, l)
    BY <1>2, ReadyEnds, PendingEnds DEF Execs
  <2>2. step' = [step EXCEPT ![t] = "load"] /\ \A u \in Threads \ {t} : exec'[u] = exec[u]
    BY <1>0, <2>1 DEF EndsPoll
  <2> QED
    BY <1>2, <2>2, OrderedMoves DEF Steps
<1>3. ASSUME slab' = slab PROVE SlabGone' => SlabGone
  BY <1>3 DEF SlabGone
<1>4. CASE Load(t)
  <2>1. slab' = slab /\ state' = state /\ step[t] = "load" /\ PollStarts(t)
    BY <1>4 DEF Load, Polling
  <2>2. Ready(t) \/ Continues(t, "record")
    BY <1>4 DEF Load
  <2> QED
    BY <1>1, <1>2, <1>3, <2>1, <2>2 DEF Moves, InnerSteps, Steps
<1>5. CASE RecordWaker(t)
  <2>1. state' = state /\ step[t] = "record" /\ PollStarts(t) /\ Continues(t, "cas")
    BY <1>5 DEF RecordWaker, Polling
  <2>2. SlabGone' => SlabGone
    BY <1>5, TypedInGroups DEF RecordWaker, SlabGone, CloneTyped
  <2> QED
    BY <1>1, <2>1, <2>2 DEF Moves, InnerSteps, Steps
<1>6. CASE CompareExchange(t)
  <2>1. slab' = slab /\ step[t] = "cas" /\ PollStarts(t)
    BY <1>6 DEF CompareExchange, Polling
  <2>2. CASE state = IDLE
    <3>1. state' = POLLING /\ Continues(t, "inner")
      BY <1>6, <2>2 DEF CompareExchange, Locks, IDLE, POLLING, COMPLETE, POISONED
    <3> QED
      BY <1>1, <1>3, <2>1, <2>2, <3>1 DEF Moves, InnerSteps, Steps
  <2>3. CASE state = POLLING
    <3>1. state' = state /\ IsPending(t)
      BY <1>6, <2>3 DEF CompareExchange, Locks, IDLE, POLLING, COMPLETE, POISONED
    <3> QED
      BY <1>2, <1>3, <2>1, <3>1 DEF Moves, InnerSteps
  <2>4. CASE state = COMPLETE
    <3>1. state' = state /\ Ready(t)
      BY <1>6, <2>4 DEF CompareExchange, Locks, IDLE, POLLING, COMPLETE, POISONED
    <3> QED
      BY <1>2, <1>3, <2>1, <3>1 DEF Moves, InnerSteps
  <2>5. CASE state = POISONED
    <3>1. state' = state /\ Continues(t, "unwind")
      BY <1>6, <2>5 DEF CompareExchange, Locks, IDLE, POLLING, COMPLETE, POISONED
    <3> QED
      BY <1>1, <1>3, <2>1, <2>5, <3>1 DEF Moves, InnerSteps, Steps
  <2> QED
    BY <1>0, <2>2, <2>3, <2>4, <2>5
<1>7. CASE InnerPoll(t) \/ InnerPends(t) \/ InnerReady(t)
  <2>1. slab' = slab /\ state' = state /\ step[t] \in {"inner", "answer"} /\ PollStarts(t)
    BY <1>7 DEF InnerPoll, InnerPends, InnerReady, Polling
  <2>2. \E l \in {"answer", "release", "write"} : Continues(t, l)
    BY <1>7 DEF InnerPoll, InnerPends, InnerReady
  <2> QED
    BY <1>1, <1>3, <2>1, <2>2 DEF Moves, InnerSteps, Steps
<1>8. CASE InnerPanics(t)
  <2>1. slab' = slab /\ state' = POISONED /\ step[t] = "answer" /\ PollStarts(t) /\ Continues(t, "unwind")
    BY <1>8 DEF InnerPanics, Reset, Polling
  <2> QED
    BY <1>1, <1>3, <2>1 DEF Moves, InnerSteps, Steps
<1>9. CASE Release(t)
  <2>1. slab' = slab /\ state' = IDLE /\ step[t] = "release" /\ IsPending(t)
    BY <1>9 DEF Release, Polling
  <2> QED
    BY <1>2, <1>3, <2>1 DEF Moves, InnerSteps
<1>10. CASE Write(t)
  <2>1. slab' = slab /\ state' = COMPLETE /\ step[t] = "write" /\ PollStarts(t) /\ Continues(t, "drain")
    BY <1>10 DEF Write, Polling
  <2> QED
    BY <1>1, <1>3, <2>1 DEF Moves, InnerSteps, Steps
<1>11. CASE Unlock(t)
  <2>1. slab' = slab /\ state' = state /\ step[t] = "unlock" /\ Ready(t)
    BY <1>11 DEF Unlock, Polling
  <2> QED
    BY <1>2, <1>3, <2>1 DEF Moves, InnerSteps
<1>12. CASE Drop(t)
  <2>1. state' = state /\ step[t] = "load" /\ Ready(t)
    BY <1>12 DEF Drop, Polling
  <2>2. SlabGone' => SlabGone
    BY <1>12, TypedInGroups DEF Drop, SlabGone, CloneTyped
  <2> QED
    BY <1>2, <2>1, <2>2 DEF Moves, InnerSteps
<1>13. CASE Unwind(t)
  <2>1. EndsPoll(t, "panicked") /\ step[t] = "unwind" /\ state' = state
    BY <1>13, UnwindEnds
  <2>2. SlabGone' => SlabGone
    BY <1>13, UnwindEnds DEF SlabGone
  <2>3. step' = [step EXCEPT ![t] = "load"] /\ \A u \in Threads \ {t} : exec'[u] = exec[u]
    BY <1>0, <2>1 DEF EndsPoll
  <2>4. Moves(t, "load")
    BY <2>1 DEF Moves, InnerSteps
  <2> QED
    BY <2>2, <2>3, <2>4, OrderedMoves DEF Steps
<1>14. CASE DrainWakers(t)
  <2>1. /\ exec' = exec /\ state' = state /\ PollStarts(t) /\ step[t] = "drain"
        /\ step' = [step EXCEPT ![t] = "unlock"]
    BY <1>14 DEF DrainWakers, Polling, Step, execVars
  <2>2. state = COMPLETE /\ \A u \in Threads \ {t} : step[u] # "drain"
    BY <2>1 DEF Ordered
  <2>3. \A u \in Threads : step[u] \notin InnerSteps \cup {"unwind"}
    BY <2>2 DEF Ordered, COMPLETE, POLLING, POISONED
  <2>4. \A u \in Threads : step'[u] \notin InnerSteps \cup {"unwind", "drain"}
    BY <1>0, <2>1, <2>2, <2>3 DEF InnerSteps
  <2>5. \A u \in Threads : step'[u] # "load" => exec'[u] = "poll"
    BY <1>0, <2>1 DEF Ordered, PollStarts, At
  <2> QED
    BY <2>1, <2>2, <2>4, <2>5 DEF Ordered, COMPLETE, POLLING
<1> QED
  BY <1>4, <1>5, <1>6, <1>7, <1>8, <1>9, <1>10, <1>11, <1>12, <1>13, <1>14 DEF PollShared

(* An executor between polls moves itself only.                            *)
LEMMA ExecutorMoves ==
  ASSUME Typed, NEW t \in Threads, Executor(t)
  PROVE  exec[t] # "poll" /\ \A u \in Threads \ {t} : exec'[u] = exec[u]
<1>0. exec \in [Threads -> Execs]
  BY TypedInGroups DEF ExecTyped
<1>1. exec[t] # "poll"
  BY DEF Executor, Enter, Wait, Park, DrainIncoming, PollPool, PoolYields, Stalled, At
<1>2. \E l : exec' = [exec EXCEPT ![t] = l]
  <2>1. ASSUME NEW a \in {"none", "pending"}, PoolReturns(t, a) PROVE \E l : exec' = [exec EXCEPT ![t] = l]
    BY <2>1, PoolReturnsOther
  <2>2. CASE Enter(t) \/ Wait(t) \/ Park(t) \/ DrainIncoming(t)
    BY <2>2 DEF Enter, Wait, Turn, Park, DrainIncoming, Exec
  <2>3. CASE PollPool(t)
    <3>1. (\E c \in queued \cap Of(t) : Exec(t, "poll")) \/ PoolReturns(t, "none") \/ PoolReturns(t, "pending")
      BY <2>3 DEF PollPool
    <3> QED
      BY <2>1, <3>1 DEF Exec
  <2>4. CASE PoolYields(t)
    BY <2>1, <2>4 DEF PoolYields
  <2>5. CASE Stalled(t)
    <3>1. Goes(t, "wait") \/ Return(t)
      BY <2>5 DEF Stalled
    <3> QED
      BY <3>1, ReturnGoes DEF Goes, Exec
  <2> QED
    BY <2>2, <2>3, <2>4, <2>5 DEF Executor
<1> QED
  BY <1>0, <1>1, <1>2

LEMMA OthersOrdered ==
  ASSUME Typed, Ordered,
         \/ \E t \in Threads : Executor(t) /\ UNCHANGED sharedVars
         \/ \E k \in Callers : Waker(k) /\ UNCHANGED sharedVars
         \/ NotifierWake \/ NotifierDone
  PROVE  Ordered'
<1>1. UNCHANGED <<step, state>>
  BY DEF sharedVars, NotifierWake, NotifierDone
<1>2. SlabGone' = SlabGone
  <2>1. CASE slab' = slab
    BY <2>1 DEF SlabGone
  <2>2. CASE NotifierWake
    BY <2>2, TypedInGroups DEF NotifierWake, SlabGone, CloneTyped
  <2> QED
    BY <2>1, <2>2 DEF sharedVars, NotifierDone
<1>3. \A u \in Threads : step[u] # "load" => exec'[u] = exec[u]
  <2>1. ASSUME NEW t \in Threads, Executor(t) PROVE \A u \in Threads : step[u] # "load" => exec'[u] = exec[u]
    BY <2>1, ExecutorMoves DEF Ordered
  <2>2. ASSUME NEW k \in Callers, Waker(k) PROVE exec' = exec
    BY <2>2 DEF Waker, NextWaker, NotifySwap, Unpark, execVars
  <2>3. NotifierWake \/ NotifierDone => exec' = exec
    BY DEF NotifierWake, NotifierDone, localPoolVars, execVars
  <2> QED
    BY <2>1, <2>2, <2>3
<1> QED
  BY <1>1, <1>2, <1>3 DEF Ordered

------------------------------------------------------------------------------
(* Where the clones are, and what the executors were called for            *)

(* What a poll spawns is new, live and on the same thread.                 *)
LEMMA SpawnedClones ==
  ASSUME Typed, NEW c \in Futs
  PROVE  /\ c \notin Spawned(c)
         /\ \A d \in Spawned(c) : /\ d \in Futs /\ Parent[d] = c /\ Home[d] = Home[c]
                                  /\ d \notin pool \cup incoming \cup main
         /\ \A d \in Futs : Parent[d] = c => d \in pool \cup incoming \cup Spawned(c)
<1>1. Parent[c] # c
  <2>1. {c} \in SUBSET Futs /\ {c} # {}
    OBVIOUS
  <2>2. \E d \in {c} : Parent[d] \notin {c}
    BY <2>1, SpawnAssumption
  <2> QED
    BY <2>2
<1>2. ASSUME NEW d \in Spawned(c)
      PROVE  /\ d \in Futs /\ Parent[d] = c /\ Home[d] = Home[c]
             /\ d \notin pool \cup incoming \cup main
  <2>1. d \in Futs /\ Parent[d] = c /\ d \notin pool \cup incoming
    BY DEF Spawned
  <2>2. Parent[d] # NoFut
    BY <2>1, FutsAssumption
  <2> QED
    BY <2>1, <2>2, SpawnAssumption, MainsAreFuts
<1> QED
  BY <1>1, <1>2 DEF Spawned

LEMMA UnplacedUnchanged ==
  ASSUME Placed, CallsFit, UNCHANGED <<pool, incoming, main, live, exec, cur, op>>
  PROVE  Placed' /\ CallsFit'
  BY DEF Placed, CallsFit, PollStarts, At

LEMMA ReadyPlaced ==
  ASSUME Typed, Placed, CallsFit, NEW t \in Threads, PollStarts(t), Ready(t)
  PROVE  Placed' /\ CallsFit'
<1>0. op \in [Threads -> Ops] /\ exec \in [Threads -> Execs] /\ cur \in [Threads -> Futs \cup {NoFut}]
      /\ live \subseteq Futs
  BY TypedInGroups DEF ExecTyped, CloneTyped
<1>1. PICK c : c = cur[t]
  OBVIOUS
<1>2. c \in live /\ c \in Futs /\ Home[c] = t /\ c \in main \cup pool
  BY <1>1, PolledTyped
<1>3. PICK l \in {"drain", "done", "call"} :
        /\ EndsPoll(t, l)
        /\ \/ op' = [op EXCEPT ![t] = "run"] /\ (c \in main \/ op[t] = "try_run_one")
           \/ op' = op /\ c \notin main /\ l = "drain"
  BY <1>1, ReadyEnds
<1>4. /\ pool' = pool \ {c} /\ incoming' = incoming \cup (Spawned(c) \cap live)
      /\ live' = live \ {c} /\ main' = main
  BY <1>1, <1>3, ReadyEnds DEF EndsPoll
<1>5. exec'[t] = l /\ \A u \in Threads \ {t} : exec'[u] = exec[u] /\ cur'[u] = cur[u]
  BY <1>0, <1>3 DEF EndsPoll
<1>6. Placed'
  <2>1. pool' \cap incoming' = {} /\ main' \cap (pool' \cup incoming') = {}
    BY <1>2, <1>4, SpawnedClones DEF Placed
  <2>2. c \notin incoming /\ c \notin Spawned(c)
    BY <1>2, SpawnedClones DEF Placed
  <2>3. pool' \cup incoming' \subseteq live'
    BY <1>4, <2>2 DEF Placed
  <2>4. \A d \in live' : d \in main' \cup pool' \cup incoming' \/ Parent[d] \in live'
    BY <1>0, <1>2, <1>4, SpawnedClones DEF Placed
  <2>5. ASSUME NEW u \in Threads, PollStarts(u)'
        PROVE  cur'[u] \in live' \cap Of(u) \cap (main' \cup pool')
    <3>1. u # t /\ exec[u] = "poll" /\ cur'[u] = cur[u]
      BY <1>5, <2>5 DEF PollStarts, At
    <3>2. cur[u] \in live \cap Of(u) \cap (main \cup pool)
      BY <3>1 DEF Placed, PollStarts, At
    <3>3. cur[u] # c
      BY <1>2, <3>1, <3>2 DEF Of
    <3> QED
      BY <1>4, <3>1, <3>2, <3>3
  <2>6. \A u \in Threads : PollStarts(u)' => cur'[u] \in live' \cap Of(u) \cap (main' \cup pool')
    BY <2>5
  <2> QED
    BY <2>1, <2>3, <2>4, <2>6 DEF Placed, Of
<1>7. \A u \in Threads : Of(u)' = Of(u)
  BY DEF Of
<1>8. CallsFit'
  <2>1. \A u \in Threads \ {t} : Of(u) \cap main' \cap live' = Of(u) \cap main \cap live
    BY <1>2, <1>4 DEF Of
  <2>2. \A u \in Threads \ {t} : op'[u] = op[u]
    BY <1>0, <1>3
  <2>3. CASE c \in main
    <3>1. Of(t) \cap main' \cap live' = {}
      BY <1>0, <1>2, <1>4, <2>3, MainsAreFuts DEF Of
    <3>2. op'[t] = "run"
      BY <1>0, <1>3, <2>3
    <3> QED
      BY <1>3, <1>4, <1>5, <1>7, <2>1, <2>2, <3>1, <3>2 DEF CallsFit, Blocking, At
  <2>4. CASE c \notin main
    <3>1. Of(t) \cap main' \cap live' = Of(t) \cap main \cap live
      BY <1>4, <2>4
    <3>2. op[t] # "block_on"
      BY <1>2, <2>4 DEF CallsFit, Of
    <3>3. op'[t] = op[t] \/ (op[t] = "try_run_one" /\ op'[t] = "run")
      BY <1>0, <1>3, <2>4
    <3>4. exec[t] # "panicked"
      BY DEF PollStarts, At
    <3> QED
      BY <1>3, <1>4, <1>5, <1>7, <2>1, <2>2, <3>1, <3>2, <3>3, <3>4 DEF CallsFit, Blocking, At
  <2> QED
    BY <2>3, <2>4
<1> QED
  BY <1>6, <1>8

LEMMA PendingPlaced ==
  ASSUME Typed, Placed, CallsFit, NEW t \in Threads, PollStarts(t), IsPending(t)
  PROVE  Placed' /\ CallsFit'
<1>0. op \in [Threads -> Ops] /\ exec \in [Threads -> Execs] /\ cur \in [Threads -> Futs \cup {NoFut}]
      /\ live \subseteq Futs
  BY TypedInGroups DEF ExecTyped, CloneTyped
<1>1. PICK c : c = cur[t]
  OBVIOUS
<1>2. c \in live /\ c \in Futs /\ Home[c] = t /\ c \in main \cup pool
  BY <1>1, PolledTyped
<1>3. PICK l \in {"wait", "drain", "pool", "yield"} :
        EndsPoll(t, l) /\ (op[t] = "block_on" /\ c \in main => l = "wait")
  BY <1>1, PendingEnds
<1>4. /\ incoming' = incoming \cup (Spawned(c) \cap live)
      /\ UNCHANGED <<pool, live, op, main>>
  BY <1>1, <1>3, PendingEnds DEF EndsPoll
<1>5. exec'[t] = l /\ \A u \in Threads \ {t} : exec'[u] = exec[u] /\ cur'[u] = cur[u]
  BY <1>0, <1>3 DEF EndsPoll
<1>6. Placed'
  <2>1. pool' \cap incoming' = {} /\ main' \cap (pool' \cup incoming') = {}
    BY <1>2, <1>4, SpawnedClones DEF Placed
  <2>3. pool' \cup incoming' \subseteq live'
    BY <1>4 DEF Placed
  <2>4. \A d \in live' : d \in main' \cup pool' \cup incoming' \/ Parent[d] \in live'
    BY <1>4 DEF Placed
  <2>5. \A u \in Threads : PollStarts(u)' => cur'[u] \in live' \cap Of(u) \cap (main' \cup pool')
    BY <1>3, <1>4, <1>5 DEF Placed, PollStarts, At
  <2> QED
    BY <2>1, <2>3, <2>4, <2>5 DEF Placed, Of
<1>7. \A u \in Threads : Of(u)' = Of(u)
  BY DEF Of
<1>8. CallsFit'
  <2>1. op[t] = "block_on" => l = "wait"
    BY <1>2, <1>3 DEF CallsFit, Of
  <2>2. exec[t] # "panicked"
    BY DEF PollStarts, At
  <2> QED
    BY <1>3, <1>4, <1>5, <1>7, <2>1, <2>2 DEF CallsFit, At
<1> QED
  BY <1>6, <1>8

LEMMA UnwindPlaced ==
  ASSUME Typed, Placed, CallsFit, NEW t \in Threads, Unwind(t)
  PROVE  Placed' /\ CallsFit'
<1>0. op \in [Threads -> Ops] /\ exec \in [Threads -> Execs] /\ cur \in [Threads -> Futs \cup {NoFut}]
      /\ live \subseteq Futs /\ pool \subseteq Futs /\ incoming \subseteq Futs
  BY TypedInGroups DEF ExecTyped, CloneTyped, PoolTyped
<1>1. /\ pool' = pool \ Of(t) /\ incoming' = incoming \ Of(t) /\ live' = live \ Of(t)
      /\ op' = op /\ main' = main
  BY UnwindEnds DEF EndsPoll
<1>2. exec'[t] = "panicked" /\ \A u \in Threads \ {t} : exec'[u] = exec[u] /\ cur'[u] = cur[u]
  BY <1>0, UnwindEnds DEF EndsPoll
<1>3. \A u \in Threads \ {t} : Of(u) \cap Of(t) = {}
  BY DEF Of
<1>4. \A u \in Threads : Of(u)' = Of(u)
  BY DEF Of
<1>5. \A d \in live' : d \in main' \cup pool' \cup incoming' \/ Parent[d] \in live'
  <2> SUFFICES ASSUME NEW d \in live' PROVE d \in main' \cup pool' \cup incoming' \/ Parent[d] \in live'
    OBVIOUS
  <2>1. d \in live /\ d \in Futs /\ Home[d] # t
    BY <1>0, <1>1 DEF Of
  <2>2. CASE d \in main \cup pool \cup incoming
    BY <1>1, <2>1, <2>2 DEF Of
  <2>3. CASE Parent[d] \in live
    <3>1. Parent[d] # NoFut
      BY <1>0, <2>3, FutsAssumption
    <3>2. Home[Parent[d]] = Home[d]
      BY <2>1, <3>1, SpawnAssumption
    <3> QED
      BY <1>1, <2>1, <2>3, <3>2 DEF Of
  <2> QED
    BY <2>1, <2>2, <2>3 DEF Placed
<1>6. \A u \in Threads : PollStarts(u)' => cur'[u] \in live' \cap Of(u) \cap (main' \cup pool')
  BY <1>1, <1>2, <1>3 DEF Placed, PollStarts, At
<1>7. Placed'
  BY <1>1, <1>4, <1>5, <1>6 DEF Placed
<1>8. CallsFit'
  <2>1. \A u \in Threads \ {t} : Of(u) \cap main' \cap live' = Of(u) \cap main \cap live
    BY <1>1, <1>3
  <2>2. Of(t) \cap main' \cap live' = {}
    BY <1>1
  <2>3. CallsFit!1'
    BY <1>1, <1>2, <1>4, <2>1, <2>2 DEF CallsFit, At
  <2>4. CallsFit!2'
    BY <1>1, <1>2, <1>4, <2>1, <2>2 DEF CallsFit, At
  <2>5. CallsFit!3' /\ CallsFit!4'
    BY <1>1, <1>2, <1>4 DEF CallsFit, At
  <2> QED
    BY <2>3, <2>4, <2>5 DEF CallsFit
<1> QED
  BY <1>7, <1>8

(* block_on and run_until poll their own future.                           *)
LEMMA TurnPolls ==
  ASSUME Typed, CallsFit, NEW t \in Threads, ~At(t, "panicked"), Turn(t)
  PROVE  \/ /\ op[t] \in Blocking /\ exec' = [exec EXCEPT ![t] = "poll"]
            /\ cur' = [cur EXCEPT ![t] = MainOf(t)]
            /\ MainOf(t) \in live \cap Of(t) \cap main
         \/ op[t] \notin Blocking /\ exec' = [exec EXCEPT ![t] = "drain"] /\ cur' = cur
<1>1. CASE op[t] \in Blocking
  <2>1. PICK c \in Of(t) \cap main \cap live : TRUE
    BY <1>1 DEF CallsFit
  <2>2. MainOf(t) = c
    BY <2>1, MainsAreFuts DEF Of
  <2> QED
    BY <1>1, <2>1, <2>2 DEF Turn, Exec, Blocking
<1>2. CASE op[t] \notin Blocking
  BY <1>2 DEF Turn, Exec, Blocking
<1> QED
  BY <1>1, <1>2

(* What an executor step may come to, for the calls and the clones.        *)
LEMMA ExecutorPlaced ==
  ASSUME Typed, Placed, CallsFit, NEW t \in Threads, Executor(t), live' = live
  PROVE  Placed' /\ CallsFit'
<1>0. /\ op \in [Threads -> Ops] /\ exec \in [Threads -> Execs]
      /\ cur \in [Threads -> Futs \cup {NoFut}] /\ queued \subseteq pool
  BY TypedInGroups DEF ExecTyped, PoolTyped
<1>1. main' = main
  BY DEF Executor, Enter, Wait, Park, DrainIncoming, PollPool, PoolYields, Stalled
<1>2. \A u \in Threads : Of(u)' = Of(u)
  BY DEF Of
<1>3. exec[t] \notin {"poll", "panicked"}
  BY DEF Executor, Enter, Wait, Park, DrainIncoming, PollPool, PoolYields, Stalled, At
<1>4. ASSUME NEW l \in Execs, exec' = [exec EXCEPT ![t] = l], op' = op, l # "panicked",
             op[t] = "block_on" => l \in {"call", "poll", "wait", "park"},
             l = "stalled" => op[t] \in {"try_run_one", "run_until_stalled"}
      PROVE  CallsFit'
  BY <1>0, <1>1, <1>2, <1>3, <1>4 DEF CallsFit, At
<1>5. ASSUME NEW l \in {"done", "call"}, exec' = [exec EXCEPT ![t] = l],
             op' = [op EXCEPT ![t] = "run"], op[t] \notin Blocking
      PROVE  CallsFit'
  BY <1>0, <1>1, <1>2, <1>3, <1>5 DEF CallsFit, At, Blocking
<1>6. ASSUME UNCHANGED <<pool, incoming, cur>>, exec'[t] # "poll" PROVE Placed'
  <2>1. \A u \in Threads : exec'[u] = "poll" => exec[u] = "poll"
    BY <1>6, ExecutorMoves
  <2> QED
    BY <1>1, <1>2, <1>6, <2>1 DEF Placed, PollStarts, At
<1>7. ASSUME UNCHANGED <<pool, incoming>>,
             NEW c \in live \cap Of(t) \cap (main \cup pool), cur' = [cur EXCEPT ![t] = c]
      PROVE  Placed'
  <2>1. \A u \in Threads \ {t} : exec'[u] = exec[u] /\ cur'[u] = cur[u]
    BY <1>0, <1>7, ExecutorMoves
  <2>2. cur'[t] = c
    BY <1>0, <1>7
  <2>3. \A u \in Threads : PollStarts(u)' => cur'[u] \in live' \cap Of(u) \cap (main' \cup pool')
    BY <1>1, <1>7, <2>1, <2>2 DEF Placed, PollStarts, At
  <2> QED
    BY <1>1, <1>2, <1>7, <2>3 DEF Placed
<1>8. ASSUME Turn(t), UNCHANGED <<pool, incoming, op>>, exec[t] \in {"call", "wait"}
      PROVE  Placed' /\ CallsFit'
  <2>1. \/ /\ op[t] \in Blocking /\ exec' = [exec EXCEPT ![t] = "poll"]
           /\ cur' = [cur EXCEPT ![t] = MainOf(t)]
           /\ MainOf(t) \in live \cap Of(t) \cap main
        \/ op[t] \notin Blocking /\ exec' = [exec EXCEPT ![t] = "drain"] /\ cur' = cur
    BY <1>3, <1>8, TurnPolls DEF At
  <2>2. CASE op[t] \in Blocking
    <3>1. PICK c \in live \cap Of(t) \cap (main \cup pool) : cur' = [cur EXCEPT ![t] = c]
      BY <2>1, <2>2
    <3> QED
      BY <1>4, <1>7, <1>8, <2>1, <2>2, <3>1 DEF Execs
  <2>3. CASE op[t] \notin Blocking
    BY <1>0, <1>4, <1>6, <1>8, <2>1, <2>3 DEF Execs, Blocking
  <2> QED
    BY <2>2, <2>3
<1>9. ASSUME NEW a \in {"none", "pending"}, PoolReturns(t, a), exec[t] \in {"pool", "yield"}
      PROVE  CallsFit' /\ exec'[t] # "poll"
  <2>1. op[t] # "block_on"
    BY <1>9 DEF CallsFit
  <2> QED
    BY <1>0, <1>4, <1>5, <1>9, <2>1, PoolReturnsOther DEF Execs, Blocking
<1>10. CASE Enter(t)
  BY <1>8, <1>10 DEF Enter, At, poolVars
<1>11. CASE Wait(t)
  <2>1. exec[t] = "wait" /\ UNCHANGED <<pool, incoming, op>>
    BY <1>11 DEF Wait, At, poolVars
  <2>2. CASE unparked[t]
    BY <1>8, <1>11, <2>1, <2>2 DEF Wait
  <2>3. CASE ~unparked[t]
    <3>1. exec' = [exec EXCEPT ![t] = "park"] /\ cur' = cur
      BY <1>11, <2>3 DEF Wait, Exec
    <3> QED
      BY <1>0, <1>4, <1>6, <2>1, <3>1 DEF Execs
  <2> QED
    BY <2>2, <2>3
<1>12. CASE Park(t)
  <2>1. exec' = [exec EXCEPT ![t] = "wait"] /\ UNCHANGED <<pool, incoming, op, cur>>
    BY <1>12 DEF Park, Exec, poolVars
  <2> QED
    BY <1>0, <1>4, <1>6, <2>1 DEF Execs
<1>13. CASE DrainIncoming(t)
  <2>1. /\ exec[t] = "drain" /\ exec' = [exec EXCEPT ![t] = "pool"] /\ UNCHANGED <<op, cur>>
        /\ pool' = pool \cup (incoming \cap Of(t)) /\ incoming' = incoming \ Of(t)
    BY <1>13 DEF DrainIncoming, Exec, At
  <2>2. op[t] # "block_on"
    BY <2>1 DEF CallsFit
  <2>3. CallsFit'
    BY <1>4, <2>1, <2>2 DEF Execs
  <2>4. \A u \in Threads : PollStarts(u)' => cur'[u] \in live' \cap Of(u) \cap (main' \cup pool')
    BY <1>0, <1>1, <2>1 DEF Placed, PollStarts, At
  <2>5. Placed'
    BY <1>1, <1>2, <2>1, <2>4 DEF Placed
  <2> QED
    BY <2>3, <2>5
<1>14. CASE PollPool(t)
  <2>0. exec[t] = "pool"
    BY <1>14 DEF PollPool, At
  <2>1. ASSUME NEW c \in queued \cap Of(t), cur' = [cur EXCEPT ![t] = c], Exec(t, "poll"),
               UNCHANGED <<pool, incoming, op>>
        PROVE  Placed' /\ CallsFit'
    <3>1. c \in live \cap Of(t) \cap (main \cup pool)
      BY <1>0 DEF Placed
    <3> QED
      BY <1>4, <1>7, <2>1, <3>1 DEF Exec, Execs
  <2>2. ASSUME UNCHANGED <<poolVars, cur>>, NEW a \in {"none", "pending"}, PoolReturns(t, a)
        PROVE  Placed' /\ CallsFit'
    BY <1>6, <1>9, <2>0, <2>2 DEF poolVars
  <2> QED
    BY <1>14, <2>1, <2>2 DEF PollPool
<1>15. CASE PoolYields(t)
  <2>1. exec[t] = "yield" /\ UNCHANGED <<pool, incoming, cur>> /\ PoolReturns(t, "pending")
    BY <1>15 DEF PoolYields, At, poolVars
  <2> QED
    BY <1>6, <1>9, <2>1
<1>16. CASE Stalled(t)
  <2>1. exec[t] = "stalled" /\ UNCHANGED <<pool, incoming, cur>> /\ (Goes(t, "wait") \/ Return(t))
    BY <1>16 DEF Stalled, At, poolVars
  <2>2. op[t] \notin Blocking
    BY <2>1 DEF CallsFit, At, Blocking
  <2>3. CASE Goes(t, "wait")
    BY <1>0, <1>4, <1>6, <2>1, <2>3 DEF Goes, Exec, Execs
  <2>4. CASE Return(t)
    BY <1>0, <1>5, <1>6, <2>1, <2>2, <2>4, ReturnGoes
  <2> QED
    BY <2>1, <2>3, <2>4
<1> QED
  BY <1>10, <1>11, <1>12, <1>13, <1>14, <1>15, <1>16 DEF Executor

LEMMA StepPlaced ==
  ASSUME Typed, Ordered, Placed, CallsFit,
         \/ \E t \in Threads : PollShared(t) \/ (Executor(t) /\ UNCHANGED sharedVars)
         \/ \E k \in Callers : Waker(k) /\ UNCHANGED sharedVars
         \/ NotifierWake \/ NotifierDone
  PROVE  Placed' /\ CallsFit'
<1>1. ASSUME NEW t \in Threads, PollShared(t) PROVE Placed' /\ CallsFit'
  <2>1. PollStarts(t) /\ (Resumes(t) \/ DrainWakers(t) \/ Unwind(t))
    BY <1>1, ResumesOrNot
  <2>2. ASSUME NEW l, Continues(t, l) PROVE Placed' /\ CallsFit'
    BY <2>2, UnplacedUnchanged DEF Continues, localPoolVars, poolVars, execVars
  <2>3. CASE DrainWakers(t)
    BY <2>3, UnplacedUnchanged DEF DrainWakers, poolVars, execVars
  <2> QED
    BY <2>1, <2>2, <2>3, ReadyPlaced, PendingPlaced, UnwindPlaced DEF Resumes
<1>2. ASSUME NEW t \in Threads, Executor(t), UNCHANGED sharedVars PROVE Placed' /\ CallsFit'
  BY <1>2, ExecutorPlaced DEF sharedVars
<1>3. ASSUME NEW k \in Callers, Waker(k), UNCHANGED sharedVars PROVE Placed' /\ CallsFit'
  BY <1>3, UnplacedUnchanged DEF sharedVars, Waker, NextWaker, NotifySwap, Unpark, poolVars, execVars
<1>4. CASE NotifierWake \/ NotifierDone
  BY <1>4, UnplacedUnchanged DEF NotifierWake, NotifierDone, localPoolVars, poolVars, execVars
<1> QED
  BY <1>1, <1>2, <1>3, <1>4

------------------------------------------------------------------------------
(* Executors that sleep                                                    *)

Rests(t) ==
  exec[t] \in {"wait", "park", "stalled"} =>
    /\ incoming \cap Of(t) = {}
    /\ unparked[t] \/ \A c \in queued \cap Of(t) : BeingWoken(c)

LEMMA SleepingInParts == Sleeping <=> \A t \in Threads : Rests(t) /\ ParkedRightly(t)
  BY DEF Sleeping, Rests

(* A step of one thread that calls no waker does not disturb the others.   *)
LEMMA SleepingElsewhere ==
  ASSUME Sleeping, NEW t \in Threads, waking' = waking,
         \A u \in Threads \ {t} :
           /\ exec'[u] = exec[u] /\ unparked'[u] = unparked[u] /\ token'[u] = token[u]
           /\ incoming' \cap Of(u) \subseteq incoming /\ queued' \cap Of(u) \subseteq queued,
         Rests(t)', ParkedRightly(t)'
  PROVE  Sleeping'
<1>1. \A c : BeingWoken(c)' = BeingWoken(c)
  BY DEF BeingWoken, AtStep
<1>2. ASSUME NEW u \in Threads \ {t} PROVE Rests(u)'
  <2>1. /\ exec'[u] = exec[u] /\ unparked'[u] = unparked[u]
        /\ incoming' \cap Of(u) \subseteq incoming /\ queued' \cap Of(u) \subseteq queued
    OBVIOUS
  <2>2. Rests(u)
    BY SleepingInParts
  <2>3. Of(u)' = Of(u)
    BY DEF Of
  <2> QED
    BY <1>1, <2>1, <2>2, <2>3 DEF Rests
<1>3. ASSUME NEW u \in Threads \ {t} PROVE ParkedRightly(u)'
  <2>1. exec'[u] = exec[u] /\ unparked'[u] = unparked[u] /\ token'[u] = token[u]
    OBVIOUS
  <2>2. ParkedRightly(u)
    BY SleepingInParts
  <2> QED
    BY <2>1, <2>2 DEF ParkedRightly, Parked, At, AtStep, Target
<1>4. \A u \in Threads : Rests(u)' /\ ParkedRightly(u)'
  BY <1>2, <1>3
<1>5. Sleeping' <=> \A u \in Threads : Rests(u)' /\ ParkedRightly(u)'
  BY DEF Sleeping, Rests
<1> QED
  BY <1>4, <1>5

LEMMA SleepingUnchanged ==
  ASSUME Sleeping, UNCHANGED <<exec, incoming, queued, unparked, token, waking>>
  PROVE  Sleeping'
<1>1. /\ \A t \in Threads : Of(t)' = Of(t)
      /\ \A c : BeingWoken(c)' = BeingWoken(c)
      /\ \A t \in Threads : ParkedRightly(t)' = ParkedRightly(t)
  BY DEF Of, BeingWoken, ParkedRightly, Parked, At, AtStep, Target
<1> QED
  BY <1>1 DEF Sleeping

LEMMA EndsSleeping ==
  ASSUME Typed, Placed, Placed', CallsFit, Sleeping, NEW t \in Threads, PollStarts(t),
         Ready(t) \/ IsPending(t)
  PROVE  Sleeping'
<1>0. exec \in [Threads -> Execs] /\ queued \subseteq pool
  BY TypedInGroups DEF ExecTyped, PoolTyped
<1>1. PICK c : c = cur[t]
  OBVIOUS
<1>2. c \in Futs /\ Home[c] = t
  BY <1>1, PolledTyped
<1>3. PICK l \in Execs : /\ EndsPoll(t, l)
                         /\ l \in {"wait", "drain", "pool", "yield", "done", "call"}
                         /\ l = "wait" => op[t] = "block_on"
  BY ReadyEnds, PendingEnds DEF Execs
<1>4. /\ incoming' = incoming \cup (Spawned(c) \cap live) /\ queued' \subseteq queued
  BY <1>1, ReadyEnds, PendingEnds
<1>5. exec'[t] = l /\ \A u \in Threads \ {t} : exec'[u] = exec[u]
  BY <1>0, <1>3 DEF EndsPoll
<1>6. UNCHANGED <<unparked, token, waking, main>>
  BY <1>3 DEF EndsPoll
<1>7. \A u \in Threads \ {t} : incoming' \cap Of(u) \subseteq incoming /\ queued' \cap Of(u) \subseteq queued
  BY <1>2, <1>4, SpawnedClones DEF Of
<1>8. Rests(t)'
  <2>1. CASE l = "wait"
    <3>1. Of(t) \subseteq main
      BY <1>3, <2>1 DEF CallsFit
    <3>2. incoming' \cap Of(t) = {}
      BY <1>6, <3>1 DEF Placed
    <3>3. queued' \cap Of(t) = {}
      BY <1>0, <1>4, <3>1 DEF Placed
    <3>4. Of(t)' = Of(t)
      BY DEF Of
    <3> QED
      BY <3>2, <3>3, <3>4 DEF Rests
  <2>2. CASE l # "wait"
    BY <1>3, <1>5, <2>2 DEF Rests
  <2> QED
    BY <2>1, <2>2
<1>9. ParkedRightly(t)'
  BY <1>3, <1>5 DEF ParkedRightly, Parked, At
<1> QED
  BY <1>5, <1>6, <1>7, <1>8, <1>9, SleepingElsewhere

LEMMA UnwindSleeping ==
  ASSUME Typed, Sleeping, NEW t \in Threads, Unwind(t)
  PROVE  Sleeping'
<1>0. exec \in [Threads -> Execs]
  BY TypedInGroups DEF ExecTyped
<1>1. /\ exec'[t] = "panicked" /\ \A u \in Threads \ {t} : exec'[u] = exec[u]
      /\ UNCHANGED <<unparked, token, waking>>
  BY <1>0, UnwindEnds DEF EndsPoll
<1>2. queued' \subseteq queued /\ incoming' \subseteq incoming
  BY UnwindEnds
<1>3. Rests(t)' /\ ParkedRightly(t)'
  BY <1>1 DEF Rests, ParkedRightly, Parked, At
<1> QED
  BY <1>1, <1>2, <1>3, SleepingElsewhere

LEMMA ExecutorSleeping ==
  ASSUME Typed, CallsFit, Sleeping, NEW t \in Threads, Executor(t)
  PROVE  Sleeping'
<1>0. /\ exec \in [Threads -> Execs] /\ unparked \in [Threads -> BOOLEAN]
      /\ token \in [Threads -> BOOLEAN]
  BY TypedInGroups DEF ExecTyped, NotifyTyped
<1>1. \A u \in Threads \ {t} : exec'[u] = exec[u]
  BY ExecutorMoves
<1>2. waking' = waking
  BY DEF Executor, Enter, Wait, Park, DrainIncoming, PollPool, PoolYields, Stalled, wakeVars
<1>3. \A u \in Threads \ {t} : unparked'[u] = unparked[u] /\ token'[u] = token[u]
  BY <1>0 DEF Executor, Enter, Wait, Park, DrainIncoming, PollPool, PoolYields, Stalled, notifyVars
<1>4. \A u \in Threads \ {t} : incoming' \cap Of(u) \subseteq incoming /\ queued' \cap Of(u) \subseteq queued
  BY DEF Executor, Enter, Wait, Park, DrainIncoming, PollPool, PoolYields, Stalled, poolVars, Of
<1>5. ASSUME exec'[t] \notin {"wait", "park", "stalled"} PROVE Rests(t)' /\ ParkedRightly(t)'
  BY <1>5 DEF Rests, ParkedRightly, Parked, At
<1>6. Of(t)' = Of(t) /\ \A c : BeingWoken(c)' = BeingWoken(c)
  BY <1>2 DEF Of, BeingWoken, AtStep
<1>7. ASSUME Turn(t) PROVE exec'[t] \notin {"wait", "park", "stalled"}
  BY <1>0, <1>7 DEF Turn, Exec
<1>8. ASSUME NEW a \in {"none", "pending"}, PoolReturns(t, a)
      PROVE  exec'[t] # "park" /\ (exec'[t] \in {"wait", "stalled"} => incoming' \cap Of(t) = {})
  BY <1>0, <1>8, PoolReturnsOther
<1>9. Rests(t)
  BY SleepingInParts
<1>10. Rests(t)' /\ ParkedRightly(t)'
  <2>1. CASE Enter(t)
    BY <1>5, <1>7, <2>1 DEF Enter
  <2>2. CASE Wait(t)
    <3>1. CASE unparked[t]
      BY <1>5, <1>7, <2>2, <3>1 DEF Wait
    <3>2. CASE ~unparked[t]
      <4>1. /\ exec[t] = "wait" /\ UNCHANGED <<incoming, queued>> /\ unparked'[t] = FALSE
        BY <1>0, <2>2 DEF Wait, At, poolVars
      <4> QED
        BY <1>6, <1>9, <3>2, <4>1 DEF Rests, ParkedRightly
    <3> QED
      BY <3>1, <3>2
  <2>3. CASE Park(t)
    <3>1. /\ exec[t] = "park" /\ exec'[t] = "wait" /\ UNCHANGED <<incoming, queued, unparked>>
      BY <1>0, <2>3 DEF Park, Exec, At, poolVars
    <3> QED
      BY <1>6, <1>9, <3>1 DEF Rests, ParkedRightly, Parked, At
  <2>4. CASE DrainIncoming(t)
    BY <1>0, <1>5, <2>4 DEF DrainIncoming, Exec
  <2>5. CASE PollPool(t)
    <3>1. ASSUME NEW c \in queued \cap Of(t), Exec(t, "poll") PROVE Rests(t)' /\ ParkedRightly(t)'
      BY <1>0, <1>5, <3>1 DEF Exec
    <3>2. ASSUME queued \cap Of(t) = {}, UNCHANGED poolVars, NEW a \in {"none", "pending"},
                 PoolReturns(t, a)
          PROVE  Rests(t)' /\ ParkedRightly(t)'
      BY <1>6, <1>8, <3>2 DEF poolVars, Rests, ParkedRightly, Parked, At
    <3> QED
      BY <2>5, <3>1, <3>2 DEF PollPool
  <2>6. CASE PoolYields(t)
    <3>1. unparked'[t] = TRUE /\ PoolReturns(t, "pending")
      BY <1>0, <2>6 DEF PoolYields
    <3> QED
      BY <1>6, <1>8, <3>1 DEF Rests, ParkedRightly, Parked, At
  <2>7. CASE Stalled(t)
    <3>1. exec[t] = "stalled" /\ UNCHANGED <<incoming, queued, unparked>>
      BY <2>7 DEF Stalled, At, poolVars, notifyVars
    <3>2. exec'[t] \in {"wait", "done", "call"}
      <4>1. CASE Goes(t, "wait")
        BY <1>0, <4>1 DEF Goes, Exec
      <4>2. CASE Return(t)
        BY <1>0, <4>2, ReturnGoes
      <4> QED
        BY <2>7, <4>1, <4>2 DEF Stalled
    <3> QED
      BY <1>6, <1>9, <3>1, <3>2 DEF Rests, ParkedRightly, Parked, At
  <2> QED
    BY <2>1, <2>2, <2>3, <2>4, <2>5, <2>6, <2>7 DEF Executor
<1> QED
  BY <1>1, <1>2, <1>3, <1>4, <1>10, SleepingElsewhere

(* A call of a waker, and what the others are doing meanwhile.             *)
LEMMA WakerSleeping ==
  ASSUME Typed, Sleeping, NEW k \in Callers, Waker(k)
  PROVE  Sleeping'
<1>0. /\ waking \in [Callers -> [step : {"none", "swap", "unpark"}, fut : Futs \cup {NoFut}]]
      /\ ~AtStep(k, "none") => waking[k].fut \in Futs
      /\ unparked \in [Threads -> BOOLEAN] /\ token \in [Threads -> BOOLEAN]
      /\ pool \subseteq Futs
  BY TypedInGroups DEF WakeTyped, NotifyTyped, PoolTyped
<1>1. exec' = exec /\ incoming' = incoming /\ \A u \in Threads : Of(u)' = Of(u)
  BY DEF Waker, NextWaker, NotifySwap, Unpark, poolVars, execVars, Of
<1>2. \A j \in Callers \ {k} : waking'[j] = waking[j]
  BY <1>0 DEF Waker, NextWaker, NotifySwap, Unpark, Waking
<1>3. ~AtStep(k, "none") => Target(k) \in Threads
  BY <1>0, FutsAssumption DEF Target
<1>4. ASSUME NEW u \in Threads PROVE Rests(u)' /\ ParkedRightly(u)'
  <2>0. Rests(u) /\ ParkedRightly(u)
    BY SleepingInParts
  <2>1. CASE NextWaker(k)
    <3>1. PICK c \in wakes[k] :
            /\ IF c \in main \/ c \in pool \ queued THEN Waking(k, "swap", c) ELSE UNCHANGED waking
            /\ queued' = queued \cup ({c} \cap pool)
      BY <2>1 DEF NextWaker
    <3>2. AtStep(k, "none") /\ UNCHANGED <<unparked, token>>
      BY <2>1 DEF NextWaker, notifyVars
    <3>3. ASSUME NEW d, BeingWoken(d) PROVE BeingWoken(d)'
      BY <1>2, <3>2, <3>3 DEF BeingWoken, AtStep
    <3>4. ASSUME NEW d \in queued', d \notin queued PROVE BeingWoken(d)'
      <4>1. waking'[k] = [step |-> "swap", fut |-> d]
        BY <1>0, <3>1, <3>4 DEF Waking
      <4> QED
        BY <4>1 DEF BeingWoken, AtStep
    <3>5. Rests(u)'
      BY <1>1, <2>0, <3>2, <3>3, <3>4 DEF Rests
    <3>6. ParkedRightly(u)'
      BY <1>1, <1>2, <2>0, <3>2 DEF ParkedRightly, Parked, At, AtStep, Target
    <3> QED
      BY <3>5, <3>6
  <2>2. CASE NotifySwap(k)
    <3>1. PICK v \in Threads : v = Target(k)
      BY <1>3, <2>2 DEF NotifySwap, AtStep
    <3>2. /\ AtStep(k, "swap") /\ unparked' = [unparked EXCEPT ![v] = TRUE]
          /\ UNCHANGED <<queued, token>>
          /\ ~unparked[v] => waking'[k] = [step |-> "unpark", fut |-> waking[k].fut]
      BY <1>0, <2>2, <3>1 DEF NotifySwap, poolVars, Waking
    <3>3. CASE u = v
      <4>1. unparked'[u] = TRUE
        BY <1>0, <3>2, <3>3
      <4>2. Rests(u)'
        BY <1>1, <2>0, <4>1 DEF Rests
      <4>3. CASE unparked[v]
        <5>1. Parked(u)' => Parked(u)
          BY <1>1, <3>2 DEF Parked, At
        <5>2. Parked(u) => \E j \in Callers \ {k} : AtStep(j, "unpark") /\ Target(j) = u
          BY <2>0, <3>2, <3>3, <4>3 DEF ParkedRightly, AtStep
        <5>3. \A j \in Callers \ {k} : AtStep(j, "unpark")' = AtStep(j, "unpark") /\ Target(j)' = Target(j)
          BY <1>2 DEF AtStep, Target
        <5> QED
          BY <4>2, <5>1, <5>2, <5>3 DEF ParkedRightly
      <4>4. CASE ~unparked[v]
        <5>1. waking'[k].step = "unpark" /\ Home[waking'[k].fut] = v
          BY <3>1, <3>2, <4>4 DEF Target
        <5> QED
          BY <3>3, <4>2, <5>1 DEF ParkedRightly, AtStep, Target
      <4> QED
        BY <4>2, <4>3, <4>4
    <3>4. CASE u # v
      <4>1. unparked'[u] = unparked[u]
        BY <1>0, <3>2, <3>4
      <4>2. ASSUME NEW d \in Of(u), BeingWoken(d) PROVE BeingWoken(d)'
        BY <1>2, <3>1, <3>2, <3>4, <4>2 DEF BeingWoken, AtStep, Target, Of
      <4>3. Rests(u)'
        BY <1>1, <2>0, <3>2, <4>1, <4>2 DEF Rests
      <4>4. ParkedRightly(u)'
        BY <1>1, <1>2, <2>0, <3>2, <4>1 DEF ParkedRightly, Parked, At, AtStep, Target
      <4> QED
        BY <4>3, <4>4
    <3> QED
      BY <3>3, <3>4
  <2>3. CASE Unpark(k)
    <3>1. PICK v \in Threads : v = Target(k)
      BY <1>3, <2>3 DEF Unpark, AtStep
    <3>2. /\ AtStep(k, "unpark") /\ token' = [token EXCEPT ![v] = TRUE]
          /\ UNCHANGED <<queued, unparked>>
      BY <2>3, <3>1 DEF Unpark, poolVars
    <3>3. ASSUME NEW d, BeingWoken(d) PROVE BeingWoken(d)'
      BY <1>2, <3>2, <3>3 DEF BeingWoken, AtStep
    <3>4. Rests(u)'
      BY <1>1, <2>0, <3>2, <3>3 DEF Rests
    <3>5. CASE u = v
      <4>1. token'[u] = TRUE
        BY <1>0, <3>2, <3>5
      <4> QED
        BY <3>4, <4>1 DEF ParkedRightly, Parked
    <3>6. CASE u # v
      <4>1. token'[u] = token[u]
        BY <1>0, <3>2, <3>6
      <4>2. ParkedRightly(u)'
        BY <1>1, <1>2, <2>0, <3>1, <3>2, <3>6, <4>1 DEF ParkedRightly, Parked, At, AtStep, Target
      <4> QED
        BY <3>4, <4>2
    <3> QED
      BY <3>5, <3>6
  <2> QED
    BY <2>1, <2>2, <2>3 DEF Waker
<1>5. Sleeping' <=> \A u \in Threads : Rests(u)' /\ ParkedRightly(u)'
  BY DEF Sleeping, Rests
<1> QED
  BY <1>4, <1>5

LEMMA StepSleeping ==
  ASSUME Typed, Placed, Placed', CallsFit, Sleeping,
         \/ \E t \in Threads : PollShared(t) \/ Executor(t)
         \/ \E k \in Callers : Waker(k)
         \/ NotifierWake \/ NotifierDone
  PROVE  Sleeping'
<1>1. ASSUME NEW t \in Threads, PollShared(t) PROVE Sleeping'
  <2>1. PollStarts(t) /\ (Resumes(t) \/ DrainWakers(t) \/ Unwind(t))
    BY <1>1, ResumesOrNot
  <2>2. ASSUME NEW l, Continues(t, l) PROVE Sleeping'
    BY <2>2, SleepingUnchanged DEF Continues, localPoolVars, poolVars, execVars, notifyVars, wakeVars
  <2>3. CASE DrainWakers(t)
    BY <2>3, SleepingUnchanged DEF DrainWakers, poolVars, execVars, notifyVars
  <2> QED
    BY <2>1, <2>2, <2>3, EndsSleeping, UnwindSleeping DEF Resumes
<1>2. CASE NotifierWake \/ NotifierDone
  BY <1>2, SleepingUnchanged DEF NotifierWake, NotifierDone, localPoolVars, poolVars, execVars,
     notifyVars, wakeVars
<1> QED
  BY <1>1, <1>2, ExecutorSleeping, WakerSleeping


------------------------------------------------------------------------------
(* Wake-ups: who has been notified stays notified until it is polled.      *)

LEMMA NotifiedByContinue ==
  ASSUME UNCHANGED localPoolVars, NEW c, Notified(c)
  PROVE  Notified(c)'
  BY DEF Notified, WillWake, AtStep, Target, localPoolVars, poolVars, execVars, notifyVars, wakeVars

LEMMA NotifiedByEnd ==
  ASSUME Typed, NEW t \in Threads, PollStarts(t), Ready(t) \/ IsPending(t),
         NEW c \in live', Notified(c)
  PROVE  Notified(c)'
<1>1. PICK l \in Execs : EndsPoll(t, l)
  BY ReadyEnds, PendingEnds DEF Execs
<1>2. UNCHANGED <<main, unparked, wakes, waking>> /\ exec' = [exec EXCEPT ![t] = l]
  BY <1>1 DEF EndsPoll
<1>3. \A u : WillWake(u)' = WillWake(u)
  BY <1>2 DEF WillWake, AtStep, Target
<1>4. exec[Home[c]] = "call" => exec'[Home[c]] = "call"
  BY <1>2 DEF PollStarts, At
<1>5. c \in queued \cup incoming => c \in queued' \cup incoming'
  BY ReadyEnds, PendingEnds
<1> QED
  BY <1>2, <1>3, <1>4, <1>5 DEF Notified

LEMMA NotifiedByExecutor ==
  ASSUME Typed, Ordered, Placed, CallsFit, NEW t \in Threads, Executor(t), UNCHANGED sharedVars,
         NEW c \in live, Notified(c)
  PROVE  Notified(c)' \/ PolledAt(c, {"load"})'
<1>0. /\ op \in [Threads -> Ops] /\ exec \in [Threads -> Execs] /\ c \in Futs
      /\ cur \in [Threads -> Futs \cup {NoFut}] /\ unparked \in [Threads -> BOOLEAN]
      /\ Home[c] \in Threads
  BY TypedInGroups, FutsAssumption DEF ExecTyped, NotifyTyped, CloneTyped
<1>1. /\ UNCHANGED <<main, wakes, waking, step>> /\ exec[t] # "poll" /\ step[t] = "load"
  BY ExecutorMoves DEF Executor, Enter, Wait, Park, DrainIncoming, PollPool, PoolYields, Stalled,
     wakeVars, sharedVars, Ordered
<1>2. CASE \E k \in Callers : c \in wakes[k]
  BY <1>1, <1>2 DEF Notified
<1>3. ASSUME Home[c] = t, exec' = [exec EXCEPT ![t] = "poll"], cur' = [cur EXCEPT ![t] = c]
      PROVE  PolledAt(c, {"load"})'
  BY <1>0, <1>1, <1>3 DEF PolledAt, PollStarts, At
<1>4. CASE c \in queued \cup incoming
  <2>1. CASE DrainIncoming(t)
    BY <1>4, <2>1 DEF DrainIncoming, Notified, Of
  <2>2. CASE UNCHANGED <<queued, incoming>>
    BY <1>4, <2>2 DEF Notified
  <2>3. ASSUME NEW d \in queued \cap Of(t), queued' = queued \ {d}, cur' = [cur EXCEPT ![t] = d],
               Exec(t, "poll"), incoming' = incoming
        PROVE  Notified(c)' \/ PolledAt(c, {"load"})'
    <3>1. CASE c = d
      BY <1>3, <2>3, <3>1 DEF Of, Exec
    <3>2. CASE c # d
      BY <1>4, <2>3, <3>2 DEF Notified
    <3> QED
      BY <3>1, <3>2
  <2>4. CASE PollPool(t)
    BY <2>2, <2>3, <2>4 DEF PollPool, poolVars
  <2> QED
    BY <2>1, <2>2, <2>4 DEF Executor, Enter, Wait, Park, PoolYields, Stalled, poolVars
<1>5. CASE c \in main /\ (exec[Home[c]] = "call" \/ WillWake(Home[c]))
  <2>1. ASSUME Turn(t), Home[c] = t, exec[t] \in {"call", "wait"} PROVE PolledAt(c, {"load"})'
    <3>1. c \in Of(t) \cap main \cap live
      BY <1>0, <1>5, <2>1 DEF Of
    <3>2. op[t] \in Blocking /\ MainOf(t) = c
      BY <1>5, <2>1, <3>1, MainsAreFuts DEF CallsFit
    <3> QED
      BY <1>3, <2>1, <3>2 DEF Turn, Exec, Blocking
  <2>2. CASE exec[Home[c]] = "call"
    <3>1. CASE Home[c] = t
      <4>1. Enter(t)
        BY <2>2, <3>1 DEF Executor, Wait, Park, DrainIncoming, PollPool, PoolYields, Stalled, At
      <4> QED
        BY <2>1, <2>2, <3>1, <4>1 DEF Enter
    <3>2. CASE Home[c] # t
      <4>1. exec'[Home[c]] = "call"
        BY <1>0, <2>2, <3>2, ExecutorMoves
      <4> QED
        BY <1>1, <1>5, <4>1 DEF Notified
    <3> QED
      BY <3>1, <3>2
  <2>3. CASE \E k \in Callers : AtStep(k, "swap") /\ Target(k) = Home[c]
    BY <1>1, <1>5, <2>3 DEF Notified, WillWake, AtStep, Target
  <2>4. CASE unparked[Home[c]]
    <3>1. CASE unparked'[Home[c]]
      BY <1>1, <1>5, <3>1 DEF Notified, WillWake
    <3>2. CASE ~unparked'[Home[c]]
      <4>1. Wait(t) /\ Home[c] = t
        BY <1>0, <2>4, <3>2 DEF Executor, Enter, Wait, Park, DrainIncoming, PollPool, PoolYields, Stalled, notifyVars
      <4>2. Turn(t) /\ exec[t] = "wait"
        BY <2>4, <4>1 DEF Wait, At
      <4> QED
        BY <2>1, <4>1, <4>2
    <3> QED
      BY <3>1, <3>2
  <2> QED
    BY <1>5, <2>2, <2>3, <2>4 DEF WillWake
<1> QED
  BY <1>2, <1>4, <1>5 DEF Notified

LEMMA NotifiedByWaker ==
  ASSUME Typed, NEW k \in Callers, Waker(k), NEW c \in main \cup pool \cup incoming, Notified(c)
  PROVE  Notified(c)'
<1>0. /\ waking \in [Callers -> [step : {"none", "swap", "unpark"}, fut : Futs \cup {NoFut}]]
      /\ ~AtStep(k, "none") => waking[k].fut \in Futs
      /\ wakes \in [Callers -> SUBSET Futs] /\ unparked \in [Threads -> BOOLEAN]
  BY TypedInGroups DEF WakeTyped, NotifyTyped
<1>1. UNCHANGED <<main, pool, incoming, exec>> /\ queued \subseteq queued'
  BY DEF Waker, NextWaker, NotifySwap, Unpark, poolVars, execVars
<1>2. \A j \in Callers \ {k} : waking'[j] = waking[j] /\ wakes'[j] = wakes[j]
  BY <1>0 DEF Waker, NextWaker, NotifySwap, Unpark, Waking
<1>3. CASE \E j \in Callers : c \in wakes[j]
  <2>1. PICK j \in Callers : c \in wakes[j]
    BY <1>3
  <2>2. CASE c \in wakes'[j]
    BY <2>1, <2>2 DEF Notified
  <2>3. CASE c \notin wakes'[j]
    <3>1. j = k /\ NextWaker(k)
      BY <1>2, <2>1, <2>3 DEF Waker, NotifySwap, Unpark
    <3>2. PICK d \in wakes[k] :
            /\ wakes' = [wakes EXCEPT ![k] = @ \ {d}]
            /\ IF d \in main \/ d \in pool \ queued THEN Waking(k, "swap", d) ELSE UNCHANGED waking
            /\ queued' = queued \cup ({d} \cap pool)
      BY <3>1 DEF NextWaker
    <3>3. d = c
      BY <1>0, <2>1, <2>3, <3>1, <3>2
    <3>4. CASE c \in pool
      BY <3>2, <3>3, <3>4 DEF Notified
    <3>5. CASE c \in incoming
      BY <1>1, <3>5 DEF Notified
    <3>6. CASE c \in main
      <4>1. waking'[k] = [step |-> "swap", fut |-> c]
        BY <1>0, <3>2, <3>3, <3>6 DEF Waking
      <4> QED
        BY <1>1, <3>6, <4>1 DEF Notified, WillWake, AtStep, Target
    <3> QED
      BY <3>4, <3>5, <3>6
  <2> QED
    BY <2>2, <2>3
<1>4. CASE c \in queued \cup incoming
  BY <1>1, <1>4 DEF Notified
<1>5. CASE c \in main /\ exec[Home[c]] = "call"
  BY <1>1, <1>5 DEF Notified
<1>6. CASE c \in main /\ WillWake(Home[c])
  <2>1. \A u \in Threads : unparked[u] => unparked'[u]
    BY <1>0 DEF Waker, NextWaker, NotifySwap, Unpark, notifyVars
  <2>2. Home[c] \in Threads
    BY <1>6, MainsAreFuts, FutsAssumption
  <2>3. CASE unparked[Home[c]]
    BY <1>1, <1>6, <2>1, <2>2, <2>3 DEF Notified, WillWake
  <2>4. ASSUME NEW j \in Callers, AtStep(j, "swap"), Target(j) = Home[c] PROVE Notified(c)'
    <3>1. CASE j # k
      BY <1>1, <1>2, <1>6, <2>4, <3>1 DEF Notified, WillWake, AtStep, Target
    <3>2. CASE j = k
      <4>1. NotifySwap(k)
        BY <2>4, <3>2 DEF Waker, NextWaker, Unpark, AtStep
      <4>2. unparked'[Home[c]] = TRUE
        BY <1>0, <2>2, <2>4, <3>2, <4>1 DEF NotifySwap
      <4> QED
        BY <1>1, <1>6, <4>2 DEF Notified, WillWake
    <3> QED
      BY <3>1, <3>2
  <2> QED
    BY <1>6, <2>3, <2>4 DEF WillWake
<1> QED
  BY <1>3, <1>4, <1>5, <1>6 DEF Notified

LEMMA NotifiedByNotifier ==
  ASSUME Typed, NotifierWake, wakes[Env] = {}, NEW c \in Futs, Notified(c) \/ slab[c] = "waker"
  PROVE  Notified(c)'
<1>0. wakes \in [Callers -> SUBSET Futs] /\ Env \in Callers
  BY TypedInGroups DEF WakeTyped, Callers
<1>1. /\ UNCHANGED <<queued, incoming, main, exec, unparked, waking>>
      /\ wakes' = [wakes EXCEPT ![Env] = Wakers]
  BY DEF NotifierWake, poolVars, execVars, notifyVars
<1>2. CASE slab[c] = "waker"
  <2>1. c \in wakes'[Env]
    BY <1>0, <1>1, <1>2 DEF Wakers
  <2> QED
    BY <1>0, <2>1 DEF Notified
<1>3. CASE Notified(c)
  <2>1. \A k \in Callers : c \in wakes[k] => c \in wakes'[k]
    BY <1>0, <1>1
  <2>2. \A u : WillWake(u)' = WillWake(u)
    BY <1>1 DEF WillWake, AtStep, Target
  <2> QED
    BY <1>1, <1>3, <2>1, <2>2 DEF Notified
<1> QED
  BY <1>2, <1>3

------------------------------------------------------------------------------
(* Every clone is attended to                                              *)

LEMMA AttendedByContinue ==
  ASSUME Typed, Placed, Attended, NEW t \in Threads, PollStarts(t), NEW l, Continues(t, l),
         Open' => Open, lock' = lock,
         step[t] \in {"load", "record"} => l \in {"load", "record"} \/ (Open' => slab'[cur[t]] = "waker"),
         \A c \in Futs : slab[c] = "waker" => slab'[c] = "waker"
  PROVE  Attended'
<1> SUFFICES ASSUME Open' PROVE Attended'
  BY DEF Attended, Open
<1>0. step \in [Threads -> Steps] /\ live \subseteq Futs
  BY TypedInGroups DEF CloneTyped
<1>1. UNCHANGED localPoolVars /\ live' = live /\ step' = [step EXCEPT ![t] = l]
  BY DEF Continues, Step
<1>2. UNCHANGED <<main, pool, incoming, exec, cur, wakes>>
  BY <1>1 DEF localPoolVars, poolVars, execVars, wakeVars
<1>3. ASSUME NEW c \in live \cap (main \cup pool \cup incoming) PROVE InReach(c)'
  <2>1. InReach(c)
    BY DEF Attended
  <2>2. CASE slab[c] = "waker"
    BY <1>0, <2>2 DEF InReach
  <2>3. CASE Notified(c)
    BY <1>1, <2>3, NotifiedByContinue DEF InReach
  <2>4. CASE PolledAt(c, {"load", "record"})
    <3>1. Home[c] = t => cur[t] = c /\ step[t] \in {"load", "record"}
      BY <2>4 DEF PolledAt
    <3>2. c \in Futs /\ Home[c] \in Threads
      BY <1>0, FutsAssumption
    <3>3. CASE Home[c] = t
      BY <1>0, <1>1, <1>2, <2>4, <3>1, <3>3 DEF InReach, PolledAt, PollStarts, At
    <3>4. CASE Home[c] # t
      BY <1>0, <1>1, <1>2, <2>4, <3>2, <3>4 DEF InReach, PolledAt, PollStarts, At
    <3> QED
      BY <3>3, <3>4
  <2> QED
    BY <2>1, <2>2, <2>3, <2>4 DEF InReach
<1>4. Attended' <=> (Open' => /\ \A c \in live' \cap (main' \cup pool' \cup incoming') : InReach(c)'
                              /\ wakes'[Env] # {} => lock' = Env)
  BY DEF Attended
<1>5. wakes'[Env] # {} => lock' = Env
  BY <1>2 DEF Attended
<1> QED
  BY <1>1, <1>2, <1>3, <1>4, <1>5

LEMMA AttendedByEnd ==
  ASSUME Typed, Placed, Attended, NEW t \in Threads, PollStarts(t),
         Ready(t) \/ (IsPending(t) /\ step[t] \notin {"load", "record"}),
         Open' => Open /\ lock' = lock,
         \A c \in live' : slab[c] = "waker" => slab'[c] = "waker"
  PROVE  Attended'
<1> SUFFICES ASSUME Open' PROVE Attended'
  BY DEF Attended, Open
<1>0. /\ step \in [Threads -> Steps] /\ live \subseteq Futs /\ exec \in [Threads -> Execs]
      /\ cur \in [Threads -> Futs \cup {NoFut}]
  BY TypedInGroups DEF CloneTyped, ExecTyped
<1>1. PICK b : b = cur[t]
  OBVIOUS
<1>2. b \in Futs /\ Home[b] = t
  BY <1>1, PolledTyped
<1>3. PICK l \in Execs : EndsPoll(t, l)
  BY ReadyEnds, PendingEnds DEF Execs
<1>4. /\ main' = main /\ wakes' = wakes
      /\ \A u \in Threads \ {t} : exec'[u] = exec[u] /\ cur'[u] = cur[u] /\ step'[u] = step[u]
  BY <1>0, <1>3 DEF EndsPoll
<1>5. /\ pool' \subseteq pool /\ incoming' = incoming \cup (Spawned(b) \cap live)
      /\ live' \subseteq live
  BY <1>1, ReadyEnds, PendingEnds
<1>6. ASSUME NEW c \in live' \cap (main' \cup pool' \cup incoming') PROVE InReach(c)'
  <2>1. CASE c \in incoming'
    BY <2>1 DEF InReach, Notified
  <2>2. CASE c \in main \cup pool
    <3>1. InReach(c) /\ c \in Futs /\ Home[c] \in Threads
      BY <1>0, <1>5, <2>2, FutsAssumption DEF Attended
    <3>2. CASE slab[c] = "waker"
      BY <3>2 DEF InReach
    <3>3. CASE Notified(c)
      BY <3>3, NotifiedByEnd DEF InReach
    <3>4. CASE PolledAt(c, {"load", "record"})
      <4>1. Home[c] # t
        <5>1. CASE Ready(t)
          <6>1. c # b
            BY <1>1, <5>1, ReadyEnds
          <6> QED
            BY <1>1, <3>4, <6>1 DEF PolledAt
        <5>2. CASE step[t] \notin {"load", "record"}
          BY <3>4, <5>2 DEF PolledAt
        <5> QED
          BY <5>1, <5>2
      <4> QED
        BY <1>4, <3>1, <3>4, <4>1 DEF InReach, PolledAt, PollStarts, At
    <3> QED
      BY <3>1, <3>2, <3>3, <3>4 DEF InReach
  <2> QED
    BY <1>4, <1>5, <2>1, <2>2
<1>7. Attended' <=> (Open' => /\ \A c \in live' \cap (main' \cup pool' \cup incoming') : InReach(c)'
                              /\ wakes'[Env] # {} => lock' = Env)
  BY DEF Attended
<1>8. wakes'[Env] # {} => lock' = Env
  BY <1>4 DEF Attended
<1> QED
  BY <1>6, <1>7, <1>8

LEMMA PollSharedAttended ==
  ASSUME Typed, Ordered, Placed, Attended, NEW t \in Threads, PollShared(t)
  PROVE  Attended'
<1>0. /\ slab \in [Futs -> {"none", "waker", "taken", "gone"}]
      /\ state \in {IDLE, POLLING, COMPLETE, POISONED}
  BY TypedInGroups DEF CloneTyped
<1>1. PollStarts(t) => cur[t] \in Futs
  BY PolledTyped
<1>2. ASSUME ~Open' PROVE Attended'
  BY <1>2 DEF Attended, Open
<1>3. ASSUME slab' = slab PROVE \A c : slab[c] = "waker" => slab'[c] = "waker"
  BY <1>3
<1>4. CASE Load(t)
  <2>1. UNCHANGED <<state, slab, lock>> /\ PollStarts(t)
    BY <1>4 DEF Load, Polling
  <2>2. CASE state = COMPLETE
    BY <1>2, <2>1, <2>2 DEF Open, COMPLETE, IDLE, POLLING
  <2>3. CASE state # COMPLETE
    BY <1>3, <1>4, <2>1, <2>3, AttendedByContinue DEF Load, Open
  <2> QED
    BY <2>2, <2>3
<1>5. CASE RecordWaker(t)
  <2>1. UNCHANGED <<state, lock>> /\ PollStarts(t) /\ Continues(t, "cas")
    BY <1>5 DEF RecordWaker, Polling
  <2>2. Open => ~SlabGone
    BY DEF Open, Ordered, IDLE, POLLING, COMPLETE
  <2>3. Open' => slab'[cur[t]] = "waker"
    BY <1>0, <1>1, <1>5, <2>1, <2>2 DEF RecordWaker, Open
  <2>4. \A c \in Futs : slab[c] = "waker" => slab'[c] = "waker"
    BY <1>0, <1>5 DEF RecordWaker
  <2> QED
    BY <2>1, <2>3, <2>4, AttendedByContinue DEF Open
<1>6. CASE CompareExchange(t)
  <2>1. UNCHANGED <<slab, lock>> /\ PollStarts(t) /\ step[t] = "cas"
    BY <1>6 DEF CompareExchange, Polling
  <2>2. CASE state = IDLE
    <3>1. Continues(t, "inner")
      BY <1>6, <2>2 DEF CompareExchange, Locks, IDLE, POLLING, COMPLETE, POISONED
    <3> QED
      BY <1>3, <2>1, <2>2, <3>1, AttendedByContinue DEF Open
  <2>3. CASE state = POLLING
    <3>1. state' = state /\ IsPending(t)
      BY <1>6, <2>3 DEF CompareExchange, Locks, IDLE, POLLING, COMPLETE, POISONED
    <3> QED
      BY <1>3, <2>1, <3>1, AttendedByEnd DEF Open
  <2>4. CASE state \in {COMPLETE, POISONED}
    <3>1. state' = state
      BY <1>6, <2>4 DEF CompareExchange, Locks, IDLE, POLLING, COMPLETE, POISONED
    <3> QED
      BY <1>2, <2>4, <3>1 DEF Open, IDLE, POLLING, COMPLETE, POISONED
  <2> QED
    BY <1>0, <2>2, <2>3, <2>4
<1>7. CASE InnerPoll(t) \/ InnerPends(t) \/ InnerReady(t)
  <2>1. UNCHANGED <<slab, lock, state>> /\ PollStarts(t) /\ step[t] \in {"inner", "answer"}
    BY <1>7 DEF InnerPoll, InnerPends, InnerReady, Polling
  <2>2. PICK l \in Steps : Continues(t, l)
    BY <1>7 DEF InnerPoll, InnerPends, InnerReady, Steps
  <2> QED
    BY <1>3, <2>1, <2>2, AttendedByContinue DEF Open
<1>8. CASE InnerPanics(t) \/ Write(t)
  BY <1>2, <1>8 DEF InnerPanics, Write, Reset, Open, IDLE, POLLING, COMPLETE, POISONED
<1>9. CASE Release(t)
  <2>1. UNCHANGED <<slab, lock>> /\ PollStarts(t) /\ step[t] = "release" /\ IsPending(t)
    BY <1>9 DEF Release, Polling
  <2>2. Open
    BY <2>1 DEF Ordered, InnerSteps, Open
  <2> QED
    BY <1>3, <2>1, <2>2, AttendedByEnd
<1>10. CASE DrainWakers(t) \/ Unlock(t)
  <2>1. step[t] \in {"drain", "unlock"} /\ state' = state
    BY <1>10 DEF DrainWakers, Unlock, Polling
  <2> QED
    BY <1>2, <2>1 DEF Ordered, Open, IDLE, POLLING, COMPLETE
<1>11. CASE Unwind(t)
  <2>1. step[t] = "unwind" /\ state' = state
    BY <1>11, UnwindEnds
  <2> QED
    BY <1>2, <2>1 DEF Ordered, Open, IDLE, POLLING, POISONED
<1>12. CASE Drop(t)
  <2>1. UNCHANGED <<state, lock>> /\ PollStarts(t) /\ Ready(t)
    BY <1>12 DEF Drop, Polling
  <2>2. live' = live \ {cur[t]}
    BY <2>1 DEF Ready
  <2>3. \A c \in live' : slab[c] = "waker" => slab'[c] = "waker"
    BY <1>0, <1>12, <2>2 DEF Drop
  <2> QED
    BY <2>1, <2>3, AttendedByEnd DEF Open
<1> QED
  BY <1>4, <1>5, <1>6, <1>7, <1>8, <1>9, <1>10, <1>11, <1>12 DEF PollShared

(* A step of an executor leaves a poll on another thread alone.            *)
LEMMA PolledByOthers ==
  ASSUME Typed, NEW t \in Threads, Executor(t), step' = step, NEW c \in Futs, NEW S,
         PolledAt(c, S)
  PROVE  PolledAt(c, S)' /\ cur'[Home[c]] = cur[Home[c]]
<1>1. exec[t] # "poll" /\ \A u \in Threads \ {t} : exec'[u] = exec[u]
  BY ExecutorMoves
<1>2. \A u \in Threads \ {t} : cur'[u] = cur[u]
  <2>1. cur \in [Threads -> Futs \cup {NoFut}]
    BY TypedInGroups DEF ExecTyped
  <2> QED
    BY <2>1 DEF Executor, Enter, Wait, Turn, Park, DrainIncoming, PollPool, PoolYields, Stalled
<1>3. Home[c] \in Threads \ {t}
  BY <1>1, FutsAssumption DEF PolledAt, PollStarts, At
<1> QED
  BY <1>1, <1>2, <1>3 DEF PolledAt, PollStarts, At

LEMMA OthersAttended ==
  ASSUME Typed, Ordered, Placed, CallsFit, Attended,
         \/ \E t \in Threads : Executor(t) /\ UNCHANGED sharedVars
         \/ \E k \in Callers : Waker(k) /\ UNCHANGED sharedVars
         \/ NotifierWake \/ NotifierDone
  PROVE  Attended'
<1>0. live \subseteq Futs /\ wakes \in [Callers -> SUBSET Futs] /\ Env \in Callers
  BY TypedInGroups DEF CloneTyped, WakeTyped, Callers
<1>1. state' = state /\ live' = live
  BY DEF sharedVars, NotifierWake, NotifierDone
<1> SUFFICES ASSUME Open PROVE Attended'
  BY <1>1 DEF Attended, Open
<1>2. Attended' <=> (Open' => /\ \A c \in live' \cap (main' \cup pool' \cup incoming') : InReach(c)'
                              /\ wakes'[Env] # {} => lock' = Env)
  BY DEF Attended
<1>3. /\ \A c \in live \cap (main \cup pool \cup incoming) : InReach(c)
      /\ wakes[Env] # {} => lock = Env
  BY DEF Attended
<1>4. ASSUME NEW t \in Threads, Executor(t), UNCHANGED sharedVars PROVE Attended'
  <2>1. UNCHANGED <<slab, lock, step, main, wakes>>
    BY <1>4 DEF sharedVars, Executor, Enter, Wait, Park, DrainIncoming, PollPool, PoolYields,
       Stalled, wakeVars
  <2>2. pool' \cup incoming' = pool \cup incoming
    BY <1>4 DEF Executor, Enter, Wait, Park, DrainIncoming, PollPool, PoolYields, Stalled, poolVars
  <2>3. ASSUME NEW c \in live \cap (main \cup pool \cup incoming) PROVE InReach(c)'
    <3>1. c \in Futs /\ InReach(c)
      BY <1>0, <1>3
    <3>2. CASE Notified(c)
      <4>1. Notified(c)' \/ PolledAt(c, {"load"})'
        BY <1>4, <3>2, NotifiedByExecutor
      <4> QED
        BY <4>1 DEF InReach, PolledAt
    <3>3. CASE PolledAt(c, {"load", "record"})
      BY <1>4, <2>1, <3>1, <3>3, PolledByOthers DEF InReach
    <3> QED
      BY <2>1, <3>1, <3>2, <3>3 DEF InReach
  <2> QED
    BY <1>1, <1>2, <1>3, <2>1, <2>2, <2>3
<1>5. ASSUME NEW k \in Callers, Waker(k), UNCHANGED sharedVars PROVE Attended'
  <2>1. UNCHANGED <<slab, lock, step, main, pool, incoming, exec, cur>>
    BY <1>5 DEF sharedVars, Waker, NextWaker, NotifySwap, Unpark, poolVars, execVars
  <2>2. wakes'[Env] # {} => wakes[Env] # {}
    BY <1>0, <1>5 DEF Waker, NextWaker, NotifySwap, Unpark
  <2>3. ASSUME NEW c \in live \cap (main \cup pool \cup incoming) PROVE InReach(c)'
    <3>1. Notified(c) => Notified(c)'
      BY <1>5, NotifiedByWaker
    <3>2. PolledAt(c, {"load", "record"}) => PolledAt(c, {"load", "record"})'
      BY <2>1 DEF PolledAt, PollStarts, At
    <3> QED
      BY <1>3, <2>1, <3>1, <3>2 DEF InReach
  <2> QED
    BY <1>1, <1>2, <1>3, <2>1, <2>2, <2>3
<1>6. CASE NotifierWake
  <2>1. UNCHANGED <<step, main, pool, incoming, exec, cur>> /\ lock = NoFut /\ lock' = Env
    BY <1>6 DEF NotifierWake, poolVars, execVars
  <2>2. wakes[Env] = {}
    BY <1>0, <1>3, <2>1, FutsAssumption
  <2>3. ASSUME NEW c \in live \cap (main \cup pool \cup incoming) PROVE InReach(c)'
    <3>1. c \in Futs
      BY <1>0
    <3>2. CASE slab[c] = "waker" \/ Notified(c)
      BY <1>6, <2>2, <3>1, <3>2, NotifiedByNotifier DEF InReach
    <3>3. PolledAt(c, {"load", "record"}) => PolledAt(c, {"load", "record"})'
      BY <2>1 DEF PolledAt, PollStarts, At
    <3> QED
      BY <1>3, <3>2, <3>3 DEF InReach
  <2> QED
    BY <1>1, <1>2, <2>1, <2>3
<1>7. CASE NotifierDone
  <2>1. UNCHANGED localPoolVars /\ UNCHANGED <<slab, step>> /\ wakes[Env] = {}
    BY <1>7 DEF NotifierDone, HasWoken
  <2>2. UNCHANGED <<main, pool, incoming, exec, cur, wakes>>
    BY <2>1 DEF localPoolVars, poolVars, execVars, wakeVars
  <2>3. ASSUME NEW c \in live \cap (main \cup pool \cup incoming) PROVE InReach(c)'
    <3>1. Notified(c) => Notified(c)'
      BY <2>1, NotifiedByContinue
    <3>2. PolledAt(c, {"load", "record"}) => PolledAt(c, {"load", "record"})'
      BY <2>1, <2>2 DEF PolledAt, PollStarts, At
    <3> QED
      BY <1>3, <2>1, <3>1, <3>2 DEF InReach
  <2> QED
    BY <1>1, <1>2, <2>1, <2>2, <2>3
<1> QED
  BY <1>4, <1>5, <1>6, <1>7

------------------------------------------------------------------------------
(* A call of the Notifier is not lost                                      *)

(* Nobody has the inner future once it is done.                            *)
LEMMA SignalledWhenDone ==
  ASSUME Ordered', ~Open'
  PROVE  Signalled'
<1>1. state' # IDLE /\ state' # POLLING
  BY DEF Open
<1>2. \A t \in Threads : step'[t] \notin InnerSteps
  BY <1>1 DEF Ordered
<1>3. PollerTold' /\ AllTold'
  BY <1>1 DEF PollerTold, AllTold
<1>4. PollingTold'
  BY <1>2 DEF PollingTold, InnerSteps
<1> QED
  BY <1>3, <1>4 DEF Signalled

(* A clone that another thread polls.                                      *)
LEMMA PolledElsewhere ==
  ASSUME Typed, NEW t \in Threads, NEW c \in Futs, NEW S, PolledAt(c, S), Home[c] # t,
         \A u \in Threads \ {t} : exec'[u] = exec[u] /\ cur'[u] = cur[u] /\ step'[u] = step[u]
  PROVE  PolledAt(c, S)'
<1>1. Home[c] \in Threads \ {t}
  BY FutsAssumption
<1> QED
  BY <1>1 DEF PolledAt, PollStarts, At

LEMMA SignalledByContinue ==
  ASSUME Typed, Placed, Signalled, NEW t \in Threads, PollStarts(t), NEW l \in Steps, Continues(t, l),
         UNCHANGED <<signal, abandoned, state>>,
         step[t] \in {"load", "record", "cas"} => l \in {"load", "record", "cas"},
         step[t] # "cas",
         l \in {"answer", "release"} => step[t] \in {"answer", "release"},
         \A c \in Futs \ {cur[t]} : slab'[c] = slab[c],
         slab'[cur[t]] = slab[cur[t]] \/ l = "cas"
  PROVE  Signalled'
<1> SUFFICES ASSUME signal.woken, ~abandoned PROVE Signalled'
  BY DEF Signalled
<1>0. step \in [Threads -> Steps] /\ live \subseteq Futs
      /\ PollerTold /\ AllTold /\ PollingTold
  BY TypedInGroups DEF CloneTyped, Signalled
<1>1. UNCHANGED localPoolVars /\ live' = live /\ step' = [step EXCEPT ![t] = l]
  BY DEF Continues, Step
<1>2. UNCHANGED <<main, pool, incoming, exec, cur>>
  BY <1>1 DEF localPoolVars, poolVars, execVars
<1>3. \A c : Notified(c) => Notified(c)'
  BY <1>1, NotifiedByContinue
<1>4. cur[t] \in Futs /\ Home[cur[t]] = t
  BY PolledTyped
<1>5. \A u \in Threads \ {t} : exec'[u] = exec[u] /\ cur'[u] = cur[u] /\ step'[u] = step[u]
  BY <1>0, <1>1, <1>2
<1>6. PollerTold'
  <2> SUFFICES ASSUME state = IDLE, signal.by # NoFut PROVE PollerTold'
    BY DEF PollerTold
  <2>1. PICK c : c = signal.by
    OBVIOUS
  <2>2. /\ c \in live \cap (main \cup pool \cup incoming) /\ c \in Futs
        /\ Notified(c) \/ PolledAt(c, {"load", "record", "cas"})
    BY <1>0, <2>1 DEF PollerTold
  <2>3. Notified(c)' \/ PolledAt(c, {"load", "record", "cas"})'
    <3>1. CASE Notified(c)
      BY <1>3, <3>1
    <3>2. CASE PolledAt(c, {"load", "record", "cas"}) /\ Home[c] = t
      BY <1>0, <1>1, <1>2, <3>2 DEF PolledAt, PollStarts, At
    <3>3. CASE PolledAt(c, {"load", "record", "cas"}) /\ Home[c] # t
      BY <1>5, <2>2, <3>3, PolledElsewhere
    <3> QED
      BY <2>2, <3>1, <3>2, <3>3
  <2> QED
    BY <1>1, <1>2, <2>1, <2>2, <2>3 DEF PollerTold
<1>7. AllTold'
  <2> SUFFICES ASSUME state = IDLE, signal.by = NoFut, NEW c \in live, slab'[c] = "waker"
               PROVE  PolledAt(c, {"cas"})'
    BY <1>1 DEF AllTold
  <2>0. c \in Futs
    BY <1>0
  <2>1. CASE c = cur[t] /\ l = "cas"
    BY <1>0, <1>1, <1>2, <1>4, <2>1 DEF PolledAt, PollStarts, At
  <2>2. CASE slab[c] = "waker"
    <3>1. PolledAt(c, {"cas"})
      BY <1>0, <2>2 DEF AllTold
    <3>2. Home[c] # t
      BY <3>1 DEF PolledAt
    <3> QED
      BY <1>5, <2>0, <3>1, <3>2, PolledElsewhere
  <2> QED
    BY <2>0, <2>1, <2>2
<1>8. PollingTold'
  BY <1>0, <1>1, <1>2, <1>3 DEF PollingTold
<1> QED
  BY <1>6, <1>7, <1>8 DEF Signalled

(* The end of a poll that leaves the state word alone.                     *)
LEMMA SignalledByEnd ==
  ASSUME Typed, Ordered, Placed, Placed', Signalled, NEW t \in Threads, PollStarts(t), Ready(t) \/ IsPending(t),
         UNCHANGED <<signal, state>>, abandoned => abandoned',
         Ready(t) => abandoned' \/ signal.by # cur[t] \/ ~signal.woken,
         IsPending(t) => state # IDLE /\ slab' = slab,
         \A c \in live' : slab'[c] = slab[c]
  PROVE  Signalled'
<1> SUFFICES ASSUME signal.woken, ~abandoned' PROVE Signalled'
  BY DEF Signalled
<1>0. /\ step \in [Threads -> Steps] /\ live \subseteq Futs
      /\ exec \in [Threads -> Execs] /\ cur \in [Threads -> Futs \cup {NoFut}]
      /\ PollerTold /\ AllTold /\ PollingTold
  BY TypedInGroups DEF CloneTyped, ExecTyped, Signalled
<1>1. PICK b : b = cur[t]
  OBVIOUS
<1>2. b \in Futs /\ Home[b] = t
  BY <1>1, PolledTyped
<1>3. PICK l \in Execs : EndsPoll(t, l)
  BY ReadyEnds, PendingEnds DEF Execs
<1>4. /\ main' = main /\ step'[t] = "load"
      /\ \A u \in Threads \ {t} : exec'[u] = exec[u] /\ cur'[u] = cur[u] /\ step'[u] = step[u]
  BY <1>0, <1>3 DEF EndsPoll
<1>5. /\ incoming \subseteq incoming' /\ live' \subseteq live
      /\ Ready(t) => live' = live \ {b} /\ pool' = pool \ {b}
  BY <1>1, ReadyEnds, PendingEnds
<1>6. \A c \in live' : Notified(c) => Notified(c)'
  BY NotifiedByEnd
<1>7. PollerTold'
  <2> SUFFICES ASSUME state = IDLE, signal.by # NoFut PROVE PollerTold'
    BY DEF PollerTold
  <2>1. PICK c : c = signal.by
    OBVIOUS
  <2>2. /\ c \in live \cap (main \cup pool \cup incoming) /\ c \in Futs
        /\ Notified(c) \/ PolledAt(c, {"load", "record", "cas"})
    BY <1>0, <2>1 DEF PollerTold
  <2>3. Ready(t) /\ c # b
    BY <1>1, <2>1
  <2>4. c \in live' \cap (main' \cup pool' \cup incoming')
    BY <1>4, <1>5, <2>2, <2>3
  <2>5. Home[c] = t => ~PolledAt(c, {"load", "record", "cas"})
    BY <1>1, <2>3 DEF PolledAt
  <2>6. Notified(c)' \/ PolledAt(c, {"load", "record", "cas"})'
    BY <1>4, <1>6, <2>2, <2>4, <2>5, PolledElsewhere
  <2> QED
    BY <2>1, <2>4, <2>6 DEF PollerTold
<1>8. AllTold'
  <2> SUFFICES ASSUME state = IDLE, signal.by = NoFut, NEW c \in live', slab'[c] = "waker"
               PROVE  PolledAt(c, {"cas"})'
    BY DEF AllTold
  <2>1. Ready(t) /\ c # b /\ c \in Futs
    BY <1>0, <1>5
  <2>2. PolledAt(c, {"cas"})
    BY <1>0, <1>5 DEF AllTold
  <2>3. Home[c] # t
    BY <1>1, <2>1, <2>2 DEF PolledAt
  <2> QED
    BY <1>4, <2>1, <2>2, <2>3, PolledElsewhere
<1>9. PollingTold'
  <2>1. PollingTold' <=> \A u \in Threads : step'[u] \in {"answer", "release"} =>
                                           signal'.by = cur'[u] /\ Notified(cur[u])'
    BY DEF PollingTold
  <2>2. ASSUME NEW u \in Threads, step'[u] \in {"answer", "release"}
        PROVE  signal'.by = cur'[u] /\ Notified(cur[u])'
    <3>1. u # t /\ cur'[u] = cur[u] /\ step[u] \in {"answer", "release"} /\ exec'[u] = exec[u]
      BY <1>4, <2>2
    <3>2. signal.by = cur[u] /\ Notified(cur[u])
      BY <1>0, <3>1 DEF PollingTold
    <3>3. PICK c : c = cur[u]
      OBVIOUS
    <3>4. c \in live'
      BY <3>1, <3>3 DEF Ordered, Placed, PollStarts, At
    <3>5. Notified(c)'
      BY <1>6, <3>2, <3>3, <3>4
    <3>6. Notified(c)' = Notified(cur[u])'
      BY <3>1, <3>3 DEF Notified
    <3> QED
      BY <3>1, <3>2, <3>5, <3>6
  <2> QED
    BY <2>1, <2>2
<1> QED
  BY <1>7, <1>8, <1>9 DEF Signalled

LEMMA PollSharedSignalled ==
  ASSUME Typed, Ordered, Ordered', Placed, Placed', Signalled, NEW t \in Threads, PollShared(t)
  PROVE  Signalled'
<1>0. /\ slab \in [Futs -> {"none", "waker", "taken", "gone"}] /\ live \subseteq Futs
      /\ state \in {IDLE, POLLING, COMPLETE, POISONED} /\ step \in [Threads -> Steps]
      /\ cur \in [Threads -> Futs \cup {NoFut}]
  BY TypedInGroups DEF CloneTyped, ExecTyped
<1>1. PollStarts(t) => cur[t] \in Futs /\ Home[cur[t]] = t /\ cur[t] \in live \cap (main \cup pool)
  BY PolledTyped
<1>2. ASSUME ~Open' PROVE Signalled'
  BY <1>2, SignalledWhenDone
<1>3. CASE Load(t)
  <2>1. UNCHANGED <<state, slab, signal, abandoned>> /\ PollStarts(t) /\ step[t] = "load"
    BY <1>3 DEF Load, Polling, signalVars
  <2>2. CASE state = COMPLETE
    BY <1>2, <2>1, <2>2 DEF Open, COMPLETE, IDLE, POLLING
  <2>3. CASE state # COMPLETE
    <3>1. Continues(t, "record") /\ "record" \in Steps
      BY <1>3, <2>3 DEF Load, Steps
    <3> QED
      BY <2>1, <3>1, SignalledByContinue
  <2> QED
    BY <2>2, <2>3
<1>4. CASE RecordWaker(t)
  <2>1. /\ UNCHANGED <<state, signal, abandoned>> /\ PollStarts(t) /\ step[t] = "record"
        /\ Continues(t, "cas") /\ "cas" \in Steps
    BY <1>4 DEF RecordWaker, Polling, signalVars, Steps
  <2>2. \A c \in Futs \ {cur[t]} : slab'[c] = slab[c]
    BY <1>0, <1>4 DEF RecordWaker
  <2> QED
    BY <2>1, <2>2, SignalledByContinue
<1>5. CASE CompareExchange(t)
  <2>1. UNCHANGED <<slab, signal, abandoned>> /\ PollStarts(t) /\ step[t] = "cas"
    BY <1>5 DEF CompareExchange, Polling, signalVars
  <2>2. CASE state = IDLE
    <3>1. state' = POLLING /\ Continues(t, "inner")
      BY <1>5, <2>2 DEF CompareExchange, Locks, IDLE, POLLING, COMPLETE, POISONED
    <3>2. PollerTold' /\ AllTold'
      BY <3>1 DEF PollerTold, AllTold, IDLE, POLLING
    <3>3. \A u \in Threads : step'[u] \notin {"answer", "release"}
      BY <1>0, <2>2, <3>1 DEF Ordered, InnerSteps, Continues, Step, IDLE, POLLING
    <3> QED
      BY <3>2, <3>3 DEF Signalled, PollingTold
  <2>3. CASE state = POLLING
    <3>1. state' = state /\ IsPending(t)
      BY <1>5, <2>3 DEF CompareExchange, Locks, IDLE, POLLING, COMPLETE, POISONED
    <3>2. state # IDLE /\ ~Ready(t)
      <4>1. live' = live
        BY <3>1, PendingEnds
      <4> QED
        BY <1>1, <2>1, <2>3, <4>1 DEF Ready, IDLE, POLLING
    <3> QED
      BY <2>1, <3>1, <3>2, SignalledByEnd
  <2>4. CASE state \in {COMPLETE, POISONED}
    <3>1. state' = state
      BY <1>5, <2>4 DEF CompareExchange, Locks, IDLE, POLLING, COMPLETE, POISONED
    <3> QED
      BY <1>2, <2>4, <3>1 DEF Open, IDLE, POLLING, COMPLETE, POISONED
  <2> QED
    BY <1>0, <2>2, <2>3, <2>4
<1>6. CASE InnerPoll(t)
  BY <1>6 DEF InnerPoll, Signalled, NoSignal
<1>7. CASE InnerPends(t) \/ InnerReady(t)
  <2>1. UNCHANGED <<slab, signal, abandoned, state>> /\ PollStarts(t) /\ step[t] = "answer"
    BY <1>7 DEF InnerPends, InnerReady, Polling, signalVars
  <2>2. PICK l \in {"release", "write"} : Continues(t, l)
    BY <1>7 DEF InnerPends, InnerReady
  <2>3. l \in Steps
    BY DEF Steps
  <2> QED
    BY <2>1, <2>2, <2>3, SignalledByContinue
<1>8. CASE InnerPanics(t) \/ Write(t)
  BY <1>2, <1>8 DEF InnerPanics, Write, Reset, Open, IDLE, POLLING, COMPLETE, POISONED
<1>9. CASE Release(t)
  <2> SUFFICES ASSUME signal.woken, ~abandoned PROVE Signalled'
    BY <1>9 DEF Release, signalVars, Signalled
  <2>1. /\ UNCHANGED <<slab, signal, abandoned>> /\ PollStarts(t) /\ step[t] = "release"
        /\ IsPending(t) /\ state' = IDLE
    BY <1>9 DEF Release, Polling, signalVars
  <2>2. PICK b : b = cur[t]
    OBVIOUS
  <2>3. signal.by = b /\ Notified(b) /\ b \in live \cap (main \cup pool) /\ b # NoFut
    BY <1>0, <1>1, <2>1, <2>2, FutsAssumption DEF Signalled, PollingTold
  <2>4. UNCHANGED <<live, pool, main>>
    BY <2>1, PendingEnds DEF EndsPoll
  <2>5. Notified(b)'
    BY <2>1, <2>3, <2>4, NotifiedByEnd
  <2>6. PollerTold'
    BY <2>1, <2>3, <2>4, <2>5 DEF PollerTold
  <2>7. AllTold'
    BY <2>1, <2>3 DEF AllTold
  <2>8. PollingTold'
    <3>1. \A u \in Threads : step'[u] \notin InnerSteps
      BY <2>1 DEF Ordered, IDLE, POLLING
    <3> QED
      BY <3>1 DEF PollingTold, InnerSteps
  <2> QED
    BY <2>6, <2>7, <2>8 DEF Signalled
<1>10. CASE DrainWakers(t) \/ Unlock(t)
  <2>1. step[t] \in {"drain", "unlock"} /\ state' = state
    BY <1>10 DEF DrainWakers, Unlock, Polling
  <2> QED
    BY <1>2, <2>1 DEF Ordered, Open, IDLE, POLLING, COMPLETE
<1>11. CASE Unwind(t)
  <2>1. step[t] = "unwind" /\ state' = state
    BY <1>11, UnwindEnds
  <2> QED
    BY <1>2, <2>1 DEF Ordered, Open, IDLE, POLLING, POISONED
<1>12. CASE Drop(t)
  <2>1. /\ UNCHANGED <<state, signal>> /\ PollStarts(t) /\ Ready(t)
        /\ abandoned' = (abandoned \/ (signal.woken /\ signal.by = cur[t]))
    BY <1>12 DEF Drop, Polling
  <2>2. live' = live \ {cur[t]}
    BY <2>1 DEF Ready
  <2>3. \A c \in live' : slab'[c] = slab[c]
    BY <1>0, <1>12, <2>2 DEF Drop
  <2>4. ~IsPending(t)
    <3>1. IsPending(t) => live' = live
      BY PendingEnds
    <3> QED
      BY <1>1, <2>1, <2>2, <3>1
  <2> QED
    BY <2>1, <2>3, <2>4, SignalledByEnd
<1> QED
  BY <1>3, <1>4, <1>5, <1>6, <1>7, <1>8, <1>9, <1>10, <1>11, <1>12 DEF PollShared

LEMMA OthersSignalled ==
  ASSUME Typed, Ordered, Ordered', Placed, CallsFit, Attended, Signalled,
         \/ \E t \in Threads : Executor(t) /\ UNCHANGED sharedVars
         \/ \E k \in Callers : Waker(k) /\ UNCHANGED sharedVars
         \/ NotifierWake \/ NotifierDone
  PROVE  Signalled'
<1>0. /\ live \subseteq Futs /\ wakes \in [Callers -> SUBSET Futs] /\ Env \in Callers
      /\ slab \in [Futs -> {"none", "waker", "taken", "gone"}]
  BY TypedInGroups DEF CloneTyped, WakeTyped, Callers
<1>1. state' = state /\ live' = live /\ step' = step /\ abandoned' = abandoned
  BY DEF sharedVars, NotifierWake, NotifierDone, signalVars
<1>2. PollingTold' <=> \A u \in Threads : step'[u] \in {"answer", "release"} =>
                                           signal'.by = cur'[u] /\ Notified(cur[u])'
  BY DEF PollingTold
<1>3. \A u \in Threads : step[u] # "load" => PollStarts(u) /\ cur[u] \in live \cap (main \cup pool)
                                             /\ Home[cur[u]] = u
  BY DEF Ordered, Placed, PollStarts, At, Of
<1>4. ASSUME signal' = signal, slab' = slab, main' = main,
             pool' \cup incoming' = pool \cup incoming,
             \A c \in live \cap (main \cup pool \cup incoming) :
               Notified(c) => Notified(c)' \/ PolledAt(c, {"load"})',
             \A c \in Futs : \A S : PolledAt(c, S) => PolledAt(c, S)',
             \A u \in Threads : step[u] # "load" => cur'[u] = cur[u]
      PROVE  Signalled'
  <2> SUFFICES ASSUME signal.woken, ~abandoned PROVE Signalled'
    BY <1>1, <1>4 DEF Signalled
  <2>0. PollerTold /\ AllTold /\ PollingTold
    BY DEF Signalled
  <2>1. PollerTold'
    <3> SUFFICES ASSUME state = IDLE, signal.by # NoFut PROVE PollerTold'
      BY <1>1, <1>4 DEF PollerTold
    <3>1. PICK c : c = signal.by
      OBVIOUS
    <3>2. /\ c \in live \cap (main \cup pool \cup incoming) /\ c \in Futs
          /\ Notified(c) \/ PolledAt(c, {"load", "record", "cas"})
      BY <1>0, <2>0, <3>1 DEF PollerTold
    <3>3. PolledAt(c, {"load"})' => PolledAt(c, {"load", "record", "cas"})'
      BY DEF PolledAt
    <3>4. Notified(c)' \/ PolledAt(c, {"load", "record", "cas"})'
      BY <1>4, <3>2, <3>3
    <3> QED
      BY <1>1, <1>4, <3>1, <3>2, <3>4 DEF PollerTold
  <2>2. AllTold'
    <3> SUFFICES ASSUME state = IDLE, signal.by = NoFut, NEW c \in live, slab[c] = "waker"
                 PROVE  PolledAt(c, {"cas"})'
      BY <1>1, <1>4 DEF AllTold
    <3> QED
      BY <1>0, <1>4, <2>0 DEF AllTold
  <2>3. PollingTold'
    <3>1. ASSUME NEW u \in Threads, step'[u] \in {"answer", "release"}
          PROVE  signal'.by = cur'[u] /\ Notified(cur[u])'
      <4>1. step[u] \in {"answer", "release"} /\ cur'[u] = cur[u]
        BY <1>1, <1>4, <3>1
      <4>2. PICK c : c = cur[u]
        OBVIOUS
      <4>3. signal.by = c /\ Notified(c)
        BY <2>0, <4>1, <4>2 DEF PollingTold
      <4>4. c \in live \cap (main \cup pool) /\ Home[c] = u
        BY <1>3, <4>1, <4>2
      <4>5. ~PolledAt(c, {"load"})'
        BY <3>1, <4>4 DEF PolledAt
      <4>6. Notified(c)'
        BY <1>4, <4>3, <4>4, <4>5
      <4>7. Notified(c)' = Notified(cur[u])'
        BY <4>1, <4>2 DEF Notified
      <4> QED
        BY <1>4, <4>1, <4>2, <4>3, <4>6, <4>7
    <3> QED
      BY <1>2, <3>1
  <2> QED
    BY <2>1, <2>2, <2>3 DEF Signalled
<1>5. ASSUME NEW t \in Threads, Executor(t), UNCHANGED sharedVars PROVE Signalled'
  <2>1. UNCHANGED <<slab, signal, step, main>>
    BY <1>5 DEF sharedVars, Executor, Enter, Wait, Park, DrainIncoming, PollPool, PoolYields, Stalled
  <2>2. pool' \cup incoming' = pool \cup incoming
    BY <1>5 DEF Executor, Enter, Wait, Park, DrainIncoming, PollPool, PoolYields, Stalled, poolVars
  <2>3. \A c \in live : Notified(c) => Notified(c)' \/ PolledAt(c, {"load"})'
    BY <1>5, NotifiedByExecutor
  <2>4. \A c \in Futs : \A S : PolledAt(c, S) => PolledAt(c, S)'
    BY <1>5, <2>1, PolledByOthers
  <2>5. ASSUME NEW u \in Threads, step[u] # "load" PROVE cur'[u] = cur[u]
    <3>1. PICK c : c = cur[u]
      OBVIOUS
    <3>2. PolledAt(c, {step[u]}) /\ c \in Futs /\ Home[c] = u
      BY <1>0, <1>3, <2>5, <3>1 DEF PolledAt
    <3> QED
      BY <1>5, <2>1, <3>2, PolledByOthers
  <2> QED
    BY <1>4, <2>1, <2>2, <2>3, <2>4, <2>5
<1>6. ASSUME NEW k \in Callers, Waker(k), UNCHANGED sharedVars PROVE Signalled'
  <2>1. UNCHANGED <<slab, signal, main, pool, incoming, exec, cur>>
    BY <1>6 DEF sharedVars, Waker, NextWaker, NotifySwap, Unpark, poolVars, execVars
  <2>2. \A c \in main \cup pool \cup incoming : Notified(c) => Notified(c)'
    BY <1>6, NotifiedByWaker
  <2>3. \A c, S : PolledAt(c, S) => PolledAt(c, S)'
    BY <1>1, <2>1 DEF PolledAt, PollStarts, At
  <2> QED
    BY <1>4, <2>1, <2>2, <2>3
<1>7. CASE NotifierDone
  <2>1. UNCHANGED localPoolVars /\ UNCHANGED <<slab, signal>>
    BY <1>7 DEF NotifierDone, signalVars
  <2>2. UNCHANGED <<main, pool, incoming, exec, cur>>
    BY <2>1 DEF localPoolVars, poolVars, execVars
  <2>3. \A c : Notified(c) => Notified(c)'
    BY <2>1, NotifiedByContinue
  <2>4. \A c, S : PolledAt(c, S) => PolledAt(c, S)'
    BY <1>1, <2>2 DEF PolledAt, PollStarts, At
  <2> QED
    BY <1>4, <2>1, <2>2, <2>3, <2>4
<1>8. CASE NotifierWake
  <2>1. /\ UNCHANGED <<main, pool, incoming, exec, cur>> /\ lock = NoFut
        /\ signal'.by = IF InInner = {} THEN NoFut ELSE cur[CHOOSE t \in InInner : TRUE]
        /\ slab' = [c \in Futs |-> IF slab[c] = "waker" THEN "taken" ELSE slab[c]]
    BY <1>8 DEF NotifierWake, poolVars, execVars
  <2>2. CASE ~Open
    BY <1>1, <2>2, SignalledWhenDone DEF Open
  <2>3. CASE state = IDLE
    <3>1. \A u \in Threads : step[u] \notin InnerSteps
      BY <2>3 DEF Ordered, IDLE, POLLING
    <3>2. signal'.by = NoFut
      BY <2>1, <3>1 DEF InInner, InnerSteps
    <3>3. \A c \in live : slab'[c] # "waker"
      BY <1>0, <2>1
    <3>4. PollerTold' /\ AllTold'
      BY <1>1, <3>2, <3>3 DEF PollerTold, AllTold
    <3>5. PollingTold'
      BY <1>1, <3>1 DEF PollingTold, InnerSteps
    <3> QED
      BY <3>4, <3>5 DEF Signalled
  <2>4. CASE state = POLLING
    <3>1. PICK u \in Threads : step[u] \in InnerSteps
      BY <2>4 DEF Ordered
    <3>2. PollStarts(u) /\ cur[u] \in live \cap (main \cup pool) /\ Home[cur[u]] = u
      BY <1>3, <3>1 DEF InnerSteps
    <3>3. InInner = {u}
      BY <3>1, <3>2 DEF Ordered, InInner, InnerSteps
    <3>4. PICK c : c = cur[u]
      OBVIOUS
    <3>5. signal'.by = c
      BY <2>1, <3>3, <3>4
    <3>6. c \in Futs /\ (slab[c] = "waker" \/ Notified(c))
      <4>1. InReach(c)
        BY <2>4, <3>2, <3>4 DEF Attended, Open
      <4>2. ~PolledAt(c, {"load", "record"})
        BY <3>1, <3>2, <3>4 DEF PolledAt, InnerSteps
      <4> QED
        BY <1>0, <3>2, <3>4, <4>1, <4>2 DEF InReach
    <3>7. wakes[Env] = {}
      BY <1>0, <2>1, <2>4, FutsAssumption DEF Attended, Open
    <3>8. Notified(c)'
      BY <1>8, <3>6, <3>7, NotifiedByNotifier
    <3>9. PollingTold'
      <4>1. ASSUME NEW v \in Threads, step'[v] \in {"answer", "release"}
            PROVE  signal'.by = cur'[v] /\ Notified(cur[v])'
        <5>1. v = u
          BY <1>1, <3>1, <4>1 DEF Ordered, InnerSteps
        <5>2. Notified(c)' = Notified(cur[v])'
          BY <2>1, <3>4, <5>1 DEF Notified
        <5> QED
          BY <2>1, <3>4, <3>5, <3>8, <5>1, <5>2
      <4> QED
        BY <1>2, <4>1
    <3>10. PollerTold' /\ AllTold'
      BY <1>1, <2>4 DEF PollerTold, AllTold, IDLE, POLLING
    <3> QED
      BY <3>9, <3>10 DEF Signalled
  <2> QED
    BY <2>2, <2>3, <2>4 DEF Open
<1> QED
  BY <1>5, <1>6, <1>7, <1>8

------------------------------------------------------------------------------
(* SharedInv is an invariant                                               *)

LEMMA InitTyped == Init => Typed
<1> SUFFICES ASSUME Init PROVE Typed
  OBVIOUS
<1>1. PoolTyped /\ ExecTyped /\ NotifyTyped
  BY DEF Init, LocalPoolInit, PoolTyped, ExecTyped, NotifyTyped, Execs
<1>2. WakeTyped
  BY DEF Init, LocalPoolInit, WakeTyped, NotWaking, AtStep
<1>3. CloneTyped /\ SignalTyped
  BY DEF Init, SharedInit, CloneTyped, SignalTyped, NoSignal, Steps
<1> QED
  BY <1>1, <1>2, <1>3, TypedInGroups

LEMMA InitPlaced == Init => Ordered /\ Placed /\ CallsFit
<1> SUFFICES ASSUME Init PROVE Ordered /\ Placed /\ CallsFit
  OBVIOUS
<1>1. /\ exec = [t \in Threads |-> "call"] /\ step = [t \in Threads |-> "load"] /\ state = IDLE
      /\ slab = [c \in Futs |-> "none"] /\ live = Futs
      /\ pool = {} /\ incoming = {c \in Futs \ main : Parent[c] = NoFut}
  BY DEF Init, LocalPoolInit, SharedInit
<1>2. Ordered
  BY <1>1 DEF Ordered, InnerSteps, SlabGone, IDLE, POLLING
<1>3. Placed
  BY <1>1, FutsAssumption DEF Placed, PollStarts, At
<1>4. \A t \in Threads : Of(t) \cap main # {} <=> MainOf(t) # NoFut
  <2> SUFFICES ASSUME NEW t \in Threads, Of(t) \cap main # {} PROVE MainOf(t) # NoFut
    BY DEF MainOf
  <2>1. MainOf(t) \in Of(t) \cap main
    BY DEF MainOf
  <2> QED
    BY <2>1, FutsAssumption DEF Of
<1>5. CallsFit
  <2>1. \A t \in Threads :
          /\ op[t] = "block_on" <=> MainOf(t) # NoFut /\ Of(t) \subseteq main
          /\ MainOf(t) # NoFut => op[t] \in Blocking
          /\ op[t] = "run_until" => MainOf(t) # NoFut
    BY DEF Init, LocalPoolInit, Blocking
  <2>2. \A t \in Threads : Of(t) \cap main \cap live = Of(t) \cap main
    BY <1>1 DEF Of
  <2>3. \A t \in Threads : op[t] \in Blocking => MainOf(t) # NoFut
    BY <2>1 DEF Blocking
  <2> QED
    BY <1>1, <1>4, <2>1, <2>2, <2>3 DEF CallsFit, At
<1> QED
  BY <1>2, <1>3, <1>5

LEMMA InitAttended == Init => Sleeping /\ Attended /\ Signalled
<1> SUFFICES ASSUME Init PROVE Sleeping /\ Attended /\ Signalled
  OBVIOUS
<1>1. /\ exec = [t \in Threads |-> "call"] /\ live = Futs /\ pool = {}
      /\ wakes = [k \in Callers |-> {}] /\ signal = NoSignal
  BY DEF Init, LocalPoolInit, SharedInit
<1>2. Sleeping
  BY <1>1 DEF Sleeping, ParkedRightly, Parked, At
<1>3. Attended
  BY <1>1, FutsAssumption DEF Attended, InReach, Notified, Callers
<1>4. Signalled
  BY <1>1 DEF Signalled, NoSignal
<1> QED
  BY <1>2, <1>3, <1>4

LEMMA SharedInvStutters ==
  ASSUME SharedInv, UNCHANGED allVars
  PROVE  SharedInv'
<1>1. UNCHANGED <<main, op, exec, cur, entered, unparked, token, pool, queued, incoming, wakes,
                  waking, state, slab, lock, live, step, due, signal, abandoned>>
  BY DEF allVars, localPoolVars, sharedVars, poolVars, execVars, notifyVars, wakeVars
<1>2. Typed'
  <2>1. PoolTyped' /\ ExecTyped' /\ NotifyTyped' /\ WakeTyped' /\ CloneTyped' /\ SignalTyped'
    BY <1>1, TypedInGroups DEF SharedInv, PoolTyped, ExecTyped, NotifyTyped, WakeTyped, CloneTyped,
       SignalTyped, AtStep
  <2>2. Typed' <=> PoolTyped' /\ ExecTyped' /\ NotifyTyped' /\ WakeTyped' /\ CloneTyped' /\ SignalTyped'
    BY TypedInGroups, PTL
  <2> QED
    BY <2>1, <2>2
<1>3. Ordered'
  BY <1>1 DEF SharedInv, Ordered, SlabGone
<1>4. Placed' /\ CallsFit'
  BY <1>1, UnplacedUnchanged DEF SharedInv
<1>5. Sleeping'
  BY <1>1 DEF SharedInv, Sleeping, ParkedRightly, Parked, At, BeingWoken, AtStep, Target
<1>6. \A c : Notified(c)' = Notified(c)
  BY <1>1 DEF Notified, WillWake, AtStep, Target
<1>7. \A c, S : PolledAt(c, S)' = PolledAt(c, S)
  BY <1>1 DEF PolledAt, PollStarts, At
<1>8. Attended'
  <2>1. \A c : InReach(c)' = InReach(c)
    BY <1>1, <1>6, <1>7 DEF InReach
  <2> QED
    BY <1>1, <2>1 DEF SharedInv, Attended, Open
<1>9. Signalled'
  BY <1>1, <1>6, <1>7 DEF SharedInv, Signalled, PollerTold, AllTold, PollingTold
<1> QED
  BY <1>2, <1>3, <1>4, <1>5, <1>8, <1>9 DEF SharedInv

LEMMA SharedInvIsInductive ==
  ASSUME SharedInv, [Next]_allVars
  PROVE  SharedInv'
<1>0. Typed /\ Ordered /\ Placed /\ CallsFit /\ Sleeping /\ Attended /\ Signalled
  BY DEF SharedInv
<1>1. ASSUME NEW t \in Threads, PollShared(t) PROVE SharedInv'
  <2>1. Typed' /\ Ordered'
    BY <1>0, <1>1, PollSharedTyped, PollSharedOrdered
  <2>2. Placed' /\ CallsFit'
    BY <1>0, <1>1, StepPlaced
  <2>3. Sleeping'
    BY <1>0, <1>1, <2>2, StepSleeping
  <2>4. Attended' /\ Signalled'
    BY <1>0, <1>1, <2>1, <2>2, PollSharedAttended, PollSharedSignalled
  <2> QED
    BY <2>1, <2>2, <2>3, <2>4 DEF SharedInv
<1>2. ASSUME \/ \E t \in Threads : Executor(t) /\ UNCHANGED sharedVars
             \/ \E k \in Callers : Waker(k) /\ UNCHANGED sharedVars
             \/ NotifierWake \/ NotifierDone
      PROVE  SharedInv'
  <2>1. Typed'
    BY <1>0, <1>2, ExecutorTyped, WakerTyped, NotifierTyped
  <2>2. Ordered'
    BY <1>0, <1>2, OthersOrdered
  <2>3. Placed' /\ CallsFit'
    BY <1>0, <1>2, StepPlaced
  <2>4. Sleeping'
    BY <1>0, <1>2, <2>3, StepSleeping
  <2>5. Attended'
    BY <1>0, <1>2, OthersAttended
  <2>6. Signalled'
    BY <1>0, <1>2, <2>2, OthersSignalled
  <2> QED
    BY <2>1, <2>2, <2>3, <2>4, <2>5, <2>6 DEF SharedInv
<1>3. CASE UNCHANGED allVars
  BY <1>3, SharedInvStutters
<1>4. CASE Next
  <2>1. CASE Notify
    <3>1. Env \in Callers
      BY DEF Callers
    <3> QED
      BY <1>2, <2>1, <3>1 DEF Notify
  <2>2. ASSUME NEW t \in Threads, Run(t) PROVE SharedInv'
    <3>1. t \in Callers
      BY DEF Callers
    <3> QED
      BY <1>1, <1>2, <2>2, <3>1 DEF Run
  <2> QED
    BY <1>4, <2>1, <2>2 DEF Next
<1> QED
  BY <1>3, <1>4

LEMMA SharedInvHolds == Spec => []SharedInv
<1>1. Init => SharedInv
  BY InitTyped, InitPlaced, InitAttended DEF SharedInv
<1> QED
  BY <1>1, SharedInvIsInductive, PTL DEF Spec

------------------------------------------------------------------------------
(* What follows                                                            *)

(* The types of the executors and of the state of the Notifier.            *)
THEOREM TypeCorrect == Spec => []SharedTypeOK
<1>1. SharedInv => SharedTypeOK
  BY DEF SharedInv, Typed
<1> QED
  BY <1>1, SharedInvHolds, PTL

(* The UnsafeCell around the inner future is used by one clone at a time,  *)
(* the one that has set POLLING, and by none after COMPLETE or POISONED;   *)
(* the slab of wakers is taken once.                                       *)
THEOREM OnePolls == Spec => []PolledByOne
<1>1. SharedInv => PolledByOne
  <2> SUFFICES ASSUME SharedInv PROVE PolledByOne
    OBVIOUS
  <2>0. Ordered
    BY DEF SharedInv
  <2>1. InInner = {t \in Threads : step[t] \in InnerSteps}
    BY <2>0 DEF Ordered, InInner, InnerSteps, PollStarts, At
  <2>2. CASE state = POLLING
    <3>1. PICK t \in Threads : step[t] \in InnerSteps
      BY <2>0, <2>2 DEF Ordered
    <3>2. InInner = {t}
      BY <2>0, <2>1, <3>1 DEF Ordered
    <3>3. Cardinality(InInner) = 1
      BY <3>2, FS_Singleton
    <3> QED
      BY <2>0, <2>2, <3>3 DEF PolledByOne, Ordered, Polling
  <2>3. CASE state # POLLING
    <3>1. InInner = {}
      BY <2>0, <2>1, <2>3 DEF Ordered
    <3>2. Cardinality(InInner) = 0
      BY <3>1, FS_EmptySet
    <3> QED
      BY <2>0, <2>3, <3>2 DEF PolledByOne, Ordered, Polling
  <2> QED
    BY <2>2, <2>3
<1> QED
  BY <1>1, SharedInvHolds, PTL

(* A clone that has been notified, and whose thread sleeps, is going to be *)
(* told.                                                                   *)
LEMMA NotifiedWillPoll ==
  ASSUME SharedInv, NEW c \in live, Notified(c) \/ PolledAt(c, {"load", "record", "cas"})
  PROVE  WillPoll(c)
<1>0. c \in Futs /\ Home[c] \in Threads
  BY FutsAssumption, TypedInGroups DEF SharedInv, CloneTyped
<1>1. CASE PolledAt(c, {"load", "record", "cas"})
  BY <1>1 DEF PolledAt, WillPoll
<1>2. CASE c \in queued \cup incoming
  <2>1. CASE exec[Home[c]] \in {"wait", "park"}
    <3>1. c \in Of(Home[c])
      BY <1>0 DEF Of
    <3>2. /\ incoming \cap Of(Home[c]) = {}
          /\ unparked[Home[c]] \/ \A d \in queued \cap Of(Home[c]) : BeingWoken(d)
      BY <1>0, <2>1 DEF SharedInv, Sleeping
    <3>3. unparked[Home[c]] \/ BeingWoken(c)
      BY <1>2, <3>1, <3>2
    <3>4. WillWake(Home[c])
      BY <3>3 DEF WillWake, BeingWoken, Target
    <3> QED
      BY <1>2, <3>4 DEF WillPoll, WillRun
  <2>2. CASE exec[Home[c]] \notin {"wait", "park"}
    BY <1>2, <2>2 DEF WillPoll, WillRun
  <2> QED
    BY <2>1, <2>2
<1>3. CASE Notified(c) /\ c \notin queued \cup incoming
  BY <1>3 DEF Notified, WillPoll
<1> QED
  BY <1>1, <1>2, <1>3

(* Whenever the inner future has called its waker and nobody has polled it *)
(* since, some clone is on its way: the one that was polling at the call,  *)
(* or, if there was none, any clone whose parent is gone.  Only the drop   *)
(* of the clone that had to poll can lose the call.                        *)
THEOREM WakeUpIsKept == Spec => []WakeUpKept
<1>1. SharedInv => WakeUpKept
  <2> SUFFICES ASSUME SharedInv, signal.woken, state = IDLE, live # {}, ~abandoned
               PROVE  \E c \in live : WillPoll(c)
    BY DEF WakeUpKept
  <2>0. PollerTold /\ AllTold
    BY DEF SharedInv, Signalled
  <2>1. CASE signal.by # NoFut
    <3>1. PICK c : c = signal.by
      OBVIOUS
    <3>2. c \in live /\ (Notified(c) \/ PolledAt(c, {"load", "record", "cas"}))
      BY <2>0, <2>1, <3>1 DEF PollerTold
    <3> QED
      BY <3>2, NotifiedWillPoll
  <2>2. CASE signal.by = NoFut
    <3>1. live \subseteq Futs
      BY TypedInGroups DEF SharedInv, CloneTyped
    <3>2. PICK c \in live : Parent[c] \notin live
      BY <3>1, SpawnAssumption
    <3>3. c \in main \cup pool \cup incoming
      BY <3>2 DEF SharedInv, Placed
    <3>4. InReach(c)
      BY <3>3 DEF SharedInv, Attended, Open
    <3>5. slab[c] = "waker" => PolledAt(c, {"cas"})
      BY <2>0, <2>2 DEF AllTold
    <3>6. Notified(c) \/ PolledAt(c, {"load", "record", "cas"})
      BY <3>4, <3>5 DEF InReach, PolledAt
    <3> QED
      BY <3>6, NotifiedWillPoll
  <2> QED
    BY <2>1, <2>2
<1> QED
  BY <1>1, SharedInvHolds, PTL

(* Only its own executor moves a thread that is not polling.               *)
LEMMA OnlyStalledReturns ==
  ASSUME SharedInv, Next, NEW t \in Threads, At(t, "stalled"), exec'[t] # exec[t]
  PROVE  Stalled(t)
<1>0. Typed /\ exec \in [Threads -> Execs]
  BY TypedInGroups DEF SharedInv, ExecTyped
<1>1. ASSUME NEW u \in Threads, PollShared(u) PROVE exec'[t] = exec[t]
  <2>1. PollStarts(u) /\ (Resumes(u) \/ DrainWakers(u) \/ Unwind(u))
    BY <1>0, <1>1, ResumesOrNot
  <2>2. u # t
    BY <2>1 DEF PollStarts, At
  <2>3. ASSUME NEW l, EndsPoll(u, l) PROVE exec'[t] = exec[t]
    BY <1>0, <2>2, <2>3 DEF EndsPoll
  <2>4. ASSUME NEW l, Continues(u, l) PROVE exec'[t] = exec[t]
    BY <2>4 DEF Continues, localPoolVars, execVars
  <2>5. CASE DrainWakers(u)
    BY <2>5 DEF DrainWakers, execVars
  <2>6. CASE Ready(u) \/ IsPending(u) \/ Unwind(u)
    BY <1>0, <2>3, <2>6, ReadyEnds, PendingEnds, UnwindEnds
  <2> QED
    BY <2>1, <2>4, <2>5, <2>6 DEF Resumes
<1>2. ASSUME NEW u \in Threads, Executor(u) PROVE Stalled(t)
  <2>1. u = t
    BY <1>0, <1>2, ExecutorMoves
  <2> QED
    BY <1>2, <2>1 DEF Executor, Enter, Wait, Park, DrainIncoming, PollPool, PoolYields, At
<1>3. ASSUME NEW k, Waker(k) PROVE exec'[t] = exec[t]
  BY <1>3 DEF Waker, NextWaker, NotifySwap, Unpark, execVars
<1>4. CASE NotifierWake \/ NotifierDone
  BY <1>4 DEF NotifierWake, NotifierDone, localPoolVars, execVars
<1> QED
  BY <1>1, <1>2, <1>3, <1>4 DEF Next, Notify, Run

(* No step of any thread leaves an executor asleep over a flag that is     *)
(* set, or lets try_run_one or run_until_stalled return with a task in the *)
(* queue whose waker is not still on its way to the flag.                  *)
THEOREM WakeUpsReachExecutors == Spec => NoWakeMissed
<1>1. ASSUME SharedInv, [Next]_allVars
      PROVE  [\A t \in Threads : ParkedRightly(t) /\ StalledRightly(t)]_allVars
  <2> SUFFICES ASSUME Next, NEW t \in Threads PROVE ParkedRightly(t) /\ StalledRightly(t)
    BY <1>1
  <2>1. ParkedRightly(t)
    BY <1>1 DEF SharedInv, Sleeping
  <2>2. StalledRightly(t)
    <3> SUFFICES ASSUME At(t, "stalled"), exec'[t] \in {"call", "done"}
                 PROVE  \A c \in queued \cap Of(t) : BeingWoken(c)
      BY DEF StalledRightly, BeingWoken
    <3>1. Stalled(t)
      BY <1>1, OnlyStalledReturns DEF At
    <3>2. exec \in [Threads -> Execs]
      BY <1>1, TypedInGroups DEF SharedInv, ExecTyped
    <3>3. ~unparked[t]
      BY <3>1, <3>2 DEF Stalled, Woken, Goes, Exec
    <3> QED
      BY <1>1, <3>3 DEF SharedInv, Sleeping, At
  <2> QED
    BY <2>1, <2>2
<1> QED
  BY <1>1, SharedInvHolds, PTL DEF Spec, NoWakeMissed
==============================================================================
