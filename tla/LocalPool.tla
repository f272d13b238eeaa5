------------------------------ MODULE LocalPool ------------------------------
(***************************************************************************)
(* futures-executor/src/local_pool.rs and enter.rs: block_on and the four  *)
(* ways to run a LocalPool, on the threads that call them.  run_executor   *)
(* polls, and waits for the flag `unparked`, which a waker sets before it  *)
(* unparks the thread.  Each atomic operation on the flag, park and unpark *)
(* are steps of their own; what only one thread can see is not split up.   *)
(*                                                                         *)
(* The pool is a FuturesUnordered, here with its contract: a set of tasks  *)
(* of which some are queued to be polled.  What a poll of a future does is *)
(* left to the module that extends this one, between PollStarts and        *)
(* PollReturns.                                                            *)
(***************************************************************************)
EXTENDS Integers, FiniteSets

CONSTANTS Threads,     \* threads that run an executor
          Env,         \* another thread, which calls wakers
          Futs,        \* the futures
          Home,        \* the thread that each one is polled on
          Mains,       \* which of them may be given to block_on or run_until
          Parent,      \* a future in the pool is spawned before the pool runs, or by this one
          NoFut        \* None

Callers == Threads \cup {Env}

ASSUME FutsAssumption == /\ Env \notin Threads /\ NoFut \notin Futs \cup Callers
                         /\ Home \in [Futs -> Threads]
                         /\ Parent \in [Futs -> Futs \cup {NoFut}]
                         /\ Mains \subseteq SUBSET Futs

(* A LocalSpawner is not Send: a future spawns on its own thread, and what *)
(* is spawned is not spawned by its own descendants.  block_on and         *)
(* run_until take one future, which nobody has spawned.                    *)
ASSUME SpawnAssumption ==
  /\ \A c \in Futs : Parent[c] # NoFut => Home[Parent[c]] = Home[c]
  /\ \A S \in SUBSET Futs : S # {} => \E c \in S : Parent[c] \notin S
  /\ \A M \in Mains : \A c \in M : /\ Parent[c] = NoFut
                                  /\ \A d \in M : Home[c] = Home[d] => c = d

Ops == {"block_on", "run", "run_until", "try_run_one", "run_until_stalled"}

VARIABLES main,        \* the futures that are given to block_on or run_until
          op,          \* what each thread has called
          exec,        \* where it is in that call
          cur,         \* the future it is polling
          entered,     \* ENTERED
          unparked,    \* ThreadNotify::unparked
          token,       \* the token of thread::park
          pool,        \* LocalPool::pool
          queued,      \* the tasks of the pool that are in its ready-to-run queue
          incoming,    \* LocalPool::incoming
          wakes,       \* the wakers each thread has still to call
          waking       \* the one it is calling, and where it is in the call

poolVars == <<pool, queued, incoming>>
execVars == <<main, op, exec, cur, entered>>
notifyVars == <<unparked, token>>
wakeVars == <<wakes, waking>>
localPoolVars == <<poolVars, execVars, notifyVars, wakeVars>>

Of(t) == {c \in Futs : Home[c] = t}
MainOf(t) == IF Of(t) \cap main = {} THEN NoFut ELSE CHOOSE c \in Of(t) \cap main : TRUE
NotWaking == [step |-> "none", fut |-> NoFut]

LocalPoolInit ==
  /\ main \in Mains
  /\ op \in {o \in [Threads -> Ops] :
               \A t \in Threads : /\ o[t] = "block_on" <=> MainOf(t) # NoFut /\ Of(t) \subseteq main
                                  /\ MainOf(t) # NoFut => o[t] \in {"block_on", "run_until"}
                                  /\ o[t] = "run_until" => MainOf(t) # NoFut}
  /\ exec = [t \in Threads |-> "call"]
  /\ cur = [t \in Threads |-> NoFut]
  /\ entered = [t \in Threads |-> FALSE]
  /\ unparked = [t \in Threads |-> FALSE]
  /\ token = [t \in Threads |-> FALSE]
  /\ pool = {} /\ queued = {}
  /\ incoming = {c \in Futs \ main : Parent[c] = NoFut}
  /\ wakes = [k \in Callers |-> {}]
  /\ waking = [k \in Callers |-> NotWaking]

Exec(t, label) == exec' = [exec EXCEPT ![t] = label]
At(t, label) == exec[t] = label

------------------------------------------------------------------------------
(* run_executor                                                            *)

(* One turn: block_on and run_until poll their future first.               *)
Turn(t) == IF op[t] \in {"block_on", "run_until"}
           THEN Exec(t, "poll") /\ cur' = [cur EXCEPT ![t] = MainOf(t)]
           ELSE Exec(t, "drain") /\ UNCHANGED cur

(* enter() fails inside another executor.                                  *)
Enter(t) ==
  /\ At(t, "call") /\ ~entered[t]
  /\ entered' = [entered EXCEPT ![t] = TRUE]
  /\ Turn(t)
  /\ UNCHANGED <<poolVars, main, op, notifyVars, wakeVars>>

(* The loop that waits for a wake-up.                                      *)
Wait(t) ==
  /\ At(t, "wait")
  /\ IF unparked[t] THEN Turn(t) ELSE Exec(t, "park") /\ UNCHANGED cur
  /\ unparked' = [unparked EXCEPT ![t] = FALSE]
  /\ UNCHANGED <<poolVars, main, op, entered, token, wakeVars>>

(* thread::park returns when there is a token, and takes it.               *)
Park(t) ==
  /\ At(t, "park") /\ token[t]
  /\ token' = [token EXCEPT ![t] = FALSE]
  /\ Exec(t, "wait")
  /\ UNCHANGED <<poolVars, main, op, cur, entered, unparked, wakeVars>>

(* The call returns.  What is left in the pool is run to the end by the    *)
(* next one.                                                               *)
Return(t) ==
  /\ entered' = [entered EXCEPT ![t] = FALSE]
  /\ op' = [op EXCEPT ![t] = "run"]
  /\ Exec(t, IF (pool' \cup incoming') \cap Of(t) = {} THEN "done" ELSE "call")

------------------------------------------------------------------------------
(* poll_pool and the loop of try_run_one                                   *)

DrainIncoming(t) ==
  /\ At(t, "drain")
  /\ pool' = pool \cup (incoming \cap Of(t))
  /\ queued' = queued \cup (incoming \cap Of(t))
  /\ incoming' = incoming \ Of(t)
  /\ Exec(t, "pool")
  /\ UNCHANGED <<main, op, cur, entered, notifyVars, wakeVars>>

(* The pool has returned Some(()), None or Pending.  try_run_one returns   *)
(* with the first task that is done, the others go on until it is empty;   *)
(* both poll again if tasks were spawned.                                  *)
HasIncoming(t) == incoming' \cap Of(t) # {}
Goes(t, label) == Exec(t, label) /\ UNCHANGED <<op, entered>>

TryRunOneReturns(t, answer) ==
  IF answer # "pending" THEN Return(t)
  ELSE Goes(t, IF HasIncoming(t) THEN "drain" ELSE "stalled")
PollPoolReturns(t, answer) ==
  IF answer = "some" \/ HasIncoming(t) THEN Goes(t, "drain")
  ELSE IF op[t] = "run_until" THEN Goes(t, "wait")
  ELSE IF answer = "none" THEN Return(t)
  ELSE Goes(t, IF op[t] = "run" THEN "wait" ELSE "stalled")
PoolReturns(t, answer) ==
  IF op[t] = "try_run_one" THEN TryRunOneReturns(t, answer) ELSE PollPoolReturns(t, answer)

(* FuturesUnordered::poll_next polls the tasks that are queued ...         *)
PollPool(t) ==
  /\ At(t, "pool")
  /\ \/ \E c \in queued \cap Of(t) :
          /\ queued' = queued \ {c}
          /\ cur' = [cur EXCEPT ![t] = c]
          /\ Exec(t, "poll")
          /\ UNCHANGED <<pool, incoming, op, entered>>
     \/ /\ queued \cap Of(t) = {}
        /\ UNCHANGED <<poolVars, cur>>
        /\ PoolReturns(t, IF pool \cap Of(t) = {} THEN "none" ELSE "pending")
  /\ UNCHANGED <<main, notifyVars, wakeVars>>

(* ... or wakes its caller after some of them, and returns Pending.        *)
PoolYields(t) ==
  /\ At(t, "yield")
  /\ unparked' = [unparked EXCEPT ![t] = TRUE]
  /\ token' = [token EXCEPT ![t] = @ \/ ~unparked[t]]
  /\ UNCHANGED <<poolVars, main, cur, wakeVars>>
  /\ PoolReturns(t, "pending")

(* BUG: a pool that has yielded counts as stalled.                         *)
NeverWoken(t) == FALSE

(* run_until_stalled and try_run_one return when no wake-up has come.      *)
Woken(t) == unparked[t]
Stalled(t) ==
  /\ At(t, "stalled")
  /\ UNCHANGED <<poolVars, main, cur, notifyVars, wakeVars>>
  /\ IF Woken(t) THEN Goes(t, "wait") ELSE Return(t)

------------------------------------------------------------------------------
(* The poll of a future begins in "poll" and ends in one of these.         *)
PollStarts(t) == At(t, "poll")

(* LocalSpawner::spawn_obj: a future spawns its children when it is polled.*)
Spawned(c) == {d \in Futs : Parent[d] = c} \ (pool \cup incoming)

PollReturnsReady(t, spawns) ==
  LET c == cur[t]
  IN  /\ cur' = [cur EXCEPT ![t] = NoFut]
      /\ pool' = pool \ {c}
      /\ queued' = queued \ {c}
      /\ incoming' = incoming \cup spawns
      /\ IF c \in main THEN Return(t) ELSE PoolReturns(t, "some")
      /\ UNCHANGED main

PollReturnsPending(t, spawns) ==
  LET c == cur[t]
  IN  /\ cur' = [cur EXCEPT ![t] = NoFut]
      /\ incoming' = incoming \cup spawns
      /\ IF c \in main THEN Exec(t, IF op[t] = "block_on" THEN "wait" ELSE "drain")
         ELSE \E label \in {"pool", "yield"} : Exec(t, label)
      /\ UNCHANGED <<pool, queued, main, op, entered>>

(* A panic unwinds through the executor: Enter and the pool are dropped.   *)
PollPanics(t) ==
  /\ cur' = [cur EXCEPT ![t] = NoFut]
  /\ pool' = pool \ Of(t)
  /\ queued' = queued \ Of(t)
  /\ incoming' = incoming \ Of(t)
  /\ entered' = [entered EXCEPT ![t] = FALSE]
  /\ Exec(t, "panicked")
  /\ UNCHANGED <<main, op>>

------------------------------------------------------------------------------
(* Wakers, called one after the other                                      *)

Waking(k, step, c) == waking' = [waking EXCEPT ![k] = [step |-> step, fut |-> c]]
AtStep(k, step) == waking[k].step = step
Target(k) == Home[waking[k].fut]

(* A waker of a future in the pool queues it, unless it is queued or done. *)
NextWaker(k) ==
  \E c \in wakes[k] :
    /\ AtStep(k, "none")
    /\ wakes' = [wakes EXCEPT ![k] = @ \ {c}]
    /\ IF c \in main \/ c \in pool \ queued THEN Waking(k, "swap", c) ELSE UNCHANGED waking
    /\ queued' = queued \cup ({c} \cap pool)
    /\ UNCHANGED <<pool, incoming, execVars, notifyVars>>

(* ThreadNotify::wake_by_ref.                                              *)
NotifySwap(k) ==
  /\ AtStep(k, "swap")
  /\ unparked' = [unparked EXCEPT ![Target(k)] = TRUE]
  /\ IF unparked[Target(k)] THEN Waking(k, "none", NoFut) ELSE Waking(k, "unpark", waking[k].fut)
  /\ UNCHANGED <<poolVars, execVars, token, wakes>>

Unpark(k) ==
  /\ AtStep(k, "unpark")
  /\ token' = [token EXCEPT ![Target(k)] = TRUE]
  /\ Waking(k, "none", NoFut)
  /\ UNCHANGED <<poolVars, execVars, unparked, wakes>>

HasWoken(k) == wakes[k] = {} /\ AtStep(k, "none")

Executor(t) == \/ Enter(t) \/ Wait(t) \/ Park(t) \/ DrainIncoming(t) \/ PollPool(t)
               \/ PoolYields(t) \/ Stalled(t)
Waker(k) == NextWaker(k) \/ NotifySwap(k) \/ Unpark(k)

LocalPoolTypeOK ==
  /\ op \in [Threads -> Ops]
  /\ exec \in [Threads -> {"call", "poll", "wait", "park", "drain", "pool", "yield", "stalled",
                           "done", "panicked"}]
  /\ cur \in [Threads -> Futs \cup {NoFut}]
  /\ entered \in [Threads -> BOOLEAN]
  /\ unparked \in [Threads -> BOOLEAN] /\ token \in [Threads -> BOOLEAN]
  /\ pool \subseteq Futs /\ queued \subseteq pool /\ incoming \subseteq Futs
  /\ wakes \in [Callers -> SUBSET Futs]
  /\ waking \in [Callers -> [step : {"none", "swap", "unpark"}, fut : Futs \cup {NoFut}]]
==============================================================================
