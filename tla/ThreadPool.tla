------------------------------ MODULE ThreadPool ------------------------------
(***************************************************************************)
(* futures-executor/src/thread_pool.rs and unpark_mutex.rs: worker threads *)
(* take tasks from one queue and poll them; UnparkMutex makes a wake-up    *)
(* that arrives while the task is being polled end in another poll by the  *)
(* same worker.  One action per access to `status`, to the cell `inner` or *)
(* to the queue.                                                           *)
(*                                                                         *)
(* The std channel behind the pool is a FIFO queue.  `cnt` is modelled     *)
(* exactly: the user's handles, and the two clones of the pool that every  *)
(* task holds, its own and the one in its WakeHandle.                      *)
(***************************************************************************)
EXTENDS Integers, Sequences, FiniteSets

CONSTANTS Workers,     \* the worker threads
          Callers,     \* threads that call wake() on the tasks' wakers
          Tasks,       \* the futures that are spawned
          MaxHandles,  \* bound: ThreadPool handles that the user holds at once
          MaxWakes     \* bound: calls of wake()

WAITING == "WAITING"
POLLING == "POLLING"
REPOLL == "REPOLL"
COMPLETE == "COMPLETE"
Close == "close"       \* Message::Close; Message::Run(task) is the task

ASSUME ConstantsAssumption ==
  /\ IsFiniteSet(Workers)
  /\ Tasks # {} /\ Close \notin Tasks

VARIABLES status,      \* UnparkMutex::status of each task
          inner,       \* does UnparkMutex::inner hold the task?
          task,        \* the Task object: unborn, alive, gone, or gone in a panic
          waker,       \* tasks with a Waker clone in the outside world
          queue,       \* PoolState::tx / rx
          handles,     \* ThreadPool handles of the user
          cnt,         \* PoolState::cnt
          worker,      \* where each worker is, and with which task
          caller,      \* where each caller of wake() is, and with which task
          owed,        \* tasks woken since their last poll began
          wakes        \* calls of wake() so far

poolVars == <<handles, cnt>>
vars == <<status, inner, task, waker, queue, poolVars, worker, caller, owed, wakes>>

AnyTask == CHOOSE t \in Tasks : TRUE
At(pc, t) == [pc |-> pc, task |-> t]
Idle == At("idle", AnyTask)

(* ThreadPoolBuilder::create                                               *)
Init ==
  /\ status = [t \in Tasks |-> WAITING] /\ inner = [t \in Tasks |-> FALSE]
  /\ task = [t \in Tasks |-> "unborn"]
  /\ waker = {} /\ queue = << >>
  /\ handles = 1 /\ cnt = 1
  /\ worker = [w \in Workers |-> Idle] /\ caller = [c \in Callers |-> Idle]
  /\ owed = {} /\ wakes = 0

WorkerGoto(w, pc) == worker' = [worker EXCEPT ![w].pc = pc]
CallerGoto(c, pc) == caller' = [caller EXCEPT ![c].pc = pc]

------------------------------------------------------------------------------
(* ThreadPool: handles and the count                                       *)

(* BUG: the Close messages are sent when the user's last handle is gone.   *)
DropPoolsEarly(n, held) ==
  /\ cnt' = cnt - n
  /\ queue' = IF held = 0 /\ handles # 0
              THEN queue \o [i \in 1 .. Cardinality(Workers) |-> Close] ELSE queue

(* BUG: one Close is sent, whatever the size of the pool.                  *)
DropPoolsSendsOne(n, held) ==
  /\ cnt' = cnt - n
  /\ queue' = IF cnt = n THEN Append(queue, Close) ELSE queue

(* ThreadPool::drop, n times, `held` handles of the user being left: the   *)
(* last one sends a Close for each worker.                                 *)
DropPools(n, held) ==
  /\ cnt' = cnt - n
  /\ queue' = IF cnt = n
              THEN queue \o [i \in 1 .. Cardinality(Workers) |-> Close] ELSE queue

CloneHandle ==
  /\ handles \in 1 .. MaxHandles - 1
  /\ handles' = handles + 1 /\ cnt' = cnt + 1
  /\ UNCHANGED <<status, inner, task, waker, queue, worker, caller, owed, wakes>>

DropHandle ==
  /\ handles > 0
  /\ handles' = handles - 1
  /\ DropPools(1, handles')
  /\ UNCHANGED <<status, inner, task, waker, worker, caller, owed, wakes>>

(* spawn_obj_ok                                                            *)
Spawn(t) ==
  /\ handles > 0 /\ task[t] = "unborn"
  /\ task' = [task EXCEPT ![t] = "alive"]
  /\ cnt' = cnt + 2
  /\ queue' = Append(queue, t)
  /\ UNCHANGED <<status, inner, waker, handles, worker, caller, owed, wakes>>

------------------------------------------------------------------------------
(* PoolState::work and Task::run                                           *)

Receive(w) ==
  /\ worker[w].pc = "idle" /\ queue # << >>
  /\ queue' = Tail(queue)
  /\ worker' = [worker EXCEPT ![w] = IF Head(queue) = Close THEN At("stopped", AnyTask)
                                     ELSE At("start", Head(queue))]
  /\ UNCHANGED <<status, inner, task, waker, poolVars, caller, owed, wakes>>

(* start_poll: clears a REPOLL request, for a poll is about to begin.      *)
StartPoll(w) ==
  /\ worker[w].pc = "start"
  /\ status' = [status EXCEPT ![worker[w].task] = POLLING]
  /\ WorkerGoto(w, "ready")
  /\ UNCHANGED <<inner, task, waker, queue, poolVars, caller, owed, wakes>>

(* The poll of the future begins, sees everything that happened so far and *)
(* may leave its waker somewhere.                                          *)
BeginPoll(w) ==
  /\ worker[w].pc = "ready"
  /\ owed' = owed \ {worker[w].task}
  /\ waker' \in {waker, waker \cup {worker[w].task}}
  /\ WorkerGoto(w, "polling")
  /\ UNCHANGED <<status, inner, task, queue, poolVars, caller, wakes>>

EndPoll(w) ==
  /\ worker[w].pc = "polling"
  /\ \E result \in {"complete", "wait_store"} : WorkerGoto(w, result)
  /\ UNCHANGED <<status, inner, task, waker, queue, poolVars, caller, owed, wakes>>

(* The Task goes away, and with it its WakeHandle unless a waker is left.  *)
DropTask(t, how) ==
  /\ task' = [task EXCEPT ![t] = how]
  /\ DropPools(IF t \in waker THEN 1 ELSE 2, handles)

(* The future panics: the worker thread unwinds out of work(), and nobody  *)
(* calls complete().                                                       *)
PollPanics(w) ==
  /\ worker[w].pc = "polling"
  /\ DropTask(worker[w].task, "panicked")
  /\ worker' = [worker EXCEPT ![w] = At("dead", AnyTask)]
  /\ UNCHANGED <<status, inner, waker, handles, caller, owed, wakes>>

(* complete                                                                *)
Complete(w) ==
  /\ worker[w].pc = "complete"
  /\ status' = [status EXCEPT ![worker[w].task] = COMPLETE]
  /\ DropTask(worker[w].task, "gone")
  /\ worker' = [worker EXCEPT ![w] = Idle]
  /\ UNCHANGED <<inner, waker, handles, caller, owed, wakes>>

(* wait: the task goes into the cell,                                      *)
WaitStore(w) ==
  /\ worker[w].pc = "wait_store"
  /\ inner' = [inner EXCEPT ![worker[w].task] = TRUE]
  /\ WorkerGoto(w, "wait_cas")
  /\ UNCHANGED <<status, task, waker, queue, poolVars, caller, owed, wakes>>

(* BUG: the status is stored without looking for a REPOLL request.         *)
WaitBlindly(w) ==
  /\ worker[w].pc = "wait_cas"
  /\ status' = [status EXCEPT ![worker[w].task] = WAITING]
  /\ worker' = [worker EXCEPT ![w] = Idle]
  /\ UNCHANGED <<inner, task, waker, queue, poolVars, caller, owed, wakes>>

(* and stays there unless a wake-up came in; if one did,                   *)
WaitCas(w) ==
  /\ worker[w].pc = "wait_cas"
  /\ IF status[worker[w].task] = POLLING
     THEN /\ status' = [status EXCEPT ![worker[w].task] = WAITING]
          /\ worker' = [worker EXCEPT ![w] = Idle]
     ELSE WorkerGoto(w, "repoll") /\ UNCHANGED status
  /\ UNCHANGED <<inner, task, waker, queue, poolVars, caller, owed, wakes>>

(* the worker takes it out again and polls once more.                      *)
Repoll(w) ==
  /\ worker[w].pc = "repoll"
  /\ status' = [status EXCEPT ![worker[w].task] = POLLING]
  /\ inner' = [inner EXCEPT ![worker[w].task] = FALSE]
  /\ WorkerGoto(w, "ready")
  /\ UNCHANGED <<task, waker, queue, poolVars, caller, owed, wakes>>

------------------------------------------------------------------------------
(* WakeHandle::wake_by_ref and UnparkMutex::notify                         *)

(* BUG: a task that is already queued is queued once more.                 *)
NotifyAgain(c, t) ==
  /\ caller[c].pc = "idle" /\ t \in waker /\ wakes < MaxWakes
  /\ wakes' = wakes + 1
  /\ status' = [status EXCEPT ![t] = IF @ \in {WAITING, POLLING} THEN POLLING ELSE @]
  /\ caller' = [caller EXCEPT ![c] = IF status[t] \in {WAITING, POLLING}
                                     THEN At("take", t) ELSE @]
  /\ owed' = IF task[t] = "alive" THEN owed \cup {t} ELSE owed
  /\ UNCHANGED <<inner, task, waker, queue, poolVars, worker>>

(* The loop ends with a compare_exchange or finds nothing to do.           *)
Notify(c, t) ==
  /\ caller[c].pc = "idle" /\ t \in waker /\ wakes < MaxWakes
  /\ wakes' = wakes + 1
  /\ status' = [status EXCEPT ![t] = CASE @ = WAITING -> POLLING
                                       [] @ = POLLING -> REPOLL
                                       [] OTHER -> @]
  /\ caller' = [caller EXCEPT ![c] = IF status[t] = WAITING THEN At("take", t) ELSE @]
  /\ owed' = IF task[t] = "alive" THEN owed \cup {t} ELSE owed
  /\ UNCHANGED <<inner, task, waker, queue, poolVars, worker>>

NotifyTake(c) ==
  /\ caller[c].pc = "take"
  /\ inner' = [inner EXCEPT ![caller[c].task] = FALSE]
  /\ CallerGoto(c, "send")
  /\ UNCHANGED <<status, task, waker, queue, poolVars, worker, owed, wakes>>

NotifySend(c) ==
  /\ caller[c].pc = "send"
  /\ queue' = Append(queue, caller[c].task)
  /\ caller' = [caller EXCEPT ![c] = Idle]
  /\ UNCHANGED <<status, inner, task, waker, poolVars, worker, owed, wakes>>

(* The last Waker clone of t is dropped, and with it the WakeHandle unless *)
(* the Task is still there.  (A task that waits in its own WakeHandle then *)
(* keeps it, and the pool, for ever.)                                      *)
DropWaker(t) ==
  /\ t \in waker
  /\ \A c \in Callers : caller[c].pc # "idle" => caller[c].task # t
  /\ waker' = waker \ {t}
  /\ DropPools(IF task[t] = "alive" THEN 0 ELSE 1, handles)
  /\ UNCHANGED <<status, inner, task, handles, worker, caller, owed, wakes>>

------------------------------------------------------------------------------
WorkerStep(w) ==
  \/ Receive(w) \/ StartPoll(w) \/ BeginPoll(w) \/ EndPoll(w) \/ Complete(w)
  \/ WaitStore(w) \/ WaitCas(w) \/ Repoll(w)

CallerStep(c) == NotifyTake(c) \/ NotifySend(c)

Next ==
  \/ CloneHandle \/ DropHandle
  \/ \E t \in Tasks : Spawn(t) \/ DropWaker(t)
  \/ \E w \in Workers : WorkerStep(w) \/ PollPanics(w)
  \/ \E c \in Callers : CallerStep(c) \/ \E t \in Tasks : Notify(c, t)

Spec == Init /\ [][Next]_vars

(* Threads run, and a poll returns (or panics) in the end.                 *)
FairSpec == /\ Spec
            /\ \A w \in Workers : WF_vars(WorkerStep(w))
            /\ \A c \in Callers : WF_vars(CallerStep(c))

------------------------------------------------------------------------------
Holding(w) == worker[w].pc \notin {"idle", "stopped", "dead"}

WorkerPC == {"idle", "start", "ready", "polling", "complete", "wait_store", "wait_cas", "repoll",
             "stopped", "dead"}
CallerPC == {"idle", "take", "send"}

TypeOK ==
  /\ status \in [Tasks -> {WAITING, POLLING, REPOLL, COMPLETE}]
  /\ inner \in [Tasks -> BOOLEAN]
  /\ task \in [Tasks -> {"unborn", "alive", "gone", "panicked"}]
  /\ waker \subseteq Tasks /\ owed \subseteq Tasks
  /\ queue \in Seq(Tasks \cup {Close})
  /\ handles \in Nat /\ cnt \in Nat /\ wakes \in Nat
  /\ worker \in [Workers -> [pc : WorkerPC, task : Tasks]]
  /\ caller \in [Callers -> [pc : CallerPC, task : Tasks]]

(* Everywhere a Task object can be: with a worker, with a caller of wake() *)
(* that won it, in the queue, or in the cell of a task that waits.         *)
Places(t) ==
  {<<"worker", w>> : w \in {w \in Workers : Holding(w) /\ worker[w].task = t}}
    \cup {<<"caller", c>> : c \in {c \in Callers : caller[c].pc # "idle" /\ caller[c].task = t}}
    \cup {<<"queue", i>> : i \in {i \in DOMAIN queue : queue[i] = t}}
    \cup (IF inner[t] /\ status[t] = WAITING THEN {<<"cell", t>>} ELSE {})

(* "`poll` being invoked on only a single thread at a time" (UnparkMutex): *)
(* a live task is in exactly one place, and a task that is gone in none.   *)
OnePlace == \A t \in Tasks : Cardinality(Places(t)) = IF task[t] = "alive" THEN 1 ELSE 0

(* The pool is told to stop only when no task is left.                     *)
CloseIsLast ==
  (\E i \in DOMAIN queue : queue[i] = Close) \/ (\E w \in Workers : worker[w].pc = "stopped") =>
    /\ handles = 0
    /\ \A t \in Tasks : task[t] # "alive"

(* "`poll` being invoked at least once after each `unpark`" (UnparkMutex): *)
(* a woken task is polled again or ends, unless panics have killed every   *)
(* worker.                                                                 *)
WokenIsPolled ==
  \A t \in Tasks : t \in owed ~> \/ t \notin owed \/ task[t] # "alive"
                                 \/ \A w \in Workers : worker[w].pc = "dead"

(* When the last handle is dropped the workers stop.                       *)
WorkersStop == (cnt = 0) ~> \A w \in Workers : worker[w].pc \in {"stopped", "dead"}
==============================================================================
