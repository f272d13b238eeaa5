--------------------------- MODULE FuturesUnordered ---------------------------
(***************************************************************************)
(* futures-util/src/stream/futures_unordered: a set of futures polled by   *)
(* its owner, each through a waker of its own.  Two intrusive lists of     *)
(* reference-counted tasks: all tasks with a future (doubly linked, pushed *)
(* to concurrently), and the ready-to-run queue into which a wake() from   *)
(* any thread puts its task.  One action per access to memory that several *)
(* threads use; what &mut self makes exclusive is one step with it.        *)
(*                                                                         *)
(* strong[t] is the task's Arc count.  The raw pointers of the two lists   *)
(* stand for one reference between them, a Waker clone for another.        *)
(***************************************************************************)
EXTENDS Integers, FiniteSets

CONSTANTS Tasks,      \* the tasks that push() allocates
          Threads,    \* threads that push futures and call wake()
          MaxWakes    \* bound: calls of wake()

Null == "null"
Stub == "stub"        \* ReadyToRunQueue::stub, and pending_next_all()
Parent == "parent"    \* the task that polls the set

ASSUME TasksAssumption == {Null, Stub} \cap Tasks = {}

VARIABLES head_all, next_all, prev_all, len_all,  \* the list of all tasks
          head, tail, next_ready,                 \* the ready-to-run queue
          future,       \* tasks whose `future` is Some
          queued, woken,  \* the flags of each task
          strong,       \* Arc count of each task
          born,         \* tasks allocated so far
          waker,        \* tasks with a Waker clone in the outside world
          queue_refs,   \* Arc count of the ReadyToRunQueue
          aborted,      \* has abort("inconsistent in drop") been reached?
          is_terminated,
          owner,        \* where the owner is: pc, task in hand, counters, last result
          thread,       \* where each thread is: pc, task, pointer read, and why
          due,          \* tasks woken since their last poll began
          wakes,        \* calls of wake() so far
          registered, owed, notified  \* ReadyToRunQueue::waker; Parent woken

allVars == <<head_all, next_all, prev_all, len_all>>
readyVars == <<head, tail, next_ready>>
flagVars == <<queued, woken>>
memVars == <<strong, born, waker, queue_refs, aborted>>
cellVars == <<registered, owed, notified>>
ghostVars == <<due, wakes>>
vars == <<allVars, readyVars, future, flagVars, memVars, is_terminated, owner, thread,
          ghostVars, cellVars>>

Cell == INSTANCE WakerCell WITH Wakers <- {Parent}

Nodes == Tasks \cup {Stub}
Idle == [pc |-> "idle", task |-> Stub, ptr |-> Null, call |-> "none"]

(* FuturesUnordered::new                                                   *)
Init ==
  /\ head_all = Null
  /\ next_all = [t \in Tasks |-> Stub] /\ prev_all = [t \in Tasks |-> Null]
  /\ len_all = [t \in Tasks |-> 0]
  /\ head = Stub /\ tail = Stub /\ next_ready = [t \in Nodes |-> Null]
  /\ future = {} /\ queued = [t \in Tasks |-> TRUE] /\ woken = [t \in Tasks |-> FALSE]
  /\ strong = [t \in Tasks |-> 0] /\ born = {} /\ waker = {}
  /\ queue_refs = 1 /\ aborted = FALSE /\ is_terminated = FALSE
  /\ owner = [pc |-> "idle", task |-> Stub, ptr |-> Null, len |-> 0, polled |-> 0,
              yielded |-> 0, prev |-> FALSE, res |-> "ready"]
  /\ thread = [x \in Threads |-> Idle]
  /\ due = {} /\ wakes = 0
  /\ Cell!Init

ThreadGoto(x, pc) == thread' = [thread EXCEPT ![x].pc = pc]
OwnerGoto(pc) == owner' = [owner EXCEPT !.pc = pc]
Return(res) == owner' = [owner EXCEPT !.pc = "idle", !.task = Stub, !.ptr = Null,
                                      !.len = 0, !.polled = 0, !.yielded = 0, !.res = res]

(* push() borrows the set, poll_next() and drop() own it.                  *)
Pushing(x) == thread[x].call = "push"

------------------------------------------------------------------------------
(* link and unlink                                                         *)

(* BUG: the length of the old head is not counted on.                      *)
LinkBeforeShort(t, next) ==
  /\ len_all' = [len_all EXCEPT ![t] = 1]
  /\ next_all' = [next_all EXCEPT ![t] = next]
  /\ prev_all' = IF next = Null THEN prev_all ELSE [prev_all EXCEPT ![next] = t]

(* The second half of link: t is the head, `next` was.                     *)
LinkBefore(t, next) ==
  /\ len_all' = [len_all EXCEPT ![t] = IF next = Null THEN 1 ELSE len_all[next] + 1]
  /\ next_all' = [next_all EXCEPT ![t] = next]
  /\ prev_all' = IF next = Null THEN prev_all ELSE [prev_all EXCEPT ![next] = t]

Unlink(t) ==
  LET next == next_all[t]
      prev == prev_all[t]
  IN /\ head_all' = IF prev = Null THEN next ELSE head_all
     /\ next_all' = [q \in Tasks |-> IF q = t THEN Stub ELSE IF q = prev THEN next ELSE next_all[q]]
     /\ prev_all' = [q \in Tasks |-> IF q = t THEN Null ELSE IF q = next THEN prev ELSE prev_all[q]]
     /\ len_all' = IF head_all' = Null THEN len_all
                   ELSE [len_all EXCEPT ![head_all'] = len_all[head_all] - 1]

------------------------------------------------------------------------------
(* push and wake, by any thread                                            *)

(* The task is allocated, and link swaps it in as the head.                *)
Push(x, t) ==
  /\ thread[x].pc = "idle" /\ t \notin born
  /\ owner.pc = "idle"
  /\ born' = born \cup {t} /\ strong' = [strong EXCEPT ![t] = 1]
  /\ future' = future \cup {t}
  /\ is_terminated' = FALSE
  /\ head_all' = t
  /\ thread' = [thread EXCEPT ![x] = [pc |-> "link", task |-> t, ptr |-> head_all, call |-> "push"]]
  /\ UNCHANGED <<next_all, prev_all, len_all, readyVars, flagVars, waker, queue_refs, aborted,
                 owner, ghostVars, cellVars>>

(* Once the old head's next_all is written its len_all can be read.        *)
PushLink(x) ==
  /\ thread[x].pc = "link"
  /\ thread[x].ptr # Null => next_all[thread[x].ptr] # Stub
  /\ LinkBefore(thread[x].task, thread[x].ptr)
  /\ ThreadGoto(x, "enq_swap")
  /\ UNCHANGED <<head_all, readyVars, future, flagVars, memVars, is_terminated, owner,
                 ghostVars, cellVars>>

(* Task::wake_by_ref, through a waker clone.                               *)
Wake(x, t) ==
  /\ thread[x].pc = "idle" /\ t \in waker /\ wakes < MaxWakes
  /\ wakes' = wakes + 1
  /\ due' = IF t \in future THEN due \cup {t} ELSE due
  /\ IF queue_refs = 0 THEN UNCHANGED <<queue_refs, thread>>
     ELSE /\ queue_refs' = queue_refs + 1
          /\ thread' = [thread EXCEPT ![x] = [pc |-> "mark", task |-> t, ptr |-> Null, call |-> "wake"]]
  /\ UNCHANGED <<allVars, readyVars, future, flagVars, strong, born, waker, aborted,
                 is_terminated, owner, cellVars>>

WakeMark(x) ==
  /\ thread[x].pc = "mark"
  /\ woken' = [woken EXCEPT ![thread[x].task] = TRUE]
  /\ ThreadGoto(x, "swap")
  /\ UNCHANGED <<allVars, readyVars, future, queued, memVars, is_terminated, owner,
                 ghostVars, cellVars>>

WakeSwap(x) ==
  /\ thread[x].pc = "swap"
  /\ queued' = [queued EXCEPT ![thread[x].task] = TRUE]
  /\ ThreadGoto(x, IF queued[thread[x].task] THEN "unref" ELSE "enq_swap")
  /\ UNCHANGED <<allVars, readyVars, future, woken, memVars, is_terminated, owner,
                 ghostVars, cellVars>>

(* enqueue: the new head is swapped in,                                    *)
EnqueueSwap(x) ==
  /\ thread[x].pc = "enq_swap"
  /\ next_ready' = [next_ready EXCEPT ![thread[x].task] = Null]
  /\ head' = thread[x].task
  /\ thread' = [thread EXCEPT ![x].pc = "enq_link", ![x].ptr = head]
  /\ UNCHANGED <<allVars, tail, future, flagVars, memVars, is_terminated, owner,
                 ghostVars, cellVars>>

(* and then linked to the one before it.                                   *)
EnqueueLink(x) ==
  /\ thread[x].pc = "enq_link"
  /\ next_ready' = [next_ready EXCEPT ![thread[x].ptr] = thread[x].task]
  /\ thread' = [thread EXCEPT ![x] = IF Pushing(x) THEN Idle ELSE [@ EXCEPT !.pc = "wake"]]
  /\ UNCHANGED <<allVars, head, tail, future, flagVars, memVars, is_terminated, owner,
                 ghostVars, cellVars>>

(* inner.waker.wake()                                                      *)
WakeParent(x) ==
  /\ thread[x].pc = "wake"
  /\ Cell!Take
  /\ ThreadGoto(x, "unref")
  /\ UNCHANGED <<allVars, readyVars, future, flagVars, memVars, is_terminated, owner,
                 ghostVars, notified>>

Deliver ==
  /\ Cell!Deliver(Parent)
  /\ UNCHANGED <<allVars, readyVars, future, flagVars, memVars, is_terminated, owner, thread,
                 ghostVars, registered>>

------------------------------------------------------------------------------
(* The last reference to the queue                                         *)

(* What following the links from the node `first` comes to: the nodes that *)
(* every set has that has `first` and goes along with the links.           *)
Reachable(first, links) ==
  {n \in Nodes : \A S \in SUBSET Nodes :
     first \in S /\ (\A p \in S : links[p] \subseteq S) => n \in S}

Links == [p \in Nodes |-> {next_ready[p]} \ {Null}]
ReadyNodes == Reachable(tail, Links)

(* ReadyToRunQueue::drop, when it was the last: dequeue until Empty, and   *)
(* drop the reference that each task in the queue was left with.           *)
UnrefQueue ==
  /\ queue_refs' = queue_refs - 1
  /\ strong' = [t \in Tasks |-> IF queue_refs = 1 /\ t \in ReadyNodes
                                THEN strong[t] - 1 ELSE strong[t]]
  /\ aborted' = (aborted \/ (queue_refs = 1 /\ head \notin ReadyNodes))

WakeReturn(x) ==
  /\ thread[x].pc = "unref"
  /\ UnrefQueue
  /\ thread' = [thread EXCEPT ![x] = Idle]
  /\ UNCHANGED <<allVars, readyVars, future, flagVars, born, waker, is_terminated, owner,
                 ghostVars, cellVars>>

(* The last clone of a task's Waker is dropped.                            *)
DropWaker(t) ==
  /\ t \in waker
  /\ \A x \in Threads : thread[x].call = "wake" => thread[x].task # t
  /\ waker' = waker \ {t}
  /\ strong' = [strong EXCEPT ![t] = @ - 1]
  /\ UNCHANGED <<allVars, readyVars, future, flagVars, born, queue_refs, aborted, is_terminated,
                 owner, thread, ghostVars, cellVars>>

------------------------------------------------------------------------------
(* poll_next                                                               *)

SharedUnchanged == UNCHANGED <<born, queue_refs, aborted, thread, wakes>>

PollNext ==
  /\ owner.pc = "idle" /\ \A x \in Threads : ~Pushing(x)
  /\ owner' = [owner EXCEPT !.pc = "register", !.res = "ready",
                            !.len = IF head_all = Null THEN 0 ELSE len_all[head_all]]
  /\ notified' = {}
  /\ SharedUnchanged
  /\ UNCHANGED <<allVars, readyVars, future, flagVars, strong, waker, is_terminated, due,
                 registered, owed>>

(* BUG: the waker of the parent is not registered.                         *)
RegisterNever ==
  /\ owner.pc = "register"
  /\ OwnerGoto("dequeue")
  /\ SharedUnchanged
  /\ UNCHANGED <<allVars, readyVars, future, flagVars, strong, waker, is_terminated, due,
                 cellVars>>

Register ==
  /\ owner.pc = "register"
  /\ Cell!Register(Parent)
  /\ OwnerGoto("dequeue")
  /\ SharedUnchanged
  /\ UNCHANGED <<allVars, readyVars, future, flagVars, strong, waker, is_terminated, due,
                 notified>>

(* dequeue found t.                                                        *)
Found(t, next) == /\ tail' = next
                  /\ owner' = [owner EXCEPT !.pc = "data", !.task = t]
                  /\ UNCHANGED <<head, next_ready, is_terminated, notified>>

(* Dequeue::Inconsistent: the parent wakes itself and yields.              *)
Inconsistent == /\ notified' = {Parent}
                /\ Return("pending")
                /\ UNCHANGED <<readyVars, is_terminated>>

(* Dequeue::Empty                                                          *)
Empty == /\ Return(IF head_all = Null THEN "none" ELSE "pending")
         /\ is_terminated' = (is_terminated \/ head_all = Null)
         /\ UNCHANGED <<readyVars, notified>>

DequeueUnchanged ==
  /\ SharedUnchanged
  /\ UNCHANGED <<allVars, future, flagVars, strong, waker, due, registered, owed>>

(* The stub is at the tail: skip it, or the queue is empty.                *)
DequeueStub ==
  /\ owner.pc = "dequeue" /\ tail = Stub
  /\ \/ next_ready[Stub] = Null /\ Empty
     \/ /\ next_ready[Stub] # Null
        /\ tail' = next_ready[Stub]
        /\ UNCHANGED <<head, next_ready, owner, is_terminated, notified>>
  /\ DequeueUnchanged

(* A task is at the tail, and can be taken if something comes after it.    *)
DequeueTask ==
  /\ owner.pc = "dequeue" /\ tail # Stub
  /\ \/ next_ready[tail] # Null /\ Found(tail, next_ready[tail])
     \/ /\ next_ready[tail] = Null
        /\ OwnerGoto("deq_head")
        /\ UNCHANGED <<readyVars, is_terminated, notified>>
  /\ DequeueUnchanged

(* Is it the head, or is somebody about to link a task behind it?          *)
DequeueHead ==
  /\ owner.pc = "deq_head"
  /\ \/ head # tail /\ Inconsistent
     \/ head = tail /\ OwnerGoto("stub_swap") /\ UNCHANGED <<readyVars, is_terminated, notified>>
  /\ DequeueUnchanged

(* enqueue(stub)                                                           *)
StubSwap ==
  /\ owner.pc = "stub_swap"
  /\ next_ready' = [next_ready EXCEPT ![Stub] = Null]
  /\ head' = Stub
  /\ owner' = [owner EXCEPT !.pc = "stub_link", !.ptr = head]
  /\ DequeueUnchanged
  /\ UNCHANGED <<tail, is_terminated, notified>>

StubLink ==
  /\ owner.pc = "stub_link"
  /\ next_ready' = [next_ready EXCEPT ![owner.ptr] = Stub]
  /\ OwnerGoto("deq_last")
  /\ DequeueUnchanged
  /\ UNCHANGED <<head, tail, is_terminated, notified>>

DequeueLast ==
  /\ owner.pc = "deq_last"
  /\ \/ next_ready[tail] # Null /\ Found(tail, next_ready[tail])
     \/ next_ready[tail] = Null /\ Inconsistent
  /\ DequeueUnchanged

Dequeue == DequeueStub \/ DequeueTask \/ DequeueHead \/ StubSwap \/ StubLink \/ DequeueLast

PollUnchanged ==
  /\ SharedUnchanged
  /\ UNCHANGED <<readyVars, is_terminated, registered, owed>>

(* A task released before: the reference that the queue stood for goes.    *)
CleanOut ==
  /\ owner.pc = "data" /\ owner.task \notin future
  /\ strong' = [strong EXCEPT ![owner.task] = @ - 1]
  /\ owner' = [owner EXCEPT !.pc = "dequeue", !.task = Stub]
  /\ PollUnchanged
  /\ UNCHANGED <<allVars, future, flagVars, waker, due, notified>>

(* unlink, and queued.swap(false), before the poll                         *)
TakeOut ==
  /\ owner.pc = "data" /\ owner.task \in future
  /\ Unlink(owner.task)
  /\ queued' = [queued EXCEPT ![owner.task] = FALSE]
  /\ owner' = [owner EXCEPT !.pc = "begin", !.prev = queued[owner.task]]
  /\ PollUnchanged
  /\ UNCHANGED <<future, woken, strong, waker, due, notified>>

(* The future is polled, and may keep a clone of its waker.                *)
BeginPoll ==
  /\ owner.pc = "begin"
  /\ woken' = [woken EXCEPT ![owner.task] = FALSE]
  /\ due' = due \ {owner.task}
  /\ \/ UNCHANGED <<waker, strong>>
     \/ /\ owner.task \notin waker
        /\ waker' = waker \cup {owner.task}
        /\ strong' = [strong EXCEPT ![owner.task] = @ + 1]
  /\ owner' = [owner EXCEPT !.pc = "polling", !.polled = @ + 1]
  /\ PollUnchanged
  /\ UNCHANGED <<allVars, future, queued, notified>>

(* Poll::Pending: link the task again, and yield when two futures did, or  *)
(* when as many polls were made as there were tasks.                       *)
Pending ==
  /\ owner.pc = "polling"
  /\ head_all' = owner.task
  /\ LinkBefore(owner.task, head_all)
  /\ LET yielded == owner.yielded + (IF woken[owner.task] THEN 1 ELSE 0)
     IN \/ /\ yielded >= 2 \/ owner.polled = owner.len
           /\ notified' = {Parent}
           /\ Return("pending")
        \/ /\ yielded < 2 /\ owner.polled # owner.len
           /\ owner' = [owner EXCEPT !.pc = "dequeue", !.task = Stub, !.yielded = yielded]
           /\ UNCHANGED notified
  /\ PollUnchanged
  /\ UNCHANGED <<future, flagVars, strong, waker, due>>

(* Poll::Ready, or a panic: either way the Bomb calls release_task.        *)
Finish(res) ==
  /\ owner.pc = "polling"
  /\ owner' = [owner EXCEPT !.pc = "release", !.res = res]
  /\ PollUnchanged
  /\ UNCHANGED <<allVars, future, flagVars, strong, waker, due, notified>>

------------------------------------------------------------------------------
(* release_task and drop                                                   *)

ReleaseSwap ==
  /\ owner.pc \in {"release", "drop_release"}
  /\ queued' = [queued EXCEPT ![owner.task] = TRUE]
  /\ owner' = [owner EXCEPT !.pc = IF @ = "release" THEN "clear" ELSE "drop_clear",
                            !.prev = queued[owner.task]]
  /\ PollUnchanged
  /\ UNCHANGED <<allVars, future, woken, strong, waker, due, notified>>

(* BUG: the reference is dropped although the task is in the queue.        *)
ReleaseAlways ==
  /\ owner.pc \in {"clear", "drop_clear"}
  /\ future' = future \ {owner.task} /\ due' = due \ {owner.task}
  /\ strong' = [strong EXCEPT ![owner.task] = @ - 1]
  /\ IF owner.pc = "clear" THEN Return(owner.res) ELSE OwnerGoto("drop")
  /\ PollUnchanged
  /\ UNCHANGED <<allVars, flagVars, waker, notified>>

(* The future is dropped, and the reference too unless the task was queued *)
(* and the queue stands for it now.                                        *)
Release ==
  /\ owner.pc \in {"clear", "drop_clear"}
  /\ future' = future \ {owner.task} /\ due' = due \ {owner.task}
  /\ strong' = [strong EXCEPT ![owner.task] = IF owner.prev THEN @ ELSE @ - 1]
  /\ IF owner.pc = "clear" THEN Return(owner.res) ELSE OwnerGoto("drop")
  /\ PollUnchanged
  /\ UNCHANGED <<allVars, flagVars, waker, notified>>

(* FuturesUnordered::drop, also in clear(); into_iter() takes the futures  *)
(* out one by one and drops the rest.                                      *)
StartDrop ==
  /\ owner.pc = "idle" /\ \A x \in Threads : ~Pushing(x)
  /\ OwnerGoto("drop")
  /\ PollUnchanged
  /\ UNCHANGED <<allVars, future, flagVars, strong, waker, due, notified>>

DropHead ==
  /\ owner.pc = "drop" /\ head_all # Null
  /\ Unlink(head_all)
  /\ owner' = [owner EXCEPT !.pc = "drop_release", !.task = head_all]
  /\ PollUnchanged
  /\ UNCHANGED <<future, flagVars, strong, waker, due, notified>>

DropQueue ==
  /\ owner.pc = "drop" /\ head_all = Null
  /\ UnrefQueue
  /\ OwnerGoto("gone")
  /\ UNCHANGED <<allVars, readyVars, future, flagVars, born, waker, is_terminated, thread,
                 ghostVars, cellVars>>

------------------------------------------------------------------------------
ThreadStep(x) == PushLink(x) \/ WakeMark(x) \/ WakeSwap(x) \/ EnqueueSwap(x)
                 \/ EnqueueLink(x) \/ WakeParent(x) \/ WakeReturn(x)

OwnerStep == Register \/ Dequeue \/ CleanOut \/ TakeOut \/ BeginPoll \/ Pending \/ Finish("ready")
             \/ ReleaseSwap \/ Release \/ DropHead \/ DropQueue

Next == \/ \E x \in Threads : ThreadStep(x) \/ \E t \in Tasks : Push(x, t) \/ Wake(x, t)
        \/ \E t \in Tasks : DropWaker(t)
        \/ OwnerStep \/ PollNext \/ Finish("panic") \/ StartDrop
        \/ Deliver

Spec == Init /\ [][Next]_vars

------------------------------------------------------------------------------
Linked == {t \in Tasks : next_all[t] # Stub}

(* A task whose reference the set or its queue owns: a linked one, the one *)
(* in the owner's hands, or one that was released while it was queued.     *)
InHand == owner.pc \in {"begin", "polling", "release", "drop_release", "clear", "drop_clear"}
PushLinking == {t \in Tasks : \E x \in Threads : thread[x].pc = "link" /\ thread[x].task = t}
Enqueuing == {t \in Tasks : \E x \in Threads : thread[x].pc = "enq_swap" /\ thread[x].task = t}

(* The nodes of the queue, those behind a missing link included.           *)
Behind ==
  [p \in Nodes |->
     Links[p]
     \cup {thread[x].task : x \in {y \in Threads : thread[y].pc = "enq_link" /\ thread[y].ptr = p}}
     \cup (IF owner.pc = "stub_link" /\ owner.ptr = p THEN {Stub} ELSE {})]
QueueNodes == Reachable(tail, Behind)

Owned == Linked \cup PushLinking \cup (IF InHand THEN {owner.task} ELSE {})
OwnedByQueue == IF queue_refs = 0 THEN {}
                ELSE {t \in Tasks \ (Owned \cup future) : t \in QueueNodes \cup Enqueuing
                                      \/ (owner.pc = "data" /\ owner.task = t)}

(* Arcs turned into raw pointers are counted once: no task is freed while  *)
(* the set, the queue, a thread that is enqueuing or a waker points to it, *)
(* and none is kept when they are all gone.  A task is never freed with    *)
(* its future in it, and the queue is consistent when it is dropped (the   *)
(* two aborts).                                                            *)
MemorySafe ==
  /\ \A t \in Tasks :
       strong[t] = (IF t \in Owned THEN 1 ELSE 0) + (IF t \in OwnedByQueue THEN 1 ELSE 0)
                   + (IF t \in waker THEN 1 ELSE 0)
  /\ queue_refs > 0 => \A t \in (QueueNodes \cup {head}) \ {Stub} : strong[t] > 0
  /\ \A x \in Threads : thread[x].pc = "enq_link" /\ thread[x].ptr # Stub => strong[thread[x].ptr] > 0
  /\ \A t \in future : strong[t] > 0
  /\ ~aborted

(* What poll_next and unlink take for granted when no push is under way:   *)
(* the list holds each task with a future once, its head knows the length, *)
(* `assert!(prev)` holds, and a terminated set is empty.                   *)
SetConsistent ==
  /\ owner.pc = "begin" => owner.prev
  /\ is_terminated => future = {}
  /\ \A t \in Linked :
       /\ next_all[t] # Null => prev_all[next_all[t]] = t
       /\ prev_all[t] = Null <=> head_all = t \/ (\E x \in Threads : thread[x].ptr = t /\ thread[x].pc = "link")
  /\ PushLinking = {} =>
       /\ head_all = Null <=> Linked = {}
       /\ head_all # Null => len_all[head_all] = Cardinality(Linked)
       /\ Linked = future \ (IF InHand THEN {owner.task} ELSE {})

(* A future that was woken since its last poll is in the queue or on its   *)
(* way into it, or about to be polled; and when the owner sleeps (its last *)
(* poll was Pending) the parent is going to be woken.                      *)
Asleep == owner.pc = "idle" /\ owner.res = "pending" /\ Parent \notin notified
NoLostWakeUp ==
  \A t \in due :
    /\ \/ t \in QueueNodes
       \/ \E x \in Threads : thread[x].task = t /\ thread[x].pc \in {"mark", "swap", "enq_swap"}
       \/ owner.task = t /\ (InHand \/ owner.pc = "data")
    /\ Asleep => \/ Parent \in owed
                 \/ \E x \in Threads : thread[x].pc \notin {"idle", "unref"}
==============================================================================
