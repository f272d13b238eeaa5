--------------------------- MODULE ThreadPoolProofs ---------------------------
(***************************************************************************)
(* The ThreadPool and its UnparkMutex, for any set of tasks, any set of    *)
(* threads that wake them and any finite set of workers.                   *)
(***************************************************************************)
EXTENDS ThreadPool, FiniteSetTheorems, TLAPS

------------------------------------------------------------------------------
(* A message in a queue, and in it only once                               *)

In(q, m) == \E i \in 1 .. Len(q) : q[i] = m
Once(q, m) == \A i, j \in 1 .. Len(q) : q[i] = m /\ q[j] = m => i = j

LEMMA InAppend ==
  ASSUME NEW S, NEW q \in Seq(S), NEW x \in S, NEW m
  PROVE  /\ Append(q, x) \in Seq(S)
         /\ In(Append(q, x), m) <=> In(q, m) \/ x = m
         /\ Once(q, m) /\ (x = m => ~In(q, m)) => Once(Append(q, x), m)
<1>1. /\ Len(Append(q, x)) = Len(q) + 1 /\ Len(q) \in Nat /\ Append(q, x) \in Seq(S)
      /\ \A i \in 1 .. Len(q) + 1 : Append(q, x)[i] = IF i = Len(q) + 1 THEN x ELSE q[i]
  OBVIOUS
<1>2. In(Append(q, x), m) => In(q, m) \/ x = m
  BY <1>1 DEF In
<1>3. In(q, m) => In(Append(q, x), m)
  <2> SUFFICES ASSUME NEW i \in 1 .. Len(q), q[i] = m PROVE In(Append(q, x), m)
    BY DEF In
  <2>1. i \in 1 .. Len(q) + 1 /\ Append(q, x)[i] = m
    BY <1>1
  <2> QED
    BY <1>1, <2>1 DEF In
<1>4. x = m => In(Append(q, x), m)
  <2>1. Len(q) + 1 \in 1 .. Len(q) + 1 /\ Append(q, x)[Len(q) + 1] = x
    BY <1>1
  <2> QED
    BY <1>1, <2>1 DEF In
<1>5. ASSUME Once(q, m), x = m => ~In(q, m) PROVE Once(Append(q, x), m)
  BY <1>1, <1>5 DEF Once, In
<1> QED
  BY <1>1, <1>2, <1>3, <1>4, <1>5

LEMMA InTail ==
  ASSUME NEW S, NEW q \in Seq(S), q # << >>, NEW m
  PROVE  /\ Head(q) \in S /\ Tail(q) \in Seq(S)
         /\ In(q, m) <=> Head(q) = m \/ In(Tail(q), m)
         /\ Once(q, m) => Once(Tail(q), m)
         /\ Once(q, m) /\ Head(q) = m => ~In(Tail(q), m)
<1>1. /\ Len(Tail(q)) = Len(q) - 1 /\ Len(q) \in Nat \ {0} /\ Head(q) = q[1]
      /\ Head(q) \in S /\ Tail(q) \in Seq(S)
      /\ \A i \in 1 .. Len(q) - 1 : Tail(q)[i] = q[i + 1]
  OBVIOUS
<1>2. ASSUME In(q, m), Head(q) # m PROVE In(Tail(q), m)
  <2>1. PICK i \in 1 .. Len(q) : q[i] = m
    BY <1>2 DEF In
  <2>2. i - 1 \in 1 .. Len(q) - 1 /\ Tail(q)[i - 1] = m
    BY <1>1, <1>2, <2>1
  <2> QED
    BY <1>1, <2>2 DEF In
<1>3. ASSUME In(Tail(q), m) PROVE In(q, m)
  <2>1. PICK i \in 1 .. Len(q) - 1 : Tail(q)[i] = m
    BY <1>1, <1>3 DEF In
  <2>2. i + 1 \in 1 .. Len(q) /\ q[i + 1] = m
    BY <1>1, <2>1
  <2> QED
    BY <2>2 DEF In
<1>4. Head(q) = m => In(q, m)
  BY <1>1 DEF In
<1>5. ASSUME Once(q, m)
      PROVE  Once(Tail(q), m) /\ (Head(q) = m => ~In(Tail(q), m))
  BY <1>1, <1>5 DEF Once, In
<1> QED
  BY <1>1, <1>2, <1>3, <1>4, <1>5

(* The Close messages are put behind everything else.                      *)
Closes == [i \in 1 .. Cardinality(Workers) |-> Close]

LEMMA InCloses ==
  ASSUME NEW q \in Seq(Tasks \cup {Close}), NEW m \in Tasks
  PROVE  /\ q \o Closes \in Seq(Tasks \cup {Close})
         /\ In(q \o Closes, m) <=> In(q, m)
         /\ Once(q, m) => Once(q \o Closes, m)
<1>1. Cardinality(Workers) \in Nat
  BY ConstantsAssumption, FS_CardinalityType
<1>2. /\ Closes \in Seq(Tasks \cup {Close}) /\ Len(Closes) = Cardinality(Workers)
      /\ \A i \in 1 .. Cardinality(Workers) : Closes[i] = Close
  BY <1>1 DEF Closes
<1>3. /\ q \o Closes \in Seq(Tasks \cup {Close})
      /\ Len(q \o Closes) = Len(q) + Cardinality(Workers) /\ Len(q) \in Nat
      /\ \A i \in 1 .. Len(q) + Cardinality(Workers) :
           (q \o Closes)[i] = IF i <= Len(q) THEN q[i] ELSE Closes[i - Len(q)]
  BY <1>1, <1>2
<1>4. \A i \in 1 .. Len(q) + Cardinality(Workers) :
        (q \o Closes)[i] = m => i \in 1 .. Len(q) /\ q[i] = m
  <2> SUFFICES ASSUME NEW i \in 1 .. Len(q) + Cardinality(Workers), (q \o Closes)[i] = m
               PROVE  i \in 1 .. Len(q) /\ q[i] = m
    OBVIOUS
  <2>1. ASSUME ~(i <= Len(q)) PROVE FALSE
    <3>1. i - Len(q) \in 1 .. Cardinality(Workers)
      BY <1>1, <1>3, <2>1
    <3> QED
      BY <1>2, <1>3, <2>1, <3>1, ConstantsAssumption
  <2> QED
    BY <1>3, <2>1
<1>5. In(q \o Closes, m) => In(q, m)
  BY <1>3, <1>4 DEF In
<1>6. ASSUME In(q, m) PROVE In(q \o Closes, m)
  <2>1. PICK i \in 1 .. Len(q) : q[i] = m
    BY <1>6 DEF In
  <2>2. i \in 1 .. Len(q) + Cardinality(Workers) /\ (q \o Closes)[i] = m
    BY <1>1, <1>3, <2>1
  <2> QED
    BY <1>3, <2>2 DEF In
<1>7. Once(q, m) => Once(q \o Closes, m)
  BY <1>3, <1>4 DEF Once
<1> QED
  BY <1>3, <1>5, <1>6, <1>7

------------------------------------------------------------------------------
(* Types, of everything but the count, which is of the right type because  *)
(* it is exact (see Counted below)                                         *)
WorkerStates == [pc : WorkerPC, task : Tasks]
CallerStates == [pc : CallerPC, task : Tasks]

Typed ==
  /\ status \in [Tasks -> {WAITING, POLLING, REPOLL, COMPLETE}]
  /\ inner \in [Tasks -> BOOLEAN]
  /\ task \in [Tasks -> {"unborn", "alive", "gone", "panicked"}]
  /\ waker \subseteq Tasks /\ owed \subseteq Tasks
  /\ queue \in Seq(Tasks \cup {Close})
  /\ handles \in Nat /\ cnt \in Int /\ wakes \in Nat
  /\ worker \in [Workers -> WorkerStates] /\ caller \in [Callers -> CallerStates]

LEMMA SomeTask == AnyTask \in Tasks
  BY ConstantsAssumption DEF AnyTask

(* What dropping clones of the pool does to the queue.                     *)
LEMMA PoolsDropped ==
  ASSUME queue \in Seq(Tasks \cup {Close}), cnt \in Int, NEW n \in Nat, NEW held, DropPools(n, held)
  PROVE  /\ queue' \in Seq(Tasks \cup {Close}) /\ cnt' \in Int
         /\ \A t \in Tasks : /\ In(queue', t) <=> In(queue, t)
                             /\ Once(queue, t) => Once(queue', t)
<1>1. queue' \in {queue, queue \o Closes} /\ cnt' = cnt - n
  BY DEF DropPools, Closes
<1>2. queue \o Closes \in Seq(Tasks \cup {Close})
  BY InCloses, SomeTask
<1>3. CASE queue' = queue
  BY <1>1, <1>3
<1>4. CASE queue' = queue \o Closes
  <2>1. \A t \in Tasks : /\ In(queue \o Closes, t) <=> In(queue, t)
                         /\ Once(queue, t) => Once(queue \o Closes, t)
    BY InCloses
  <2> QED
    BY <1>1, <1>2, <1>4, <2>1
<1> QED
  BY <1>1, <1>3, <1>4

LEMMA InitTyped == Init => Typed
<1> SUFFICES ASSUME Init PROVE Typed
  OBVIOUS
<1>1. worker \in [Workers -> WorkerStates] /\ caller \in [Callers -> CallerStates]
  BY SomeTask DEF Init, Idle, At, WorkerStates, CallerStates, WorkerPC, CallerPC
<1> QED
  BY <1>1 DEF Init, Typed

(* A worker that goes on with its task, and one that takes or leaves one.  *)
LEMMA WorkerMoves ==
  ASSUME Typed, NEW w \in Workers, NEW pc \in WorkerPC, WorkerGoto(w, pc)
  PROVE  /\ worker' \in [Workers -> WorkerStates]
         /\ worker'[w].pc = pc /\ worker'[w].task = worker[w].task
         /\ \A v \in Workers : v # w => worker'[v] = worker[v]
<1>1. worker \in [Workers -> WorkerStates]
  BY DEF Typed
<1>2. worker' = [worker EXCEPT ![w].pc = pc]
  BY DEF WorkerGoto
<1>3. worker'[w] = [worker[w] EXCEPT !.pc = pc] /\ \A v \in Workers : v # w => worker'[v] = worker[v]
  BY <1>1, <1>2
<1>4. [worker[w] EXCEPT !.pc = pc] \in WorkerStates
  BY <1>1 DEF WorkerStates
<1>5. worker' \in [Workers -> WorkerStates]
  BY <1>1, <1>2, <1>4
<1> QED
  BY <1>1, <1>3, <1>5 DEF WorkerStates

LEMMA WorkerTurns ==
  ASSUME Typed, NEW w \in Workers, NEW pc \in WorkerPC, NEW t \in Tasks,
         worker' = [worker EXCEPT ![w] = At(pc, t)]
  PROVE  /\ worker' \in [Workers -> WorkerStates]
         /\ worker'[w].pc = pc /\ worker'[w].task = t
         /\ \A v \in Workers : v # w => worker'[v] = worker[v]
<1>1. worker \in [Workers -> WorkerStates] /\ At(pc, t) \in WorkerStates
  BY DEF Typed, At, WorkerStates
<1>2. worker'[w] = At(pc, t) /\ \A v \in Workers : v # w => worker'[v] = worker[v]
  BY <1>1
<1> QED
  BY <1>1, <1>2 DEF At

LEMMA CallerMoves ==
  ASSUME Typed, NEW c \in Callers, NEW pc \in CallerPC, NEW t \in Tasks,
         \/ caller' = [caller EXCEPT ![c] = At(pc, t)]
         \/ CallerGoto(c, pc) /\ caller[c].task = t
  PROVE  /\ caller' \in [Callers -> CallerStates]
         /\ caller'[c].pc = pc /\ caller'[c].task = t
         /\ \A v \in Callers : v # c => caller'[v] = caller[v]
<1>1. caller \in [Callers -> CallerStates] /\ At(pc, t) \in CallerStates
  BY DEF Typed, At, CallerStates
<1>2. CASE caller' = [caller EXCEPT ![c] = At(pc, t)]
  <2>1. caller'[c] = At(pc, t) /\ \A v \in Callers : v # c => caller'[v] = caller[v]
    BY <1>1, <1>2
  <2> QED
    BY <1>1, <1>2, <2>1 DEF At
<1>3. CASE CallerGoto(c, pc) /\ caller[c].task = t
  <2>1. caller' = [caller EXCEPT ![c].pc = pc]
    BY <1>3 DEF CallerGoto
  <2>2. caller'[c] = [caller[c] EXCEPT !.pc = pc] /\ \A v \in Callers : v # c => caller'[v] = caller[v]
    BY <1>1, <2>1
  <2>3. [caller[c] EXCEPT !.pc = pc] \in CallerStates
    BY <1>1 DEF CallerStates
  <2>4. caller' \in [Callers -> CallerStates]
    BY <1>1, <2>1, <2>3
  <2> QED
    BY <1>1, <1>3, <2>2, <2>4 DEF CallerStates
<1> QED
  BY <1>2, <1>3

LEMMA NextTyped == Typed /\ [Next]_vars => Typed'
<1> SUFFICES ASSUME Typed, [Next]_vars PROVE Typed'
  OBVIOUS
<1>0. /\ queue \in Seq(Tasks \cup {Close}) /\ cnt \in Int /\ AnyTask \in Tasks
      /\ \A w \in Workers : worker[w].task \in Tasks
      /\ \A c \in Callers : caller[c].task \in Tasks
  BY SomeTask DEF Typed, WorkerStates, CallerStates
<1>1. CASE UNCHANGED vars
  BY <1>1 DEF vars, poolVars, Typed
<1>2. CASE CloneHandle
  BY <1>2 DEF CloneHandle, Typed
<1>3. CASE DropHandle
  <2>1. queue' \in Seq(Tasks \cup {Close}) /\ cnt' \in Int
    BY <1>0, <1>3, PoolsDropped DEF DropHandle
  <2> QED
    BY <1>3, <2>1 DEF DropHandle, Typed
<1>4. ASSUME NEW t \in Tasks, Spawn(t) PROVE Typed'
  <2>1. queue' \in Seq(Tasks \cup {Close})
    BY <1>0, <1>4, InAppend DEF Spawn
  <2> QED
    BY <1>4, <2>1 DEF Spawn, Typed
<1>5. ASSUME NEW t \in Tasks, DropWaker(t) PROVE Typed'
  <2>1. queue' \in Seq(Tasks \cup {Close}) /\ cnt' \in Int
    BY <1>0, <1>5, PoolsDropped DEF DropWaker
  <2> QED
    BY <1>5, <2>1 DEF DropWaker, Typed
<1>6. ASSUME NEW w \in Workers, Receive(w) PROVE Typed'
  <2>1. Head(queue) \in Tasks \cup {Close} /\ Tail(queue) \in Seq(Tasks \cup {Close})
    BY <1>0, <1>6, InTail DEF Receive
  <2>2. worker' \in [Workers -> WorkerStates]
    BY <1>0, <1>6, <2>1, WorkerTurns DEF Receive, WorkerPC
  <2> QED
    BY <1>6, <2>1, <2>2 DEF Receive, Typed, poolVars
<1>7. ASSUME NEW w \in Workers, StartPoll(w) \/ BeginPoll(w) \/ EndPoll(w) \/ WaitStore(w) \/ Repoll(w)
      PROVE  Typed'
  <2>1. worker' \in [Workers -> WorkerStates]
    BY <1>7, WorkerMoves DEF StartPoll, BeginPoll, EndPoll, WaitStore, Repoll, WorkerPC
  <2>2. /\ status' \in [Tasks -> {WAITING, POLLING, REPOLL, COMPLETE}]
        /\ inner' \in [Tasks -> BOOLEAN]
    BY <1>0, <1>7 DEF StartPoll, BeginPoll, EndPoll, WaitStore, Repoll, Typed
  <2>3. /\ waker' \subseteq Tasks /\ owed' \subseteq Tasks
        /\ UNCHANGED <<task, queue, handles, cnt, wakes, caller>>
    BY <1>0, <1>7 DEF StartPoll, BeginPoll, EndPoll, WaitStore, Repoll, Typed, poolVars
  <2> QED
    BY <2>1, <2>2, <2>3 DEF Typed
<1>8. ASSUME NEW w \in Workers, PollPanics(w) \/ Complete(w) PROVE Typed'
  <2>1. \E pc \in {"dead", "idle"} : worker' = [worker EXCEPT ![w] = At(pc, AnyTask)]
    BY <1>8 DEF PollPanics, Complete, Idle
  <2>2. worker' \in [Workers -> WorkerStates]
    BY <1>0, <2>1, WorkerTurns DEF WorkerPC
  <2>3. \E n \in {1, 2} : DropPools(n, handles)
    BY <1>8 DEF PollPanics, Complete, DropTask
  <2>4. queue' \in Seq(Tasks \cup {Close}) /\ cnt' \in Int
    BY <1>0, <2>3, PoolsDropped
  <2>5. task' \in [Tasks -> {"unborn", "alive", "gone", "panicked"}]
    BY <1>0, <1>8 DEF PollPanics, Complete, DropTask, Typed
  <2>6. status' \in [Tasks -> {WAITING, POLLING, REPOLL, COMPLETE}]
    BY <1>0, <1>8 DEF PollPanics, Complete, Typed
  <2> QED
    BY <1>8, <2>2, <2>4, <2>5, <2>6 DEF PollPanics, Complete, Typed
<1>9. ASSUME NEW w \in Workers, WaitCas(w) PROVE Typed'
  <2>1. worker' \in [Workers -> WorkerStates]
    BY <1>0, <1>9, WorkerTurns, WorkerMoves DEF WaitCas, Idle, WorkerPC
  <2>2. status' \in [Tasks -> {WAITING, POLLING, REPOLL, COMPLETE}]
    BY <1>0, <1>9 DEF WaitCas, Typed
  <2> QED
    BY <1>9, <2>1, <2>2 DEF WaitCas, Typed, poolVars
<1>10. ASSUME NEW c \in Callers, NotifyTake(c) PROVE Typed'
  <2>1. caller' \in [Callers -> CallerStates]
    BY <1>0, <1>10, CallerMoves DEF NotifyTake, CallerPC
  <2>2. inner' \in [Tasks -> BOOLEAN]
    BY <1>0, <1>10 DEF NotifyTake, Typed
  <2> QED
    BY <1>10, <2>1, <2>2 DEF NotifyTake, Typed, poolVars
<1>11. ASSUME NEW c \in Callers, NotifySend(c) PROVE Typed'
  <2>1. caller' \in [Callers -> CallerStates]
    BY <1>0, <1>11, CallerMoves DEF NotifySend, CallerPC, Idle
  <2>2. queue' \in Seq(Tasks \cup {Close})
    BY <1>0, <1>11, InAppend DEF NotifySend
  <2> QED
    BY <1>11, <2>1, <2>2 DEF NotifySend, Typed, poolVars
<1>12. ASSUME NEW c \in Callers, NEW t \in Tasks, Notify(c, t) PROVE Typed'
  <2>1. caller' \in [Callers -> CallerStates]
    <3>1. CASE status[t] = WAITING
      BY <1>12, <3>1, CallerMoves DEF Notify, CallerPC
    <3>2. CASE status[t] # WAITING
      <4>1. caller' = [caller EXCEPT ![c] = caller[c]]
        BY <1>12, <3>2 DEF Notify
      <4> QED
        BY <4>1 DEF Typed
    <3> QED
      BY <3>1, <3>2
  <2>2. status' \in [Tasks -> {WAITING, POLLING, REPOLL, COMPLETE}]
    BY <1>12 DEF Notify, Typed, WAITING, POLLING, REPOLL, COMPLETE
  <2>3. owed' \subseteq Tasks /\ wakes' \in Nat
    BY <1>12 DEF Notify, Typed
  <2> QED
    BY <1>12, <2>1, <2>2, <2>3 DEF Notify, Typed, poolVars
<1> QED
  BY <1>1, <1>2, <1>3, <1>4, <1>5, <1>6, <1>7, <1>8, <1>9, <1>10, <1>11, <1>12
  DEF Next, WorkerStep, CallerStep

------------------------------------------------------------------------------
(* A task is in one place                                                  *)

HoldsW(w, t) == Holding(w) /\ worker[w].task = t
HoldsC(c, t) == caller[c].pc # "idle" /\ caller[c].task = t
InCell(t) == inner[t] /\ status[t] = WAITING

Alone(t) ==
  /\ task[t] = "alive" <=> \/ \E w \in Workers : HoldsW(w, t)
                           \/ \E c \in Callers : HoldsC(c, t)
                           \/ In(queue, t) \/ InCell(t)
  /\ \A w \in Workers : HoldsW(w, t) =>
       /\ \A v \in Workers : HoldsW(v, t) => v = w
       /\ \A c \in Callers : ~HoldsC(c, t)
       /\ ~In(queue, t) /\ ~InCell(t)
  /\ \A c \in Callers : HoldsC(c, t) =>
       /\ \A d \in Callers : HoldsC(d, t) => d = c
       /\ ~In(queue, t) /\ ~InCell(t)
  /\ Once(queue, t) /\ ~(In(queue, t) /\ InCell(t))

(* The status of a task that is being polled, and the cell of one that is  *)
(* about to wait; a waker that finds the status WAITING finds the task in  *)
(* the cell.                                                               *)
Steady ==
  /\ \A w \in Workers :
       worker[w].pc \in {"ready", "polling", "complete", "wait_store", "wait_cas", "repoll"} =>
         /\ status[worker[w].task] \in {POLLING, REPOLL}
         /\ worker[w].pc = "wait_cas" => inner[worker[w].task]
  /\ \A t \in waker : task[t] # "unborn" /\ (status[t] = WAITING => inner[t])

EachIsAlone == \A t \in Tasks : Alone(t)

(* Nothing happens to the task.                                            *)
LEMMA StaysAlone ==
  ASSUME NEW t, Alone(t),
         \A w \in Workers : HoldsW(w, t)' <=> HoldsW(w, t),
         \A c \in Callers : HoldsC(c, t)' <=> HoldsC(c, t),
         In(queue', t) <=> In(queue, t), Once(queue, t) => Once(queue', t),
         InCell(t)' <=> InCell(t),
         task'[t] = "alive" <=> task[t] = "alive"
  PROVE  Alone(t)'
  BY DEF Alone

LEMMA InitAlone == Init => EachIsAlone /\ Steady
<1> SUFFICES ASSUME Init PROVE EachIsAlone /\ Steady
  OBVIOUS
<1>1. /\ \A w \in Workers : worker[w].pc = "idle" /\ ~Holding(w)
      /\ \A c \in Callers : caller[c].pc = "idle"
  BY DEF Init, Idle, At, Holding
<1>2. \A t \in Tasks : ~In(queue, t) /\ Once(queue, t) /\ ~inner[t] /\ task[t] = "unborn"
  BY DEF Init, In, Once
<1>3. waker = {}
  BY DEF Init
<1> QED
  BY <1>1, <1>2, <1>3 DEF EachIsAlone, Alone, Steady, HoldsW, HoldsC, InCell

(* A worker on its way through run(): it keeps the task.                   *)
LEMMA WorkerKeepsTask ==
  ASSUME Typed, EachIsAlone, Steady, NEW w \in Workers,
         \/ StartPoll(w) \/ BeginPoll(w) \/ EndPoll(w) \/ WaitStore(w) \/ Repoll(w)
         \/ WaitCas(w) /\ status[worker[w].task] # POLLING
  PROVE  EachIsAlone' /\ Steady'
<1>a. PICK x \in Tasks : x = worker[w].task
  BY DEF Typed, WorkerStates
<1>0. /\ Alone(x) /\ HoldsW(w, x) /\ ~InCell(x)
      /\ \A v \in Workers : v # w => ~HoldsW(v, x)
  BY <1>a DEF StartPoll, BeginPoll, EndPoll, WaitStore, Repoll, WaitCas, Typed, WorkerStates,
         EachIsAlone, HoldsW, Holding, Alone
<1>1. PICK pc \in {"ready", "polling", "complete", "wait_store", "wait_cas", "repoll"} : WorkerGoto(w, pc)
  BY DEF StartPoll, BeginPoll, EndPoll, WaitStore, Repoll, WaitCas
<1>2. /\ worker'[w].pc = pc /\ worker'[w].task = x
      /\ \A v \in Workers : v # w => worker'[v] = worker[v]
  BY <1>a, <1>1, WorkerMoves DEF WorkerPC
<1>3. UNCHANGED <<task, queue, caller>>
  BY DEF StartPoll, BeginPoll, EndPoll, WaitStore, Repoll, WaitCas
<1>4. /\ status' = status \/ (status' = [status EXCEPT ![x] = POLLING])
      /\ inner' = inner \/ inner' = [inner EXCEPT ![x] = FALSE]
         \/ (inner' = [inner EXCEPT ![x] = TRUE] /\ worker[w].pc = "wait_store")
  BY <1>a DEF StartPoll, BeginPoll, EndPoll, WaitStore, Repoll, WaitCas
<1>5. \A t \in Tasks : t # x => inner'[t] = inner[t] /\ status'[t] = status[t]
  BY <1>4 DEF Typed
<1>6. status'[x] \in {POLLING, REPOLL}
  BY <1>a DEF StartPoll, BeginPoll, EndPoll, WaitStore, Repoll, WaitCas, Steady, Typed
<1>7. ~InCell(x)'
  BY <1>6 DEF InCell, WAITING, POLLING, REPOLL
<1>8. \A v \in Workers, t \in Tasks : HoldsW(v, t)' <=> HoldsW(v, t)
  BY <1>a, <1>0, <1>2 DEF HoldsW, Holding
<1>9. \A c \in Callers, t \in Tasks : HoldsC(c, t)' <=> HoldsC(c, t)
  BY <1>3 DEF HoldsC
<1>10. \A t \in Tasks : InCell(t)' <=> InCell(t)
  BY <1>0, <1>5, <1>7 DEF InCell
<1>11. EachIsAlone'
  BY <1>3, <1>8, <1>9, <1>10, StaysAlone DEF EachIsAlone
<1>12. \A v \in Workers :
       worker'[v].pc \in {"ready", "polling", "complete", "wait_store", "wait_cas", "repoll"} =>
         /\ status'[worker'[v].task] \in {POLLING, REPOLL}
         /\ worker'[v].pc = "wait_cas" => inner'[worker'[v].task]
  <2> SUFFICES ASSUME NEW v \in Workers,
                      worker'[v].pc \in {"ready", "polling", "complete", "wait_store", "wait_cas", "repoll"}
               PROVE  /\ status'[worker'[v].task] \in {POLLING, REPOLL}
                      /\ worker'[v].pc = "wait_cas" => inner'[worker'[v].task]
    OBVIOUS
  <2>1. CASE v = w
    <3>1. pc = "wait_cas" => inner'[x]
      <4>1. ASSUME pc = "wait_cas" PROVE WaitStore(w)
        <5>1. worker'[w].pc = "wait_cas"
          BY <1>2, <4>1
        <5>2. ASSUME NEW qc \in WorkerPC, WorkerGoto(w, qc) PROVE qc = "wait_cas"
          BY <5>1, <5>2, WorkerMoves
        <5> QED
          BY <5>2 DEF StartPoll, BeginPoll, EndPoll, Repoll, WaitCas, WorkerPC
      <4> QED
        BY <1>a, <4>1 DEF WaitStore, Typed
    <3> QED
      BY <1>2, <1>6, <2>1, <3>1
  <2>2. CASE v # w
    <3>1. worker'[v] = worker[v] /\ HoldsW(v, worker[v].task) /\ worker[v].task \in Tasks
      BY <1>2, <2>2 DEF HoldsW, Holding, Typed, WorkerStates
    <3>2. worker[v].task # x
      BY <1>0, <2>2, <3>1
    <3> QED
      BY <1>5, <3>1, <3>2 DEF Steady
  <2> QED
    BY <2>1, <2>2
<1>13. \A t \in waker' : task'[t] # "unborn" /\ (status'[t] = WAITING => inner'[t])
  <2>1. waker' \subseteq waker \cup {x} /\ waker \subseteq Tasks
    BY <1>a DEF StartPoll, BeginPoll, EndPoll, WaitStore, Repoll, WaitCas, Typed
  <2>2. task[x] # "unborn"
    BY <1>0 DEF Alone
  <2>3. status'[x] # WAITING
    BY <1>6 DEF WAITING, POLLING, REPOLL
  <2> QED
    BY <1>3, <1>5, <2>1, <2>2, <2>3 DEF Steady
<1> QED
  BY <1>11, <1>12, <1>13 DEF Steady

(* Handles of the pool and wakers come and go.                             *)
LEMMA PoolKeepsTasks ==
  ASSUME Typed, EachIsAlone, Steady,
         CloneHandle \/ DropHandle \/ \E t \in Tasks : DropWaker(t)
  PROVE  EachIsAlone' /\ Steady'
<1>1. UNCHANGED <<status, inner, task, worker, caller>> /\ waker' \subseteq waker
  BY DEF CloneHandle, DropHandle, DropWaker
<1>2. \A t \in Tasks : (In(queue', t) <=> In(queue, t)) /\ (Once(queue, t) => Once(queue', t))
  <2>1. UNCHANGED queue \/ \E n \in Nat, held \in Nat \cup {handles'} : DropPools(n, held)
    BY DEF CloneHandle, DropHandle, DropWaker, Typed
  <2> QED
    BY <2>1, PoolsDropped DEF Typed
<1>3. \A t \in Tasks : Alone(t)'
  BY <1>1, <1>2, StaysAlone DEF EachIsAlone, HoldsW, Holding, HoldsC, InCell
<1> QED
  BY <1>1, <1>3 DEF EachIsAlone, Steady

(* A new task goes into the queue.                                         *)
LEMMA SpawnPlacesTask ==
  ASSUME Typed, EachIsAlone, Steady, NEW x \in Tasks, Spawn(x)
  PROVE  EachIsAlone' /\ Steady'
<1>1. /\ UNCHANGED <<status, inner, waker, worker, caller>> /\ queue' = Append(queue, x)
      /\ task[x] = "unborn" /\ task'[x] = "alive" /\ \A t \in Tasks : t # x => task'[t] = task[t]
  BY DEF Spawn, Typed
<1>2. \A t \in Tasks : /\ In(queue', t) <=> In(queue, t) \/ x = t
                       /\ Once(queue, t) /\ (x = t => ~In(queue, t)) => Once(queue', t)
  BY <1>1, InAppend DEF Typed
<1>3. ASSUME NEW t \in Tasks, t # x PROVE Alone(t)'
  BY <1>1, <1>2, <1>3, StaysAlone DEF EachIsAlone, HoldsW, Holding, HoldsC, InCell
<1>4. Alone(x)'
  <2>1. /\ \A w \in Workers : ~HoldsW(w, x)
        /\ \A c \in Callers : ~HoldsC(c, x)
        /\ ~In(queue, x) /\ ~InCell(x) /\ Once(queue, x)
    BY <1>1 DEF EachIsAlone, Alone
  <2>2. /\ \A w \in Workers : ~HoldsW(w, x)'
        /\ \A c \in Callers : ~HoldsC(c, x)'
        /\ In(queue', x) /\ ~InCell(x)' /\ Once(queue', x)
    BY <1>1, <1>2, <2>1 DEF HoldsW, Holding, HoldsC, InCell
  <2> QED
    BY <1>1, <2>2 DEF Alone
<1>5. Steady'
  <2>1. \A t \in waker : t # x /\ t \in Tasks
    BY <1>1 DEF Steady, Typed
  <2> QED
    BY <1>1, <2>1 DEF Steady
<1> QED
  BY <1>3, <1>4, <1>5 DEF EachIsAlone

(* A worker takes a message from the queue.                                *)
LEMMA ReceiveMovesTask ==
  ASSUME Typed, EachIsAlone, Steady, NEW w \in Workers, Receive(w)
  PROVE  EachIsAlone' /\ Steady'
<1>1. /\ UNCHANGED <<status, inner, task, waker, caller>> /\ queue' = Tail(queue)
      /\ worker[w].pc = "idle" /\ queue # << >>
      /\ worker' = [worker EXCEPT ![w] = IF Head(queue) = Close THEN At("stopped", AnyTask)
                                         ELSE At("start", Head(queue))]
  BY DEF Receive
<1>2. /\ Head(queue) \in Tasks \cup {Close}
      /\ \A t \in Tasks : /\ In(queue, t) <=> Head(queue) = t \/ In(queue', t)
                          /\ Once(queue, t) => Once(queue', t)
                          /\ Once(queue, t) /\ Head(queue) = t => ~In(queue', t)
  BY <1>1, InTail DEF Typed
<1>3. PICK h \in Tasks \cup {Close} : h = Head(queue)
  BY <1>2
<1>4. /\ worker'[w].pc = (IF h = Close THEN "stopped" ELSE "start")
      /\ h # Close => worker'[w].task = h
      /\ \A v \in Workers : v # w => worker'[v] = worker[v]
  BY <1>1, <1>3, SomeTask, WorkerTurns DEF WorkerPC
<1>5. \A v \in Workers, t \in Tasks : HoldsW(v, t)' <=> HoldsW(v, t) \/ (v = w /\ t = h)
  BY <1>1, <1>3, <1>4, ConstantsAssumption DEF HoldsW, Holding
<1>6. \A t \in Tasks : /\ \A c \in Callers : HoldsC(c, t)' <=> HoldsC(c, t)
                       /\ InCell(t)' <=> InCell(t)
  BY <1>1 DEF HoldsC, InCell
<1>7. ASSUME NEW t \in Tasks, t # h PROVE Alone(t)'
  BY <1>1, <1>2, <1>3, <1>5, <1>6, <1>7, StaysAlone DEF EachIsAlone
<1>8. ASSUME h \in Tasks PROVE Alone(h)'
  <2>1. In(queue, h) /\ Alone(h)
    BY <1>2, <1>3, <1>8 DEF EachIsAlone
  <2>2. /\ \A v \in Workers : ~HoldsW(v, h)
        /\ \A c \in Callers : ~HoldsC(c, h)
        /\ task[h] = "alive" /\ ~InCell(h) /\ Once(queue, h)
    BY <2>1 DEF Alone
  <2>3. ~In(queue', h) /\ Once(queue', h)
    BY <1>2, <1>3, <1>8, <2>2
  <2> QED
    BY <1>1, <1>5, <1>6, <1>8, <2>2, <2>3 DEF Alone
<1>9. Steady'
  BY <1>1, <1>4 DEF Steady
<1> QED
  BY <1>7, <1>8, <1>9 DEF EachIsAlone

(* The task is over.                                                       *)
LEMMA EndRemovesTask ==
  ASSUME Typed, EachIsAlone, Steady, NEW w \in Workers, PollPanics(w) \/ Complete(w)
  PROVE  EachIsAlone' /\ Steady'
<1>a. PICK x \in Tasks : x = worker[w].task
  BY DEF Typed, WorkerStates
<1>0. Alone(x) /\ HoldsW(w, x) /\ status[x] \in {POLLING, REPOLL}
  BY <1>a DEF PollPanics, Complete, EachIsAlone, HoldsW, Holding, Steady
<1>1. /\ UNCHANGED <<inner, waker, caller>>
      /\ \E how \in {"panicked", "gone"} : task' = [task EXCEPT ![x] = how]
      /\ \E n \in {1, 2} : DropPools(n, handles)
      /\ \E pc \in {"dead", "idle"} : worker' = [worker EXCEPT ![w] = At(pc, AnyTask)]
      /\ status' \in {status, [status EXCEPT ![x] = COMPLETE]}
  BY <1>a DEF PollPanics, Complete, DropTask, Idle
<1>2. /\ task'[x] \in {"panicked", "gone"} /\ \A t \in Tasks : t # x => task'[t] = task[t]
      /\ status'[x] # WAITING /\ \A t \in Tasks : t # x => status'[t] = status[t]
  BY <1>0, <1>1 DEF Typed, WAITING, POLLING, REPOLL, COMPLETE
<1>3. \A t \in Tasks : (In(queue', t) <=> In(queue, t)) /\ (Once(queue, t) => Once(queue', t))
  BY <1>1, PoolsDropped DEF Typed
<1>4. worker'[w].pc \in {"dead", "idle"} /\ \A v \in Workers : v # w => worker'[v] = worker[v]
  <2>1. PICK pc \in {"dead", "idle"} : worker' = [worker EXCEPT ![w] = At(pc, AnyTask)]
    BY <1>1
  <2>2. pc \in WorkerPC
    BY DEF WorkerPC
  <2> QED
    BY <2>1, <2>2, SomeTask, WorkerTurns
<1>5. \A v \in Workers, t \in Tasks : HoldsW(v, t)' <=> HoldsW(v, t) /\ t # x
  <2>1. \A v \in Workers : v # w => ~HoldsW(v, x)
    BY <1>0 DEF Alone
  <2>2. \A t \in Tasks : ~HoldsW(w, t)' /\ (HoldsW(w, t) => t = x)
    BY <1>a, <1>4 DEF HoldsW, Holding
  <2> QED
    BY <1>4, <2>1, <2>2 DEF HoldsW, Holding
<1>6. /\ \A t \in Tasks, c \in Callers : HoldsC(c, t)' <=> HoldsC(c, t)
      /\ \A t \in Tasks : t # x => (InCell(t)' <=> InCell(t))
      /\ ~InCell(x)'
  BY <1>1, <1>2 DEF HoldsC, InCell
<1>7. ASSUME NEW t \in Tasks, t # x PROVE Alone(t)'
  BY <1>2, <1>3, <1>5, <1>6, <1>7, StaysAlone DEF EachIsAlone
<1>8. Alone(x)'
  BY <1>0, <1>2, <1>3, <1>5, <1>6 DEF Alone
<1>9. Steady'
  <2>1. ASSUME NEW v \in Workers,
               worker'[v].pc \in {"ready", "polling", "complete", "wait_store", "wait_cas", "repoll"}
        PROVE  /\ status'[worker'[v].task] \in {POLLING, REPOLL}
               /\ worker'[v].pc = "wait_cas" => inner'[worker'[v].task]
    <3>1. v # w /\ worker'[v] = worker[v]
      BY <1>4, <2>1
    <3>2. HoldsW(v, worker[v].task) /\ worker[v].task \in Tasks
      BY <2>1, <3>1 DEF HoldsW, Holding, Typed, WorkerStates
    <3>3. worker[v].task # x
      BY <1>0, <3>1, <3>2 DEF Alone
    <3> QED
      BY <1>1, <1>2, <2>1, <3>1, <3>2, <3>3 DEF Steady
  <2>2. \A t \in waker' : task'[t] # "unborn" /\ (status'[t] = WAITING => inner'[t])
    BY <1>1, <1>2 DEF Steady, Typed
  <2> QED
    BY <2>1, <2>2 DEF Steady
<1> QED
  BY <1>7, <1>8, <1>9 DEF EachIsAlone

(* wait() without a wake-up in between: the task is left in its cell.      *)
LEMMA WaitMovesTask ==
  ASSUME Typed, EachIsAlone, Steady, NEW w \in Workers,
         WaitCas(w), status[worker[w].task] = POLLING
  PROVE  EachIsAlone' /\ Steady'
<1>a. PICK x \in Tasks : x = worker[w].task
  BY DEF Typed, WorkerStates
<1>0. Alone(x) /\ HoldsW(w, x) /\ inner[x]
  BY <1>a DEF WaitCas, EachIsAlone, HoldsW, Holding, Steady
<1>1. /\ UNCHANGED <<inner, task, waker, caller, queue>>
      /\ status' = [status EXCEPT ![x] = WAITING]
      /\ worker' = [worker EXCEPT ![w] = At("idle", AnyTask)]
  BY <1>a DEF WaitCas, Idle
<1>2. status'[x] = WAITING /\ \A t \in Tasks : t # x => status'[t] = status[t]
  BY <1>1 DEF Typed
<1>4. worker'[w].pc = "idle" /\ \A v \in Workers : v # w => worker'[v] = worker[v]
  BY <1>1, SomeTask, WorkerTurns DEF WorkerPC
<1>5. \A v \in Workers, t \in Tasks : HoldsW(v, t)' <=> HoldsW(v, t) /\ t # x
  <2>1. \A v \in Workers : v # w => ~HoldsW(v, x)
    BY <1>0 DEF Alone
  <2>2. \A t \in Tasks : ~HoldsW(w, t)' /\ (HoldsW(w, t) => t = x)
    BY <1>a, <1>4 DEF HoldsW, Holding
  <2> QED
    BY <1>4, <2>1, <2>2 DEF HoldsW, Holding
<1>6. /\ \A t \in Tasks, c \in Callers : HoldsC(c, t)' <=> HoldsC(c, t)
      /\ \A t \in Tasks : t # x => (InCell(t)' <=> InCell(t))
      /\ InCell(x)'
  BY <1>0, <1>1, <1>2 DEF HoldsC, InCell
<1>7. ASSUME NEW t \in Tasks, t # x PROVE Alone(t)'
  BY <1>1, <1>5, <1>6, <1>7, StaysAlone DEF EachIsAlone
<1>8. Alone(x)'
  BY <1>0, <1>1, <1>5, <1>6 DEF Alone
<1>9. Steady'
  <2>1. ASSUME NEW v \in Workers,
               worker'[v].pc \in {"ready", "polling", "complete", "wait_store", "wait_cas", "repoll"}
        PROVE  /\ status'[worker'[v].task] \in {POLLING, REPOLL}
               /\ worker'[v].pc = "wait_cas" => inner'[worker'[v].task]
    <3>1. v # w /\ worker'[v] = worker[v]
      BY <1>4, <2>1
    <3>2. HoldsW(v, worker[v].task) /\ worker[v].task \in Tasks
      BY <2>1, <3>1 DEF HoldsW, Holding, Typed, WorkerStates
    <3>3. worker[v].task # x
      BY <1>0, <3>1, <3>2 DEF Alone
    <3> QED
      BY <1>1, <1>2, <2>1, <3>1, <3>2, <3>3 DEF Steady
  <2>2. \A t \in waker' : task'[t] # "unborn" /\ (status'[t] = WAITING => inner'[t])
    BY <1>0, <1>1, <1>2 DEF Steady, Typed
  <2> QED
    BY <2>1, <2>2 DEF Steady
<1> QED
  BY <1>7, <1>8, <1>9 DEF EachIsAlone

(* notify(): the caller that finds the task waiting wins it, the others    *)
(* leave a mark.                                                           *)
LEMMA NotifyMovesTask ==
  ASSUME Typed, EachIsAlone, Steady, NEW c \in Callers, NEW x \in Tasks, Notify(c, x)
  PROVE  EachIsAlone' /\ Steady'
<1>1. /\ UNCHANGED <<inner, task, waker, queue, worker>> /\ caller[c].pc = "idle" /\ x \in waker
      /\ status' = [status EXCEPT ![x] = CASE status[x] = WAITING -> POLLING
                                           [] status[x] = POLLING -> REPOLL
                                           [] OTHER -> status[x]]
  BY DEF Notify
<1>2. /\ \A t \in Tasks : t # x => status'[t] = status[t]
      /\ status'[x] # WAITING /\ (status[x] \in {POLLING, REPOLL} => status'[x] \in {POLLING, REPOLL})
  BY <1>1 DEF Typed, WAITING, POLLING, REPOLL, COMPLETE
<1>3. \A t \in Tasks : /\ \A w \in Workers : HoldsW(w, t)' <=> HoldsW(w, t)
                       /\ t # x => (InCell(t)' <=> InCell(t))
  BY <1>1, <1>2 DEF HoldsW, Holding, InCell
<1>4. ~InCell(x)'
  BY <1>2 DEF InCell
<1>5. CASE status[x] = WAITING
  <2>1. caller' = [caller EXCEPT ![c] = At("take", x)]
    BY <1>5 DEF Notify
  <2>2. /\ caller'[c].pc = "take" /\ caller'[c].task = x
        /\ \A d \in Callers : d # c => caller'[d] = caller[d]
    BY <2>1, CallerMoves DEF CallerPC
  <2>3. \A d \in Callers, t \in Tasks : HoldsC(d, t)' <=> HoldsC(d, t) \/ (d = c /\ t = x)
    BY <1>1, <2>2 DEF HoldsC
  <2>4. InCell(x) /\ Alone(x)
    BY <1>1, <1>5 DEF Steady, InCell, EachIsAlone
  <2>5. Alone(x)'
    BY <1>1, <1>3, <1>4, <2>3, <2>4 DEF Alone
  <2>6. ASSUME NEW t \in Tasks, t # x PROVE Alone(t)'
    BY <1>1, <1>3, <2>3, <2>6, StaysAlone DEF EachIsAlone
  <2> QED
    BY <1>1, <1>2, <2>5, <2>6 DEF EachIsAlone, Steady, Typed, WorkerStates
<1>6. CASE status[x] # WAITING
  <2>1. caller' = [caller EXCEPT ![c] = caller[c]]
    BY <1>6 DEF Notify
  <2>2. caller' = caller
    BY <2>1 DEF Typed
  <2>3. \A t \in Tasks : InCell(t)' <=> InCell(t)
    BY <1>3, <1>4, <1>6 DEF InCell
  <2>4. \A t \in Tasks : Alone(t)'
    BY <1>1, <1>3, <2>2, <2>3, StaysAlone DEF EachIsAlone, HoldsC
  <2> QED
    BY <1>1, <1>2, <2>4 DEF EachIsAlone, Steady, Typed, WorkerStates
<1> QED
  BY <1>5, <1>6

(* The caller that won the task puts it into the queue.                    *)
LEMMA CallerMovesTask ==
  ASSUME Typed, EachIsAlone, Steady, NEW c \in Callers, CallerStep(c)
  PROVE  EachIsAlone' /\ Steady'
<1>a. PICK x \in Tasks : x = caller[c].task
  BY DEF Typed, CallerStates
<1>0. /\ Alone(x) /\ HoldsC(c, x) /\ ~InCell(x) /\ ~In(queue, x)
      /\ \A w \in Workers : ~HoldsW(w, x)
      /\ \A d \in Callers : d # c => ~HoldsC(d, x)
  BY <1>a DEF CallerStep, NotifyTake, NotifySend, EachIsAlone, HoldsC, Alone
<1>1. CASE NotifyTake(c)
  <2>1. /\ UNCHANGED <<status, task, waker, queue, worker>> /\ caller[c].pc = "take"
        /\ inner' = [inner EXCEPT ![x] = FALSE]
    BY <1>a, <1>1 DEF NotifyTake
  <2>2. /\ caller'[c].pc = "send" /\ caller'[c].task = x
        /\ \A d \in Callers : d # c => caller'[d] = caller[d]
    BY <1>a, <1>1, CallerMoves DEF NotifyTake, CallerPC
  <2>3. ~inner'[x] /\ \A t \in Tasks : t # x => inner'[t] = inner[t]
    BY <2>1 DEF Typed
  <2>4. \A t \in Tasks : /\ \A d \in Callers : HoldsC(d, t)' <=> HoldsC(d, t)
                         /\ \A w \in Workers : HoldsW(w, t)' <=> HoldsW(w, t)
                         /\ InCell(t)' <=> InCell(t)
    BY <1>a, <1>0, <2>1, <2>2, <2>3 DEF HoldsC, HoldsW, Holding, InCell
  <2>5. \A t \in Tasks : Alone(t)'
    BY <2>1, <2>4, StaysAlone DEF EachIsAlone
  <2>6. \A t \in waker : status[t] = WAITING => t # x
    BY <1>0 DEF Steady, InCell
  <2>7. \A w \in Workers : worker[w].pc = "wait_cas" => worker[w].task # x /\ worker[w].task \in Tasks
    BY <1>0 DEF HoldsW, Holding, Typed, WorkerStates
  <2> QED
    BY <2>1, <2>3, <2>5, <2>6, <2>7 DEF EachIsAlone, Steady, Typed
<1>2. CASE NotifySend(c)
  <2>1. /\ UNCHANGED <<status, inner, task, waker, worker>>
        /\ queue' = Append(queue, x) /\ caller' = [caller EXCEPT ![c] = At("idle", AnyTask)]
    BY <1>a, <1>2 DEF NotifySend, Idle
  <2>2. /\ caller'[c].pc = "idle"
        /\ \A d \in Callers : d # c => caller'[d] = caller[d]
    BY <2>1, SomeTask, CallerMoves DEF CallerPC
  <2>3. \A t \in Tasks : /\ In(queue', t) <=> In(queue, t) \/ x = t
                         /\ Once(queue, t) /\ (x = t => ~In(queue, t)) => Once(queue', t)
    BY <2>1, InAppend DEF Typed
  <2>4. \A d \in Callers, t \in Tasks : HoldsC(d, t)' <=> HoldsC(d, t) /\ t # x
    BY <1>a, <1>0, <2>2 DEF HoldsC
  <2>5. \A t \in Tasks : /\ \A w \in Workers : HoldsW(w, t)' <=> HoldsW(w, t)
                         /\ InCell(t)' <=> InCell(t)
    BY <2>1 DEF HoldsW, Holding, InCell
  <2>6. ASSUME NEW t \in Tasks, t # x PROVE Alone(t)'
    BY <2>1, <2>3, <2>4, <2>5, <2>6, StaysAlone DEF EachIsAlone
  <2>7. Alone(x)'
    BY <1>0, <2>1, <2>3, <2>4, <2>5 DEF Alone
  <2> QED
    BY <2>1, <2>6, <2>7 DEF EachIsAlone, Steady
<1> QED
  BY <1>1, <1>2 DEF CallerStep

LEMMA NextAlone == Typed /\ EachIsAlone /\ Steady /\ [Next]_vars => EachIsAlone' /\ Steady'
<1> SUFFICES ASSUME Typed, EachIsAlone, Steady, [Next]_vars PROVE EachIsAlone' /\ Steady'
  OBVIOUS
<1>1. CASE UNCHANGED vars
  BY <1>1 DEF vars, EachIsAlone, Alone, Steady, HoldsW, Holding, HoldsC, InCell
<1>2. CASE Next
  BY <1>2, WorkerKeepsTask, PoolKeepsTasks, SpawnPlacesTask, ReceiveMovesTask, EndRemovesTask,
     WaitMovesTask, NotifyMovesTask, CallerMovesTask
  DEF Next, WorkerStep
<1> QED
  BY <1>1, <1>2

(* A task that is alone has one place, one that is gone none.              *)
LEMMA AloneIsOnePlace ==
  ASSUME NEW t \in Tasks, Alone(t), queue \in Seq(Tasks \cup {Close})
  PROVE  Cardinality(Places(t)) = IF task[t] = "alive" THEN 1 ELSE 0
<1> DEFINE W == {w \in Workers : Holding(w) /\ worker[w].task = t}
           C == {c \in Callers : caller[c].pc # "idle" /\ caller[c].task = t}
           Q == {i \in DOMAIN queue : queue[i] = t}
<1>1. /\ W = {w \in Workers : HoldsW(w, t)} /\ C = {c \in Callers : HoldsC(c, t)}
      /\ DOMAIN queue = 1 .. Len(queue)
  BY DEF HoldsW, HoldsC
<1>2. /\ W = {} \/ \E w : W = {w}
      /\ C = {} \/ \E c : C = {c}
      /\ Q = {} \/ \E i : Q = {i}
  <2>1. W = {} \/ \E w : W = {w}
    <3>1. \A w, v \in Workers : HoldsW(w, t) /\ HoldsW(v, t) => v = w
      BY DEF Alone
    <3>2. W = {w \in Workers : HoldsW(w, t)}
      BY <1>1
    <3> HIDE DEF W
    <3> QED
      BY <3>1, <3>2
  <2>2. C = {} \/ \E c : C = {c}
    <3>1. \A c, d \in Callers : HoldsC(c, t) /\ HoldsC(d, t) => d = c
      BY DEF Alone
    <3>2. C = {c \in Callers : HoldsC(c, t)}
      BY <1>1
    <3> HIDE DEF C
    <3> QED
      BY <3>1, <3>2
  <2>3. Q = {} \/ \E i : Q = {i}
    BY <1>1 DEF Alone, Once
  <2> QED
    BY <2>1, <2>2, <2>3
<1>3. /\ In(queue, t) <=> Q # {}
      /\ (\E w \in Workers : HoldsW(w, t)) <=> W # {}
      /\ (\E c \in Callers : HoldsC(c, t)) <=> C # {}
  BY <1>1 DEF In
<1>4. /\ task[t] = "alive" <=> W # {} \/ C # {} \/ Q # {} \/ InCell(t)
      /\ W # {} => C = {} /\ Q = {} /\ ~InCell(t)
      /\ C # {} => Q = {} /\ ~InCell(t)
      /\ Q # {} => ~InCell(t)
  BY <1>1, <1>3 DEF Alone
<1>5. Places(t) = {<<"worker", w>> : w \in W} \cup {<<"caller", c>> : c \in C}
                    \cup {<<"queue", i>> : i \in Q} \cup (IF InCell(t) THEN {<<"cell", t>>} ELSE {})
  BY DEF Places, InCell
<1> HIDE DEF W, C, Q
<1>6. task[t] # "alive" => Places(t) = {}
  BY <1>4, <1>5
<1>7. task[t] = "alive" => \E p : Places(t) = {p}
  <2>1. CASE W # {}
    <3>1. PICK w : W = {w}
      BY <1>2, <2>1
    <3>2. Places(t) = {<<"worker", w>>}
      BY <1>4, <1>5, <3>1
    <3> QED
      BY <3>2
  <2>2. CASE C # {}
    <3>1. PICK c : C = {c}
      BY <1>2, <2>2
    <3>2. Places(t) = {<<"caller", c>>}
      BY <1>4, <1>5, <3>1
    <3> QED
      BY <3>2
  <2>3. CASE Q # {}
    <3>1. PICK i : Q = {i}
      BY <1>2, <2>3
    <3>2. Places(t) = {<<"queue", i>>}
      BY <1>4, <1>5, <3>1
    <3> QED
      BY <3>2
  <2>4. CASE InCell(t)
    <3>1. Places(t) = {<<"cell", t>>}
      BY <1>4, <1>5, <2>4
    <3> QED
      BY <3>1
  <2> QED
    BY <1>4, <2>1, <2>2, <2>3, <2>4
<1> QED
  BY <1>6, <1>7, FS_EmptySet, FS_Singleton

(* A task is in exactly one place from its spawn to its end: two workers   *)
(* never poll it at once, two callers of wake() never both queue it, and   *)
(* no interleaving of wait() with notify() loses it.                       *)
THEOREM TasksAreInOnePlace == Spec => []OnePlace
<1>1. Typed /\ EachIsAlone => OnePlace
  BY AloneIsOnePlace DEF Typed, EachIsAlone, OnePlace
<1> QED
  BY <1>1, InitTyped, InitAlone, NextTyped, NextAlone, PTL DEF Spec

------------------------------------------------------------------------------
(* The pool is closed last                                                 *)

Alive == {t \in Tasks : task[t] = "alive"}
WithHandle == Alive \cup waker      \* tasks whose WakeHandle still exists

(* PoolState::cnt counts the user's handles, a clone in every task and one *)
(* in every WakeHandle.                                                    *)
Counted ==
  /\ IsFiniteSet(Alive) /\ IsFiniteSet(waker)
  /\ cnt = handles + Cardinality(Alive) + Cardinality(WithHandle)

CloseSent == In(queue, Close) \/ \E w \in Workers : worker[w].pc = "stopped"

LEMMA CountParts ==
  Counted => /\ IsFiniteSet(WithHandle) /\ Cardinality(Alive) \in Nat /\ Cardinality(WithHandle) \in Nat
             /\ Cardinality(Alive) = 0 <=> Alive = {}
             /\ Cardinality(WithHandle) = 0 <=> WithHandle = {}
<1> SUFFICES ASSUME Counted
             PROVE  /\ IsFiniteSet(WithHandle) /\ Cardinality(Alive) \in Nat /\ Cardinality(WithHandle) \in Nat
                    /\ Cardinality(Alive) = 0 <=> Alive = {}
                    /\ Cardinality(WithHandle) = 0 <=> WithHandle = {}
  OBVIOUS
<1>1. IsFiniteSet(Alive) /\ IsFiniteSet(WithHandle)
  BY FS_Union DEF Counted, WithHandle
<1> QED
  BY <1>1, FS_CardinalityType, FS_EmptySet

LEMMA InitCounted == Init => Counted /\ (CloseSent => cnt = 0)
<1> SUFFICES ASSUME Init PROVE Counted /\ ~CloseSent
  OBVIOUS
<1>1. Alive = {} /\ WithHandle = {} /\ waker = {} /\ handles = 1 /\ cnt = 1
  BY DEF Init, Alive, WithHandle
<1>2. ~CloseSent
  BY DEF Init, CloseSent, In, Idle, At
<1> QED
  BY <1>1, <1>2, FS_EmptySet DEF Counted

(* A step that keeps the tasks and the wakers, and the count with the      *)
(* handles.                                                                *)
LEMMA KeepsCount ==
  ASSUME Counted, UNCHANGED <<task, waker>>, cnt - handles = cnt' - handles',
         handles \in Nat, handles' \in Nat, cnt \in Int, cnt' \in Int
  PROVE  Counted'
<1>1. Alive' = Alive /\ WithHandle' = WithHandle
  BY DEF Alive, WithHandle
<1>2. Cardinality(Alive) \in Nat /\ Cardinality(WithHandle) \in Nat
  BY CountParts
<1> QED
  BY <1>1, <1>2 DEF Counted

LEMMA NextCounted ==
  ASSUME Typed, Typed', EachIsAlone, Steady, Counted, Next
  PROVE  Counted'
<1> DEFINE a == Cardinality(Alive)
           h == Cardinality(WithHandle)
<1>0. /\ IsFiniteSet(Alive) /\ IsFiniteSet(waker) /\ IsFiniteSet(WithHandle)
      /\ a \in Nat /\ h \in Nat /\ cnt = handles + a + h
      /\ cnt \in Int /\ handles \in Nat /\ cnt' \in Int /\ handles' \in Nat
      /\ waker \subseteq Tasks /\ task \in [Tasks -> {"unborn", "alive", "gone", "panicked"}]
  BY CountParts DEF Counted, Typed
<1> HIDE DEF a, h
<1>1. CASE CloneHandle \/ DropHandle
  <2>1. UNCHANGED <<task, waker>> /\ cnt - handles = cnt' - handles'
    <3>1. CASE CloneHandle
      BY <1>0, <3>1 DEF CloneHandle
    <3>2. CASE DropHandle
      <4>1. handles' = handles - 1 /\ cnt' = cnt - 1 /\ UNCHANGED <<task, waker>>
        BY <3>2 DEF DropHandle, DropPools
      <4> QED
        BY <1>0, <4>1
    <3> QED
      BY <1>1, <3>1, <3>2
  <2> QED
    BY <1>0, <2>1, KeepsCount
<1>2. ASSUME NEW t \in Tasks, Spawn(t) PROVE Counted'
  <2>1. /\ task[t] = "unborn" /\ task' = [task EXCEPT ![t] = "alive"]
        /\ cnt' = cnt + 2 /\ UNCHANGED <<waker, handles>>
    BY <1>2 DEF Spawn
  <2>2. t \notin Alive /\ t \notin WithHandle
    BY <2>1 DEF Steady, Alive, WithHandle
  <2>3. Alive' = Alive \cup {t} /\ WithHandle' = WithHandle \cup {t}
    <3>1. Alive' = Alive \cup {t}
      BY <1>0, <2>1 DEF Alive
    <3> QED
      BY <2>1, <3>1 DEF WithHandle
  <2>4. IsFiniteSet(Alive') /\ Cardinality(Alive') = a + 1 /\ Cardinality(WithHandle') = h + 1
    BY <1>0, <2>2, <2>3, FS_AddElement DEF a, h
  <2> QED
    BY <1>0, <2>1, <2>4 DEF Counted
<1>3. ASSUME NEW w \in Workers, PollPanics(w) \/ Complete(w) PROVE Counted'
  <2>1. PICK x \in Tasks : x = worker[w].task
    BY DEF Typed, WorkerStates
  <2>2. /\ \E how \in {"panicked", "gone"} : task' = [task EXCEPT ![x] = how]
        /\ cnt' = cnt - (IF x \in waker THEN 1 ELSE 2) /\ UNCHANGED <<waker, handles>>
    BY <1>3, <2>1 DEF PollPanics, Complete, DropTask, DropPools
  <2>3. task[x] = "alive"
    BY <1>3, <2>1 DEF PollPanics, Complete, EachIsAlone, Alone, HoldsW, Holding
  <2>4. x \in Alive /\ Alive' = Alive \ {x}
    BY <1>0, <2>2, <2>3 DEF Alive
  <2>5. IsFiniteSet(Alive') /\ Cardinality(Alive') = a - 1
    BY <1>0, <2>4, FS_RemoveElement DEF a
  <2>6. CASE x \in waker
    <3>1. WithHandle' = WithHandle
      BY <2>2, <2>4, <2>6 DEF WithHandle
    <3> QED
      BY <1>0, <2>2, <2>5, <2>6, <3>1 DEF Counted, h
  <2>7. CASE x \notin waker
    <3>1. x \in WithHandle /\ WithHandle' = WithHandle \ {x}
      BY <2>2, <2>4, <2>7 DEF WithHandle
    <3>2. Cardinality(WithHandle') = h - 1
      BY <1>0, <3>1, FS_RemoveElement DEF h
    <3> QED
      BY <1>0, <2>2, <2>5, <2>7, <3>2 DEF Counted
  <2> QED
    BY <2>6, <2>7
<1>4. ASSUME NEW t \in Tasks, DropWaker(t) PROVE Counted'
  <2>1. /\ t \in waker /\ waker' = waker \ {t} /\ UNCHANGED <<task, handles>>
        /\ cnt' = cnt - (IF task[t] = "alive" THEN 0 ELSE 1)
    BY <1>4 DEF DropWaker, DropPools
  <2>2. Alive' = Alive /\ IsFiniteSet(waker')
    BY <1>0, <2>1, FS_RemoveElement DEF Alive
  <2>3. CASE task[t] = "alive"
    <3>1. WithHandle' = WithHandle
      BY <2>1, <2>2, <2>3 DEF WithHandle, Alive
    <3> QED
      BY <1>0, <2>1, <2>2, <2>3, <3>1 DEF Counted, a, h
  <2>4. CASE task[t] # "alive"
    <3>1. t \in WithHandle /\ WithHandle' = WithHandle \ {t}
      BY <2>1, <2>2, <2>4 DEF WithHandle, Alive
    <3>2. Cardinality(WithHandle') = h - 1
      BY <1>0, <3>1, FS_RemoveElement DEF h
    <3> QED
      BY <1>0, <2>1, <2>2, <2>4, <3>2 DEF Counted, a
  <2> QED
    BY <2>3, <2>4
<1>5. ASSUME NEW w \in Workers, BeginPoll(w) PROVE Counted'
  <2>1. PICK x \in Tasks : x = worker[w].task
    BY DEF Typed, WorkerStates
  <2>2. /\ waker' \in {waker, waker \cup {x}} /\ UNCHANGED <<task, handles, cnt>>
    BY <1>5, <2>1 DEF BeginPoll, poolVars
  <2>3. x \in Alive
    BY <1>5, <2>1 DEF BeginPoll, EachIsAlone, Alone, HoldsW, Holding, Alive
  <2>4. Alive' = Alive /\ WithHandle' = WithHandle /\ IsFiniteSet(waker')
    BY <1>0, <2>2, <2>3, FS_AddElement DEF Alive, WithHandle
  <2> QED
    BY <1>0, <2>2, <2>4 DEF Counted, a, h
<1>6. ASSUME NEW w \in Workers,
             Receive(w) \/ StartPoll(w) \/ EndPoll(w) \/ WaitStore(w) \/ WaitCas(w) \/ Repoll(w)
      PROVE  Counted'
  <2>1. UNCHANGED <<task, waker, cnt, handles>>
    BY <1>6 DEF Receive, StartPoll, EndPoll, WaitStore, WaitCas, Repoll, poolVars
  <2> QED
    BY <1>0, <2>1, KeepsCount
<1>7. ASSUME NEW c \in Callers, CallerStep(c) \/ \E t \in Tasks : Notify(c, t)
      PROVE  Counted'
  <2>1. UNCHANGED <<task, waker, cnt, handles>>
    BY <1>7 DEF CallerStep, NotifyTake, NotifySend, Notify, poolVars
  <2> QED
    BY <1>0, <2>1, KeepsCount
<1> QED
  BY <1>1, <1>2, <1>3, <1>4, <1>5, <1>6, <1>7 DEF Next, WorkerStep

(* Close messages are sent by the drop that takes the count to zero.       *)
LEMMA NextCloseSent ==
  ASSUME Typed, EachIsAlone, Steady, Counted, CloseSent => cnt = 0, Next
  PROVE  CloseSent' => cnt' = 0
<1>0. queue \in Seq(Tasks \cup {Close}) /\ cnt \in Int /\ handles \in Nat
  BY DEF Typed
<1>1. ASSUME cnt = 0 PROVE handles = 0 /\ Alive = {} /\ waker = {}
  <2>1. handles = 0 /\ Cardinality(Alive) = 0 /\ Cardinality(WithHandle) = 0
    BY <1>0, <1>1, CountParts DEF Counted
  <2> QED
    BY <2>1, CountParts DEF Counted, WithHandle
<1>2. ASSUME UNCHANGED queue, UNCHANGED cnt,
             \A w \in Workers : worker'[w].pc = "stopped" => worker[w].pc = "stopped"
      PROVE  CloseSent' => cnt' = 0
  BY <1>2 DEF CloseSent
<1>3. ASSUME NEW n \in Nat, NEW held, DropPools(n, held), cnt = 0 => n = 0,
             \A w \in Workers : worker'[w].pc = "stopped" => worker[w].pc = "stopped"
      PROVE  CloseSent' => cnt' = 0
  <2>1. CASE cnt = n
    BY <1>0, <1>3, <2>1 DEF DropPools
  <2>2. CASE cnt # n
    <3>1. queue' = queue /\ cnt' = cnt - n
      BY <1>3, <2>2 DEF DropPools
    <3> QED
      BY <1>0, <1>3, <3>1 DEF CloseSent
  <2> QED
    BY <2>1, <2>2
<1>4. CASE CloneHandle
  <2>1. cnt # 0 /\ UNCHANGED <<queue, worker>>
    BY <1>1, <1>4 DEF CloneHandle
  <2> QED
    BY <2>1 DEF CloseSent
<1>5. CASE DropHandle
  <2>1. cnt # 0 /\ UNCHANGED worker /\ DropPools(1, handles')
    BY <1>1, <1>5 DEF DropHandle
  <2> QED
    BY <1>3, <2>1
<1>6. ASSUME NEW t \in Tasks, Spawn(t) PROVE CloseSent' => cnt' = 0
  <2>1. cnt # 0 /\ UNCHANGED worker /\ queue' = Append(queue, t) /\ t # Close
    BY <1>1, <1>6, ConstantsAssumption DEF Spawn
  <2>2. In(queue', Close) => In(queue, Close)
    BY <1>0, <2>1, InAppend
  <2> QED
    BY <2>1, <2>2 DEF CloseSent
<1>7. ASSUME NEW t \in Tasks, DropWaker(t) PROVE CloseSent' => cnt' = 0
  <2>1. cnt # 0 /\ UNCHANGED worker /\ \E n \in {0, 1} : DropPools(n, handles)
    BY <1>1, <1>7 DEF DropWaker
  <2> QED
    BY <1>3, <2>1
<1>8. ASSUME NEW w \in Workers, PollPanics(w) \/ Complete(w) PROVE CloseSent' => cnt' = 0
  <2>1. PICK x \in Tasks : x = worker[w].task
    BY DEF Typed, WorkerStates
  <2>2. x \in Alive
    BY <1>8, <2>1 DEF PollPanics, Complete, EachIsAlone, Alone, HoldsW, Holding, Alive
  <2>3. cnt # 0
    BY <1>1, <2>2
  <2>4. \E n \in {1, 2} : DropPools(n, handles)
    BY <1>8 DEF PollPanics, Complete, DropTask
  <2>5. PICK pc \in {"dead", "idle"} : worker' = [worker EXCEPT ![w] = At(pc, AnyTask)]
    BY <1>8 DEF PollPanics, Complete, Idle
  <2>6. worker'[w].pc = pc /\ \A v \in Workers : v # w => worker'[v] = worker[v]
    BY <2>5, SomeTask, WorkerTurns DEF WorkerPC
  <2> QED
    BY <1>3, <2>3, <2>4, <2>6
<1>9. ASSUME NEW w \in Workers, Receive(w) PROVE CloseSent' => cnt' = 0
  <2>1. queue' = Tail(queue) /\ queue # << >> /\ UNCHANGED cnt
    BY <1>9 DEF Receive, poolVars
  <2>2. In(queue, Close) <=> Head(queue) = Close \/ In(queue', Close)
    BY <1>0, <2>1, InTail
  <2>3. Head(queue) # Close => Head(queue) \in Tasks
    BY <1>0, <2>1, InTail
  <2>4. /\ worker'[w].pc = "stopped" => Head(queue) = Close
        /\ \A v \in Workers : v # w => worker'[v] = worker[v]
    BY <1>9, <2>3, SomeTask, WorkerTurns DEF Receive, WorkerPC
  <2> QED
    BY <2>1, <2>2, <2>4 DEF CloseSent
<1>10. ASSUME NEW w \in Workers,
              StartPoll(w) \/ BeginPoll(w) \/ EndPoll(w) \/ WaitStore(w) \/ Repoll(w) \/ WaitCas(w)
       PROVE  CloseSent' => cnt' = 0
  <2>1. UNCHANGED <<queue, cnt>>
    BY <1>10 DEF StartPoll, BeginPoll, EndPoll, WaitStore, Repoll, WaitCas, poolVars
  <2>2. \/ \E pc \in WorkerPC \ {"stopped"} : WorkerGoto(w, pc)
        \/ worker' = [worker EXCEPT ![w] = At("idle", AnyTask)]
    BY <1>10 DEF StartPoll, BeginPoll, EndPoll, WaitStore, Repoll, WaitCas, Idle, WorkerPC
  <2>3. worker'[w].pc # "stopped" /\ \A v \in Workers : v # w => worker'[v] = worker[v]
    BY <2>2, SomeTask, WorkerMoves, WorkerTurns DEF WorkerPC
  <2> QED
    BY <1>2, <2>1, <2>3
<1>11. ASSUME NEW c \in Callers, NotifyTake(c) \/ \E t \in Tasks : Notify(c, t)
       PROVE  CloseSent' => cnt' = 0
  BY <1>2, <1>11 DEF NotifyTake, Notify, poolVars
<1>12. ASSUME NEW c \in Callers, NotifySend(c) PROVE CloseSent' => cnt' = 0
  <2>1. caller[c].task \in Tasks
    BY DEF Typed, CallerStates
  <2>2. /\ UNCHANGED <<worker, cnt>> /\ queue' = Append(queue, caller[c].task)
        /\ caller[c].task # Close
    BY <1>12, <2>1, ConstantsAssumption DEF NotifySend, poolVars
  <2>3. In(queue', Close) => In(queue, Close)
    BY <1>0, <2>1, <2>2, InAppend
  <2> QED
    BY <2>2, <2>3 DEF CloseSent
<1> QED
  BY <1>4, <1>5, <1>6, <1>7, <1>8, <1>9, <1>10, <1>11, <1>12 DEF Next, WorkerStep, CallerStep

(* The inductive invariant of the pool.                                    *)
PoolInv == Typed /\ EachIsAlone /\ Steady /\ Counted /\ (CloseSent => cnt = 0)

LEMMA PoolInvIsInductive == PoolInv /\ [Next]_vars => PoolInv'
<1> SUFFICES ASSUME PoolInv, [Next]_vars PROVE PoolInv'
  OBVIOUS
<1>1. Typed' /\ EachIsAlone' /\ Steady'
  BY NextTyped, NextAlone DEF PoolInv
<1>2. CASE UNCHANGED vars
  BY <1>1, <1>2 DEF vars, poolVars, PoolInv, Counted, Alive, WithHandle, CloseSent
<1>3. CASE Next
  BY <1>1, <1>3, NextCounted, NextCloseSent DEF PoolInv
<1> QED
  BY <1>2, <1>3

(* The workers are told to stop by the drop of the last clone of the pool: *)
(* no task is alive then, in the queue, in a worker or in the hands of a   *)
(* waker, and none can be spawned any more.                                *)
THEOREM PoolIsClosedLast == Spec => []CloseIsLast
<1>1. PoolInv => CloseIsLast
  <2> SUFFICES ASSUME PoolInv, CloseSent PROVE handles = 0 /\ \A t \in Tasks : task[t] # "alive"
    <3>1. Typed => DOMAIN queue = 1 .. Len(queue)
      BY DEF Typed
    <3> QED
      BY <3>1 DEF CloseIsLast, CloseSent, In, PoolInv
  <2>1. cnt = 0 /\ Counted /\ handles \in Nat
    BY DEF PoolInv, Typed
  <2>2. handles = 0 /\ Cardinality(Alive) = 0
    BY <2>1, CountParts DEF Counted
  <2>3. Alive = {}
    BY <2>1, <2>2, CountParts
  <2> QED
    BY <2>2, <2>3 DEF Alive
<1>2. Init => PoolInv
  BY InitTyped, InitAlone, InitCounted DEF PoolInv
<1> QED
  BY <1>1, <1>2, PoolInvIsInductive, PTL DEF Spec

(* Types, the count included: it never goes below zero.                    *)
THEOREM TypeCorrect == Spec => []TypeOK
<1>1. PoolInv => TypeOK
  <2> SUFFICES ASSUME PoolInv PROVE TypeOK
    OBVIOUS
  <2>1. cnt \in Nat
    BY CountParts DEF PoolInv, Counted, Typed
  <2> QED
    BY <2>1 DEF PoolInv, Typed, TypeOK, WorkerStates, CallerStates
<1>2. Init => PoolInv
  BY InitTyped, InitAlone, InitCounted DEF PoolInv
<1> QED
  BY <1>1, <1>2, PoolInvIsInductive, PTL DEF Spec
==============================================================================
