------------------------ MODULE FuturesUnorderedProofs ------------------------
(***************************************************************************)
(* For any number of tasks and threads: the set and its queue count every  *)
(* reference once, their lists are what poll_next and unlink take them     *)
(* for, and no wake-up of a future is lost.                                *)
(***************************************************************************)
EXTENDS FuturesUnordered, FiniteSetTheorems, TLAPS

OwnerPC == {"idle", "register", "dequeue", "deq_head", "stub_swap", "stub_link", "deq_last", "data",
            "begin", "polling", "release", "clear", "drop", "drop_release", "drop_clear", "gone"}
ThreadPC == {"idle", "link", "mark", "swap", "enq_swap", "enq_link", "wake", "unref"}

ListTyped ==
  /\ head_all \in Tasks \cup {Null}
  /\ next_all \in [Tasks -> Tasks \cup {Null, Stub}] /\ prev_all \in [Tasks -> Tasks \cup {Null}]
  /\ len_all \in [Tasks -> Int]
QueueTyped ==
  head \in Nodes /\ tail \in Nodes /\ next_ready \in [Nodes -> Nodes \cup {Null}]
FlagsTyped == queued \in [Tasks -> BOOLEAN] /\ woken \in [Tasks -> BOOLEAN]
MemTyped ==
  /\ strong \in [Tasks -> Int] /\ queue_refs \in Int
  /\ aborted \in BOOLEAN /\ is_terminated \in BOOLEAN
SetsTyped ==
  /\ future \subseteq born /\ waker \subseteq born /\ born \subseteq Tasks
  /\ due \subseteq future /\ wakes \in Int
OwnerTyped ==
  owner \in [pc : OwnerPC, task : Nodes, ptr : Nodes \cup {Null}, len : Int, polled : Int,
             yielded : Int, prev : BOOLEAN, res : {"ready", "pending", "none", "panic"}]
ThreadTyped ==
  thread \in [Threads -> [pc : ThreadPC, task : Nodes, ptr : Nodes \cup {Null},
                          call : {"none", "push", "wake"}]]
ActorsTyped == OwnerTyped /\ ThreadTyped
CellTyped ==
  registered \subseteq {Parent} /\ owed \subseteq {Parent} /\ notified \subseteq {Parent}

(* Every variable has its type; a future, a waker and a wake-up are of a   *)
(* task that was pushed, and only a future that is there can be due.       *)
TypeOK == /\ ListTyped /\ QueueTyped /\ FlagsTyped /\ MemTyped /\ SetsTyped
          /\ ActorsTyped /\ CellTyped

------------------------------------------------------------------------------
(* The threads: whoever pushes has the owner idle and a task that nobody   *)
(* has polled yet; whoever wakes has a waker of the task.                  *)
Waking(x) == thread[x].call = "wake"

ThreadsOK ==
  \A x \in Threads :
    /\ thread[x].pc = "idle" <=> thread[x].call = "none"
    /\ thread[x].pc = "link" => Pushing(x)
    /\ thread[x].pc \in {"mark", "swap", "wake", "unref"} => Waking(x)
    /\ thread[x].pc # "idle" => thread[x].task \in born
    /\ Pushing(x) => owner.pc = "idle" /\ thread[x].task \notin waker \cup due
    /\ Waking(x) => thread[x].task \in waker

(* The ready-to-run queue: the nodes from the tail on are one chain that   *)
(* ends at the head, missing links counted.                                *)
Chain(first, last, links) ==
  LET R == Reachable(first, links)
  IN /\ last \in R /\ links[last] = {}
     /\ \A p \in R \ {last} : \E n \in R : links[p] = {n}
     /\ \A p \in R : \A q \in R \ {p} : links[p] \cap links[q] = {}
     /\ \A p \in R : first \notin links[p]

Linking == {x \in Threads : thread[x].pc = "enq_link"}
LinksPending ==
  /\ \A x \in Linking :
       /\ thread[x].ptr \in QueueNodes /\ next_ready[thread[x].ptr] = Null
       /\ \A y \in Linking \ {x} : thread[y].ptr # thread[x].ptr
  /\ owner.pc = "stub_link" => /\ owner.ptr \in QueueNodes /\ next_ready[owner.ptr] = Null
                               /\ \A x \in Linking : thread[x].ptr # owner.ptr
StubPlace ==
  /\ owner.pc \in {"deq_head", "stub_swap", "stub_link", "deq_last"} => tail # Stub
  /\ owner.pc = "stub_swap" => Stub \notin QueueNodes
QueueOK == Chain(tail, head, Behind) /\ LinksPending /\ StubPlace

(* A queued task is in one place: in the queue, with one thread that is    *)
(* enqueuing it, or in the owner's hands.                                  *)
Carrying == {x \in Threads : thread[x].pc \in {"link", "enq_swap"}}
InQueue(t) == t \in QueueNodes \cup Enqueuing \/ (owner.pc = "data" /\ owner.task = t)

PlacesOK ==
  /\ \A x \in Carrying :
       /\ thread[x].task \notin QueueNodes /\ queued[thread[x].task]
       /\ owner.pc = "data" => owner.task # thread[x].task
       /\ \A y \in Carrying \ {x} : thread[y].task # thread[x].task
  /\ \A t \in QueueNodes \ {Stub} : queued[t] /\ t \in born
  /\ owner.pc = "data" =>
       owner.task \in born /\ owner.task \notin QueueNodes /\ queued[owner.task]
FlagsOK ==
  /\ \A t \in Tasks : ~queued[t] => t \in future
  /\ \A t \in future : queued[t] =>
       \/ t \in QueueNodes \cup Enqueuing \cup PushLinking
       \/ owner.task = t /\ owner.pc \in {"data", "clear", "drop_clear"}
  /\ owner.pc \in {"clear", "drop_clear"} =>
       queued[owner.task] /\ (owner.prev <=> owner.task \in QueueNodes \cup Enqueuing)
  /\ owner.pc = "begin" => owner.prev

(* The list of all tasks: two ways to go along the same chain, and going   *)
(* back from any of its tasks one leaves every set of tasks.               *)
Doubly(L, next, prev) ==
  /\ \A t \in L : next[t] # Null => next[t] \in L /\ prev[next[t]] = t
  /\ \A t \in L : prev[t] # Null => prev[t] \in L /\ next[prev[t]] = t
  /\ \A t \in Tasks \ L : prev[t] = Null
  /\ \A S \in SUBSET L : S # {} => \E c \in S : prev[c] \notin S

(* While pushes are under way the list is in pieces: head_all, and what    *)
(* each of them is going to link its task before, are where they begin.    *)
Tops == {head_all} \cup {thread[x].ptr : x \in {y \in Threads : thread[y].pc = "link"}}
Pushers == {x \in Threads : thread[x].pc = "link"}
Hand == IF InHand THEN {owner.task} ELSE {}

TopsOK ==
  /\ \A x \in Pushers :
       /\ thread[x].ptr # head_all /\ thread[x].task \in Tops
       /\ \A y \in Pushers \ {x} : thread[y].ptr # thread[x].ptr
  /\ \A t \in Linked : prev_all[t] = Null <=> t \in Tops
  /\ \A u \in Tops : u # Null => u \in Linked \cup PushLinking
BaseOK ==
  /\ IsFiniteSet(Linked)
  /\ \E u \in Tops : /\ Tops \ PushLinking = {u}
                     /\ u = Null <=> Linked = {}
                     /\ u # Null => len_all[u] = Cardinality(Linked)
ListOK == Doubly(Linked, next_all, prev_all) /\ TopsOK /\ BaseOK

(* Who has a future is in the list, about to be put there, or in the       *)
(* owner's hands.                                                          *)
FuturesOK ==
  /\ future = Linked \cup PushLinking \cup Hand
  /\ Linked \cap PushLinking = {} /\ Hand \cap (Linked \cup PushLinking) = {}
  /\ is_terminated => future = {}
  /\ owner.pc = "gone" => future = {}

Bit(b) == IF b THEN 1 ELSE 0
Wakers == {x \in Threads : Waking(x)}
RefsOK ==
  /\ IsFiniteSet(Wakers)
  /\ queue_refs = Bit(owner.pc # "gone") + Cardinality(Wakers)
  /\ \A t \in Tasks :
       strong[t] = Bit(t \in future) + Bit(queue_refs # 0 /\ t \notin future /\ InQueue(t))
                   + Bit(t \in waker)
  /\ ~aborted

(* Wake-ups                                                                *)
DueOK ==
  \A t \in due :
    \/ t \in QueueNodes
    \/ \E x \in Threads : thread[x].task = t /\ thread[x].pc \in {"mark", "swap", "enq_swap"}
    \/ owner.task = t /\ InHand /\ owner.pc # "polling"
    \/ owner.task = t /\ owner.pc = "data"
(* From register() until a poll that returned something the parent can be  *)
(* woken, and a poll under way has not returned Pending.                   *)
Polling == owner.pc \in {"dequeue", "deq_head", "stub_swap", "stub_link", "deq_last", "data",
                         "begin", "polling", "release", "clear"}
ArmedOK ==
  /\ Polling \/ (owner.pc = "idle" /\ owner.res = "pending") =>
       Parent \in registered \cup owed \cup notified
  /\ Polling \/ owner.pc = "register" => owner.res # "pending"
SleepOK ==
  Asleep /\ QueueNodes \cap (waker \cup due) # {} =>
    \/ Parent \in owed
    \/ \E x \in Threads : Waking(x) /\ thread[x].pc \in {"enq_link", "wake"}

IInv == /\ TypeOK /\ ThreadsOK /\ QueueOK /\ PlacesOK /\ FlagsOK /\ ListOK /\ FuturesOK
        /\ RefsOK /\ DueOK /\ ArmedOK /\ SleepOK

------------------------------------------------------------------------------
(* Chains of nodes                                                         *)

LinkFunctions == [Nodes -> SUBSET Nodes]

LEMMA ReachableClosed ==
  ASSUME NEW f \in Nodes, NEW B \in LinkFunctions
  PROVE  /\ f \in Reachable(f, B) /\ Reachable(f, B) \subseteq Nodes
         /\ \A p \in Reachable(f, B) : B[p] \subseteq Reachable(f, B)
  BY DEF Reachable, LinkFunctions

LEMMA ReachableLeast ==
  ASSUME NEW f \in Nodes, NEW B \in LinkFunctions, NEW S \in SUBSET Nodes,
         f \in S, \A p \in S : B[p] \subseteq S
  PROVE  Reachable(f, B) \subseteq S
  BY DEF Reachable

(* The links of what cannot be reached do not matter.                      *)
LEMMA ReachableSame ==
  ASSUME NEW f \in Nodes, NEW B \in LinkFunctions, NEW C \in LinkFunctions,
         \A p \in Reachable(f, B) : C[p] = B[p]
  PROVE  Reachable(f, C) = Reachable(f, B)
<1> DEFINE R == Reachable(f, B)
<1>1. f \in R /\ R \subseteq Nodes /\ \A p \in R : B[p] \subseteq R
  BY ReachableClosed
<1>2. Reachable(f, C) \subseteq R
  <2> HIDE DEF R
  <2> QED  BY <1>1, ReachableLeast DEF R
<1>3. f \in Reachable(f, C) /\ Reachable(f, C) \subseteq Nodes
      /\ \A p \in Reachable(f, C) : C[p] \subseteq Reachable(f, C)
  BY ReachableClosed
<1>4. \A p \in Reachable(f, C) : B[p] \subseteq Reachable(f, C)
  BY <1>2, <1>3
<1>5. R \subseteq Reachable(f, C)
  BY <1>3, <1>4, ReachableLeast
<1> QED  BY <1>2, <1>5

(* A node linked behind a node that can be reached, the links of which     *)
(* were cleared.                                                           *)
LEMMA ReachableGrows ==
  ASSUME NEW f \in Nodes, NEW B \in LinkFunctions, NEW C \in LinkFunctions,
         NEW h \in Reachable(f, B), NEW t \in Nodes \ Reachable(f, B),
         C[t] = {}, C[h] = B[h] \cup {t},
         \A p \in Reachable(f, B) \ {h} : C[p] = B[p]
  PROVE  Reachable(f, C) = Reachable(f, B) \cup {t}
<1>1. PICK R : R = Reachable(f, B)
  OBVIOUS
<1>2. f \in R /\ R \subseteq Nodes /\ \A p \in R : B[p] \subseteq R
  BY ReachableClosed, <1>1
<1>3. Reachable(f, C) \subseteq R \cup {t}
  <2>1. PICK S : S = R \cup {t}
    OBVIOUS
  <2>2. S \in SUBSET Nodes /\ f \in S /\ \A p \in S : C[p] \subseteq S
    BY <1>1, <1>2, <2>1
  <2> QED  BY <2>1, <2>2, ReachableLeast
<1>4. PICK S : S = Reachable(f, C)
  OBVIOUS
<1>5. f \in S /\ S \subseteq Nodes /\ \A p \in S : C[p] \subseteq S
  BY ReachableClosed, <1>4
<1>6. \A p \in S \cap R : B[p] \subseteq S \cap R
  BY <1>1, <1>2, <1>5
<1>7. R \subseteq S \cap R
  BY <1>1, <1>2, <1>5, <1>6, ReachableLeast
<1>8. t \in S
  BY <1>1, <1>5, <1>7
<1> QED  BY <1>1, <1>3, <1>4, <1>7, <1>8

(* Going on to the second node leaves the first behind.                    *)
LEMMA ReachableDrops ==
  ASSUME NEW f \in Nodes, NEW B \in LinkFunctions, NEW n \in Nodes,
         B[f] = {n}, \A p \in Reachable(f, B) : f \notin B[p]
  PROVE  Reachable(n, B) = Reachable(f, B) \ {f}
<1>1. PICK R : R = Reachable(f, B)
  OBVIOUS
<1>2. f \in R /\ R \subseteq Nodes /\ \A p \in R : B[p] \subseteq R
  BY ReachableClosed, <1>1
<1>3. Reachable(n, B) \subseteq R \ {f}
  <2>1. PICK S : S = R \ {f}
    OBVIOUS
  <2>2. S \in SUBSET Nodes /\ n \in S /\ \A p \in S : B[p] \subseteq S
    BY <1>1, <1>2, <2>1
  <2> QED  BY <2>1, <2>2, ReachableLeast
<1>4. PICK S : S = Reachable(n, B)
  OBVIOUS
<1>5. n \in S /\ S \subseteq Nodes /\ \A p \in S : B[p] \subseteq S
  BY ReachableClosed, <1>4
<1>6. R \subseteq S \cup {f}
  <2>1. PICK T : T = S \cup {f}
    OBVIOUS
  <2>2. T \in SUBSET Nodes /\ f \in T /\ \A p \in T : B[p] \subseteq T
    BY <1>5, <2>1
  <2> QED  BY <1>1, <2>1, <2>2, ReachableLeast
<1> QED  BY <1>1, <1>3, <1>4, <1>6

LEMMA ReachableLast ==
  ASSUME NEW f \in Nodes, NEW B \in LinkFunctions, B[f] = {}
  PROVE  Reachable(f, B) = {f}
<1>1. PICK S : S = {f}
  OBVIOUS
<1>2. S \in SUBSET Nodes /\ f \in S /\ \A p \in S : B[p] \subseteq S
  BY <1>1
<1>3. Reachable(f, B) \subseteq S
  BY <1>2, ReachableLeast
<1> QED  BY <1>1, <1>3, ReachableClosed

LEMMA ChainSame ==
  ASSUME NEW f \in Nodes, NEW h, NEW B \in LinkFunctions, NEW C \in LinkFunctions,
         Chain(f, h, B), \A p \in Reachable(f, B) : C[p] = B[p]
  PROVE  Chain(f, h, C) /\ Reachable(f, C) = Reachable(f, B)
<1>1. PICK R : R = Reachable(f, B)
  OBVIOUS
<1>2. Reachable(f, C) = R
  BY <1>1, ReachableSame
<1> QED  BY <1>1, <1>2 DEF Chain

LEMMA ChainGrows ==
  ASSUME NEW f \in Nodes, NEW h, NEW B \in LinkFunctions, NEW C \in LinkFunctions,
         Chain(f, h, B), NEW t \in Nodes \ Reachable(f, B),
         C[t] = {}, C[h] = {t}, \A p \in Reachable(f, B) \ {h} : C[p] = B[p]
  PROVE  Chain(f, t, C) /\ Reachable(f, C) = Reachable(f, B) \cup {t}
<1>1. PICK R : R = Reachable(f, B)
  OBVIOUS
<1>2. f \in R /\ R \subseteq Nodes /\ \A p \in R : B[p] \subseteq R
  BY ReachableClosed, <1>1
<1>3. /\ h \in R /\ B[h] = {}
      /\ \A p \in R \ {h} : \E n \in R : B[p] = {n}
      /\ \A p \in R : \A q \in R \ {p} : B[p] \cap B[q] = {}
      /\ \A p \in R : f \notin B[p]
  BY <1>1 DEF Chain
<1>4. Reachable(f, C) = R \cup {t}
  BY <1>1, <1>3, ReachableGrows
<1>5. t \notin R /\ \A p \in R \ {h} : C[p] = B[p] /\ t \notin C[p]
  BY <1>1, <1>2
<1>6. \A p \in R \cup {t} : \A q \in (R \cup {t}) \ {p} : C[p] \cap C[q] = {}
  BY <1>3, <1>5
<1>7. \A p \in (R \cup {t}) \ {t} : \E n \in R \cup {t} : C[p] = {n}
  BY <1>3, <1>5
<1>8. \A p \in R \cup {t} : f \notin C[p]
  BY <1>2, <1>3, <1>5
<1>9. Chain(f, t, C)
  BY <1>4, <1>6, <1>7, <1>8 DEF Chain
<1> QED  BY <1>1, <1>4, <1>9

LEMMA ChainDrops ==
  ASSUME NEW f \in Nodes, NEW h, NEW B \in LinkFunctions, NEW n \in Nodes,
         Chain(f, h, B), n \in B[f]
  PROVE  /\ Chain(n, h, B) /\ Reachable(n, B) = Reachable(f, B) \ {f}
         /\ f \in Reachable(f, B)
<1>1. PICK R : R = Reachable(f, B)
  OBVIOUS
<1>2. f \in R /\ R \subseteq Nodes /\ \A p \in R : B[p] \subseteq R
  BY ReachableClosed, <1>1
<1>3. /\ h \in R /\ B[h] = {}
      /\ \A p \in R \ {h} : \E m \in R : B[p] = {m}
      /\ \A p \in R : \A q \in R \ {p} : B[p] \cap B[q] = {}
      /\ \A p \in R : f \notin B[p]
  BY <1>1 DEF Chain
<1>4. f # h /\ B[f] = {n}
  BY <1>2, <1>3
<1>5. Reachable(n, B) = R \ {f}
  BY <1>1, <1>3, <1>4, ReachableDrops
<1>6. \A p \in R \ {f} : n \notin B[p]
  BY <1>2, <1>3, <1>4
<1>7. \A p \in (R \ {f}) \ {h} : \E m \in R \ {f} : B[p] = {m}
  BY <1>3
<1>8. Chain(n, h, B)
  BY <1>3, <1>4, <1>5, <1>6, <1>7 DEF Chain
<1> QED  BY <1>1, <1>2, <1>5, <1>8

------------------------------------------------------------------------------
(* Doubly linked lists                                                     *)

PrevFunctions == [Tasks -> Tasks \cup {Null}]
NextFunctions == [Tasks -> Tasks \cup {Null, Stub}]

(* The task t goes in before u, which was the first of the list or a part  *)
(* of it.                                                                  *)
LEMMA LinkKeeps ==
  ASSUME NEW L \in SUBSET Tasks, NEW next \in NextFunctions, NEW prev \in PrevFunctions,
         Doubly(L, next, prev), NEW t \in Tasks \ L, NEW u \in L \cup {Null},
         u # Null => prev[u] = Null,
         NEW next2 \in NextFunctions, NEW prev2 \in PrevFunctions,
         next2 = [next EXCEPT ![t] = u],
         prev2 = IF u = Null THEN prev ELSE [prev EXCEPT ![u] = t]
  PROVE  Doubly(L \cup {t}, next2, prev2)
<1> USE TasksAssumption DEF NextFunctions, PrevFunctions
<1>1. /\ \A c \in L : next[c] # Null => next[c] \in L /\ prev[next[c]] = c
      /\ \A c \in L : prev[c] # Null => prev[c] \in L /\ next[prev[c]] = c
      /\ \A c \in Tasks \ L : prev[c] = Null
      /\ \A S \in SUBSET L : S # {} => \E c \in S : prev[c] \notin S
  BY DEF Doubly
<1>2. prev2[t] = Null /\ next2[t] = u /\ \A c \in L \ {u} : prev2[c] = prev[c] /\ next2[c] = next[c]
  BY <1>1
<1>3. u # Null => prev2[u] = t /\ next2[u] = next[u]
  OBVIOUS
<1>4. ASSUME NEW S \in SUBSET (L \cup {t}), S # {} PROVE \E c \in S : prev2[c] \notin S
  <2>1. CASE t \in S
    BY <1>2, <1>4, <2>1
  <2>2. CASE t \notin S
    <3>1. PICK c \in S : prev[c] \notin S
      BY <1>1, <1>4, <2>2
    <3> QED  BY <1>2, <1>3, <2>2, <3>1
  <2> QED  BY <2>1, <2>2
<1>5. \A c \in L \cup {t} : next2[c] # Null => next2[c] \in L \cup {t} /\ prev2[next2[c]] = c
  BY <1>1, <1>2, <1>3
<1>6. \A c \in L \cup {t} : prev2[c] # Null => prev2[c] \in L \cup {t} /\ next2[prev2[c]] = c
  BY <1>1, <1>2, <1>3
<1>7. \A c \in Tasks \ (L \cup {t}) : prev2[c] = Null
  BY <1>1, <1>2, <1>3
<1> QED  BY <1>4, <1>5, <1>6, <1>7 DEF Doubly

LEMMA UnlinkKeeps ==
  ASSUME NEW L \in SUBSET Tasks, NEW next \in NextFunctions, NEW prev \in PrevFunctions,
         Doubly(L, next, prev), NEW t \in L, 
         NEW next2 \in NextFunctions, NEW prev2 \in PrevFunctions,
         next2 = [q \in Tasks |-> IF q = t THEN Stub ELSE IF q = prev[t] THEN next[t] ELSE next[q]],
         prev2 = [q \in Tasks |-> IF q = t THEN Null ELSE IF q = next[t] THEN prev[t] ELSE prev[q]]
  PROVE  Doubly(L \ {t}, next2, prev2)
<1> USE TasksAssumption DEF NextFunctions, PrevFunctions
<1>1. /\ \A c \in L : next[c] # Null => next[c] \in L /\ prev[next[c]] = c
      /\ \A c \in L : prev[c] # Null => prev[c] \in L /\ next[prev[c]] = c
      /\ \A c \in Tasks \ L : prev[c] = Null
      /\ \A S \in SUBSET L : S # {} => \E c \in S : prev[c] \notin S
  BY DEF Doubly
<1>2. next[t] # t /\ prev[t] # t
  <2>1. PICK S : S = {t}
    OBVIOUS
  <2>2. prev[t] \notin S
    BY <1>1, <2>1
  <2> QED  BY <1>1, <2>1, <2>2
<1>3. /\ prev2[t] = Null /\ next2[t] = Stub
      /\ \A c \in Tasks \ {t} : /\ c # next[t] => prev2[c] = prev[c]
                                /\ c # prev[t] => next2[c] = next[c]
                                /\ c = next[t] => prev2[c] = prev[t]
                                /\ c = prev[t] => next2[c] = next[t]
  OBVIOUS
<1>4. ASSUME NEW S \in SUBSET (L \ {t}), S # {} PROVE \E c \in S : prev2[c] \notin S
  <2>1. PICK T : T = S \cup {t}
    OBVIOUS
  <2>2. PICK d \in T : prev[d] \notin T
    BY <1>1, <1>4, <2>1
  <2>3. CASE d # t
    BY <1>1, <1>3, <2>1, <2>2, <2>3
  <2>4. CASE d = t
    <3>1. CASE next[t] \in S
      BY <1>3, <1>4, <2>1, <2>2, <2>4, <3>1
    <3>2. CASE next[t] \notin S
      BY <1>1, <1>3, <1>4, <3>2
    <3> QED  BY <3>1, <3>2
  <2> QED  BY <2>3, <2>4
<1>5. \A c \in L \ {t} : next2[c] # Null => next2[c] \in L \ {t} /\ prev2[next2[c]] = c
  <2> SUFFICES ASSUME NEW c \in L \ {t}, next2[c] # Null
               PROVE  next2[c] \in L \ {t} /\ prev2[next2[c]] = c
    OBVIOUS
  <2>1. CASE c = prev[t]
    BY <1>1, <1>2, <1>3, <2>1
  <2>2. CASE c # prev[t]
    BY <1>1, <1>2, <1>3, <2>2
  <2> QED  BY <2>1, <2>2
<1>6. \A c \in L \ {t} : prev2[c] # Null => prev2[c] \in L \ {t} /\ next2[prev2[c]] = c
  <2> SUFFICES ASSUME NEW c \in L \ {t}, prev2[c] # Null
               PROVE  prev2[c] \in L \ {t} /\ next2[prev2[c]] = c
    OBVIOUS
  <2>1. CASE c = next[t]
    BY <1>1, <1>2, <1>3, <2>1
  <2>2. CASE c # next[t]
    BY <1>1, <1>2, <1>3, <2>2
  <2> QED  BY <2>1, <2>2
<1>7. \A c \in Tasks \ (L \ {t}) : prev2[c] = Null
  BY <1>1, <1>3
<1> QED  BY <1>4, <1>5, <1>6, <1>7 DEF Doubly

(* A list with one first task has nothing beside what follows it.          *)
LEMMA OneTop ==
  ASSUME NEW L \in SUBSET Tasks, NEW next, NEW prev, Doubly(L, next, prev), NEW t \in L,
         \A c \in L : prev[c] = Null => c = t, next[t] = Null
  PROVE  L = {t}
<1> USE TasksAssumption
<1>1. /\ \A c \in L : prev[c] # Null => prev[c] \in L /\ next[prev[c]] = c
      /\ \A S \in SUBSET L : S # {} => \E c \in S : prev[c] \notin S
  BY DEF Doubly
<1>2. PICK S : S = L \ {t}
  OBVIOUS
<1>3. \A c \in S : prev[c] \in S
  BY <1>1, <1>2
<1> QED  BY <1>1, <1>2, <1>3

------------------------------------------------------------------------------
(* What a step leaves of the queue                                         *)

IsBehind(n, p) ==
  \/ next_ready[p] = n
  \/ \E x \in Linking : thread[x].ptr = p /\ thread[x].task = n
  \/ owner.pc = "stub_link" /\ owner.ptr = p /\ n = Stub

BehindIs == /\ Behind \in LinkFunctions
            /\ \A p \in Nodes : \A n \in Nodes : n \in Behind[p] <=> IsBehind(n, p)

LEMMA BehindMembers == TypeOK => BehindIs
<1> SUFFICES ASSUME TypeOK PROVE BehindIs
  OBVIOUS
<1>1. ASSUME NEW p \in Nodes, NEW n \in Nodes PROVE n \in Behind[p] <=> IsBehind(n, p)
  BY TasksAssumption DEF Behind, Links, Linking, IsBehind, Nodes, Null, Stub
<1>2. \A p \in Nodes : Behind[p] \subseteq Nodes
  BY DEF Behind, Links, TypeOK, QueueTyped, ActorsTyped, OwnerTyped, ThreadTyped, Nodes
<1>3. Behind \in LinkFunctions
  BY <1>2 DEF Behind, LinkFunctions
<1> QED  BY <1>1, <1>3 DEF BehindIs

LEMMA BehindMembersNext == TypeOK' => BehindIs'
  BY BehindMembers, PTL

(* QueueNodes goes along with Behind.                                      *)
LEMMA QueueClosed ==
  TypeOK => /\ tail \in QueueNodes /\ QueueNodes \subseteq Nodes
            /\ \A p \in QueueNodes : Behind[p] \subseteq QueueNodes
  BY BehindMembers, ReachableClosed DEF QueueNodes, TypeOK, QueueTyped, BehindIs

(* A step that does not touch the links of the queue.                      *)
QuietStep ==
  /\ UNCHANGED <<head, tail, next_ready, Linking>>
  /\ \A x \in Linking : thread'[x] = thread[x]
  /\ owner.pc = "stub_link" \/ owner'.pc = "stub_link" => owner' = owner

LEMMA QuietKeeps ==
  ASSUME TypeOK, TypeOK', QuietStep
  PROVE  UNCHANGED <<Behind, QueueNodes>>
<1>1. BehindIs /\ BehindIs'
  BY BehindMembers, BehindMembersNext
<1>2. ASSUME NEW p \in Nodes PROVE Behind'[p] = Behind[p]
  <2>1. ASSUME NEW n \in Nodes PROVE IsBehind(n, p)' <=> IsBehind(n, p)
    BY DEF IsBehind, QuietStep
  <2> QED  BY <1>1, <2>1 DEF BehindIs, LinkFunctions
<1>3. Behind' = Behind
  BY <1>1, <1>2 DEF BehindIs, LinkFunctions
<1> QED  BY <1>3 DEF QuietStep, QueueNodes

------------------------------------------------------------------------------
(* Types                                                                   *)

(* The tasks that the actors have in their hands.                          *)
TasksAtHand ==
  /\ \A x \in Threads : thread[x].pc # "idle" => thread[x].task \in born \cap Tasks
  /\ \A x \in Pushers : thread[x].ptr \in Linked \cup PushLinking \cup {Null}
  /\ InHand => owner.task \in future \cap Tasks
  /\ owner.pc = "data" => owner.task \in born \cap Tasks
  /\ {Null, Stub} \cap Tasks = {} /\ Null # Stub
  /\ Linked \subseteq Tasks /\ PushLinking \subseteq Tasks

LEMMA AtHand == IInv => TasksAtHand
<1> SUFFICES ASSUME IInv PROVE TasksAtHand
  OBVIOUS
<1>1. \A x \in Threads : thread[x].pc # "idle" => thread[x].task \in born \cap Tasks
  BY DEF IInv, ThreadsOK, TypeOK, SetsTyped
<1>2. \A x \in Pushers : thread[x].ptr \in Linked \cup PushLinking \cup {Null}
  BY DEF IInv, ListOK, TopsOK, Tops, Pushers
<1>3. InHand => owner.task \in future \cap Tasks
  BY DEF IInv, FuturesOK, Hand, TypeOK, SetsTyped
<1>4. owner.pc = "data" => owner.task \in born \cap Tasks
  BY DEF IInv, PlacesOK, TypeOK, SetsTyped
<1> QED  BY <1>1, <1>2, <1>3, <1>4, TasksAssumption DEF TasksAtHand, Linked, PushLinking, Null, Stub

LEMMA LinkTyped ==
  ASSUME ListTyped, NEW t \in Tasks, NEW u \in Tasks \cup {Null}, LinkBefore(t, u),
         head_all' \in Tasks \cup {Null}
  PROVE  ListTyped'
  BY DEF ListTyped, LinkBefore

LEMMA UnlinkTyped ==
  ASSUME ListTyped, NEW t \in Linked, head_all \in Tasks, Unlink(t)
  PROVE  ListTyped'
<1>1. next_all[t] \in Tasks \cup {Null} /\ prev_all[t] \in Tasks \cup {Null} /\ t \in Tasks
  BY DEF ListTyped, Linked
<1>2. head_all' \in Tasks \cup {Null}
  BY <1>1 DEF Unlink, ListTyped
<1>3. next_all' \in [Tasks -> Tasks \cup {Null, Stub}] /\ prev_all' \in [Tasks -> Tasks \cup {Null}]
  BY <1>1 DEF Unlink, ListTyped
<1>4. len_all' \in [Tasks -> Int]
  BY <1>2, TasksAssumption DEF Unlink, ListTyped
<1> QED  BY <1>2, <1>3, <1>4 DEF ListTyped

(* No push is under way when the owner is not idle; then the list is whole *)
(* and begins at head_all.                                                 *)
ListWhole ==
  /\ Pushers = {} /\ PushLinking = {} /\ Tops = {head_all}
  /\ head_all = Null <=> Linked = {}
  /\ head_all # Null => head_all \in Linked /\ len_all[head_all] = Cardinality(Linked)
  /\ \A t \in Linked : prev_all[t] = Null <=> t = head_all

LEMMA WholeWhenAlone ==
  ASSUME IInv, \A x \in Threads : ~Pushing(x)
  PROVE  ListWhole
<1>1. Pushers = {} /\ PushLinking = {}
  BY DEF IInv, ThreadsOK, Pushers, PushLinking
<1>2. Tops = {head_all}
  BY <1>1 DEF Tops, Pushers
<1>3. PICK u \in Tops : Tops \ PushLinking = {u} /\ (u = Null <=> Linked = {})
                        /\ (u # Null => len_all[u] = Cardinality(Linked))
  BY DEF IInv, ListOK, BaseOK
<1>4. u = head_all
  BY <1>2, <1>3
<1>5. head_all # Null => head_all \in Linked
  BY <1>1, <1>2 DEF IInv, ListOK, TopsOK
<1>6. \A t \in Linked : prev_all[t] = Null <=> t = head_all
  BY <1>2 DEF IInv, ListOK, TopsOK
<1> QED  BY <1>1, <1>2, <1>3, <1>4, <1>5, <1>6 DEF ListWhole

LEMMA WholeWhenBusy == IInv /\ owner.pc # "idle" => ListWhole
  BY WholeWhenAlone DEF IInv, ThreadsOK

LEMMA TakenOutIsLinked ==
  IInv /\ owner.pc = "data" /\ owner.task \in future => owner.task \in Linked /\ head_all \in Tasks
<1> SUFFICES ASSUME IInv, owner.pc = "data", owner.task \in future
             PROVE  owner.task \in Linked /\ head_all \in Tasks
  OBVIOUS
<1>1. ListWhole
  BY WholeWhenBusy
<1>2. owner.task \in Linked
  BY <1>1 DEF IInv, FuturesOK, ListWhole, Hand, InHand
<1> QED  BY <1>1, <1>2 DEF ListWhole, Linked

LEMMA ReturnTyped ==
  ASSUME OwnerTyped, NEW r \in {"ready", "pending", "none", "panic"}, Return(r)
  PROVE  OwnerTyped'
<1>1. owner' = [pc |-> "idle", task |-> Stub, ptr |-> Null, len |-> 0, polled |-> 0, yielded |-> 0,
                prev |-> owner.prev, res |-> r]
  BY DEF Return, OwnerTyped
<1> QED  BY <1>1 DEF OwnerTyped, OwnerPC, Nodes

LEMMA TypesKept == IInv /\ Next => TypeOK'
<1> SUFFICES ASSUME IInv, Next PROVE TypeOK'
  OBVIOUS
<1>0. TypeOK /\ TasksAtHand
  BY AtHand DEF IInv
<1> USE DEF TypeOK, allVars, readyVars, flagVars, memVars, cellVars, ghostVars, SharedUnchanged, PollUnchanged,
            DequeueUnchanged, Nodes
<1>1. ASSUME NEW x \in Threads, PushLink(x) PROVE TypeOK'
  <2>1. ListTyped'
    BY <1>0, <1>1, LinkTyped, AtHand DEF PushLink, Pushers, ListTyped, TasksAtHand
  <2>2. QueueTyped'
    BY <1>0, <1>1 DEF PushLink, ThreadGoto, Pushers, QueueTyped, TasksAtHand
  <2>3. FlagsTyped'
    BY <1>0, <1>1 DEF PushLink, ThreadGoto, Pushers, FlagsTyped, TasksAtHand
  <2>4. MemTyped'
    BY <1>0, <1>1 DEF PushLink, ThreadGoto, Pushers, MemTyped, TasksAtHand
  <2>5. SetsTyped'
    BY <1>0, <1>1 DEF PushLink, ThreadGoto, Pushers, SetsTyped, TasksAtHand
  <2>6. ActorsTyped'
    <3>1. OwnerTyped'
      BY <1>0, <1>1 DEF PushLink, ActorsTyped, OwnerTyped
    <3>2. ThreadTyped'
      BY <1>0, <1>1 DEF PushLink, ThreadGoto, Pushers, ThreadPC, ActorsTyped, ThreadTyped,
         TasksAtHand, ListTyped, QueueTyped
    <3> QED  BY <3>1, <3>2 DEF ActorsTyped
  <2>7. CellTyped'
    BY <1>0, <1>1 DEF PushLink, ThreadGoto, Pushers, CellTyped, TasksAtHand
  <2> QED  BY <2>1, <2>2, <2>3, <2>4, <2>5, <2>6, <2>7
<1>2. ASSUME NEW x \in Threads, WakeMark(x) PROVE TypeOK'
  <2>1. ListTyped'
    BY <1>0, <1>2 DEF WakeMark, ThreadGoto, ListTyped, TasksAtHand
  <2>2. QueueTyped'
    BY <1>0, <1>2 DEF WakeMark, ThreadGoto, QueueTyped, TasksAtHand
  <2>3. FlagsTyped'
    BY <1>0, <1>2 DEF WakeMark, ThreadGoto, FlagsTyped, TasksAtHand
  <2>4. MemTyped'
    BY <1>0, <1>2 DEF WakeMark, ThreadGoto, MemTyped, TasksAtHand
  <2>5. SetsTyped'
    BY <1>0, <1>2 DEF WakeMark, ThreadGoto, SetsTyped, TasksAtHand
  <2>6. ActorsTyped'
    <3>1. OwnerTyped'
      BY <1>0, <1>2 DEF WakeMark, ActorsTyped, OwnerTyped
    <3>2. ThreadTyped'
      BY <1>0, <1>2 DEF WakeMark, ThreadGoto, ThreadPC, ActorsTyped, ThreadTyped, TasksAtHand,
         ListTyped, QueueTyped
    <3> QED  BY <3>1, <3>2 DEF ActorsTyped
  <2>7. CellTyped'
    BY <1>0, <1>2 DEF WakeMark, ThreadGoto, CellTyped, TasksAtHand
  <2> QED  BY <2>1, <2>2, <2>3, <2>4, <2>5, <2>6, <2>7
<1>3. ASSUME NEW x \in Threads, WakeSwap(x) PROVE TypeOK'
  <2>1. ListTyped'
    BY <1>0, <1>3 DEF WakeSwap, ThreadGoto, ListTyped, TasksAtHand
  <2>2. QueueTyped'
    BY <1>0, <1>3 DEF WakeSwap, ThreadGoto, QueueTyped, TasksAtHand
  <2>3. FlagsTyped'
    BY <1>0, <1>3 DEF WakeSwap, ThreadGoto, FlagsTyped, TasksAtHand
  <2>4. MemTyped'
    BY <1>0, <1>3 DEF WakeSwap, ThreadGoto, MemTyped, TasksAtHand
  <2>5. SetsTyped'
    BY <1>0, <1>3 DEF WakeSwap, ThreadGoto, SetsTyped, TasksAtHand
  <2>6. ActorsTyped'
    <3>1. OwnerTyped'
      BY <1>0, <1>3 DEF WakeSwap, ActorsTyped, OwnerTyped
    <3>2. ThreadTyped'
      BY <1>0, <1>3 DEF WakeSwap, ThreadGoto, ThreadPC, ActorsTyped, ThreadTyped, TasksAtHand,
         ListTyped, QueueTyped
    <3> QED  BY <3>1, <3>2 DEF ActorsTyped
  <2>7. CellTyped'
    BY <1>0, <1>3 DEF WakeSwap, ThreadGoto, CellTyped, TasksAtHand
  <2> QED  BY <2>1, <2>2, <2>3, <2>4, <2>5, <2>6, <2>7
<1>4. ASSUME NEW x \in Threads, EnqueueSwap(x) PROVE TypeOK'
  <2>1. ListTyped'
    BY <1>0, <1>4 DEF EnqueueSwap, ListTyped, TasksAtHand
  <2>2. QueueTyped'
    BY <1>0, <1>4 DEF EnqueueSwap, QueueTyped, TasksAtHand
  <2>3. FlagsTyped'
    BY <1>0, <1>4 DEF EnqueueSwap, FlagsTyped, TasksAtHand
  <2>4. MemTyped'
    BY <1>0, <1>4 DEF EnqueueSwap, MemTyped, TasksAtHand
  <2>5. SetsTyped'
    BY <1>0, <1>4 DEF EnqueueSwap, SetsTyped, TasksAtHand
  <2>6. ActorsTyped'
    <3>1. OwnerTyped'
      BY <1>0, <1>4 DEF EnqueueSwap, ActorsTyped, OwnerTyped
    <3>2. ThreadTyped'
      <4>1. thread' = [thread EXCEPT ![x] = [thread[x] EXCEPT !.pc = "enq_link", !.ptr = head]]
        BY <1>0, <1>4 DEF EnqueueSwap, ActorsTyped, ThreadTyped
      <4> QED  BY <1>0, <4>1 DEF ThreadPC, ActorsTyped, ThreadTyped, QueueTyped
    <3> QED  BY <3>1, <3>2 DEF ActorsTyped
  <2>7. CellTyped'
    BY <1>0, <1>4 DEF EnqueueSwap, CellTyped, TasksAtHand
  <2> QED  BY <2>1, <2>2, <2>3, <2>4, <2>5, <2>6, <2>7
<1>5. ASSUME NEW x \in Threads, EnqueueLink(x) PROVE TypeOK'
  <2>1. ListTyped'
    BY <1>0, <1>5 DEF EnqueueLink, Idle, ListTyped, TasksAtHand
  <2>2. QueueTyped'
    BY <1>0, <1>5 DEF EnqueueLink, Idle, QueueTyped, TasksAtHand
  <2>3. FlagsTyped'
    BY <1>0, <1>5 DEF EnqueueLink, Idle, FlagsTyped, TasksAtHand
  <2>4. MemTyped'
    BY <1>0, <1>5 DEF EnqueueLink, Idle, MemTyped, TasksAtHand
  <2>5. SetsTyped'
    BY <1>0, <1>5 DEF EnqueueLink, Idle, SetsTyped, TasksAtHand
  <2>6. ActorsTyped'
    <3>1. OwnerTyped'
      BY <1>0, <1>5 DEF EnqueueLink, ActorsTyped, OwnerTyped
    <3>2. ThreadTyped'
      <4>1. PICK r \in {Idle, [thread[x] EXCEPT !.pc = "wake"]} : thread' = [thread EXCEPT ![x] = r]
        BY <1>5 DEF EnqueueLink
      <4> QED  BY <1>0, <4>1 DEF Idle, ThreadPC, ActorsTyped, ThreadTyped
    <3> QED  BY <3>1, <3>2 DEF ActorsTyped
  <2>7. CellTyped'
    BY <1>0, <1>5 DEF EnqueueLink, Idle, CellTyped, TasksAtHand
  <2> QED  BY <2>1, <2>2, <2>3, <2>4, <2>5, <2>6, <2>7
<1>6. ASSUME NEW x \in Threads, WakeParent(x) PROVE TypeOK'
  <2>1. ListTyped'
    BY <1>0, <1>6 DEF WakeParent, ThreadGoto, Cell!Take, ListTyped, TasksAtHand
  <2>2. QueueTyped'
    BY <1>0, <1>6 DEF WakeParent, ThreadGoto, Cell!Take, QueueTyped, TasksAtHand
  <2>3. FlagsTyped'
    BY <1>0, <1>6 DEF WakeParent, ThreadGoto, Cell!Take, FlagsTyped, TasksAtHand
  <2>4. MemTyped'
    BY <1>0, <1>6 DEF WakeParent, ThreadGoto, Cell!Take, MemTyped, TasksAtHand
  <2>5. SetsTyped'
    BY <1>0, <1>6 DEF WakeParent, ThreadGoto, Cell!Take, SetsTyped, TasksAtHand
  <2>6. ActorsTyped'
    <3>1. OwnerTyped'
      BY <1>0, <1>6 DEF WakeParent, ActorsTyped, OwnerTyped
    <3>2. ThreadTyped'
      BY <1>0, <1>6 DEF WakeParent, ThreadGoto, Cell!Take, ThreadPC, ActorsTyped, ThreadTyped,
         TasksAtHand, ListTyped, QueueTyped
    <3> QED  BY <3>1, <3>2 DEF ActorsTyped
  <2>7. CellTyped'
    BY <1>0, <1>6 DEF WakeParent, ThreadGoto, Cell!Take, CellTyped, TasksAtHand
  <2> QED  BY <2>1, <2>2, <2>3, <2>4, <2>5, <2>6, <2>7
<1>7. ASSUME NEW x \in Threads, WakeReturn(x) PROVE TypeOK'
  <2>1. ListTyped'
    BY <1>0, <1>7 DEF WakeReturn, UnrefQueue, Idle, ListTyped, TasksAtHand
  <2>2. QueueTyped'
    BY <1>0, <1>7 DEF WakeReturn, UnrefQueue, Idle, QueueTyped, TasksAtHand
  <2>3. FlagsTyped'
    BY <1>0, <1>7 DEF WakeReturn, UnrefQueue, Idle, FlagsTyped, TasksAtHand
  <2>4. MemTyped'
    BY <1>0, <1>7 DEF WakeReturn, UnrefQueue, Idle, MemTyped, TasksAtHand
  <2>5. SetsTyped'
    BY <1>0, <1>7 DEF WakeReturn, UnrefQueue, Idle, SetsTyped, TasksAtHand
  <2>6. ActorsTyped'
    <3>1. OwnerTyped'
      BY <1>0, <1>7 DEF WakeReturn, ActorsTyped, OwnerTyped
    <3>2. ThreadTyped'
      BY <1>0, <1>7 DEF WakeReturn, UnrefQueue, Idle, ThreadPC, ActorsTyped, ThreadTyped,
         TasksAtHand, ListTyped, QueueTyped
    <3> QED  BY <3>1, <3>2 DEF ActorsTyped
  <2>7. CellTyped'
    BY <1>0, <1>7 DEF WakeReturn, UnrefQueue, Idle, CellTyped, TasksAtHand
  <2> QED  BY <2>1, <2>2, <2>3, <2>4, <2>5, <2>6, <2>7
<1>8. ASSUME NEW x \in Threads, NEW t \in Tasks, Push(x, t) PROVE TypeOK'
  <2>1. ListTyped'
    BY <1>0, <1>8 DEF Push, ListTyped, TasksAtHand
  <2>2. QueueTyped'
    BY <1>0, <1>8 DEF Push, QueueTyped, TasksAtHand
  <2>3. FlagsTyped'
    BY <1>0, <1>8 DEF Push, FlagsTyped, TasksAtHand
  <2>4. MemTyped'
    <3>1. strong' = [strong EXCEPT ![t] = 1] /\ is_terminated' = FALSE /\ UNCHANGED <<queue_refs, aborted>>
      BY <1>8 DEF Push
    <3>2. strong' \in [Tasks -> Int] /\ queue_refs' \in Int
      BY <1>0, <3>1 DEF MemTyped
    <3>3. aborted' \in BOOLEAN /\ is_terminated' \in BOOLEAN
      BY <1>0, <3>1, Zenon DEF MemTyped
    <3> QED  BY <3>2, <3>3 DEF MemTyped
  <2>5. SetsTyped'
    BY <1>0, <1>8 DEF Push, SetsTyped, TasksAtHand
  <2>6. ActorsTyped'
    <3>1. OwnerTyped'
      BY <1>0, <1>8 DEF Push, ActorsTyped, OwnerTyped
    <3>2. ThreadTyped'
      BY <1>0, <1>8 DEF Push, ThreadPC, ActorsTyped, ThreadTyped, TasksAtHand, ListTyped, QueueTyped
    <3> QED  BY <3>1, <3>2 DEF ActorsTyped
  <2>7. CellTyped'
    BY <1>0, <1>8 DEF Push, CellTyped, TasksAtHand
  <2> QED  BY <2>1, <2>2, <2>3, <2>4, <2>5, <2>6, <2>7
<1>9. ASSUME NEW x \in Threads, NEW t \in Tasks, Wake(x, t) PROVE TypeOK'
  <2>1. ListTyped'
    BY <1>0, <1>9 DEF Wake, ListTyped, TasksAtHand
  <2>2. QueueTyped'
    BY <1>0, <1>9 DEF Wake, QueueTyped, TasksAtHand
  <2>3. FlagsTyped'
    BY <1>0, <1>9 DEF Wake, FlagsTyped, TasksAtHand
  <2>4. MemTyped'
    BY <1>0, <1>9 DEF Wake, MemTyped, TasksAtHand
  <2>5. SetsTyped'
    BY <1>0, <1>9 DEF Wake, SetsTyped, TasksAtHand
  <2>6. ActorsTyped'
    <3>1. OwnerTyped'
      BY <1>0, <1>9 DEF Wake, ActorsTyped, OwnerTyped
    <3>2. ThreadTyped'
      BY <1>0, <1>9 DEF Wake, ThreadPC, ActorsTyped, ThreadTyped, TasksAtHand, ListTyped, QueueTyped
    <3> QED  BY <3>1, <3>2 DEF ActorsTyped
  <2>7. CellTyped'
    BY <1>0, <1>9 DEF Wake, CellTyped, TasksAtHand
  <2> QED  BY <2>1, <2>2, <2>3, <2>4, <2>5, <2>6, <2>7
<1>10. ASSUME NEW t \in Tasks, DropWaker(t) PROVE TypeOK'
  <2>1. ListTyped'
    BY <1>0, <1>10 DEF DropWaker, ListTyped, TasksAtHand
  <2>2. QueueTyped'
    BY <1>0, <1>10 DEF DropWaker, QueueTyped, TasksAtHand
  <2>3. FlagsTyped'
    BY <1>0, <1>10 DEF DropWaker, FlagsTyped, TasksAtHand
  <2>4. MemTyped'
    BY <1>0, <1>10 DEF DropWaker, MemTyped, TasksAtHand
  <2>5. SetsTyped'
    BY <1>0, <1>10 DEF DropWaker, SetsTyped, TasksAtHand
  <2>6. ActorsTyped'
    <3>1. OwnerTyped'
      BY <1>0, <1>10 DEF DropWaker, ActorsTyped, OwnerTyped
    <3>2. ThreadTyped'
      BY <1>0, <1>10 DEF DropWaker, ActorsTyped, ThreadTyped
    <3> QED  BY <3>1, <3>2 DEF ActorsTyped
  <2>7. CellTyped'
    BY <1>0, <1>10 DEF DropWaker, CellTyped, TasksAtHand
  <2> QED  BY <2>1, <2>2, <2>3, <2>4, <2>5, <2>6, <2>7
<1>11. ASSUME Register PROVE TypeOK'
  <2>1. ListTyped'
    BY <1>0, <1>11 DEF Register, Cell!Register, Cell!RegisterStored, Cell!RegisterRaced, OwnerGoto,
       ListTyped, TasksAtHand
  <2>2. QueueTyped'
    BY <1>0, <1>11 DEF Register, Cell!Register, Cell!RegisterStored, Cell!RegisterRaced, OwnerGoto,
       QueueTyped, TasksAtHand
  <2>3. FlagsTyped'
    BY <1>0, <1>11 DEF Register, Cell!Register, Cell!RegisterStored, Cell!RegisterRaced, OwnerGoto,
       FlagsTyped, TasksAtHand
  <2>4. MemTyped'
    BY <1>0, <1>11 DEF Register, Cell!Register, Cell!RegisterStored, Cell!RegisterRaced, OwnerGoto,
       MemTyped, TasksAtHand
  <2>5. SetsTyped'
    BY <1>0, <1>11 DEF Register, Cell!Register, Cell!RegisterStored, Cell!RegisterRaced, OwnerGoto,
       SetsTyped, TasksAtHand
  <2>6. ActorsTyped'
    <3>1. OwnerTyped'
      BY <1>0, <1>11 DEF Register, OwnerGoto, OwnerPC, ActorsTyped, OwnerTyped
    <3>2. ThreadTyped'
      BY <1>0, <1>11 DEF Register, Cell!Register, Cell!RegisterStored, Cell!RegisterRaced,
         OwnerGoto, ActorsTyped, ThreadTyped
    <3> QED  BY <3>1, <3>2 DEF ActorsTyped
  <2>7. CellTyped'
    BY <1>0, <1>11 DEF Register, Cell!Register, Cell!RegisterStored, Cell!RegisterRaced, OwnerGoto,
       CellTyped, TasksAtHand
  <2> QED  BY <2>1, <2>2, <2>3, <2>4, <2>5, <2>6, <2>7
<1>12. ASSUME DequeueStub PROVE TypeOK'
  <2>1. ListTyped'
    BY <1>0, <1>12 DEF DequeueStub, Empty, Return, ListTyped, TasksAtHand
  <2>2. QueueTyped'
    BY <1>0, <1>12 DEF DequeueStub, Empty, Return, QueueTyped, TasksAtHand
  <2>3. FlagsTyped'
    BY <1>0, <1>12 DEF DequeueStub, Empty, Return, FlagsTyped, TasksAtHand
  <2>4. MemTyped'
    BY <1>0, <1>12 DEF DequeueStub, Empty, Return, MemTyped, TasksAtHand
  <2>5. SetsTyped'
    BY <1>0, <1>12 DEF DequeueStub, Empty, Return, SetsTyped, TasksAtHand
  <2>6. ActorsTyped'
    <3>1. OwnerTyped'
      <4>1. Return("none") \/ Return("pending") \/ owner' = owner
        BY <1>12 DEF DequeueStub, Empty
      <4> QED  BY <1>0, <4>1, ReturnTyped DEF ActorsTyped, OwnerTyped
    <3>2. ThreadTyped'
      BY <1>0, <1>12 DEF DequeueStub, Empty, Return, ActorsTyped, ThreadTyped
    <3> QED  BY <3>1, <3>2 DEF ActorsTyped
  <2>7. CellTyped'
    BY <1>0, <1>12 DEF DequeueStub, Empty, Return, CellTyped, TasksAtHand
  <2> QED  BY <2>1, <2>2, <2>3, <2>4, <2>5, <2>6, <2>7
<1>13. ASSUME DequeueTask PROVE TypeOK'
  <2>1. ListTyped'
    BY <1>0, <1>13 DEF DequeueTask, Found, OwnerGoto, ListTyped, TasksAtHand
  <2>2. QueueTyped'
    BY <1>0, <1>13 DEF DequeueTask, Found, OwnerGoto, QueueTyped, TasksAtHand
  <2>3. FlagsTyped'
    BY <1>0, <1>13 DEF DequeueTask, Found, OwnerGoto, FlagsTyped, TasksAtHand
  <2>4. MemTyped'
    BY <1>0, <1>13 DEF DequeueTask, Found, OwnerGoto, MemTyped, TasksAtHand
  <2>5. SetsTyped'
    BY <1>0, <1>13 DEF DequeueTask, Found, OwnerGoto, SetsTyped, TasksAtHand
  <2>6. ActorsTyped'
    <3>1. OwnerTyped'
      <4>1. \/ owner' = [owner EXCEPT !.pc = "data", !.task = tail]
            \/ owner' = [owner EXCEPT !.pc = "deq_head"]
        BY <1>13 DEF DequeueTask, Found, OwnerGoto
      <4>2. tail \in Nodes
        BY <1>0 DEF QueueTyped
      <4>3. {"data", "deq_head"} \subseteq OwnerPC
        BY DEF OwnerPC
      <4> QED  BY <1>0, <4>1, <4>2, <4>3 DEF ActorsTyped, OwnerTyped
    <3>2. ThreadTyped'
      BY <1>0, <1>13 DEF DequeueTask, Found, OwnerGoto, ActorsTyped, ThreadTyped
    <3> QED  BY <3>1, <3>2 DEF ActorsTyped
  <2>7. CellTyped'
    BY <1>0, <1>13 DEF DequeueTask, Found, OwnerGoto, CellTyped, TasksAtHand
  <2> QED  BY <2>1, <2>2, <2>3, <2>4, <2>5, <2>6, <2>7
<1>14. ASSUME DequeueHead PROVE TypeOK'
  <2>1. ListTyped'
    BY <1>0, <1>14 DEF DequeueHead, Inconsistent, Return, OwnerGoto, ListTyped, TasksAtHand
  <2>2. QueueTyped'
    BY <1>0, <1>14 DEF DequeueHead, Inconsistent, Return, OwnerGoto, QueueTyped, TasksAtHand
  <2>3. FlagsTyped'
    BY <1>0, <1>14 DEF DequeueHead, Inconsistent, Return, OwnerGoto, FlagsTyped, TasksAtHand
  <2>4. MemTyped'
    BY <1>0, <1>14 DEF DequeueHead, Inconsistent, Return, OwnerGoto, MemTyped, TasksAtHand
  <2>5. SetsTyped'
    BY <1>0, <1>14 DEF DequeueHead, Inconsistent, Return, OwnerGoto, SetsTyped, TasksAtHand
  <2>6. ActorsTyped'
    <3>1. OwnerTyped'
      <4>1. Return("pending") \/ OwnerGoto("stub_swap")
        BY <1>14 DEF DequeueHead, Inconsistent
      <4> QED  BY <1>0, <4>1, ReturnTyped DEF ActorsTyped, OwnerTyped, OwnerPC, OwnerGoto
    <3>2. ThreadTyped'
      BY <1>0, <1>14 DEF DequeueHead, Inconsistent, Return, OwnerGoto, ActorsTyped, ThreadTyped
    <3> QED  BY <3>1, <3>2 DEF ActorsTyped
  <2>7. CellTyped'
    BY <1>0, <1>14 DEF DequeueHead, Inconsistent, Return, OwnerGoto, CellTyped, TasksAtHand
  <2> QED  BY <2>1, <2>2, <2>3, <2>4, <2>5, <2>6, <2>7
<1>15. ASSUME StubSwap PROVE TypeOK'
  <2>1. ListTyped'
    BY <1>0, <1>15 DEF StubSwap, ListTyped, TasksAtHand
  <2>2. QueueTyped'
    BY <1>0, <1>15 DEF StubSwap, QueueTyped, TasksAtHand
  <2>3. FlagsTyped'
    BY <1>0, <1>15 DEF StubSwap, FlagsTyped, TasksAtHand
  <2>4. MemTyped'
    BY <1>0, <1>15 DEF StubSwap, MemTyped, TasksAtHand
  <2>5. SetsTyped'
    BY <1>0, <1>15 DEF StubSwap, SetsTyped, TasksAtHand
  <2>6. ActorsTyped'
    <3>1. OwnerTyped'
      BY <1>0, <1>15 DEF StubSwap, OwnerPC, ActorsTyped, OwnerTyped, TasksAtHand, FlagsTyped,
         ListTyped, QueueTyped
    <3>2. ThreadTyped'
      BY <1>0, <1>15 DEF StubSwap, ActorsTyped, ThreadTyped
    <3> QED  BY <3>1, <3>2 DEF ActorsTyped
  <2>7. CellTyped'
    BY <1>0, <1>15 DEF StubSwap, CellTyped, TasksAtHand
  <2> QED  BY <2>1, <2>2, <2>3, <2>4, <2>5, <2>6, <2>7
<1>16. ASSUME StubLink PROVE TypeOK'
  <2>1. ListTyped'
    BY <1>0, <1>16 DEF StubLink, OwnerGoto, ListTyped, TasksAtHand
  <2>2. QueueTyped'
    BY <1>0, <1>16 DEF StubLink, OwnerGoto, QueueTyped, TasksAtHand
  <2>3. FlagsTyped'
    BY <1>0, <1>16 DEF StubLink, OwnerGoto, FlagsTyped, TasksAtHand
  <2>4. MemTyped'
    BY <1>0, <1>16 DEF StubLink, OwnerGoto, MemTyped, TasksAtHand
  <2>5. SetsTyped'
    BY <1>0, <1>16 DEF StubLink, OwnerGoto, SetsTyped, TasksAtHand
  <2>6. ActorsTyped'
    <3>1. OwnerTyped'
      BY <1>0, <1>16 DEF StubLink, OwnerGoto, OwnerPC, ActorsTyped, OwnerTyped
    <3>2. ThreadTyped'
      BY <1>0, <1>16 DEF StubLink, OwnerGoto, ActorsTyped, ThreadTyped
    <3> QED  BY <3>1, <3>2 DEF ActorsTyped
  <2>7. CellTyped'
    BY <1>0, <1>16 DEF StubLink, OwnerGoto, CellTyped, TasksAtHand
  <2> QED  BY <2>1, <2>2, <2>3, <2>4, <2>5, <2>6, <2>7
<1>17. ASSUME DequeueLast PROVE TypeOK'
  <2>1. ListTyped'
    BY <1>0, <1>17 DEF DequeueLast, Found, Inconsistent, Return, ListTyped, TasksAtHand
  <2>2. QueueTyped'
    BY <1>0, <1>17 DEF DequeueLast, Found, Inconsistent, Return, QueueTyped, TasksAtHand
  <2>3. FlagsTyped'
    BY <1>0, <1>17 DEF DequeueLast, Found, Inconsistent, Return, FlagsTyped, TasksAtHand
  <2>4. MemTyped'
    BY <1>0, <1>17 DEF DequeueLast, Found, Inconsistent, Return, MemTyped, TasksAtHand
  <2>5. SetsTyped'
    BY <1>0, <1>17 DEF DequeueLast, Found, Inconsistent, Return, SetsTyped, TasksAtHand
  <2>6. ActorsTyped'
    <3>1. OwnerTyped'
      <4>1. Return("pending") \/ owner' = [owner EXCEPT !.pc = "data", !.task = tail]
        BY <1>17 DEF DequeueLast, Found, Inconsistent
      <4> QED  BY <1>0, <4>1, ReturnTyped DEF ActorsTyped, OwnerTyped, OwnerPC, QueueTyped
    <3>2. ThreadTyped'
      BY <1>0, <1>17 DEF DequeueLast, Found, Inconsistent, Return, ActorsTyped, ThreadTyped
    <3> QED  BY <3>1, <3>2 DEF ActorsTyped
  <2>7. CellTyped'
    BY <1>0, <1>17 DEF DequeueLast, Found, Inconsistent, Return, CellTyped, TasksAtHand
  <2> QED  BY <2>1, <2>2, <2>3, <2>4, <2>5, <2>6, <2>7
<1>18. ASSUME CleanOut PROVE TypeOK'
  <2>1. ListTyped'
    BY <1>0, <1>18 DEF CleanOut, ListTyped, TasksAtHand
  <2>2. QueueTyped'
    BY <1>0, <1>18 DEF CleanOut, QueueTyped, TasksAtHand
  <2>3. FlagsTyped'
    BY <1>0, <1>18 DEF CleanOut, FlagsTyped, TasksAtHand
  <2>4. MemTyped'
    BY <1>0, <1>18 DEF CleanOut, MemTyped, TasksAtHand
  <2>5. SetsTyped'
    BY <1>0, <1>18 DEF CleanOut, SetsTyped, TasksAtHand
  <2>6. ActorsTyped'
    <3>1. OwnerTyped'
      BY <1>0, <1>18 DEF CleanOut, OwnerPC, ActorsTyped, OwnerTyped, TasksAtHand, FlagsTyped,
         ListTyped, QueueTyped
    <3>2. ThreadTyped'
      BY <1>0, <1>18 DEF CleanOut, ActorsTyped, ThreadTyped
    <3> QED  BY <3>1, <3>2 DEF ActorsTyped
  <2>7. CellTyped'
    BY <1>0, <1>18 DEF CleanOut, CellTyped, TasksAtHand
  <2> QED  BY <2>1, <2>2, <2>3, <2>4, <2>5, <2>6, <2>7
<1>19. ASSUME TakeOut PROVE TypeOK'
  <2>1. ListTyped'
    BY <1>0, <1>19, UnlinkTyped, TakenOutIsLinked, WholeWhenBusy DEF TakeOut, InHand, TasksAtHand,
       ListWhole
  <2>2. QueueTyped'
    BY <1>0, <1>19 DEF TakeOut, Unlink, InHand, QueueTyped, TasksAtHand
  <2>3. FlagsTyped'
    BY <1>0, <1>19 DEF TakeOut, Unlink, InHand, FlagsTyped, TasksAtHand
  <2>4. MemTyped'
    BY <1>0, <1>19 DEF TakeOut, Unlink, InHand, MemTyped, TasksAtHand
  <2>5. SetsTyped'
    BY <1>0, <1>19 DEF TakeOut, Unlink, InHand, SetsTyped, TasksAtHand
  <2>6. ActorsTyped'
    <3>1. OwnerTyped'
      BY <1>0, <1>19 DEF TakeOut, Unlink, InHand, OwnerPC, ActorsTyped, OwnerTyped, TasksAtHand,
         FlagsTyped, ListTyped, QueueTyped
    <3>2. ThreadTyped'
      BY <1>0, <1>19 DEF TakeOut, Unlink, InHand, ActorsTyped, ThreadTyped
    <3> QED  BY <3>1, <3>2 DEF ActorsTyped
  <2>7. CellTyped'
    BY <1>0, <1>19 DEF TakeOut, Unlink, InHand, CellTyped, TasksAtHand
  <2> QED  BY <2>1, <2>2, <2>3, <2>4, <2>5, <2>6, <2>7
<1>20. ASSUME BeginPoll PROVE TypeOK'
  <2>1. ListTyped'
    BY <1>0, <1>20 DEF BeginPoll, InHand, ListTyped, TasksAtHand
  <2>2. QueueTyped'
    BY <1>0, <1>20 DEF BeginPoll, InHand, QueueTyped, TasksAtHand
  <2>3. FlagsTyped'
    BY <1>0, <1>20 DEF BeginPoll, InHand, FlagsTyped, TasksAtHand
  <2>4. MemTyped'
    BY <1>0, <1>20 DEF BeginPoll, InHand, MemTyped, TasksAtHand
  <2>5. SetsTyped'
    BY <1>0, <1>20 DEF BeginPoll, InHand, SetsTyped, TasksAtHand
  <2>6. ActorsTyped'
    <3>1. OwnerTyped'
      <4>0. owner.polled + 1 \in Int
        BY <1>0 DEF ActorsTyped, OwnerTyped
      <4>1. PICK n \in Int : owner' = [owner EXCEPT !.pc = "polling", !.polled = n]
        BY <1>20, <4>0 DEF BeginPoll
      <4> QED  BY <1>0, <4>1 DEF ActorsTyped, OwnerTyped, OwnerPC
    <3>2. ThreadTyped'
      BY <1>0, <1>20 DEF BeginPoll, InHand, ActorsTyped, ThreadTyped
    <3> QED  BY <3>1, <3>2 DEF ActorsTyped
  <2>7. CellTyped'
    BY <1>0, <1>20 DEF BeginPoll, InHand, CellTyped, TasksAtHand
  <2> QED  BY <2>1, <2>2, <2>3, <2>4, <2>5, <2>6, <2>7
<1>21. ASSUME Pending PROVE TypeOK'
  <2>1. ListTyped'
    BY <1>0, <1>21, LinkTyped, WholeWhenBusy DEF Pending, InHand, TasksAtHand, ListWhole
  <2>2. QueueTyped'
    BY <1>0, <1>21 DEF Pending, Return, LinkBefore, InHand, QueueTyped, TasksAtHand
  <2>3. FlagsTyped'
    BY <1>0, <1>21 DEF Pending, Return, LinkBefore, InHand, FlagsTyped, TasksAtHand
  <2>4. MemTyped'
    BY <1>0, <1>21 DEF Pending, Return, LinkBefore, InHand, MemTyped, TasksAtHand
  <2>5. SetsTyped'
    BY <1>0, <1>21 DEF Pending, Return, LinkBefore, InHand, SetsTyped, TasksAtHand
  <2>6. ActorsTyped'
    <3>1. OwnerTyped'
      <4>1. \/ Return("pending")
            \/ \E n \in Int : owner' = [owner EXCEPT !.pc = "dequeue", !.task = Stub, !.yielded = n]
        <5>1. owner.yielded + (IF woken[owner.task] THEN 1 ELSE 0) \in Int
          BY <1>0 DEF ActorsTyped, OwnerTyped
        <5> QED  BY <1>21, <5>1 DEF Pending
      <4> QED  BY <1>0, <4>1, ReturnTyped DEF ActorsTyped, OwnerTyped, OwnerPC
    <3>2. ThreadTyped'
      BY <1>0, <1>21 DEF Pending, Return, LinkBefore, InHand, ActorsTyped, ThreadTyped
    <3> QED  BY <3>1, <3>2 DEF ActorsTyped
  <2>7. CellTyped'
    BY <1>0, <1>21 DEF Pending, Return, LinkBefore, InHand, CellTyped, TasksAtHand
  <2> QED  BY <2>1, <2>2, <2>3, <2>4, <2>5, <2>6, <2>7
<1>22. ASSUME NEW r \in {"ready", "panic"}, Finish(r) PROVE TypeOK'
  <2>1. ListTyped'
    BY <1>0, <1>22 DEF Finish, InHand, ListTyped, TasksAtHand
  <2>2. QueueTyped'
    BY <1>0, <1>22 DEF Finish, InHand, QueueTyped, TasksAtHand
  <2>3. FlagsTyped'
    BY <1>0, <1>22 DEF Finish, InHand, FlagsTyped, TasksAtHand
  <2>4. MemTyped'
    BY <1>0, <1>22 DEF Finish, InHand, MemTyped, TasksAtHand
  <2>5. SetsTyped'
    BY <1>0, <1>22 DEF Finish, InHand, SetsTyped, TasksAtHand
  <2>6. ActorsTyped'
    <3>1. OwnerTyped'
      BY <1>0, <1>22 DEF Finish, InHand, OwnerPC, ActorsTyped, OwnerTyped
    <3>2. ThreadTyped'
      BY <1>0, <1>22 DEF Finish, InHand, ActorsTyped, ThreadTyped
    <3> QED  BY <3>1, <3>2 DEF ActorsTyped
  <2>7. CellTyped'
    BY <1>0, <1>22 DEF Finish, InHand, CellTyped, TasksAtHand
  <2> QED  BY <2>1, <2>2, <2>3, <2>4, <2>5, <2>6, <2>7
<1>23. ASSUME ReleaseSwap PROVE TypeOK'
  <2>1. ListTyped'
    BY <1>0, <1>23 DEF ReleaseSwap, InHand, ListTyped, TasksAtHand
  <2>2. QueueTyped'
    BY <1>0, <1>23 DEF ReleaseSwap, InHand, QueueTyped, TasksAtHand
  <2>3. FlagsTyped'
    BY <1>0, <1>23 DEF ReleaseSwap, InHand, FlagsTyped, TasksAtHand
  <2>4. MemTyped'
    BY <1>0, <1>23 DEF ReleaseSwap, InHand, MemTyped, TasksAtHand
  <2>5. SetsTyped'
    BY <1>0, <1>23 DEF ReleaseSwap, InHand, SetsTyped, TasksAtHand
  <2>6. ActorsTyped'
    <3>1. OwnerTyped'
      BY <1>0, <1>23 DEF ReleaseSwap, InHand, OwnerPC, ActorsTyped, OwnerTyped, TasksAtHand,
         FlagsTyped, ListTyped, QueueTyped
    <3>2. ThreadTyped'
      BY <1>0, <1>23 DEF ReleaseSwap, InHand, ActorsTyped, ThreadTyped
    <3> QED  BY <3>1, <3>2 DEF ActorsTyped
  <2>7. CellTyped'
    BY <1>0, <1>23 DEF ReleaseSwap, InHand, CellTyped, TasksAtHand
  <2> QED  BY <2>1, <2>2, <2>3, <2>4, <2>5, <2>6, <2>7
<1>24. ASSUME Release PROVE TypeOK'
  <2>1. ListTyped'
    BY <1>0, <1>24 DEF Release, Return, OwnerGoto, InHand, ListTyped, TasksAtHand
  <2>2. QueueTyped'
    BY <1>0, <1>24 DEF Release, Return, OwnerGoto, InHand, QueueTyped, TasksAtHand
  <2>3. FlagsTyped'
    BY <1>0, <1>24 DEF Release, Return, OwnerGoto, InHand, FlagsTyped, TasksAtHand
  <2>4. MemTyped'
    BY <1>0, <1>24 DEF Release, Return, OwnerGoto, InHand, MemTyped, TasksAtHand
  <2>5. SetsTyped'
    BY <1>0, <1>24 DEF Release, Return, OwnerGoto, InHand, SetsTyped, TasksAtHand
  <2>6. ActorsTyped'
    <3>1. OwnerTyped'
      <4>1. Return(owner.res) \/ OwnerGoto("drop")
        BY <1>24 DEF Release
      <4>2. owner.res \in {"ready", "pending", "none", "panic"}
        BY <1>0 DEF ActorsTyped, OwnerTyped
      <4> QED  BY <1>0, <4>1, <4>2, ReturnTyped DEF ActorsTyped, OwnerTyped, OwnerPC, OwnerGoto
    <3>2. ThreadTyped'
      BY <1>0, <1>24 DEF Release, Return, OwnerGoto, InHand, ActorsTyped, ThreadTyped
    <3> QED  BY <3>1, <3>2 DEF ActorsTyped
  <2>7. CellTyped'
    BY <1>0, <1>24 DEF Release, Return, OwnerGoto, InHand, CellTyped, TasksAtHand
  <2> QED  BY <2>1, <2>2, <2>3, <2>4, <2>5, <2>6, <2>7
<1>25. ASSUME DropHead PROVE TypeOK'
  <2>1. ListTyped'
    BY <1>0, <1>25, UnlinkTyped, TakenOutIsLinked, WholeWhenBusy DEF DropHead, TasksAtHand,
       ListWhole
  <2>2. QueueTyped'
    BY <1>0, <1>25 DEF DropHead, Unlink, QueueTyped, TasksAtHand
  <2>3. FlagsTyped'
    BY <1>0, <1>25 DEF DropHead, Unlink, FlagsTyped, TasksAtHand
  <2>4. MemTyped'
    BY <1>0, <1>25 DEF DropHead, Unlink, MemTyped, TasksAtHand
  <2>5. SetsTyped'
    BY <1>0, <1>25 DEF DropHead, Unlink, SetsTyped, TasksAtHand
  <2>6. ActorsTyped'
    <3>1. OwnerTyped'
      BY <1>0, <1>25 DEF DropHead, Unlink, OwnerPC, ActorsTyped, OwnerTyped, TasksAtHand,
         FlagsTyped, ListTyped, QueueTyped
    <3>2. ThreadTyped'
      BY <1>0, <1>25 DEF DropHead, Unlink, ActorsTyped, ThreadTyped
    <3> QED  BY <3>1, <3>2 DEF ActorsTyped
  <2>7. CellTyped'
    BY <1>0, <1>25 DEF DropHead, Unlink, CellTyped, TasksAtHand
  <2> QED  BY <2>1, <2>2, <2>3, <2>4, <2>5, <2>6, <2>7
<1>26. ASSUME DropQueue PROVE TypeOK'
  <2>1. ListTyped'
    BY <1>0, <1>26 DEF DropQueue, OwnerGoto, UnrefQueue, ListTyped, TasksAtHand
  <2>2. QueueTyped'
    BY <1>0, <1>26 DEF DropQueue, OwnerGoto, UnrefQueue, QueueTyped, TasksAtHand
  <2>3. FlagsTyped'
    BY <1>0, <1>26 DEF DropQueue, OwnerGoto, UnrefQueue, FlagsTyped, TasksAtHand
  <2>4. MemTyped'
    BY <1>0, <1>26 DEF DropQueue, OwnerGoto, UnrefQueue, MemTyped, TasksAtHand
  <2>5. SetsTyped'
    BY <1>0, <1>26 DEF DropQueue, OwnerGoto, UnrefQueue, SetsTyped, TasksAtHand
  <2>6. ActorsTyped'
    <3>1. OwnerTyped'
      BY <1>0, <1>26 DEF DropQueue, OwnerGoto, UnrefQueue, OwnerPC, ActorsTyped, OwnerTyped
    <3>2. ThreadTyped'
      BY <1>0, <1>26 DEF DropQueue, OwnerGoto, UnrefQueue, ActorsTyped, ThreadTyped
    <3> QED  BY <3>1, <3>2 DEF ActorsTyped
  <2>7. CellTyped'
    BY <1>0, <1>26 DEF DropQueue, OwnerGoto, UnrefQueue, CellTyped, TasksAtHand
  <2> QED  BY <2>1, <2>2, <2>3, <2>4, <2>5, <2>6, <2>7
<1>27. ASSUME PollNext PROVE TypeOK'
  <2>1. ListTyped'
    BY <1>0, <1>27 DEF PollNext, ListTyped, TasksAtHand
  <2>2. QueueTyped'
    BY <1>0, <1>27 DEF PollNext, QueueTyped, TasksAtHand
  <2>3. FlagsTyped'
    BY <1>0, <1>27 DEF PollNext, FlagsTyped, TasksAtHand
  <2>4. MemTyped'
    BY <1>0, <1>27 DEF PollNext, MemTyped, TasksAtHand
  <2>5. SetsTyped'
    BY <1>0, <1>27 DEF PollNext, SetsTyped, TasksAtHand
  <2>6. ActorsTyped'
    <3>1. OwnerTyped'
      <4>0. (IF head_all = Null THEN 0 ELSE len_all[head_all]) \in Int
        BY <1>0 DEF ListTyped
      <4>1. PICK n \in Int : owner' = [owner EXCEPT !.pc = "register", !.res = "ready", !.len = n]
        BY <1>27, <4>0 DEF PollNext
      <4> QED  BY <1>0, <4>1 DEF ActorsTyped, OwnerTyped, OwnerPC
    <3>2. ThreadTyped'
      BY <1>0, <1>27 DEF PollNext, ActorsTyped, ThreadTyped
    <3> QED  BY <3>1, <3>2 DEF ActorsTyped
  <2>7. CellTyped'
    BY <1>0, <1>27 DEF PollNext, CellTyped, TasksAtHand
  <2> QED  BY <2>1, <2>2, <2>3, <2>4, <2>5, <2>6, <2>7
<1>28. ASSUME StartDrop PROVE TypeOK'
  <2>1. ListTyped'
    BY <1>0, <1>28 DEF StartDrop, OwnerGoto, ListTyped, TasksAtHand
  <2>2. QueueTyped'
    BY <1>0, <1>28 DEF StartDrop, OwnerGoto, QueueTyped, TasksAtHand
  <2>3. FlagsTyped'
    BY <1>0, <1>28 DEF StartDrop, OwnerGoto, FlagsTyped, TasksAtHand
  <2>4. MemTyped'
    BY <1>0, <1>28 DEF StartDrop, OwnerGoto, MemTyped, TasksAtHand
  <2>5. SetsTyped'
    BY <1>0, <1>28 DEF StartDrop, OwnerGoto, SetsTyped, TasksAtHand
  <2>6. ActorsTyped'
    <3>1. OwnerTyped'
      BY <1>0, <1>28 DEF StartDrop, OwnerGoto, OwnerPC, ActorsTyped, OwnerTyped
    <3>2. ThreadTyped'
      BY <1>0, <1>28 DEF StartDrop, OwnerGoto, ActorsTyped, ThreadTyped
    <3> QED  BY <3>1, <3>2 DEF ActorsTyped
  <2>7. CellTyped'
    BY <1>0, <1>28 DEF StartDrop, OwnerGoto, CellTyped, TasksAtHand
  <2> QED  BY <2>1, <2>2, <2>3, <2>4, <2>5, <2>6, <2>7
<1>29. ASSUME Deliver PROVE TypeOK'
  <2>1. ListTyped'
    BY <1>0, <1>29 DEF Deliver, Cell!Deliver, ListTyped, TasksAtHand
  <2>2. QueueTyped'
    BY <1>0, <1>29 DEF Deliver, Cell!Deliver, QueueTyped, TasksAtHand
  <2>3. FlagsTyped'
    BY <1>0, <1>29 DEF Deliver, Cell!Deliver, FlagsTyped, TasksAtHand
  <2>4. MemTyped'
    BY <1>0, <1>29 DEF Deliver, Cell!Deliver, MemTyped, TasksAtHand
  <2>5. SetsTyped'
    BY <1>0, <1>29 DEF Deliver, Cell!Deliver, SetsTyped, TasksAtHand
  <2>6. ActorsTyped'
    <3>1. OwnerTyped'
      BY <1>0, <1>29 DEF Deliver, ActorsTyped, OwnerTyped
    <3>2. ThreadTyped'
      BY <1>0, <1>29 DEF Deliver, Cell!Deliver, ActorsTyped, ThreadTyped
    <3> QED  BY <3>1, <3>2 DEF ActorsTyped
  <2>7. CellTyped'
    BY <1>0, <1>29 DEF Deliver, Cell!Deliver, CellTyped, TasksAtHand
  <2> QED  BY <2>1, <2>2, <2>3, <2>4, <2>5, <2>6, <2>7
<1> QED
  BY <1>1, <1>2, <1>3, <1>4, <1>5, <1>6, <1>7, <1>8, <1>9, <1>10, <1>11, <1>12, <1>13, <1>14,
     <1>15, <1>16, <1>17, <1>18, <1>19, <1>20, <1>21, <1>22, <1>23, <1>24, <1>25, <1>26, <1>27,
     <1>28, <1>29 DEF Next, ThreadStep, OwnerStep, Dequeue

------------------------------------------------------------------------------
(* The ready-to-run queue                                                  *)

(* Steps of a thread outside enqueue.                                      *)
ThreadOutside(x) ==
  \/ PushLink(x) \/ WakeMark(x) \/ WakeSwap(x) \/ WakeParent(x) \/ WakeReturn(x)
  \/ \E t \in Tasks : Push(x, t) \/ Wake(x, t)

LEMMA ThreadQuiet ==
  ASSUME IInv, NEW x \in Threads, ThreadOutside(x)
  PROVE  QuietStep /\ owner' = owner
<1>0. thread \in [Threads -> [pc : ThreadPC, task : Nodes, ptr : Nodes \cup {Null},
                              call : {"none", "push", "wake"}]]
  BY DEF IInv, TypeOK, ActorsTyped, ThreadTyped
<1>1. UNCHANGED <<head, tail, next_ready, owner>>
  BY DEF ThreadOutside, PushLink, WakeMark, WakeSwap, WakeParent, WakeReturn, Push, Wake, readyVars
<1>2. \A y \in Threads \ {x} : thread'[y] = thread[y]
  BY <1>0 DEF ThreadOutside, PushLink, WakeMark, WakeSwap, WakeParent, WakeReturn, Push, Wake,
     ThreadGoto
<1>3. thread[x].pc # "enq_link"
  BY DEF ThreadOutside, PushLink, WakeMark, WakeSwap, WakeParent, WakeReturn, Push, Wake
<1>4. thread'[x].pc # "enq_link"
  BY <1>0, <1>3 DEF ThreadOutside, PushLink, WakeMark, WakeSwap, WakeParent, WakeReturn, Push,
     Wake, ThreadGoto, Idle
<1>5. Linking' = Linking
  BY <1>2, <1>3, <1>4 DEF Linking
<1> QED  BY <1>1, <1>2, <1>3, <1>5 DEF QuietStep, Linking

(* Steps of the owner outside dequeue, and those of nobody.                *)
OwnerOutside ==
  \/ Register \/ CleanOut \/ TakeOut \/ BeginPoll \/ Pending \/ Finish("ready") \/ Finish("panic")
  \/ ReleaseSwap \/ Release \/ DropHead \/ DropQueue \/ PollNext \/ StartDrop \/ Deliver
  \/ \E t \in Tasks : DropWaker(t)

LEMMA OwnerQuiet ==
  ASSUME IInv, OwnerOutside
  PROVE  QuietStep /\ thread' = thread
<1>0. OwnerTyped
  BY DEF IInv, TypeOK, ActorsTyped
<1>1. UNCHANGED <<head, tail, next_ready, thread>>
  BY DEF OwnerOutside, Register, CleanOut, TakeOut, BeginPoll, Pending, Finish, ReleaseSwap,
     Release, DropHead,
         DropQueue, PollNext, StartDrop, Deliver, DropWaker, readyVars, PollUnchanged, SharedUnchanged
<1>2. owner' = owner \/ owner.pc # "stub_link"
  BY DEF OwnerOutside, Register, CleanOut, TakeOut, BeginPoll, Pending, Finish, ReleaseSwap,
     Release, DropHead,
         DropQueue, PollNext, StartDrop, Deliver, DropWaker
<1>3. owner' = owner \/ owner'.pc # "stub_link"
  <2>1. Register \/ DropQueue \/ StartDrop \/ Finish("ready") \/ Finish("panic") => owner'.pc # "stub_link"
    BY <1>0 DEF Register, DropQueue, StartDrop, Finish, OwnerGoto, OwnerTyped
  <2>2. CleanOut \/ TakeOut \/ BeginPoll \/ ReleaseSwap \/ DropHead \/ PollNext => owner'.pc # "stub_link"
    BY <1>0 DEF CleanOut, TakeOut, BeginPoll, ReleaseSwap, DropHead, PollNext, OwnerTyped
  <2>3. Pending \/ Release => owner'.pc # "stub_link"
    BY <1>0 DEF Pending, Release, Return, OwnerGoto, OwnerTyped
  <2>4. Deliver \/ (\E t \in Tasks : DropWaker(t)) => owner' = owner
    BY DEF Deliver, DropWaker
  <2> QED  BY <2>1, <2>2, <2>3, <2>4 DEF OwnerOutside
<1> QED  BY <1>1, <1>2, <1>3 DEF QuietStep, Linking

(* dequeue goes on to the next node.                                       *)
TailMoves ==
  /\ next_ready[tail] # Null /\ tail' = next_ready[tail]
  /\ UNCHANGED <<head, next_ready, thread>>
  /\ owner.pc # "stub_link" /\ owner'.pc # "stub_link"

LEMMA DequeueCases ==
  ASSUME IInv, Dequeue
  PROVE  \/ QuietStep /\ thread' = thread
         \/ TailMoves
         \/ StubSwap \/ StubLink
<1>0. OwnerTyped
  BY DEF IInv, TypeOK, ActorsTyped
<1>1. ASSUME DequeueStub PROVE QuietStep \/ TailMoves
  <2>1. thread' = thread /\ Linking' = Linking
    BY <1>1 DEF DequeueStub, DequeueUnchanged, SharedUnchanged, Linking
  <2>2. CASE next_ready[Stub] = Null /\ Empty
    BY <1>0, <1>1, <2>1, <2>2 DEF DequeueStub, Empty, Return, QuietStep, readyVars, OwnerTyped
  <2>3. CASE next_ready[Stub] # Null /\ tail' = next_ready[Stub] /\ UNCHANGED <<head, next_ready, owner>>
    BY <1>0, <1>1, <2>1, <2>3 DEF DequeueStub, TailMoves
  <2> QED  BY <1>1, <2>2, <2>3 DEF DequeueStub
<1>2. ASSUME DequeueTask PROVE QuietStep \/ TailMoves
  <2>1. thread' = thread /\ Linking' = Linking
    BY <1>2 DEF DequeueTask, DequeueUnchanged, SharedUnchanged, Linking
  <2>2. CASE next_ready[tail] # Null /\ Found(tail, next_ready[tail])
    BY <1>0, <1>2, <2>1, <2>2 DEF DequeueTask, Found, TailMoves, OwnerTyped
  <2>3. CASE OwnerGoto("deq_head") /\ UNCHANGED readyVars
    BY <1>0, <1>2, <2>1, <2>3 DEF DequeueTask, OwnerGoto, QuietStep, readyVars, OwnerTyped
  <2> QED  BY <1>2, <2>2, <2>3 DEF DequeueTask
<1>3. ASSUME DequeueHead PROVE QuietStep
  <2>1. thread' = thread /\ Linking' = Linking
    BY <1>3 DEF DequeueHead, DequeueUnchanged, SharedUnchanged, Linking
  <2>2. CASE Inconsistent
    BY <1>0, <1>3, <2>1, <2>2 DEF DequeueHead, Inconsistent, Return, QuietStep, readyVars,
       OwnerTyped
  <2>3. CASE OwnerGoto("stub_swap") /\ UNCHANGED readyVars
    BY <1>0, <1>3, <2>1, <2>3 DEF DequeueHead, OwnerGoto, QuietStep, readyVars, OwnerTyped
  <2> QED  BY <1>3, <2>2, <2>3 DEF DequeueHead
<1>4. ASSUME DequeueLast PROVE QuietStep \/ TailMoves
  <2>1. thread' = thread /\ Linking' = Linking
    BY <1>4 DEF DequeueLast, DequeueUnchanged, SharedUnchanged, Linking
  <2>2. CASE next_ready[tail] # Null /\ Found(tail, next_ready[tail])
    BY <1>0, <1>4, <2>1, <2>2 DEF DequeueLast, Found, TailMoves, OwnerTyped
  <2>3. CASE Inconsistent
    BY <1>0, <1>4, <2>1, <2>3 DEF DequeueLast, Inconsistent, Return, QuietStep, readyVars,
       OwnerTyped
  <2> QED  BY <1>4, <2>2, <2>3 DEF DequeueLast
<1>5. DequeueStub \/ DequeueTask \/ DequeueHead \/ DequeueLast => thread' = thread
  BY DEF DequeueStub, DequeueTask, DequeueHead, DequeueLast, DequeueUnchanged, SharedUnchanged
<1> QED  BY <1>1, <1>2, <1>3, <1>4, <1>5 DEF Dequeue

(* What the queue is after a step that keeps it, takes its tail off, or    *)
(* puts a node at its head.                                                *)
QueueStays == UNCHANGED <<head, tail, Behind, QueueNodes>>
QueueLosesTail == /\ head' = head /\ Behind' = Behind /\ next_ready' = next_ready
                  /\ tail' \in Behind[tail] /\ QueueNodes' = QueueNodes \ {tail}
                  /\ tail \in QueueNodes /\ next_ready[tail] # Null
QueueGains(n) == /\ head' = n /\ tail' = tail /\ QueueNodes' = QueueNodes \cup {n}
                 /\ n \notin QueueNodes

LEMMA TailMovesEffect ==
  ASSUME IInv, TypeOK', TailMoves
  PROVE  QueueLosesTail /\ Chain(tail, head, Behind)'
<1>1. BehindIs /\ BehindIs' /\ tail \in Nodes /\ tail' \in Nodes
  BY BehindMembers, BehindMembersNext DEF IInv, TypeOK, QueueTyped
<1>2. Linking' = Linking
  BY DEF TailMoves, Linking
<1>3. ASSUME NEW p \in Nodes PROVE Behind'[p] = Behind[p]
  <2>1. ASSUME NEW n \in Nodes PROVE IsBehind(n, p)' <=> IsBehind(n, p)
    BY <1>2 DEF IsBehind, TailMoves
  <2> QED  BY <1>1, <2>1 DEF BehindIs, LinkFunctions
<1>4. Behind' = Behind
  BY <1>1, <1>3 DEF BehindIs, LinkFunctions
<1>5. tail' \in Behind[tail]
  BY <1>1 DEF BehindIs, IsBehind, TailMoves
<1>6. Behind \in LinkFunctions /\ Chain(tail, head, Behind)
  BY <1>1 DEF BehindIs, IInv, QueueOK
<1>7. /\ Chain(tail', head, Behind) /\ tail \in Reachable(tail, Behind)
      /\ Reachable(tail', Behind) = Reachable(tail, Behind) \ {tail}
  BY <1>1, <1>5, <1>6, ChainDrops
<1>8. QueueLosesTail
  BY <1>4, <1>5, <1>7 DEF QueueLosesTail, TailMoves, QueueNodes
<1>9. Chain(tail', head', Behind')
  BY <1>4, <1>7 DEF TailMoves
<1> QED  BY <1>8, <1>9 DEF Chain, Reachable

(* A missing link that is set was there already.                           *)
LEMMA EnqueueLinkEffect ==
  ASSUME IInv, TypeOK', NEW x \in Threads, EnqueueLink(x)
  PROVE  QueueStays /\ Linking' = Linking \ {x} /\ owner' = owner
         /\ \A y \in Threads \ {x} : thread'[y] = thread[y]
<1>1. BehindIs /\ BehindIs' /\ tail \in Nodes
  BY BehindMembers, BehindMembersNext DEF IInv, TypeOK, QueueTyped
<1>2. ThreadTyped /\ QueueTyped
  BY DEF IInv, TypeOK, ActorsTyped
<1>3. /\ \A y \in Threads \ {x} : thread'[y] = thread[y]
      /\ thread'[x].pc # "enq_link" /\ thread[x].pc = "enq_link"
  BY <1>2 DEF EnqueueLink, ThreadTyped, Idle
<1>4. Linking' = Linking \ {x}
  BY <1>3 DEF Linking
<1>5. x \in Linking /\ next_ready[thread[x].ptr] = Null /\ thread[x].ptr \in Nodes /\ thread[x].task \in Nodes
  <2>1. x \in Linking
    BY <1>3 DEF Linking
  <2> QED  BY <1>2, <2>1, QueueClosed DEF IInv, QueueOK, LinksPending, ThreadTyped
<1>6. PICK p0 \in Nodes, n0 \in Nodes : p0 = thread[x].ptr /\ n0 = thread[x].task
  BY <1>5
<1>7. next_ready' = [next_ready EXCEPT ![p0] = n0] /\ owner' = owner
  BY <1>6 DEF EnqueueLink
<1>8. Null \notin Nodes
  BY TasksAssumption DEF Nodes, Null, Stub
<1>9. ASSUME NEW p \in Nodes PROVE Behind'[p] = Behind[p]
  <2>1. ASSUME NEW n \in Nodes PROVE IsBehind(n, p)' <=> IsBehind(n, p)
    <3>1. next_ready'[p] = IF p = p0 THEN n0 ELSE next_ready[p]
      BY <1>2, <1>7 DEF QueueTyped
    <3>2. (\E y \in Linking : thread[y].ptr = p /\ thread[y].task = n)
          <=> (\E y \in Linking' : thread'[y].ptr = p /\ thread'[y].task = n) \/ (p = p0 /\ n = n0)
      BY <1>3, <1>4, <1>5, <1>6 DEF Linking
    <3>3. next_ready[p0] = Null
      BY <1>5, <1>6
    <3> QED  BY <1>7, <1>8, <3>1, <3>2, <3>3 DEF IsBehind
  <2> QED  BY <1>1, <2>1 DEF BehindIs, LinkFunctions
<1>10. Behind' = Behind
  BY <1>1, <1>9 DEF BehindIs, LinkFunctions
<1>11. UNCHANGED <<head, tail>>
  BY DEF EnqueueLink
<1> QED  BY <1>3, <1>4, <1>7, <1>10, <1>11 DEF QueueStays, QueueNodes

LEMMA StubLinkEffect ==
  ASSUME IInv, TypeOK', StubLink
  PROVE  QueueStays /\ thread' = thread /\ owner'.pc = "deq_last"
<1>1. BehindIs /\ BehindIs' /\ tail \in Nodes
  BY BehindMembers, BehindMembersNext DEF IInv, TypeOK, QueueTyped
<1>2. OwnerTyped /\ QueueTyped
  BY DEF IInv, TypeOK, ActorsTyped
<1>3. thread' = thread /\ Linking' = Linking
  BY DEF StubLink, DequeueUnchanged, SharedUnchanged, Linking
<1>4. owner'.pc = "deq_last" /\ owner.pc = "stub_link"
  BY <1>2 DEF StubLink, OwnerGoto, OwnerTyped
<1>5. PICK p0 \in Nodes : p0 = owner.ptr /\ next_ready[p0] = Null
  BY <1>4, QueueClosed DEF IInv, QueueOK, LinksPending
<1>6. next_ready' = [next_ready EXCEPT ![p0] = Stub]
  BY <1>5 DEF StubLink
<1>7. Null \notin Nodes
  BY TasksAssumption DEF Nodes, Null, Stub
<1>8. ASSUME NEW p \in Nodes PROVE Behind'[p] = Behind[p]
  <2>1. ASSUME NEW n \in Nodes PROVE IsBehind(n, p)' <=> IsBehind(n, p)
    <3>1. next_ready'[p] = IF p = p0 THEN Stub ELSE next_ready[p]
      BY <1>2, <1>6 DEF QueueTyped
    <3> QED  BY <1>3, <1>4, <1>5, <1>7, <3>1 DEF IsBehind
  <2> QED  BY <1>1, <2>1 DEF BehindIs, LinkFunctions
<1>9. Behind' = Behind
  BY <1>1, <1>8 DEF BehindIs, LinkFunctions
<1>10. UNCHANGED <<head, tail>>
  BY DEF StubLink
<1> QED  BY <1>3, <1>4, <1>9, <1>10 DEF QueueStays, QueueNodes

(* The swap of the head makes the new node reachable at once, over the     *)
(* missing link.                                                           *)
LEMMA EnqueueSwapEffect ==
  ASSUME IInv, TypeOK', NEW x \in Threads, EnqueueSwap(x)
  PROVE  /\ QueueGains(thread[x].task) /\ Chain(tail, head, Behind)'
         /\ Linking' = Linking \cup {x} /\ x \notin Linking /\ owner' = owner
         /\ \A y \in Threads \ {x} : thread'[y] = thread[y]
         /\ thread'[x].ptr = head /\ thread'[x].task = thread[x].task /\ thread'[x].call = thread[x].call
         /\ thread'[x].pc = "enq_link"
         /\ next_ready' = [next_ready EXCEPT ![thread[x].task] = Null]
<1>1. BehindIs /\ BehindIs' /\ tail \in Nodes /\ Chain(tail, head, Behind)
  BY BehindMembers, BehindMembersNext DEF IInv, TypeOK, QueueTyped, QueueOK
<1>2. ThreadTyped /\ QueueTyped
  BY DEF IInv, TypeOK, ActorsTyped
<1>3. /\ \A y \in Threads \ {x} : thread'[y] = thread[y]
      /\ thread'[x].pc = "enq_link" /\ thread[x].pc = "enq_swap"
      /\ thread'[x].ptr = head /\ thread'[x].task = thread[x].task
      /\ thread'[x].call = thread[x].call
  BY <1>2 DEF EnqueueSwap, ThreadTyped
<1>4. Linking' = Linking \cup {x} /\ x \notin Linking
  BY <1>3 DEF Linking
<1>5. thread[x].task \notin QueueNodes /\ thread[x].task \in Nodes
  BY <1>2, <1>3 DEF IInv, PlacesOK, Carrying, ThreadTyped
<1>6. PICK t \in Nodes : t = thread[x].task
  BY <1>5
<1>7. next_ready' = [next_ready EXCEPT ![t] = Null] /\ owner' = owner /\ head' = t /\ tail' = tail
  BY <1>6 DEF EnqueueSwap
<1>8. Null \notin Nodes
  BY TasksAssumption DEF Nodes, Null, Stub
<1>9. head \in QueueNodes /\ head # t /\ Behind[head] = {} /\ head \in Nodes
  BY <1>1, <1>2, <1>5, <1>6 DEF Chain, QueueNodes, QueueTyped
<1>10. ASSUME NEW p \in Nodes, NEW n \in Nodes, p # t
       PROVE  IsBehind(n, p)' <=> IsBehind(n, p) \/ (p = head /\ n = t)
  <2>1. next_ready'[p] = next_ready[p]
    BY <1>2, <1>7, <1>10 DEF QueueTyped
  <2>2. (\E y \in Linking' : thread'[y].ptr = p /\ thread'[y].task = n)
          <=> (\E y \in Linking : thread[y].ptr = p /\ thread[y].task = n) \/ (p = head /\ n = t)
    BY <1>3, <1>4, <1>6 DEF Linking
  <2> QED  BY <1>7, <2>1, <2>2 DEF IsBehind
<1>11. \A p \in QueueNodes \ {head} : Behind'[p] = Behind[p]
  <2> SUFFICES ASSUME NEW p \in QueueNodes \ {head} PROVE Behind'[p] = Behind[p]
    OBVIOUS
  <2>1. p \in Nodes /\ p # t
    BY <1>5, <1>6, QueueClosed DEF IInv
  <2>2. \A n \in Nodes : n \in Behind'[p] <=> n \in Behind[p]
    BY <1>1, <1>10, <2>1 DEF BehindIs
  <2> QED  BY <1>1, <2>1, <2>2 DEF BehindIs, LinkFunctions
<1>12. Behind'[head] = {t}
  <2>1. \A n \in Nodes : n \in Behind'[head] <=> n \in Behind[head] \/ n = t
    BY <1>1, <1>9, <1>10 DEF BehindIs
  <2> QED  BY <1>1, <1>9, <2>1 DEF BehindIs, LinkFunctions
<1>13. Behind'[t] = {}
  <2>1. ASSUME NEW n \in Nodes PROVE ~IsBehind(n, t)'
    <3>1. next_ready'[t] = Null
      BY <1>2, <1>7 DEF QueueTyped
    <3>2. ASSUME NEW y \in Linking' PROVE thread'[y].ptr # t
      <4>1. CASE y = x
        BY <1>3, <1>9, <4>1
      <4>2. CASE y # x
        BY <1>3, <1>4, <1>5, <1>6, <4>2 DEF Linking, IInv, QueueOK, LinksPending
      <4> QED  BY <4>1, <4>2
    <3>3. owner.pc = "stub_link" => owner.ptr # t
      BY <1>5, <1>6 DEF IInv, QueueOK, LinksPending
    <3> QED  BY <1>7, <1>8, <3>1, <3>2, <3>3 DEF IsBehind
  <2> QED  BY <1>1, <2>1 DEF BehindIs, LinkFunctions
<1>14. /\ Chain(tail, t, Behind') /\ Reachable(tail, Behind') = Reachable(tail, Behind) \cup {t}
  BY <1>1, <1>5, <1>6, <1>11, <1>12, <1>13, ChainGrows DEF BehindIs, QueueNodes
<1>15. QueueGains(t)
  BY <1>5, <1>6, <1>7, <1>14 DEF QueueGains, QueueNodes
<1>16. Chain(tail, head, Behind)'
  <2>1. Chain(tail', head', Behind')
    BY <1>7, <1>14
  <2> QED  BY <2>1 DEF Chain, Reachable
<1> QED  BY <1>3, <1>4, <1>6, <1>7, <1>15, <1>16

LEMMA StubSwapEffect ==
  ASSUME IInv, TypeOK', StubSwap
  PROVE  /\ QueueGains(Stub) /\ Chain(tail, head, Behind)'
         /\ thread' = thread /\ owner'.pc = "stub_link" /\ owner'.ptr = head
         /\ next_ready' = [next_ready EXCEPT ![Stub] = Null]
<1>1. BehindIs /\ BehindIs' /\ tail \in Nodes /\ Chain(tail, head, Behind)
  BY BehindMembers, BehindMembersNext DEF IInv, TypeOK, QueueTyped, QueueOK
<1>2. OwnerTyped /\ QueueTyped
  BY DEF IInv, TypeOK, ActorsTyped
<1>3. owner'.pc = "stub_link" /\ owner.pc = "stub_swap" /\ owner'.ptr = head
  BY <1>2 DEF StubSwap, OwnerTyped
<1>4. thread' = thread /\ Linking' = Linking
  BY DEF StubSwap, DequeueUnchanged, SharedUnchanged, Linking
<1>5. Stub \notin QueueNodes /\ Stub \in Nodes
  BY <1>3 DEF IInv, QueueOK, StubPlace, Nodes
<1>7. next_ready' = [next_ready EXCEPT ![Stub] = Null] /\ head' = Stub /\ tail' = tail
  BY DEF StubSwap
<1>8. Null \notin Nodes
  BY TasksAssumption DEF Nodes, Null, Stub
<1>9. head \in QueueNodes /\ head # Stub /\ Behind[head] = {} /\ head \in Nodes
  BY <1>1, <1>2, <1>5 DEF Chain, QueueNodes, QueueTyped
<1>10. ASSUME NEW p \in Nodes, NEW n \in Nodes, p # Stub
       PROVE  IsBehind(n, p)' <=> IsBehind(n, p) \/ (p = head /\ n = Stub)
  <2>1. next_ready'[p] = next_ready[p]
    BY <1>2, <1>7, <1>10 DEF QueueTyped
  <2> QED  BY <1>3, <1>4, <2>1 DEF IsBehind
<1>11. \A p \in QueueNodes \ {head} : Behind'[p] = Behind[p]
  <2> SUFFICES ASSUME NEW p \in QueueNodes \ {head} PROVE Behind'[p] = Behind[p]
    OBVIOUS
  <2>1. p \in Nodes /\ p # Stub
    BY <1>5, QueueClosed DEF IInv
  <2>2. \A n \in Nodes : n \in Behind'[p] <=> n \in Behind[p]
    BY <1>1, <1>10, <2>1 DEF BehindIs
  <2> QED  BY <1>1, <2>1, <2>2 DEF BehindIs, LinkFunctions
<1>12. Behind'[head] = {Stub}
  <2>1. \A n \in Nodes : n \in Behind'[head] <=> n \in Behind[head] \/ n = Stub
    BY <1>1, <1>9, <1>10 DEF BehindIs
  <2> QED  BY <1>1, <1>5, <1>9, <2>1 DEF BehindIs, LinkFunctions
<1>13. Behind'[Stub] = {}
  <2>1. ASSUME NEW n \in Nodes PROVE ~IsBehind(n, Stub)'
    <3>1. next_ready'[Stub] = Null
      BY <1>2, <1>5, <1>7 DEF QueueTyped
    <3>2. ASSUME NEW y \in Linking' PROVE thread'[y].ptr # Stub
      BY <1>4, <1>5 DEF IInv, QueueOK, LinksPending
    <3> QED  BY <1>3, <1>8, <1>9, <3>1, <3>2 DEF IsBehind
  <2> QED  BY <1>1, <1>5, <2>1 DEF BehindIs, LinkFunctions
<1>14. /\ Chain(tail, Stub, Behind') /\ Reachable(tail, Behind') = Reachable(tail, Behind) \cup {Stub}
  BY <1>1, <1>5, <1>11, <1>12, <1>13, ChainGrows DEF BehindIs, QueueNodes
<1>15. QueueGains(Stub)
  BY <1>5, <1>7, <1>14 DEF QueueGains, QueueNodes
<1>16. Chain(tail, head, Behind)'
  <2>1. Chain(tail', head', Behind')
    BY <1>7, <1>14
  <2> QED  BY <2>1 DEF Chain, Reachable
<1> QED  BY <1>3, <1>4, <1>7, <1>15, <1>16

(* The links that are missing stay apart and where they are.               *)
LEMMA QuietQueue ==
  ASSUME IInv, TypeOK', QuietStep
  PROVE  QueueStays /\ Chain(tail, head, Behind)' /\ LinksPending'
<1>1. QueueStays
  BY QuietKeeps DEF IInv, QuietStep, QueueStays
<1>2. Chain(tail', head', Behind')
  BY <1>1 DEF IInv, QueueOK, QueueStays
<1>3. LinksPending'
  BY <1>1 DEF IInv, QueueOK, LinksPending, QueueStays, QuietStep
<1> QED  BY <1>1, <1>2, <1>3 DEF Chain, Reachable

LEMMA LinksKept ==
  ASSUME IInv, TypeOK', Next
  PROVE  Chain(tail, head, Behind)' /\ LinksPending'
<1>1. ASSUME NEW x \in Threads, ThreadOutside(x) PROVE Chain(tail, head, Behind)' /\ LinksPending'
  BY <1>1, ThreadQuiet, QuietQueue
<1>2. ASSUME OwnerOutside PROVE Chain(tail, head, Behind)' /\ LinksPending'
  BY <1>2, OwnerQuiet, QuietQueue
<1>3. ASSUME NEW x \in Threads, EnqueueLink(x) PROVE Chain(tail, head, Behind)' /\ LinksPending'
  <2>1. QueueStays /\ Linking' = Linking \ {x} /\ owner' = owner
         /\ \A y \in Threads \ {x} : thread'[y] = thread[y]
    BY <1>3, EnqueueLinkEffect
  <2>2. Chain(tail', head', Behind')
    BY <2>1 DEF IInv, QueueOK, QueueStays
  <2>3. x \in Linking /\ thread[x].ptr \in Nodes /\ QueueTyped
    BY <1>3, QueueClosed DEF EnqueueLink, Linking, IInv, QueueOK, LinksPending, TypeOK
  <2>4. \A p \in Nodes \ {thread[x].ptr} : next_ready'[p] = next_ready[p]
    BY <1>3, <2>3 DEF EnqueueLink, QueueTyped
  <2>5. \A y \in Linking' : y \in Linking \ {x} /\ thread'[y] = thread[y] /\ thread[y].ptr \in Nodes \ {thread[x].ptr}
    BY <2>1, <2>3, QueueClosed DEF Linking, IInv, QueueOK, LinksPending
  <2>6. owner.pc = "stub_link" => owner.ptr \in Nodes \ {thread[x].ptr}
    BY <2>3, QueueClosed DEF IInv, QueueOK, LinksPending
  <2>7. LinksPending'
    BY <2>1, <2>4, <2>5, <2>6 DEF IInv, QueueOK, LinksPending, QueueStays
  <2> QED  BY <2>2, <2>7 DEF Chain, Reachable
<1>4. ASSUME StubLink PROVE Chain(tail, head, Behind)' /\ LinksPending'
  <2>1. QueueStays /\ thread' = thread /\ owner'.pc = "deq_last" /\ Linking' = Linking
    BY <1>4, StubLinkEffect DEF Linking
  <2>2. Chain(tail', head', Behind')
    BY <2>1 DEF IInv, QueueOK, QueueStays
  <2>3. owner.pc = "stub_link" /\ owner.ptr \in Nodes /\ QueueTyped
    BY <1>4, QueueClosed DEF StubLink, IInv, QueueOK, LinksPending, TypeOK
  <2>4. \A p \in Nodes \ {owner.ptr} : next_ready'[p] = next_ready[p]
    BY <1>4, <2>3 DEF StubLink, QueueTyped
  <2>5. \A y \in Linking : thread[y].ptr \in Nodes \ {owner.ptr}
    BY <2>3, QueueClosed DEF IInv, QueueOK, LinksPending
  <2>6. LinksPending'
    BY <2>1, <2>4, <2>5 DEF IInv, QueueOK, LinksPending, QueueStays
  <2> QED  BY <2>2, <2>6 DEF Chain, Reachable
<1>5. ASSUME NEW x \in Threads, EnqueueSwap(x) PROVE Chain(tail, head, Behind)' /\ LinksPending'
  <2>1. /\ QueueGains(thread[x].task) /\ Chain(tail, head, Behind)'
        /\ Linking' = Linking \cup {x} /\ x \notin Linking /\ owner' = owner
        /\ \A y \in Threads \ {x} : thread'[y] = thread[y]
        /\ thread'[x].ptr = head /\ thread'[x].task = thread[x].task
        /\ next_ready' = [next_ready EXCEPT ![thread[x].task] = Null]
    BY <1>5, EnqueueSwapEffect
  <2>2. head \in QueueNodes /\ Behind[head] = {} /\ QueueTyped /\ BehindIs
    BY BehindMembers DEF IInv, QueueOK, Chain, QueueNodes, TypeOK
  <2>3. \A p \in QueueNodes : p \in Nodes /\ next_ready'[p] = next_ready[p]
    BY <2>1, <2>2, QueueClosed DEF IInv, QueueTyped, QueueGains
  <2>4. ASSUME NEW n \in Nodes PROVE ~IsBehind(n, head)
    BY <2>2, QueueClosed DEF IInv, BehindIs
  <2>5. next_ready[head] = Null
    BY <2>2, <2>4 DEF IsBehind, QueueTyped
  <2>6. ASSUME NEW y \in Linking PROVE thread[y].ptr # head /\ thread[y].task \in Nodes
    <3>1. thread[y].task \in Nodes
      BY DEF IInv, TypeOK, ActorsTyped, ThreadTyped, Linking
    <3> QED  BY <2>4, <3>1 DEF IsBehind
  <2>7. owner.pc = "stub_link" => owner.ptr # head
    BY <2>4 DEF IsBehind, Nodes
  <2>8. \A y \in Linking : thread'[y] = thread[y]
    BY <2>1 DEF Linking
  <2>9. LinksPending'
    BY <2>1, <2>2, <2>3, <2>5, <2>6, <2>7, <2>8 DEF IInv, QueueOK, LinksPending, QueueGains
  <2> QED  BY <2>1, <2>9
<1>6. ASSUME StubSwap PROVE Chain(tail, head, Behind)' /\ LinksPending'
  <2>1. /\ QueueGains(Stub) /\ Chain(tail, head, Behind)'
        /\ thread' = thread /\ owner'.pc = "stub_link" /\ owner'.ptr = head
        /\ next_ready' = [next_ready EXCEPT ![Stub] = Null] /\ Linking' = Linking
    BY <1>6, StubSwapEffect DEF Linking
  <2>2. head \in QueueNodes /\ Behind[head] = {} /\ QueueTyped /\ BehindIs
    BY BehindMembers DEF IInv, QueueOK, Chain, QueueNodes, TypeOK
  <2>3. \A p \in QueueNodes : p \in Nodes /\ next_ready'[p] = next_ready[p]
    BY <2>1, <2>2, QueueClosed DEF IInv, QueueTyped, QueueGains
  <2>4. ASSUME NEW n \in Nodes PROVE ~IsBehind(n, head)
    BY <2>2, QueueClosed DEF IInv, BehindIs
  <2>5. next_ready[head] = Null
    BY <2>2, <2>4 DEF IsBehind, QueueTyped
  <2>6. ASSUME NEW y \in Linking PROVE thread[y].ptr # head
    <3>1. thread[y].task \in Nodes
      BY DEF IInv, TypeOK, ActorsTyped, ThreadTyped, Linking
    <3> QED  BY <2>4, <3>1 DEF IsBehind
  <2>7. LinksPending'
    BY <2>1, <2>2, <2>3, <2>5, <2>6 DEF IInv, QueueOK, LinksPending, QueueGains
  <2> QED  BY <2>1, <2>7
<1>7. ASSUME TailMoves PROVE Chain(tail, head, Behind)' /\ LinksPending'
  <2>1. QueueLosesTail /\ Chain(tail, head, Behind)' /\ Linking' = Linking
    BY <1>7, TailMovesEffect DEF TailMoves, Linking
  <2>2. \A x \in Linking : thread[x].ptr # tail
    BY <1>7 DEF IInv, QueueOK, LinksPending, TailMoves
  <2>3. LinksPending'
    BY <1>7, <2>1, <2>2 DEF IInv, QueueOK, LinksPending, QueueLosesTail, TailMoves
  <2> QED  BY <2>1, <2>3
<1>8. ASSUME Dequeue PROVE Chain(tail, head, Behind)' /\ LinksPending'
  BY <1>4, <1>6, <1>7, <1>8, DequeueCases, QuietQueue
<1> QED
  BY <1>1, <1>2, <1>3, <1>5, <1>8
  DEF Next, ThreadStep, OwnerStep, ThreadOutside, OwnerOutside

------------------------------------------------------------------------------
(* Where the actors go                                                     *)

OwnerMoves(pc, task, prev, res) ==
  owner'.pc = pc /\ owner'.task = task /\ owner'.prev = prev /\ owner'.res = res

LEMMA GotoMoves ==
  ASSUME OwnerTyped, NEW pc, OwnerGoto(pc)
  PROVE  OwnerMoves(pc, owner.task, owner.prev, owner.res)
  BY DEF OwnerTyped, OwnerGoto, OwnerMoves

LEMMA ReturnMoves ==
  ASSUME OwnerTyped, NEW res, Return(res)
  PROVE  OwnerMoves("idle", Stub, owner.prev, res)
  BY DEF OwnerTyped, Return, OwnerMoves

(* dequeue, one line for each of its outcomes.                             *)
LEMMA DequeueMoves ==
  ASSUME OwnerTyped
  PROVE
  /\ DequeueStub => \/ /\ OwnerMoves("idle", Stub, owner.prev, IF head_all = Null THEN "none" ELSE "pending")
                       /\ next_ready[tail] = Null /\ tail = Stub /\ owner.pc = "dequeue" /\ tail' = tail
                    \/ /\ owner' = owner /\ tail = Stub /\ next_ready[tail] # Null /\ owner.pc = "dequeue"
                       /\ tail' = next_ready[tail]
  /\ DequeueTask => /\ owner.pc = "dequeue" /\ tail # Stub
                    /\ \/ /\ OwnerMoves("data", tail, owner.prev, owner.res)
                          /\ tail' = next_ready[tail] /\ next_ready[tail] # Null
                       \/ /\ OwnerMoves("deq_head", owner.task, owner.prev, owner.res) /\ tail' = tail
  /\ DequeueHead => /\ owner.pc = "deq_head" /\ tail' = tail
                    /\ \/ OwnerMoves("idle", Stub, owner.prev, "pending") /\ notified' = {Parent}
                       \/ OwnerMoves("stub_swap", owner.task, owner.prev, owner.res) /\ head = tail
  /\ StubSwap => /\ owner.pc = "stub_swap" /\ tail' = tail
                 /\ OwnerMoves("stub_link", owner.task, owner.prev, owner.res)
  /\ StubLink => /\ owner.pc = "stub_link" /\ tail' = tail
                 /\ OwnerMoves("deq_last", owner.task, owner.prev, owner.res)
  /\ DequeueLast => /\ owner.pc = "deq_last"
                    /\ \/ /\ OwnerMoves("data", tail, owner.prev, owner.res)
                          /\ tail' = next_ready[tail] /\ next_ready[tail] # Null
                       \/ OwnerMoves("idle", Stub, owner.prev, "pending") /\ notified' = {Parent} /\ tail' = tail
<1>2. Inconsistent => OwnerMoves("idle", Stub, owner.prev, "pending") /\ notified' = {Parent} /\ tail' = tail
  BY ReturnMoves DEF Inconsistent, readyVars
<1>3. Empty => /\ OwnerMoves("idle", Stub, owner.prev, IF head_all = Null THEN "none" ELSE "pending")
               /\ tail' = tail
  BY ReturnMoves DEF Empty, readyVars
<1>4. DequeueStub => \/ /\ OwnerMoves("idle", Stub, owner.prev, IF head_all = Null THEN "none" ELSE "pending")
                       /\ next_ready[tail] = Null /\ tail = Stub /\ owner.pc = "dequeue" /\ tail' = tail
                    \/ /\ owner' = owner /\ tail = Stub /\ next_ready[tail] # Null /\ owner.pc = "dequeue"
                       /\ tail' = next_ready[tail]
  BY <1>3 DEF DequeueStub
<1>5. DequeueTask => /\ owner.pc = "dequeue" /\ tail # Stub
                    /\ \/ /\ OwnerMoves("data", tail, owner.prev, owner.res)
                          /\ tail' = next_ready[tail] /\ next_ready[tail] # Null
                       \/ /\ OwnerMoves("deq_head", owner.task, owner.prev, owner.res) /\ tail' = tail
  <2>1. Found(tail, next_ready[tail]) =>
          OwnerMoves("data", tail, owner.prev, owner.res) /\ tail' = next_ready[tail]
    BY DEF Found, OwnerTyped, OwnerMoves
  <2> QED  BY <2>1, GotoMoves DEF DequeueTask, readyVars
<1>6. DequeueHead => /\ owner.pc = "deq_head" /\ tail' = tail
                    /\ \/ OwnerMoves("idle", Stub, owner.prev, "pending") /\ notified' = {Parent}
                       \/ OwnerMoves("stub_swap", owner.task, owner.prev, owner.res) /\ head = tail
  BY <1>2, GotoMoves DEF DequeueHead, readyVars
<1>7. StubSwap => /\ owner.pc = "stub_swap" /\ tail' = tail
                  /\ OwnerMoves("stub_link", owner.task, owner.prev, owner.res)
  BY DEF StubSwap, OwnerTyped, OwnerMoves
<1>8. StubLink => /\ owner.pc = "stub_link" /\ tail' = tail
                  /\ OwnerMoves("deq_last", owner.task, owner.prev, owner.res)
  BY GotoMoves DEF StubLink
<1>9. DequeueLast => /\ owner.pc = "deq_last"
                    /\ \/ /\ OwnerMoves("data", tail, owner.prev, owner.res)
                          /\ tail' = next_ready[tail] /\ next_ready[tail] # Null
                       \/ OwnerMoves("idle", Stub, owner.prev, "pending") /\ notified' = {Parent} /\ tail' = tail
  <2>1. Found(tail, next_ready[tail]) =>
          OwnerMoves("data", tail, owner.prev, owner.res) /\ tail' = next_ready[tail]
    BY DEF Found, OwnerTyped, OwnerMoves
  <2> QED  BY <1>2, <2>1 DEF DequeueLast
<1> QED  BY <1>4, <1>5, <1>6, <1>7, <1>8, <1>9

(* The rest of what the owner does.                                        *)
LEMMA PollMoves ==
  ASSUME OwnerTyped
  PROVE
  /\ PollNext => owner.pc = "idle" /\ OwnerMoves("register", owner.task, owner.prev, "ready")
  /\ Register => owner.pc = "register" /\ OwnerMoves("dequeue", owner.task, owner.prev, owner.res)
  /\ CleanOut => owner.pc = "data" /\ OwnerMoves("dequeue", Stub, owner.prev, owner.res)
  /\ TakeOut => owner.pc = "data" /\ OwnerMoves("begin", owner.task, queued[owner.task], owner.res)
  /\ BeginPoll => owner.pc = "begin" /\ OwnerMoves("polling", owner.task, owner.prev, owner.res)
  /\ Pending => /\ owner.pc = "polling"
                /\ \/ OwnerMoves("idle", Stub, owner.prev, "pending") /\ notified' = {Parent}
                   \/ OwnerMoves("dequeue", Stub, owner.prev, owner.res) /\ notified' = notified
  /\ \A r : Finish(r) => owner.pc = "polling" /\ OwnerMoves("release", owner.task, owner.prev, r)
<1>1. PollNext => owner.pc = "idle" /\ OwnerMoves("register", owner.task, owner.prev, "ready")
  BY DEF PollNext, OwnerTyped, OwnerMoves
<1>2. Register => owner.pc = "register" /\ OwnerMoves("dequeue", owner.task, owner.prev, owner.res)
  BY GotoMoves DEF Register
<1>3. CleanOut => owner.pc = "data" /\ OwnerMoves("dequeue", Stub, owner.prev, owner.res)
  BY DEF CleanOut, OwnerTyped, OwnerMoves
<1>4. TakeOut => owner.pc = "data" /\ OwnerMoves("begin", owner.task, queued[owner.task], owner.res)
  BY DEF TakeOut, OwnerTyped, OwnerMoves
<1>5. BeginPoll => owner.pc = "begin" /\ OwnerMoves("polling", owner.task, owner.prev, owner.res)
  BY DEF BeginPoll, OwnerTyped, OwnerMoves
<1>6. Pending => /\ owner.pc = "polling"
                /\ \/ OwnerMoves("idle", Stub, owner.prev, "pending") /\ notified' = {Parent}
                   \/ OwnerMoves("dequeue", Stub, owner.prev, owner.res) /\ notified' = notified
  <2>1. ASSUME NEW n, owner' = [owner EXCEPT !.pc = "dequeue", !.task = Stub, !.yielded = n]
        PROVE  OwnerMoves("dequeue", Stub, owner.prev, owner.res)
    BY <2>1 DEF OwnerTyped, OwnerMoves
  <2> QED  BY <2>1, ReturnMoves DEF Pending
<1>7. ASSUME NEW r, Finish(r) PROVE owner.pc = "polling" /\ OwnerMoves("release", owner.task, owner.prev, r)
  BY <1>7 DEF Finish, OwnerTyped, OwnerMoves
<1> QED  BY <1>1, <1>2, <1>3, <1>4, <1>5, <1>6, <1>7

LEMMA DropMoves ==
  ASSUME OwnerTyped
  PROVE
  /\ ReleaseSwap => /\ owner.pc \in {"release", "drop_release"}
                    /\ OwnerMoves(IF owner.pc = "release" THEN "clear" ELSE "drop_clear", owner.task,
                                  queued[owner.task], owner.res)
  /\ Release => /\ owner.pc \in {"clear", "drop_clear"}
                /\ OwnerMoves(IF owner.pc = "clear" THEN "idle" ELSE "drop",
                              IF owner.pc = "clear" THEN Stub ELSE owner.task, owner.prev, owner.res)
  /\ StartDrop => owner.pc = "idle" /\ OwnerMoves("drop", owner.task, owner.prev, owner.res)
  /\ DropHead => owner.pc = "drop" /\ OwnerMoves("drop_release", head_all, owner.prev, owner.res)
  /\ DropQueue => owner.pc = "drop" /\ OwnerMoves("gone", owner.task, owner.prev, owner.res)
<1>1. ReleaseSwap => /\ owner.pc \in {"release", "drop_release"}
                    /\ OwnerMoves(IF owner.pc = "release" THEN "clear" ELSE "drop_clear", owner.task,
                                  queued[owner.task], owner.res)
  BY DEF ReleaseSwap, OwnerTyped, OwnerMoves
<1>2. Release => /\ owner.pc \in {"clear", "drop_clear"}
                /\ OwnerMoves(IF owner.pc = "clear" THEN "idle" ELSE "drop",
                              IF owner.pc = "clear" THEN Stub ELSE owner.task, owner.prev, owner.res)
  BY GotoMoves, ReturnMoves DEF Release
<1>3. StartDrop => owner.pc = "idle" /\ OwnerMoves("drop", owner.task, owner.prev, owner.res)
  BY GotoMoves DEF StartDrop
<1>4. DropHead => owner.pc = "drop" /\ OwnerMoves("drop_release", head_all, owner.prev, owner.res)
  BY DEF DropHead, OwnerTyped, OwnerMoves
<1>5. DropQueue => owner.pc = "drop" /\ OwnerMoves("gone", owner.task, owner.prev, owner.res)
  BY GotoMoves DEF DropQueue
<1> QED  BY <1>1, <1>2, <1>3, <1>4, <1>5

ThreadMoves(x, pc, task, ptr, call) ==
  /\ thread'[x].pc = pc /\ thread'[x].task = task /\ thread'[x].ptr = ptr /\ thread'[x].call = call
  /\ \A y \in Threads \ {x} : thread'[y] = thread[y]
  /\ thread'[x] \in [pc : ThreadPC, task : Nodes, ptr : Nodes \cup {Null}, call : {"none", "push", "wake"}]

LEMMA ThreadEffects ==
  ASSUME ThreadTyped, ThreadTyped', NEW x \in Threads
  PROVE
  /\ PushLink(x) => thread[x].pc = "link"
                    /\ ThreadMoves(x, "enq_swap", thread[x].task, thread[x].ptr, thread[x].call)
  /\ WakeMark(x) => thread[x].pc = "mark"
                    /\ ThreadMoves(x, "swap", thread[x].task, thread[x].ptr, thread[x].call)
  /\ WakeSwap(x) => thread[x].pc = "swap"
                    /\ ThreadMoves(x, IF queued[thread[x].task] THEN "unref" ELSE "enq_swap",
                                   thread[x].task, thread[x].ptr, thread[x].call)
  /\ EnqueueSwap(x) => thread[x].pc = "enq_swap"
                    /\ ThreadMoves(x, "enq_link", thread[x].task, head, thread[x].call)
  /\ EnqueueLink(x) =>
       /\ thread[x].pc = "enq_link"
       /\ IF Pushing(x) THEN ThreadMoves(x, "idle", Stub, Null, "none")
          ELSE ThreadMoves(x, "wake", thread[x].task, thread[x].ptr, thread[x].call)
  /\ WakeParent(x) => thread[x].pc = "wake"
                    /\ ThreadMoves(x, "unref", thread[x].task, thread[x].ptr, thread[x].call)
  /\ WakeReturn(x) => thread[x].pc = "unref" /\ ThreadMoves(x, "idle", Stub, Null, "none")
  /\ \A t \in Tasks : Push(x, t) => thread[x].pc = "idle" /\ ThreadMoves(x, "link", t, head_all, "push")
  /\ \A t \in Tasks : Wake(x, t) => thread[x].pc = "idle" /\ IF queue_refs = 0 THEN thread' = thread
                                                             ELSE ThreadMoves(x, "mark", t, Null, "wake")
<1>0. thread'[x] \in [pc : ThreadPC, task : Nodes, ptr : Nodes \cup {Null}, call : {"none", "push", "wake"}]
  BY DEF ThreadTyped
<1>1. ASSUME NEW pc, ThreadGoto(x, pc) PROVE ThreadMoves(x, pc, thread[x].task, thread[x].ptr, thread[x].call)
  BY <1>0, <1>1 DEF ThreadTyped, ThreadGoto, ThreadMoves
<1>2. ASSUME NEW pc, NEW t, NEW p, NEW c,
             thread' = [thread EXCEPT ![x] = [pc |-> pc, task |-> t, ptr |-> p, call |-> c]]
      PROVE  ThreadMoves(x, pc, t, p, c)
  BY <1>0, <1>2 DEF ThreadTyped, ThreadMoves
<1>3. PushLink(x) => thread[x].pc = "link"
                    /\ ThreadMoves(x, "enq_swap", thread[x].task, thread[x].ptr, thread[x].call)
  BY <1>1 DEF PushLink
<1>4. WakeMark(x) => thread[x].pc = "mark"
                    /\ ThreadMoves(x, "swap", thread[x].task, thread[x].ptr, thread[x].call)
  BY <1>1 DEF WakeMark
<1>5. WakeSwap(x) => thread[x].pc = "swap"
                    /\ ThreadMoves(x, IF queued[thread[x].task] THEN "unref" ELSE "enq_swap",
                                   thread[x].task, thread[x].ptr, thread[x].call)
  BY <1>1 DEF WakeSwap
<1>6. EnqueueSwap(x) => thread[x].pc = "enq_swap"
                    /\ ThreadMoves(x, "enq_link", thread[x].task, head, thread[x].call)
  BY <1>0 DEF EnqueueSwap, ThreadTyped, ThreadMoves
<1>7. EnqueueLink(x) =>
       /\ thread[x].pc = "enq_link"
       /\ IF Pushing(x) THEN ThreadMoves(x, "idle", Stub, Null, "none")
          ELSE ThreadMoves(x, "wake", thread[x].task, thread[x].ptr, thread[x].call)
  BY <1>0 DEF EnqueueLink, ThreadTyped, ThreadMoves, Idle
<1>8. WakeParent(x) => thread[x].pc = "wake"
                    /\ ThreadMoves(x, "unref", thread[x].task, thread[x].ptr, thread[x].call)
  BY <1>1 DEF WakeParent
<1>9. WakeReturn(x) => thread[x].pc = "unref" /\ ThreadMoves(x, "idle", Stub, Null, "none")
  BY <1>2 DEF WakeReturn, Idle
<1>10. \A t \in Tasks : Push(x, t) => thread[x].pc = "idle" /\ ThreadMoves(x, "link", t, head_all, "push")
  BY <1>2 DEF Push
<1>11. \A t \in Tasks : Wake(x, t) => thread[x].pc = "idle" /\ IF queue_refs = 0 THEN thread' = thread
                                                             ELSE ThreadMoves(x, "mark", t, Null, "wake")
  BY <1>2 DEF Wake
<1> QED  BY <1>3, <1>4, <1>5, <1>6, <1>7, <1>8, <1>9, <1>10, <1>11

LEMMA StubPlaceKept ==
  ASSUME IInv, TypeOK', Next
  PROVE  StubPlace'
<1>0. OwnerTyped /\ ThreadTyped /\ StubPlace /\ TasksAtHand
  BY AtHand DEF IInv, TypeOK, ActorsTyped, QueueOK
<1>1. ASSUME NEW x \in Threads, ThreadOutside(x) PROVE StubPlace'
  BY <1>0, <1>1, ThreadQuiet, QuietQueue DEF StubPlace, QueueStays
<1>2. ASSUME OwnerOutside PROVE StubPlace'
  <2>1. QueueStays
    BY <1>2, OwnerQuiet, QuietQueue
  <2>2. owner' = owner \/ owner'.pc \notin {"deq_head", "stub_swap", "stub_link", "deq_last"}
    BY <1>0, <1>2, PollMoves, DropMoves DEF OwnerOutside, OwnerMoves, Deliver, DropWaker
  <2> QED  BY <1>0, <2>1, <2>2 DEF StubPlace, QueueStays
<1>3. ASSUME NEW x \in Threads, EnqueueLink(x) PROVE StubPlace'
  BY <1>0, <1>3, EnqueueLinkEffect DEF StubPlace, QueueStays
<1>4. ASSUME NEW x \in Threads, EnqueueSwap(x) PROVE StubPlace'
  <2>1. thread[x].task # Stub
    BY <1>0, <1>4 DEF EnqueueSwap, TasksAtHand
  <2> QED  BY <1>0, <1>4, <2>1, EnqueueSwapEffect DEF StubPlace, QueueGains
<1>5. ASSUME Dequeue PROVE StubPlace'
  <2>1. DequeueStub \/ DequeueTask \/ StubSwap \/ StubLink \/ DequeueLast => StubPlace'
    BY <1>0, DequeueMoves DEF OwnerMoves, StubPlace
  <2>2. ASSUME DequeueHead PROVE StubPlace'
    <3>1. CASE owner'.pc = "idle"
      BY <3>1 DEF StubPlace
    <3>2. CASE OwnerMoves("stub_swap", owner.task, owner.prev, owner.res) /\ head = tail
      <4>1. QuietStep
        <5>1. thread' = thread /\ UNCHANGED readyVars /\ owner.pc # "stub_link" /\ owner'.pc # "stub_link"
          BY <1>0, <2>2, <3>2 DEF DequeueHead, DequeueUnchanged, SharedUnchanged, Inconsistent,
             OwnerMoves
        <5> QED  BY <5>1 DEF QuietStep, Linking, readyVars
      <4>2. QueueStays
        BY <4>1, QuietQueue
      <4>3. Behind \in LinkFunctions /\ Behind[tail] = {} /\ tail \in Nodes
        BY <3>2, BehindMembers DEF IInv, QueueOK, Chain, BehindIs, TypeOK, QueueTyped
      <4>4. QueueNodes = {tail}
        BY <4>3, ReachableLast DEF QueueNodes
      <4>5. tail # Stub
        BY <1>0, <2>2 DEF DequeueHead, StubPlace
      <4> QED  BY <4>2, <4>4, <4>5 DEF StubPlace, QueueStays
    <3> QED  BY <1>0, <2>2, <3>1, <3>2, DequeueMoves DEF OwnerMoves
  <2> QED  BY <1>5, <2>1, <2>2 DEF Dequeue
<1> QED
  BY <1>1, <1>2, <1>3, <1>4, <1>5
  DEF Next, ThreadStep, OwnerStep, ThreadOutside, OwnerOutside

LEMMA QueueKept == IInv /\ TypeOK' /\ Next => QueueOK'
  BY LinksKept, StubPlaceKept DEF QueueOK

------------------------------------------------------------------------------
(* The threads                                                             *)

ThreadOK(x) ==
  /\ thread[x].pc = "idle" <=> thread[x].call = "none"
  /\ thread[x].pc = "link" => Pushing(x)
  /\ thread[x].pc \in {"mark", "swap", "wake", "unref"} => Waking(x)
  /\ thread[x].pc # "idle" => thread[x].task \in born
  /\ Pushing(x) => owner.pc = "idle" /\ thread[x].task \notin waker \cup due
  /\ Waking(x) => thread[x].task \in waker

LEMMA ThreadsKept ==
  ASSUME IInv, TypeOK', Next
  PROVE  ThreadsOK'
<1>0. /\ OwnerTyped /\ ThreadTyped /\ ThreadTyped' /\ TasksAtHand /\ SetsTyped
      /\ \A x \in Threads : ThreadOK(x)
  BY AtHand DEF IInv, TypeOK, ActorsTyped, ThreadsOK, ThreadOK
<1>1. SUFFICES \A x \in Threads : ThreadOK(x)'
  BY DEF ThreadsOK, ThreadOK
<1>2. ASSUME NEW x \in Threads,
             PushLink(x) \/ WakeMark(x) \/ WakeSwap(x) \/ EnqueueSwap(x) \/ EnqueueLink(x)
             \/ WakeParent(x) \/ WakeReturn(x)
      PROVE  \A y \in Threads : ThreadOK(y)'
  <2>1. UNCHANGED <<owner, born, waker, due>>
    BY <1>2 DEF PushLink, WakeMark, WakeSwap, EnqueueSwap, EnqueueLink, WakeParent, WakeReturn,
       memVars,
                ghostVars
  <2>2. \A y \in Threads \ {x} : thread'[y] = thread[y]
    BY <1>0, <1>2, ThreadEffects DEF ThreadMoves
  <2>3. \A y \in Threads \ {x} : ThreadOK(y)'
    BY <1>0, <2>1, <2>2 DEF ThreadOK, Pushing, Waking
  <2>4. ThreadOK(x)
    BY <1>0
  <2>5. PushLink(x) \/ WakeMark(x) \/ EnqueueSwap(x) \/ WakeParent(x) \/ WakeSwap(x) => ThreadOK(x)'
    BY <1>0, <2>1, <2>4, ThreadEffects DEF ThreadMoves, ThreadOK, Pushing, Waking
  <2>6. EnqueueLink(x) \/ WakeReturn(x) => ThreadOK(x)'
    <3>1. thread[x].call \in {"none", "push", "wake"}
      BY <1>0 DEF ThreadTyped
    <3> QED  BY <1>0, <2>1, <2>4, <3>1, ThreadEffects DEF ThreadMoves, ThreadOK, Pushing, Waking
  <2> QED  BY <1>2, <2>3, <2>5, <2>6
<1>3. ASSUME NEW x \in Threads, NEW t \in Tasks, Push(x, t) PROVE \A y \in Threads : ThreadOK(y)'
  <2>1. UNCHANGED <<owner, waker, due>> /\ born' = born \cup {t} /\ t \notin born /\ owner.pc = "idle"
    BY <1>3 DEF Push, ghostVars
  <2>2. ThreadMoves(x, "link", t, head_all, "push")
    BY <1>0, <1>3, ThreadEffects
  <2>3. \A y \in Threads \ {x} : ThreadOK(y)'
    BY <1>0, <2>1, <2>2 DEF ThreadOK, Pushing, Waking, ThreadMoves
  <2>4. ThreadOK(x)'
    BY <1>0, <2>1, <2>2 DEF ThreadOK, Pushing, Waking, ThreadMoves, SetsTyped
  <2> QED  BY <2>3, <2>4
<1>4. ASSUME NEW x \in Threads, NEW t \in Tasks, Wake(x, t) PROVE \A y \in Threads : ThreadOK(y)'
  <2>1. UNCHANGED <<owner, waker, born>> /\ due' \subseteq due \cup {t} /\ t \in waker
    BY <1>4 DEF Wake
  <2>2. thread' = thread \/ ThreadMoves(x, "mark", t, Null, "wake")
    BY <1>0, <1>4, ThreadEffects
  <2>3. ASSUME NEW y \in Threads, thread'[y] = thread[y] PROVE ThreadOK(y)'
    BY <1>0, <2>1, <2>3 DEF ThreadOK, Pushing, Waking
  <2>4. ThreadMoves(x, "mark", t, Null, "wake") => ThreadOK(x)'
    BY <1>0, <2>1 DEF ThreadOK, Pushing, Waking, ThreadMoves, SetsTyped
  <2> QED  BY <2>2, <2>3, <2>4 DEF ThreadMoves
<1>5. ASSUME NEW t \in Tasks, DropWaker(t) PROVE \A y \in Threads : ThreadOK(y)'
  BY <1>0, <1>5 DEF DropWaker, ThreadOK, Pushing, Waking, ghostVars
<1>6. ASSUME Deliver PROVE \A y \in Threads : ThreadOK(y)'
  BY <1>0, <1>6 DEF Deliver, ThreadOK, Pushing, Waking, memVars, ghostVars
<1>7. ASSUME PollNext \/ StartDrop PROVE \A y \in Threads : ThreadOK(y)'
  BY <1>0, <1>7 DEF PollNext, StartDrop, PollUnchanged, SharedUnchanged, ThreadOK, Pushing, Waking
<1>8. ASSUME Register \/ Dequeue \/ CleanOut \/ TakeOut \/ BeginPoll \/ Pending \/ Finish("ready")
             \/ Finish("panic") \/ ReleaseSwap \/ Release \/ DropHead \/ DropQueue
      PROVE  \A y \in Threads : ThreadOK(y)'
  <2>1. owner.pc # "idle"
    BY <1>0, <1>8, DequeueMoves, PollMoves, DropMoves DEF Dequeue
  <2>2. thread' = thread /\ born' = born /\ waker \subseteq waker'
    BY <1>8 DEF Register, Dequeue, CleanOut, TakeOut, BeginPoll, Pending, Finish, ReleaseSwap,
       Release, DropHead,
       DropQueue, DequeueStub, DequeueTask, DequeueHead, StubSwap, StubLink, DequeueLast, DequeueUnchanged,
       PollUnchanged, SharedUnchanged
  <2> QED  BY <1>0, <2>1, <2>2 DEF ThreadOK, Pushing, Waking
<1> QED
  BY <1>2, <1>3, <1>4, <1>5, <1>6, <1>7, <1>8 DEF Next, ThreadStep, OwnerStep

------------------------------------------------------------------------------
(* Where a queued task is                                                  *)

(* A step that leaves every carried task with its carrier.                 *)
CarryingSame == Carrying' = Carrying /\ \A x \in Carrying : thread'[x].task = thread[x].task

LEMMA CarryingStays ==
  ASSUME IInv, TypeOK', NEW x \in Threads,
         PushLink(x) \/ WakeMark(x) \/ EnqueueLink(x) \/ WakeParent(x) \/ WakeReturn(x)
         \/ (\E t \in Tasks : Wake(x, t)) \/ (WakeSwap(x) /\ queued[thread[x].task])
  PROVE  CarryingSame /\ QueueStays /\ owner' = owner
<1>0. ThreadTyped /\ ThreadTyped'
  BY DEF IInv, TypeOK, ActorsTyped
<1>1. \A y \in Threads \ {x} : thread'[y] = thread[y]
  BY <1>0, ThreadEffects DEF ThreadMoves
<1>2. x \in Carrying' <=> x \in Carrying
  <2>1. PushLink(x) => x \in Carrying' /\ x \in Carrying
    BY <1>0, ThreadEffects DEF ThreadMoves, Carrying
  <2>2. WakeMark(x) \/ WakeParent(x) \/ WakeReturn(x) \/ (WakeSwap(x) /\ queued[thread[x].task])
        => x \notin Carrying' /\ x \notin Carrying
    BY <1>0, ThreadEffects DEF ThreadMoves, Carrying
  <2>3. EnqueueLink(x) => x \notin Carrying' /\ x \notin Carrying
    BY <1>0, ThreadEffects DEF ThreadMoves, Carrying
  <2>4. (\E t \in Tasks : Wake(x, t)) => (x \in Carrying' <=> x \in Carrying)
    BY <1>0, ThreadEffects DEF ThreadMoves, Carrying
  <2> QED  BY <2>1, <2>2, <2>3, <2>4
<1>3. x \in Carrying => thread'[x].task = thread[x].task
  <2>1. PushLink(x) => thread'[x].task = thread[x].task
    BY <1>0, ThreadEffects DEF ThreadMoves
  <2>2. WakeMark(x) \/ WakeParent(x) \/ WakeReturn(x) \/ WakeSwap(x) \/ EnqueueLink(x) => x \notin Carrying
    BY <1>0, ThreadEffects DEF Carrying
  <2>3. (\E t \in Tasks : Wake(x, t)) => x \notin Carrying
    BY <1>0, ThreadEffects DEF Carrying
  <2> QED  BY <2>1, <2>2, <2>3
<1>4. CarryingSame
  BY <1>1, <1>2, <1>3 DEF CarryingSame, Carrying
<1>5. QueueStays /\ owner' = owner
  BY ThreadQuiet, QuietQueue, EnqueueLinkEffect DEF ThreadOutside
<1> QED  BY <1>4, <1>5

LEMMA PlacesKept ==
  ASSUME IInv, TypeOK', Next
  PROVE  PlacesOK'
<1>0. /\ OwnerTyped /\ ThreadTyped /\ ThreadTyped' /\ TasksAtHand /\ SetsTyped /\ FlagsTyped
      /\ PlacesOK /\ QueueNodes \subseteq Nodes /\ tail \in QueueNodes
  BY AtHand, QueueClosed DEF IInv, TypeOK, ActorsTyped
<1>1. ASSUME NEW x \in Threads,
             PushLink(x) \/ WakeMark(x) \/ EnqueueLink(x) \/ WakeParent(x) \/ WakeReturn(x)
             \/ (\E t \in Tasks : Wake(x, t)) \/ (WakeSwap(x) /\ queued[thread[x].task])
      PROVE  PlacesOK'
  <2>1. CarryingSame /\ QueueStays /\ owner' = owner
    BY <1>1, CarryingStays
  <2>2. born' = born /\ queued' = queued
    BY <1>0, <1>1 DEF PushLink, WakeMark, EnqueueLink, WakeParent, WakeReturn, Wake, WakeSwap,
       memVars, flagVars,
                FlagsTyped
  <2> QED  BY <1>0, <2>1, <2>2 DEF PlacesOK, CarryingSame, QueueStays
<1>2. ASSUME NEW x \in Threads, WakeSwap(x), ~queued[thread[x].task] PROVE PlacesOK'
  <2>1. QueueStays /\ owner' = owner /\ born' = born
    BY <1>2, ThreadQuiet, QuietQueue DEF ThreadOutside, WakeSwap, memVars
  <2>2. PICK t \in Tasks : t = thread[x].task /\ t \in born
    BY <1>0, <1>2 DEF WakeSwap, TasksAtHand
  <2>3. ThreadMoves(x, "enq_swap", t, thread[x].ptr, thread[x].call) /\ thread[x].pc = "swap"
    BY <1>0, <1>2, <2>2, ThreadEffects
  <2>4. Carrying' = Carrying \cup {x} /\ x \notin Carrying
        /\ \A y \in Carrying : thread'[y] = thread[y]
    BY <2>3 DEF Carrying, ThreadMoves
  <2>5. queued' = [queued EXCEPT ![t] = TRUE]
    BY <1>2, <2>2 DEF WakeSwap
  <2>6. queued'[t] /\ \A q \in Tasks : queued[q] => queued'[q]
    BY <1>0, <2>5 DEF FlagsTyped
  <2>7. ~queued[t] /\ thread'[x].task = t
    BY <1>2, <2>2, <2>3 DEF ThreadMoves
  <2>8. \A y \in Carrying : thread[y].task \in Tasks
    BY <1>0 DEF Carrying, TasksAtHand
  <2>9. t \notin QueueNodes /\ (owner.pc = "data" => owner.task # t)
        /\ \A y \in Carrying : thread[y].task # t
    BY <1>0, <2>2, <2>7 DEF PlacesOK, TasksAtHand
  <2>10. \A y \in Carrying' :
          /\ thread'[y].task \notin QueueNodes /\ queued'[thread'[y].task]
          /\ owner.pc = "data" => owner.task # thread'[y].task
    BY <1>0, <2>4, <2>6, <2>7, <2>8, <2>9 DEF PlacesOK
  <2>11. \A y \in Carrying' : \A z \in Carrying' \ {y} : thread'[z].task # thread'[y].task
    BY <1>0, <2>4, <2>7, <2>9 DEF PlacesOK
  <2>12. \A q \in QueueNodes \ {Stub} : queued'[q] /\ q \in born
    BY <1>0, <2>6 DEF PlacesOK, SetsTyped
  <2>13. owner.pc = "data" => owner.task \in born /\ owner.task \notin QueueNodes /\ queued'[owner.task]
    BY <1>0, <2>6 DEF PlacesOK, TasksAtHand
  <2> QED  BY <2>1, <2>10, <2>11, <2>12, <2>13 DEF PlacesOK, QueueStays
<1>3. ASSUME NEW x \in Threads, EnqueueSwap(x) PROVE PlacesOK'
  <2>1. QueueGains(thread[x].task) /\ owner' = owner /\ born' = born /\ queued' = queued
    BY <1>3, EnqueueSwapEffect DEF EnqueueSwap, memVars, flagVars
  <2>2. Carrying' = Carrying \ {x} /\ x \in Carrying
        /\ \A y \in Carrying \ {x} : thread'[y] = thread[y]
    BY <1>0, <1>3, ThreadEffects DEF Carrying, ThreadMoves
  <2>3. thread[x].task \in born
    BY <1>0, <1>3 DEF EnqueueSwap, TasksAtHand
  <2> QED  BY <1>0, <2>1, <2>2, <2>3 DEF PlacesOK, QueueGains
<1>4. ASSUME NEW x \in Threads, NEW t \in Tasks, Push(x, t) PROVE PlacesOK'
  <2>1. QueueStays /\ owner' = owner /\ born' = born \cup {t} /\ queued' = queued /\ t \notin born
    BY <1>4, ThreadQuiet, QuietQueue DEF ThreadOutside, Push, flagVars
  <2>2. ThreadMoves(x, "link", t, head_all, "push") /\ thread[x].pc = "idle"
    BY <1>0, <1>4, ThreadEffects
  <2>3. Carrying' = Carrying \cup {x} /\ x \notin Carrying /\ thread'[x].task = t
        /\ \A y \in Carrying : thread'[y] = thread[y]
    BY <2>2 DEF Carrying, ThreadMoves
  <2>4. queued[t]
    BY <2>1 DEF IInv, FlagsOK, TypeOK, SetsTyped
  <2>5. \A y \in Carrying : thread[y].task \in born
    BY <1>0 DEF Carrying, TasksAtHand
  <2>6. t \notin QueueNodes /\ (owner.pc = "data" => owner.task # t)
    BY <1>0, <2>1 DEF PlacesOK, TasksAtHand
  <2> QED  BY <1>0, <2>1, <2>3, <2>4, <2>5, <2>6 DEF PlacesOK, QueueStays
<1>5. ASSUME TakeOut PROVE PlacesOK'
  <2>1. QueueStays /\ thread' = thread /\ born' = born /\ Carrying' = Carrying
    BY <1>5, OwnerQuiet, QuietQueue DEF OwnerOutside, TakeOut, PollUnchanged, SharedUnchanged,
       Carrying
  <2>2. PICK t \in Tasks : t = owner.task /\ queued' = [queued EXCEPT ![t] = FALSE]
    BY <1>0, <1>5 DEF TakeOut, TasksAtHand
  <2>3. owner.pc = "data" /\ owner'.pc = "begin"
    BY <1>0, <1>5, PollMoves DEF OwnerMoves
  <2>4. \A q \in Tasks \ {t} : queued'[q] = queued[q]
    BY <1>0, <2>2 DEF FlagsTyped
  <2>5. t \notin QueueNodes /\ \A x \in Carrying : thread[x].task # t /\ thread[x].task \in Tasks
    BY <1>0, <2>2, <2>3 DEF PlacesOK, TasksAtHand, Carrying
  <2>6. \A q \in QueueNodes \ {Stub} : q \in Tasks \ {t}
    BY <1>0, <2>5 DEF Nodes
  <2> QED  BY <1>0, <2>1, <2>3, <2>4, <2>5, <2>6 DEF PlacesOK, QueueStays
<1>6. ASSUME OwnerOutside, ~TakeOut PROVE PlacesOK'
  <2>1. QueueStays /\ thread' = thread /\ Carrying' = Carrying
    BY <1>6, OwnerQuiet, QuietQueue DEF Carrying
  <2>2. born' = born
    BY <1>6 DEF OwnerOutside, Register, CleanOut, BeginPoll, Pending, Finish, ReleaseSwap, Release,
       DropHead,
         DropQueue, PollNext, StartDrop, Deliver, DropWaker, memVars, PollUnchanged, SharedUnchanged
  <2>3. \A q \in Tasks : queued[q] => queued'[q]
    BY <1>0, <1>6 DEF OwnerOutside, Register, CleanOut, BeginPoll, Pending, Finish, ReleaseSwap,
       Release, DropHead,
         DropQueue, PollNext, StartDrop, Deliver, DropWaker, flagVars, FlagsTyped
  <2>4. owner' = owner \/ owner'.pc # "data"
    BY <1>0, <1>6, PollMoves, DropMoves DEF OwnerOutside, OwnerMoves, Deliver, DropWaker
  <2>5. \A x \in Carrying : thread[x].task \in Tasks
    BY <1>0 DEF Carrying, TasksAtHand
  <2>6. \A q \in QueueNodes \ {Stub} : q \in Tasks
    BY <1>0 DEF Nodes
  <2> QED  BY <1>0, <2>1, <2>2, <2>3, <2>4, <2>5, <2>6 DEF PlacesOK, QueueStays, TasksAtHand
<1>7. ASSUME Dequeue PROVE PlacesOK'
  <2>1. thread' = thread /\ born' = born /\ queued' = queued /\ Carrying' = Carrying
    BY <1>7 DEF Dequeue, DequeueStub, DequeueTask, DequeueHead, StubSwap, StubLink, DequeueLast,
       DequeueUnchanged,
       SharedUnchanged, flagVars, Carrying
  <2>2. \A x \in Carrying : thread[x].task \in Tasks
    BY <1>0 DEF Carrying, TasksAtHand
  <2>3. owner.pc # "data"
    BY <1>0, <1>7, DequeueMoves DEF Dequeue
  <2>4. CASE tail' = tail
    <3>1. owner'.pc # "data"
      <4>1. next_ready[tail] = tail => FALSE
        BY BehindMembers, QueueClosed DEF IInv, QueueOK, Chain, BehindIs, IsBehind, QueueNodes
      <4> QED  BY <1>0, <1>7, <2>3, <2>4, <4>1, DequeueMoves DEF Dequeue, OwnerMoves
    <3>2. QueueNodes' \subseteq QueueNodes \cup {Stub}
      BY <1>7, DequeueCases, QuietQueue, TailMovesEffect, StubSwapEffect, StubLinkEffect
      DEF QueueStays, QueueLosesTail, QueueGains
    <3> QED  BY <1>0, <2>1, <2>2, <3>1, <3>2 DEF PlacesOK, TasksAtHand
  <2>5. CASE tail' # tail
    <3>1. QueueLosesTail
      <4>1. TailMoves
        BY <1>0, <1>7, <2>5, DequeueCases, DequeueMoves DEF QuietStep
      <4> QED  BY <4>1, TailMovesEffect
    <3>2. owner'.pc = "data" => owner'.task = tail /\ tail # Stub
      BY <1>0, <1>7, <2>3, DequeueMoves DEF Dequeue, OwnerMoves, IInv, QueueOK, StubPlace
    <3> QED  BY <1>0, <2>1, <3>1, <3>2 DEF PlacesOK, QueueLosesTail
  <2> QED  BY <2>4, <2>5
<1> QED
  BY <1>1, <1>2, <1>3, <1>4, <1>5, <1>6, <1>7
  DEF Next, ThreadStep, OwnerStep, OwnerOutside

(* Who carries what after a step of a thread.                              *)
CarriedSame == UNCHANGED <<Enqueuing, PushLinking, Pushers>>
               /\ \A y \in Pushers : thread'[y] = thread[y]

LEMMA CarriedNext ==
  ASSUME IInv, TypeOK', NEW x \in Threads
  PROVE
  /\ WakeMark(x) \/ EnqueueLink(x) \/ WakeParent(x) \/ WakeReturn(x) \/ (\E t \in Tasks : Wake(x, t))
     \/ (WakeSwap(x) /\ queued[thread[x].task]) => CarriedSame
  /\ WakeSwap(x) /\ ~queued[thread[x].task] =>
       /\ Enqueuing' = Enqueuing \cup {thread[x].task} /\ UNCHANGED <<PushLinking, Pushers>>
       /\ \A y \in Pushers : thread'[y] = thread[y]
  /\ EnqueueSwap(x) =>
       /\ Enqueuing' = Enqueuing \ {thread[x].task} /\ UNCHANGED <<PushLinking, Pushers>>
       /\ thread[x].task \in Enqueuing
       /\ \A y \in Pushers : thread'[y] = thread[y]
  /\ PushLink(x) =>
       /\ Enqueuing' = Enqueuing \cup {thread[x].task} /\ PushLinking' = PushLinking \ {thread[x].task}
       /\ Pushers' = Pushers \ {x} /\ x \in Pushers /\ thread[x].task \in PushLinking
       /\ \A y \in Pushers' : thread'[y] = thread[y]
  /\ \A t \in Tasks : Push(x, t) =>
       /\ Enqueuing' = Enqueuing /\ PushLinking' = PushLinking \cup {t}
       /\ Pushers' = Pushers \cup {x} /\ x \notin Pushers
       /\ thread'[x].task = t /\ thread'[x].ptr = head_all
       /\ \A y \in Pushers : thread'[y] = thread[y]
<1>0. ThreadTyped /\ ThreadTyped' /\ TasksAtHand /\ PlacesOK
  BY AtHand DEF IInv, TypeOK, ActorsTyped
<1>1. ASSUME \A y \in Threads \ {x} : thread'[y] = thread[y], x \notin Carrying, x \notin Carrying'
      PROVE  CarriedSame
  BY <1>1 DEF CarriedSame, Enqueuing, PushLinking, Pushers, Carrying
<1>2. WakeMark(x) \/ WakeParent(x) \/ WakeReturn(x) \/ (WakeSwap(x) /\ queued[thread[x].task]) => CarriedSame
  BY <1>0, <1>1, ThreadEffects DEF ThreadMoves, Carrying
<1>3. EnqueueLink(x) => CarriedSame
  BY <1>0, <1>1, ThreadEffects DEF ThreadMoves, Carrying
<1>4. ASSUME NEW t \in Tasks, Wake(x, t) PROVE CarriedSame
  BY <1>0, <1>1, <1>4, ThreadEffects DEF ThreadMoves, Carrying
<1>5. ASSUME WakeSwap(x), ~queued[thread[x].task]
      PROVE  /\ Enqueuing' = Enqueuing \cup {thread[x].task} /\ UNCHANGED <<PushLinking, Pushers>>
             /\ \A y \in Pushers : thread'[y] = thread[y]
  <2>1. thread[x].pc = "swap" /\ thread[x].task \in Tasks
        /\ ThreadMoves(x, "enq_swap", thread[x].task, thread[x].ptr, thread[x].call)
    BY <1>0, <1>5, ThreadEffects DEF WakeSwap, TasksAtHand
  <2> QED  BY <2>1 DEF ThreadMoves, Enqueuing, PushLinking, Pushers
<1>6. ASSUME EnqueueSwap(x)
      PROVE  /\ Enqueuing' = Enqueuing \ {thread[x].task} /\ UNCHANGED <<PushLinking, Pushers>>
             /\ thread[x].task \in Enqueuing
             /\ \A y \in Pushers : thread'[y] = thread[y]
  <2>1. thread[x].pc = "enq_swap" /\ thread[x].task \in Tasks
        /\ ThreadMoves(x, "enq_link", thread[x].task, head, thread[x].call)
    BY <1>0, <1>6, ThreadEffects DEF EnqueueSwap, TasksAtHand
  <2>2. \A y \in Threads \ {x} : thread[y].pc = "enq_swap" => thread[y].task # thread[x].task
    BY <1>0, <2>1 DEF PlacesOK, Carrying
  <2> QED  BY <2>1, <2>2 DEF ThreadMoves, Enqueuing, PushLinking, Pushers
<1>7. ASSUME PushLink(x)
      PROVE  /\ Enqueuing' = Enqueuing \cup {thread[x].task} /\ PushLinking' = PushLinking \ {thread[x].task}
             /\ Pushers' = Pushers \ {x} /\ x \in Pushers /\ thread[x].task \in PushLinking
             /\ \A y \in Pushers' : thread'[y] = thread[y]
  <2>1. thread[x].pc = "link" /\ thread[x].task \in Tasks
        /\ ThreadMoves(x, "enq_swap", thread[x].task, thread[x].ptr, thread[x].call)
    BY <1>0, <1>7, ThreadEffects DEF PushLink, TasksAtHand
  <2>2. \A y \in Threads \ {x} : thread[y].pc = "link" => thread[y].task # thread[x].task
    BY <1>0, <2>1 DEF PlacesOK, Carrying
  <2> QED  BY <2>1, <2>2 DEF ThreadMoves, Enqueuing, PushLinking, Pushers
<1>8. ASSUME NEW t \in Tasks, Push(x, t)
      PROVE  /\ Enqueuing' = Enqueuing /\ PushLinking' = PushLinking \cup {t}
             /\ Pushers' = Pushers \cup {x} /\ x \notin Pushers
             /\ thread'[x].task = t /\ thread'[x].ptr = head_all
             /\ \A y \in Pushers : thread'[y] = thread[y]
  <2>1. thread[x].pc = "idle" /\ ThreadMoves(x, "link", t, head_all, "push")
    BY <1>0, <1>8, ThreadEffects
  <2> QED  BY <2>1 DEF ThreadMoves, Enqueuing, PushLinking, Pushers
<1> QED  BY <1>2, <1>3, <1>4, <1>5, <1>6, <1>7, <1>8

LEMMA CarriedByNobody == thread' = thread => CarriedSame
  BY DEF CarriedSame, Enqueuing, PushLinking, Pushers

------------------------------------------------------------------------------
(* The flag `queued`                                                       *)

LEMMA FlagsKept ==
  ASSUME IInv, TypeOK', Next
  PROVE  FlagsOK'
<1>0. /\ OwnerTyped /\ TasksAtHand /\ SetsTyped /\ FlagsTyped /\ FlagsOK
      /\ PlacesOK /\ QueueNodes \subseteq Nodes /\ tail \in QueueNodes
  BY AtHand, QueueClosed DEF IInv, TypeOK, ActorsTyped
<1>1. ASSUME NEW x \in Threads,
             WakeMark(x) \/ EnqueueLink(x) \/ WakeParent(x) \/ WakeReturn(x)
             \/ (\E t \in Tasks : Wake(x, t)) \/ (WakeSwap(x) /\ queued[thread[x].task])
      PROVE  FlagsOK'
  <2>1. QueueStays /\ owner' = owner /\ CarriedSame
    BY <1>1, CarryingStays, CarriedNext
  <2>2. future' = future /\ queued' = queued
    BY <1>0, <1>1 DEF WakeMark, EnqueueLink, WakeParent, WakeReturn, Wake, WakeSwap, flagVars,
       FlagsTyped
  <2> QED  BY <1>0, <2>1, <2>2 DEF FlagsOK, CarriedSame, QueueStays
<1>2. ASSUME NEW x \in Threads, PushLink(x) PROVE FlagsOK'
  <2>1. QueueStays /\ owner' = owner /\ future' = future /\ queued' = queued
    BY <1>2, CarryingStays DEF PushLink, flagVars
  <2>2. Enqueuing' = Enqueuing \cup {thread[x].task} /\ PushLinking' = PushLinking \ {thread[x].task}
    BY <1>2, CarriedNext
  <2>3. owner.pc = "idle"
    BY <1>2 DEF PushLink, IInv, ThreadsOK
  <2> QED  BY <1>0, <2>1, <2>2, <2>3 DEF FlagsOK, QueueStays
<1>3. ASSUME NEW x \in Threads, WakeSwap(x), ~queued[thread[x].task] PROVE FlagsOK'
  <2>1. QueueStays /\ owner' = owner /\ future' = future
    BY <1>3, ThreadQuiet, QuietQueue DEF ThreadOutside, WakeSwap
  <2>2. PICK t \in Tasks : t = thread[x].task
    BY <1>0, <1>3 DEF WakeSwap, TasksAtHand
  <2>3. Enqueuing' = Enqueuing \cup {t} /\ PushLinking' = PushLinking
    BY <1>3, <2>2, CarriedNext
  <2>4. queued' = [queued EXCEPT ![t] = TRUE]
    BY <1>3, <2>2 DEF WakeSwap
  <2>5. ~queued[t] /\ queued'[t] /\ \A q \in Tasks \ {t} : queued'[q] = queued[q]
    BY <1>0, <1>3, <2>2, <2>4 DEF FlagsTyped
  <2>6. owner.pc \in {"clear", "drop_clear"} => owner.task \in Tasks \ {t}
    BY <1>0, <2>5 DEF FlagsOK, TasksAtHand, InHand
  <2>7. \A q \in future : q \in Tasks
    BY <1>0 DEF SetsTyped
  <2> QED  BY <1>0, <2>1, <2>2, <2>3, <2>5, <2>6, <2>7 DEF FlagsOK, QueueStays
<1>4. ASSUME NEW x \in Threads, EnqueueSwap(x) PROVE FlagsOK'
  <2>1. QueueGains(thread[x].task) /\ owner' = owner /\ future' = future /\ queued' = queued
    BY <1>4, EnqueueSwapEffect DEF EnqueueSwap, flagVars
  <2>2. Enqueuing' = Enqueuing \ {thread[x].task} /\ PushLinking' = PushLinking /\ thread[x].task \in Enqueuing
    BY <1>4, CarriedNext
  <2>3. QueueNodes' \cup Enqueuing' = QueueNodes \cup Enqueuing
    BY <2>1, <2>2 DEF QueueGains
  <2> QED  BY <1>0, <2>1, <2>2, <2>3 DEF FlagsOK
<1>5. ASSUME NEW x \in Threads, NEW t \in Tasks, Push(x, t) PROVE FlagsOK'
  <2>1. QueueStays /\ owner' = owner /\ future' = future \cup {t} /\ queued' = queued /\ owner.pc = "idle"
    BY <1>5, ThreadQuiet, QuietQueue DEF ThreadOutside, Push, flagVars
  <2>2. Enqueuing' = Enqueuing /\ PushLinking' = PushLinking \cup {t}
    BY <1>5, CarriedNext
  <2> QED  BY <1>0, <2>1, <2>2 DEF FlagsOK, QueueStays
<1>6. ASSUME OwnerOutside PROVE QueueStays /\ CarriedSame
  BY <1>6, OwnerQuiet, QuietQueue, CarriedByNobody
<1>7. ASSUME TakeOut PROVE FlagsOK'
  <2>1. QueueStays /\ CarriedSame /\ future' = future
    BY <1>6, <1>7 DEF OwnerOutside, TakeOut
  <2>2. PICK t \in Tasks : t = owner.task /\ queued' = [queued EXCEPT ![t] = FALSE] /\ t \in future
    BY <1>0, <1>7 DEF TakeOut, TasksAtHand
  <2>3. owner.pc = "data" /\ owner'.pc = "begin" /\ owner'.prev = queued[t]
    BY <1>0, <1>7, <2>2, PollMoves DEF OwnerMoves
  <2>4. ~queued'[t] /\ \A q \in Tasks \ {t} : queued'[q] = queued[q]
    BY <1>0, <2>2 DEF FlagsTyped
  <2>5. queued[t]
    BY <1>0, <2>2, <2>3 DEF PlacesOK
  <2>6. \A q \in future : q \in Tasks
    BY <1>0 DEF SetsTyped
  <2>7. owner'.prev
    BY <2>3, <2>5, Zenon
  <2> QED  BY <1>0, <2>1, <2>2, <2>3, <2>4, <2>6, <2>7 DEF FlagsOK, QueueStays, CarriedSame
<1>8. ASSUME ReleaseSwap PROVE FlagsOK'
  <2>1. QueueStays /\ CarriedSame /\ future' = future
    BY <1>6, <1>8 DEF OwnerOutside, ReleaseSwap
  <2>2. InHand /\ owner.pc \in {"release", "drop_release"}
    BY <1>8 DEF ReleaseSwap, InHand
  <2>3. PICK t \in Tasks : t = owner.task /\ queued' = [queued EXCEPT ![t] = TRUE] /\ t \in future
    BY <1>0, <1>8, <2>2 DEF ReleaseSwap, TasksAtHand
  <2>4. owner'.pc \in {"clear", "drop_clear"} /\ owner'.prev = queued[t] /\ owner'.task = t
    BY <1>0, <1>8, <2>3, DropMoves DEF OwnerMoves
  <2>5. queued'[t] /\ \A q \in Tasks \ {t} : queued'[q] = queued[q]
    BY <1>0, <2>3 DEF FlagsTyped
  <2>6. PushLinking = {}
    BY <2>2, WholeWhenBusy DEF ListWhole
  <2>7. queued[t] <=> t \in QueueNodes \cup Enqueuing
    <3>1. queued[t] => t \in QueueNodes \cup Enqueuing
      BY <1>0, <2>2, <2>3, <2>6 DEF FlagsOK
    <3>2. t \in QueueNodes => queued[t]
      BY <1>0, <2>3 DEF PlacesOK, TasksAtHand
    <3>3. t \in Enqueuing => queued[t]
      BY <1>0 DEF PlacesOK, Enqueuing, Carrying
    <3> QED  BY <3>1, <3>2, <3>3
  <2>8. owner'.prev <=> t \in QueueNodes \cup Enqueuing
    BY <2>4, <2>7, Zenon
  <2>9. \A q \in future : q \in Tasks
    BY <1>0 DEF SetsTyped
  <2> QED  BY <1>0, <2>1, <2>2, <2>3, <2>4, <2>5, <2>8, <2>9 DEF FlagsOK, QueueStays, CarriedSame
<1>9. ASSUME Release PROVE FlagsOK'
  <2>1. QueueStays /\ CarriedSame /\ queued' = queued /\ future' = future \ {owner.task}
    BY <1>6, <1>9 DEF OwnerOutside, Release, flagVars
  <2>2. owner'.pc \in {"idle", "drop"} /\ owner.pc \in {"clear", "drop_clear"}
    BY <1>0, <1>9, DropMoves DEF OwnerMoves
  <2> QED  BY <1>0, <2>1, <2>2 DEF FlagsOK, QueueStays, CarriedSame
<1>10. ASSUME OwnerOutside, ~TakeOut, ~ReleaseSwap, ~Release PROVE FlagsOK'
  <2>1. QueueStays /\ CarriedSame
    BY <1>6, <1>10
  <2>2. queued' = queued /\ future' = future
    BY <1>10 DEF OwnerOutside, Register, CleanOut, BeginPoll, Pending, Finish, DropHead,
         DropQueue, PollNext, StartDrop, Deliver, DropWaker, flagVars
  <2>3. \/ owner' = owner
        \/ /\ owner'.pc \notin {"begin", "clear", "drop_clear"}
           /\ owner.pc \in {"data", "clear", "drop_clear"} => owner.task \notin future
    BY <1>0, <1>10, PollMoves, DropMoves DEF OwnerOutside, OwnerMoves, Deliver, DropWaker, CleanOut
  <2> QED  BY <1>0, <2>1, <2>2, <2>3 DEF FlagsOK, QueueStays, CarriedSame
<1>11. ASSUME Dequeue PROVE FlagsOK'
  <2>1. thread' = thread /\ queued' = queued /\ future' = future
    BY <1>11 DEF Dequeue, DequeueStub, DequeueTask, DequeueHead, StubSwap, StubLink, DequeueLast,
       DequeueUnchanged,
       SharedUnchanged, flagVars
  <2>2. CarriedSame
    BY <2>1, CarriedByNobody
  <2>3. owner.pc \notin {"begin", "data", "clear", "drop_clear"}
        /\ owner'.pc \notin {"begin", "clear", "drop_clear"}
    BY <1>0, <1>11, DequeueMoves DEF Dequeue, OwnerMoves
  <2>4. \/ QueueNodes \subseteq QueueNodes'
        \/ QueueNodes' = QueueNodes \ {tail} /\ TailMoves
    BY <1>11, DequeueCases, QuietQueue, TailMovesEffect, StubSwapEffect, StubLinkEffect
    DEF QueueStays, QueueLosesTail, QueueGains
  <2>5. TailMoves => tail = Stub \/ (owner'.task = tail /\ owner'.pc = "data")
    <3>1. next_ready[tail] # tail
      BY BehindMembers, QueueClosed DEF IInv, QueueOK, Chain, BehindIs, IsBehind, QueueNodes
    <3> QED  BY <1>0, <1>11, <3>1, DequeueMoves DEF Dequeue, OwnerMoves, TailMoves
  <2>6. Stub \notin future
    BY <1>0 DEF TasksAtHand, SetsTyped
  <2> QED  BY <1>0, <2>1, <2>2, <2>3, <2>4, <2>5, <2>6 DEF FlagsOK, CarriedSame
<1> QED
  BY <1>1, <1>2, <1>3, <1>4, <1>5, <1>7, <1>8, <1>9, <1>10, <1>11
  DEF Next, ThreadStep, OwnerStep, OwnerOutside

------------------------------------------------------------------------------
(* The list of all tasks                                                   *)

LEMMA LinkedBy ==
  ASSUME ListTyped, NEW t \in Tasks, NEW u \in Tasks \cup {Null}, LinkBefore(t, u)
  PROVE  Linked' = Linked \cup {t}
  BY TasksAssumption DEF ListTyped, LinkBefore, Linked, Null, Stub

LEMMA UnlinkedBy ==
  ASSUME ListTyped, Doubly(Linked, next_all, prev_all), NEW t \in Linked, Unlink(t)
  PROVE  Linked' = Linked \ {t}
<1>1. next_all[t] # Stub /\ t \in Tasks
  BY DEF Linked
<1>2. next_all' = [q \in Tasks |-> IF q = t THEN Stub ELSE IF q = prev_all[t] THEN next_all[t] ELSE next_all[q]]
  BY DEF Unlink
<1>3. prev_all[t] = Null \/ prev_all[t] \in Linked
  BY DEF Doubly
<1> QED  BY <1>1, <1>2, <1>3, TasksAssumption DEF Linked

(* A push is under way: link writes the list behind the head it swapped.   *)
LEMMA PushLinkList ==
  ASSUME IInv, TypeOK', NEW x \in Threads, PushLink(x)
  PROVE  ListOK' /\ Linked' = Linked \cup {thread[x].task}
<1>0. TasksAtHand /\ ListTyped /\ ListTyped' /\ Doubly(Linked, next_all, prev_all) /\ TopsOK /\ BaseOK
      /\ Linked \cap PushLinking = {}
  BY AtHand DEF IInv, TypeOK, ListOK, FuturesOK
<1>1. /\ PushLinking' = PushLinking \ {thread[x].task}
      /\ Pushers' = Pushers \ {x} /\ x \in Pushers /\ thread[x].task \in PushLinking
      /\ \A y \in Pushers' : thread'[y] = thread[y]
  BY CarriedNext
<1>2. PICK t \in PushLinking, u \in Linked \cup {Null} : t = thread[x].task /\ u = thread[x].ptr
  <2>1. thread[x].ptr # Null => next_all[thread[x].ptr] # Stub
    BY DEF PushLink
  <2>2. thread[x].ptr \in Linked \cup PushLinking \cup {Null}
    BY <1>0, <1>1 DEF TasksAtHand
  <2> QED  BY <1>0, <1>1, <2>1, <2>2 DEF Linked, TasksAtHand
<1>3. LinkBefore(t, u) /\ head_all' = head_all /\ t \in Tasks \ Linked /\ u \in Tasks \cup {Null} /\ t # u
  BY <1>0, <1>2 DEF PushLink, TasksAtHand, Linked
<1>4. Linked' = Linked \cup {t}
  BY <1>0, <1>3, LinkedBy
<1>5. u \in Tops /\ t \in Tops
  BY <1>0, <1>1, <1>2 DEF Tops, Pushers, TopsOK
<1>6. Tops' = Tops \ {u}
  <2>1. u # head_all /\ \A y \in Pushers \ {x} : thread[y].ptr # u
    BY <1>0, <1>1, <1>2 DEF TopsOK
  <2>2. Tops = {head_all} \cup {thread[y].ptr : y \in Pushers}
        /\ Tops' = {head_all'} \cup {thread'[y].ptr : y \in Pushers'}
    BY DEF Tops, Pushers
  <2> QED  BY <1>1, <1>2, <1>3, <2>1, <2>2
<1>7. u # Null => prev_all[u] = Null
  BY <1>0, <1>2, <1>5 DEF TopsOK
<1>8. Doubly(Linked', next_all', prev_all')
  <2>1. /\ next_all \in NextFunctions /\ next_all' \in NextFunctions
        /\ prev_all \in PrevFunctions /\ prev_all' \in PrevFunctions
    BY <1>0 DEF ListTyped, NextFunctions, PrevFunctions
  <2>2. /\ next_all' = [next_all EXCEPT ![t] = u]
        /\ prev_all' = IF u = Null THEN prev_all ELSE [prev_all EXCEPT ![u] = t]
    BY <1>3 DEF LinkBefore
  <2>3. Linked \in SUBSET Tasks
    BY DEF Linked
  <2> QED  BY <1>0, <1>2, <1>3, <1>4, <1>7, <2>1, <2>2, <2>3, LinkKeeps
<1>9. prev_all[t] = Null /\ prev_all'[t] = Null
  <2>1. prev_all[t] = Null
    BY <1>0, <1>3 DEF Doubly
  <2> QED  BY <1>0, <1>3, <2>1 DEF LinkBefore, ListTyped
<1>10. \A q \in Linked' : prev_all'[q] = Null <=> q \in Tops'
  <2> SUFFICES ASSUME NEW q \in Linked' PROVE prev_all'[q] = Null <=> q \in Tops'
    OBVIOUS
  <2>1. CASE q = t
    BY <1>3, <1>5, <1>6, <1>9, <2>1
  <2>2. CASE q = u /\ q # t
    <3>1. prev_all'[u] = t
      BY <1>0, <1>3, <1>4, <2>2 DEF LinkBefore, ListTyped, TasksAtHand, Linked
    <3> QED  BY <1>0, <1>3, <1>6, <2>2, <3>1 DEF TasksAtHand
  <2>3. CASE q # u /\ q # t
    <3>1. prev_all'[q] = prev_all[q] /\ q \in Linked
      BY <1>0, <1>3, <1>4, <2>3 DEF LinkBefore, ListTyped, Linked
    <3> QED  BY <1>0, <1>6, <2>3, <3>1 DEF TopsOK
  <2> QED  BY <2>1, <2>2, <2>3
<1>11. TopsOK'
  <2>1. ASSUME NEW y \in Pushers' PROVE thread'[y].ptr # head_all' /\ thread'[y].task \in Tops'
                 /\ \A z \in Pushers' \ {y} : thread'[z].ptr # thread'[y].ptr
    <3>1. thread[y].task \in PushLinking /\ y \in Pushers
      BY <1>0, <1>1 DEF Pushers, PushLinking, TasksAtHand
    <3>2. thread[y].task # u
      BY <1>0, <1>2, <3>1 DEF TasksAtHand
    <3> QED  BY <1>0, <1>1, <1>3, <1>6, <3>1, <3>2 DEF TopsOK
  <2>2. \A v \in Tops' : v # Null => v \in Linked' \cup PushLinking'
    BY <1>0, <1>1, <1>2, <1>4, <1>6 DEF TopsOK
  <2> QED  BY <1>10, <2>1, <2>2 DEF TopsOK
<1>12. BaseOK'
  <2>1. PICK b \in Tops : /\ Tops \ PushLinking = {b}
                          /\ b = Null <=> Linked = {}
                          /\ b # Null => len_all[b] = Cardinality(Linked)
    BY <1>0 DEF BaseOK
  <2>2. b = u
    BY <1>0, <1>2, <1>5, <2>1 DEF TasksAtHand
  <2>3. Tops' \ PushLinking' = {t}
    BY <1>1, <1>2, <1>3, <1>5, <1>6, <2>1, <2>2
  <2>4. IsFiniteSet(Linked') /\ Cardinality(Linked') = Cardinality(Linked) + 1
    BY <1>0, <1>3, <1>4, FS_AddElement DEF BaseOK
  <2>5. len_all'[t] = Cardinality(Linked')
    <3>1. len_all'[t] = IF u = Null THEN 1 ELSE len_all[u] + 1
      BY <1>0, <1>3 DEF LinkBefore, ListTyped
    <3>2. u = Null => Cardinality(Linked) = 0
      BY <2>1, <2>2, FS_EmptySet
    <3> QED  BY <2>1, <2>2, <2>4, <3>1, <3>2
  <2>6. t # Null /\ Linked' # {} /\ t \in Tops'
    BY <1>0, <1>3, <1>4, <2>3 DEF TasksAtHand
  <2> QED  BY <2>3, <2>4, <2>5, <2>6 DEF BaseOK
<1>13. Doubly(Linked, next_all, prev_all)'
  BY <1>8 DEF Doubly
<1> QED  BY <1>2, <1>4, <1>11, <1>12, <1>13 DEF ListOK

(* The owner links the task it has in hand, with the list to itself.       *)
LEMMA PendingList ==
  ASSUME IInv, TypeOK', Pending
  PROVE  ListOK' /\ Linked' = Linked \cup {owner.task} /\ CarriedSame /\ ListWhole
<1>0. TasksAtHand /\ ListTyped /\ ListTyped' /\ Doubly(Linked, next_all, prev_all)
      /\ Hand \cap (Linked \cup PushLinking) = {} /\ IsFiniteSet(Linked)
  BY AtHand DEF IInv, TypeOK, ListOK, FuturesOK, BaseOK
<1>1. ListWhole
  BY WholeWhenBusy DEF Pending
<1>2. CarriedSame
  BY OwnerQuiet, CarriedByNobody DEF OwnerOutside
<1>3. PICK t \in Tasks \ Linked, u \in Linked \cup {Null} : t = owner.task /\ u = head_all
  BY <1>0, <1>1 DEF Pending, InHand, Hand, TasksAtHand, ListWhole
<1>4. LinkBefore(t, u) /\ head_all' = t /\ u \in Tasks \cup {Null} /\ t # u
  BY <1>0, <1>3 DEF Pending, TasksAtHand, Linked
<1>5. Linked' = Linked \cup {t}
  BY <1>0, <1>4, LinkedBy
<1>6. Tops' = {t} /\ Pushers' = {} /\ PushLinking' = {}
  <2>1. Tops' = {head_all'} \cup {thread'[y].ptr : y \in Pushers'}
    BY DEF Tops, Pushers
  <2> QED  BY <1>1, <1>2, <1>4, <2>1 DEF ListWhole, CarriedSame
<1>7. u # Null => prev_all[u] = Null
  BY <1>1, <1>3 DEF ListWhole
<1>8. Doubly(Linked', next_all', prev_all')
  <2>1. /\ next_all \in NextFunctions /\ next_all' \in NextFunctions
        /\ prev_all \in PrevFunctions /\ prev_all' \in PrevFunctions
    BY <1>0 DEF ListTyped, NextFunctions, PrevFunctions
  <2>2. /\ next_all' = [next_all EXCEPT ![t] = u]
        /\ prev_all' = IF u = Null THEN prev_all ELSE [prev_all EXCEPT ![u] = t]
    BY <1>4 DEF LinkBefore
  <2>3. Linked \in SUBSET Tasks
    BY DEF Linked
  <2> QED  BY <1>0, <1>3, <1>4, <1>5, <1>7, <2>1, <2>2, <2>3, LinkKeeps
<1>9. prev_all[t] = Null /\ prev_all'[t] = Null
  <2>1. prev_all[t] = Null
    BY <1>0, <1>3 DEF Doubly
  <2> QED  BY <1>0, <1>3, <1>4, <2>1 DEF LinkBefore, ListTyped
<1>10. \A q \in Linked' : prev_all'[q] = Null <=> q \in Tops'
  <2> SUFFICES ASSUME NEW q \in Linked' PROVE prev_all'[q] = Null <=> q = t
    BY <1>6
  <2>1. CASE q = t
    BY <1>9, <2>1
  <2>2. CASE q = u /\ q # t
    <3>1. prev_all'[u] = t
      BY <1>0, <1>4, <1>5, <2>2 DEF LinkBefore, ListTyped, TasksAtHand, Linked
    <3> QED  BY <1>0, <1>3, <2>2, <3>1 DEF TasksAtHand
  <2>3. CASE q # u /\ q # t
    <3>1. prev_all'[q] = prev_all[q] /\ q \in Linked
      BY <1>0, <1>4, <1>5, <2>3 DEF LinkBefore, ListTyped, Linked
    <3> QED  BY <1>1, <1>3, <2>3, <3>1 DEF ListWhole
  <2> QED  BY <2>1, <2>2, <2>3
<1>11. TopsOK'
  BY <1>5, <1>6, <1>10 DEF TopsOK
<1>12. BaseOK'
  <2>1. IsFiniteSet(Linked') /\ Cardinality(Linked') = Cardinality(Linked) + 1
    BY <1>0, <1>3, <1>5, FS_AddElement
  <2>2. len_all'[t] = Cardinality(Linked')
    <3>1. len_all'[t] = IF u = Null THEN 1 ELSE len_all[u] + 1
      BY <1>0, <1>3, <1>4 DEF LinkBefore, ListTyped
    <3>2. u = Null => Cardinality(Linked) = 0
      BY <1>1, <1>3, FS_EmptySet DEF ListWhole
    <3> QED  BY <1>1, <1>3, <2>1, <3>1, <3>2 DEF ListWhole
  <2>3. t # Null /\ Linked' # {} /\ t \in Tops'
    BY <1>0, <1>3, <1>5, <1>6 DEF TasksAtHand
  <2> QED  BY <1>6, <2>1, <2>2, <2>3 DEF BaseOK
<1>13. Doubly(Linked, next_all, prev_all)'
  BY <1>8 DEF Doubly
<1> QED  BY <1>1, <1>2, <1>3, <1>5, <1>11, <1>12, <1>13 DEF ListOK

(* The owner takes a task out, from the head of the list or from within.   *)
LEMMA UnlinkList ==
  ASSUME IInv, TypeOK', ListWhole, thread' = thread, NEW t \in Linked, Unlink(t)
  PROVE  ListOK' /\ Linked' = Linked \ {t}
<1>0. TasksAtHand /\ ListTyped /\ ListTyped' /\ Doubly(Linked, next_all, prev_all) /\ IsFiniteSet(Linked)
  BY AtHand DEF IInv, TypeOK, ListOK, BaseOK
<1>1. Linked' = Linked \ {t}
  BY <1>0, UnlinkedBy
<1>2. head_all \in Linked /\ t \in Tasks /\ Null \notin Tasks
  BY <1>0 DEF ListWhole, Linked, TasksAtHand
<1>3. Tops' = {head_all'} /\ Pushers' = {} /\ PushLinking' = {}
  <2>1. Tops' = {head_all'} \cup {thread'[y].ptr : y \in Pushers'}
    BY DEF Tops, Pushers
  <2>2. Pushers' = Pushers /\ PushLinking' = PushLinking
    BY DEF Pushers, PushLinking
  <2> QED  BY <2>1, <2>2 DEF ListWhole
<1>4. /\ \A c \in Linked : next_all[c] # Null => next_all[c] \in Linked /\ prev_all[next_all[c]] = c
      /\ \A c \in Linked : prev_all[c] # Null => prev_all[c] \in Linked /\ next_all[prev_all[c]] = c
  BY <1>0 DEF Doubly
<1>5. /\ next_all' = [q \in Tasks |-> IF q = t THEN Stub ELSE IF q = prev_all[t] THEN next_all[t] ELSE next_all[q]]
      /\ prev_all' = [q \in Tasks |-> IF q = t THEN Null ELSE IF q = next_all[t] THEN prev_all[t] ELSE prev_all[q]]
      /\ head_all' = IF prev_all[t] = Null THEN next_all[t] ELSE head_all
  BY DEF Unlink
<1>6. Doubly(Linked', next_all', prev_all')
  <2>1. /\ next_all \in NextFunctions /\ next_all' \in NextFunctions
        /\ prev_all \in PrevFunctions /\ prev_all' \in PrevFunctions
    BY <1>0 DEF ListTyped, NextFunctions, PrevFunctions
  <2>2. Linked \in SUBSET Tasks
    BY DEF Linked
  <2> QED  BY <1>0, <1>1, <1>5, <2>1, <2>2, UnlinkKeeps
<1>7. ASSUME NEW q \in Linked \ {t} PROVE prev_all'[q] = Null <=> q = head_all'
  <2>1. q \in Tasks /\ prev_all'[q] = IF q = next_all[t] THEN prev_all[t] ELSE prev_all[q]
    BY <1>5 DEF Linked
  <2>2. prev_all[t] = Null <=> t = head_all
    BY DEF ListWhole
  <2>3. prev_all[q] = Null <=> q = head_all
    BY DEF ListWhole
  <2>4. q = next_all[t] => prev_all[q] = t
    BY <1>2, <1>4, <2>1
  <2> QED  BY <1>2, <1>5, <2>1, <2>2, <2>3, <2>4
<1>8. (head_all' = Null <=> Linked' = {}) /\ (head_all' # Null => head_all' \in Linked')
  <2>1. CASE prev_all[t] # Null
    BY <1>1, <1>2, <1>5, <2>1 DEF ListWhole
  <2>2. CASE prev_all[t] = Null /\ next_all[t] # Null
    <3>1. next_all[t] \in Linked /\ next_all[t] # t
      BY <1>4, <2>2
    <3> QED  BY <1>1, <1>5, <2>2, <3>1
  <2>3. CASE prev_all[t] = Null /\ next_all[t] = Null
    <3>1. Linked = {t}
      <4>1. \A c \in Linked : prev_all[c] = Null => c = t
        BY <2>3 DEF ListWhole
      <4>2. Linked \in SUBSET Tasks
        BY DEF Linked
      <4> QED  BY <1>0, <2>3, <4>1, <4>2, OneTop
    <3> QED  BY <1>1, <1>5, <2>3, <3>1
  <2> QED  BY <2>1, <2>2, <2>3
<1>9. TopsOK'
  BY <1>1, <1>3, <1>7, <1>8 DEF TopsOK
<1>10. BaseOK'
  <2>1. IsFiniteSet(Linked') /\ Cardinality(Linked') = Cardinality(Linked) - 1
    BY <1>0, <1>1, FS_RemoveElement
  <2>2. head_all' # Null => len_all'[head_all'] = len_all[head_all] - 1
    BY <1>0, <1>1, <1>8 DEF Unlink, ListTyped, Linked
  <2> QED  BY <1>2, <1>3, <1>8, <2>1, <2>2 DEF BaseOK, ListWhole
<1>11. Doubly(Linked, next_all, prev_all)'
  BY <1>6 DEF Doubly
<1> QED  BY <1>1, <1>9, <1>10, <1>11 DEF ListOK

(* A step that leaves the list and the pushes alone.                       *)
LEMMA ListStays ==
  ASSUME IInv, CarriedSame, UNCHANGED allVars
  PROVE  ListOK' /\ Linked' = Linked
<1>1. Linked' = Linked
  BY DEF Linked, allVars
<1>2. Tops' = Tops
  <2>1. Tops = {head_all} \cup {thread[y].ptr : y \in Pushers}
        /\ Tops' = {head_all'} \cup {thread'[y].ptr : y \in Pushers'}
    BY DEF Tops, Pushers
  <2> QED  BY <2>1 DEF CarriedSame, allVars
<1>3. TopsOK'
  BY <1>1, <1>2 DEF IInv, ListOK, TopsOK, CarriedSame, allVars
<1>4. BaseOK'
  BY <1>1, <1>2 DEF IInv, ListOK, BaseOK, CarriedSame, allVars
<1>5. Doubly(Linked', next_all', prev_all')
  BY <1>1 DEF IInv, ListOK, allVars
<1> QED  BY <1>1, <1>3, <1>4, <1>5 DEF ListOK, Doubly

LEMMA PushList ==
  ASSUME IInv, TypeOK', NEW x \in Threads, NEW t \in Tasks, Push(x, t)
  PROVE  ListOK' /\ Linked' = Linked /\ t \notin Linked \cup PushLinking
<1>0. TasksAtHand /\ TopsOK /\ BaseOK /\ SetsTyped
  BY AtHand DEF IInv, TypeOK, ListOK
<1>1. /\ PushLinking' = PushLinking \cup {t}
      /\ Pushers' = Pushers \cup {x} /\ x \notin Pushers
      /\ thread'[x].task = t /\ thread'[x].ptr = head_all
      /\ \A y \in Pushers : thread'[y] = thread[y]
  BY CarriedNext
<1>2. head_all' = t /\ UNCHANGED <<next_all, prev_all, len_all>> /\ t \notin born
  BY DEF Push
<1>3. Linked' = Linked
  BY <1>2 DEF Linked
<1>4. t \notin Linked \cup PushLinking
  BY <1>0, <1>2 DEF IInv, FuturesOK, SetsTyped
<1>5. t # Null /\ t \notin Tops
  BY <1>0, <1>4 DEF TasksAtHand, TopsOK
<1>6. Tops' = Tops \cup {t} /\ head_all \in Tops
  <2>1. Tops = {head_all} \cup {thread[y].ptr : y \in Pushers}
        /\ Tops' = {head_all'} \cup {thread'[y].ptr : y \in Pushers'}
    BY DEF Tops, Pushers
  <2> QED  BY <1>1, <1>2, <2>1
<1>7. \A y \in Pushers : thread[y].ptr \in Tops
  BY DEF Tops, Pushers
<1>8. TopsOK'
  <2>1. ASSUME NEW y \in Pushers' PROVE thread'[y].ptr # head_all' /\ thread'[y].task \in Tops'
                 /\ \A z \in Pushers' \ {y} : thread'[z].ptr # thread'[y].ptr
    BY <1>0, <1>1, <1>2, <1>5, <1>6, <1>7 DEF TopsOK
  <2>2. \A q \in Linked : prev_all[q] = Null <=> q \in Tops'
    BY <1>0, <1>4, <1>6 DEF TopsOK
  <2>3. \A v \in Tops' : v # Null => v \in Linked \cup PushLinking'
    BY <1>0, <1>1, <1>6 DEF TopsOK
  <2> QED  BY <1>2, <1>3, <2>1, <2>2, <2>3 DEF TopsOK
<1>9. BaseOK'
  <2>1. Tops' \ PushLinking' = Tops \ PushLinking
    BY <1>1, <1>5, <1>6
  <2> QED  BY <1>0, <1>2, <1>3, <1>6, <2>1 DEF BaseOK
<1>10. Doubly(Linked', next_all', prev_all')
  BY <1>2, <1>3 DEF IInv, ListOK
<1> QED  BY <1>3, <1>4, <1>8, <1>9, <1>10 DEF ListOK, Doubly

LEMMA FuturesStay ==
  ASSUME IInv, CarriedSame, Linked' = Linked, Hand' = Hand, UNCHANGED <<future, is_terminated>>,
         owner'.pc = "gone" => owner.pc = "gone"
  PROVE  FuturesOK'
  BY DEF IInv, FuturesOK, CarriedSame

LEMMA ListKept ==
  ASSUME IInv, TypeOK', Next
  PROVE  ListOK' /\ FuturesOK'
<1>0. OwnerTyped /\ TasksAtHand /\ FuturesOK /\ SetsTyped
  BY AtHand DEF IInv, TypeOK, ActorsTyped
<1>1. ASSUME NEW x \in Threads,
             WakeMark(x) \/ EnqueueLink(x) \/ WakeParent(x) \/ WakeReturn(x) \/ EnqueueSwap(x)
             \/ (\E t \in Tasks : Wake(x, t)) \/ WakeSwap(x)
      PROVE  ListOK' /\ FuturesOK'
  <2>1. UNCHANGED <<PushLinking, Pushers>> /\ \A y \in Pushers : thread'[y] = thread[y]
    BY <1>1, CarriedNext DEF CarriedSame
  <2>2. UNCHANGED allVars /\ UNCHANGED <<future, is_terminated, owner>>
    BY <1>1 DEF WakeMark, EnqueueLink, WakeParent, WakeReturn, EnqueueSwap, Wake, WakeSwap
  <2>3. Linked' = Linked /\ Tops' = Tops /\ Hand' = Hand
    <3>1. Tops = {head_all} \cup {thread[y].ptr : y \in Pushers}
          /\ Tops' = {head_all'} \cup {thread'[y].ptr : y \in Pushers'}
      BY DEF Tops, Pushers
    <3> QED  BY <2>1, <2>2, <3>1 DEF Linked, Hand, InHand, allVars
  <2>4. TopsOK' /\ BaseOK'
    BY <2>1, <2>2, <2>3 DEF IInv, ListOK, TopsOK, BaseOK, allVars
  <2>5. Doubly(Linked', next_all', prev_all')
    BY <2>2, <2>3 DEF IInv, ListOK, allVars
  <2>6. FuturesOK'
    BY <1>0, <2>1, <2>2, <2>3 DEF FuturesOK
  <2> QED  BY <2>4, <2>5, <2>6 DEF ListOK, Doubly
<1>2. ASSUME NEW x \in Threads, PushLink(x) PROVE ListOK' /\ FuturesOK'
  <2>1. ListOK' /\ Linked' = Linked \cup {thread[x].task}
    BY <1>2, PushLinkList
  <2>2. PushLinking' = PushLinking \ {thread[x].task} /\ thread[x].task \in PushLinking
    BY <1>2, CarriedNext
  <2>3. UNCHANGED <<future, is_terminated, owner>>
    BY <1>2 DEF PushLink
  <2>4. Hand' = Hand
    BY <2>3 DEF Hand, InHand
  <2> QED  BY <1>0, <2>1, <2>2, <2>3, <2>4 DEF FuturesOK
<1>3. ASSUME NEW x \in Threads, NEW t \in Tasks, Push(x, t) PROVE ListOK' /\ FuturesOK'
  <2>1. ListOK' /\ Linked' = Linked /\ t \notin Linked \cup PushLinking
    BY <1>3, PushList
  <2>2. PushLinking' = PushLinking \cup {t}
    BY <1>3, CarriedNext
  <2>3. future' = future \cup {t} /\ is_terminated' = FALSE /\ owner' = owner /\ owner.pc = "idle"
    BY <1>3 DEF Push
  <2>4. Hand' = {} /\ Hand = {}
    BY <2>3 DEF Hand, InHand
  <2> QED  BY <1>0, <2>1, <2>2, <2>3, <2>4 DEF FuturesOK
<1>4. ASSUME OwnerOutside \/ Dequeue PROVE CarriedSame /\ thread' = thread
  <2>1. thread' = thread
    BY <1>4, OwnerQuiet DEF Dequeue, DequeueStub, DequeueTask, DequeueHead, StubSwap, StubLink,
       DequeueLast,
       DequeueUnchanged, SharedUnchanged
  <2> QED  BY <2>1, CarriedByNobody
<1>5. ASSUME TakeOut PROVE ListOK' /\ FuturesOK'
  <2>1. ListWhole /\ owner.task \in Linked
    BY <1>5, WholeWhenBusy, TakenOutIsLinked DEF TakeOut
  <2>2. ListOK' /\ Linked' = Linked \ {owner.task} /\ CarriedSame
    BY <1>4, <1>5, <2>1, UnlinkList DEF TakeOut, OwnerOutside
  <2>3. owner'.pc = "begin" /\ owner'.task = owner.task /\ owner.pc = "data"
    BY <1>0, <1>5, PollMoves DEF OwnerMoves
  <2>4. Hand' = {owner.task} /\ Hand = {}
    BY <2>3 DEF Hand, InHand
  <2>5. UNCHANGED <<future, is_terminated>>
    BY <1>5 DEF TakeOut, PollUnchanged
  <2> QED  BY <1>0, <2>1, <2>2, <2>3, <2>4, <2>5 DEF FuturesOK, CarriedSame, ListWhole
<1>6. ASSUME DropHead PROVE ListOK' /\ FuturesOK'
  <2>1. ListWhole /\ head_all \in Linked
    BY <1>6, WholeWhenBusy DEF DropHead, ListWhole
  <2>2. ListOK' /\ Linked' = Linked \ {head_all} /\ CarriedSame
    BY <1>4, <1>6, <2>1, UnlinkList DEF DropHead, OwnerOutside
  <2>3. owner'.pc = "drop_release" /\ owner'.task = head_all /\ owner.pc = "drop"
    BY <1>0, <1>6, DropMoves DEF OwnerMoves
  <2>4. Hand' = {head_all} /\ Hand = {}
    BY <2>3 DEF Hand, InHand
  <2>5. UNCHANGED <<future, is_terminated>>
    BY <1>6 DEF DropHead, PollUnchanged
  <2> QED  BY <1>0, <2>1, <2>2, <2>3, <2>4, <2>5 DEF FuturesOK, CarriedSame, ListWhole
<1>7. ASSUME Pending PROVE ListOK' /\ FuturesOK'
  <2>1. ListOK' /\ Linked' = Linked \cup {owner.task} /\ CarriedSame /\ ListWhole
    BY <1>7, PendingList
  <2>2. owner'.pc \in {"idle", "dequeue"} /\ owner.pc = "polling"
    BY <1>0, <1>7, PollMoves DEF OwnerMoves
  <2>3. Hand' = {} /\ Hand = {owner.task}
    BY <2>2 DEF Hand, InHand
  <2>4. UNCHANGED <<future, is_terminated>>
    BY <1>7 DEF Pending, PollUnchanged
  <2> QED  BY <1>0, <2>1, <2>2, <2>3, <2>4 DEF FuturesOK, CarriedSame, ListWhole
<1>8. ASSUME Release PROVE ListOK' /\ FuturesOK'
  <2>1. ListOK' /\ Linked' = Linked /\ CarriedSame
    BY <1>4, <1>8, ListStays DEF Release, OwnerOutside
  <2>2. owner'.pc \in {"idle", "drop"} /\ owner.pc \in {"clear", "drop_clear"}
    BY <1>0, <1>8, DropMoves DEF OwnerMoves
  <2>3. Hand' = {} /\ Hand = {owner.task}
    BY <2>2 DEF Hand, InHand
  <2>4. future' = future \ {owner.task} /\ is_terminated' = is_terminated
    BY <1>8 DEF Release, PollUnchanged
  <2> QED  BY <1>0, <2>1, <2>2, <2>3, <2>4 DEF FuturesOK, CarriedSame
<1>9. ASSUME DropQueue PROVE ListOK' /\ FuturesOK'
  <2>1. ListOK' /\ Linked' = Linked /\ CarriedSame
    BY <1>4, <1>9, ListStays DEF DropQueue, OwnerOutside
  <2>2. ListWhole /\ head_all = Null /\ UNCHANGED <<future, is_terminated>>
    BY <1>9, WholeWhenBusy DEF DropQueue
  <2>3. owner'.pc = "gone" /\ owner.pc = "drop"
    BY <1>0, <1>9, DropMoves DEF OwnerMoves
  <2>4. Hand' = {} /\ Hand = {}
    BY <2>3 DEF Hand, InHand
  <2> QED  BY <1>0, <2>1, <2>2, <2>3, <2>4 DEF FuturesOK, CarriedSame, ListWhole
<1>10. ASSUME Register \/ CleanOut \/ BeginPoll \/ Finish("ready") \/ Finish("panic") \/ ReleaseSwap
              \/ PollNext \/ StartDrop \/ Deliver \/ (\E t \in Tasks : DropWaker(t))
       PROVE  ListOK' /\ FuturesOK'
  <2>1. UNCHANGED allVars /\ UNCHANGED <<future, is_terminated>>
    BY <1>10 DEF Register, CleanOut, BeginPoll, Finish, ReleaseSwap, PollNext, StartDrop, Deliver,
       DropWaker,
                 PollUnchanged
  <2>2. ListOK' /\ Linked' = Linked /\ CarriedSame
    BY <1>4, <1>10, <2>1, ListStays DEF OwnerOutside
  <2>3. Hand' = Hand /\ (owner'.pc = "gone" => owner.pc = "gone")
    <3>1. Register \/ CleanOut \/ PollNext \/ StartDrop => /\ ~InHand /\ ~InHand' /\ owner'.pc # "gone"
      BY <1>0, PollMoves, DropMoves DEF OwnerMoves, InHand
    <3>2. BeginPoll \/ Finish("ready") \/ Finish("panic") \/ ReleaseSwap =>
            InHand /\ InHand' /\ owner'.task = owner.task /\ owner'.pc # "gone"
      BY <1>0, PollMoves, DropMoves DEF OwnerMoves, InHand
    <3>3. Deliver \/ (\E t \in Tasks : DropWaker(t)) => owner' = owner
      BY DEF Deliver, DropWaker
    <3> QED  BY <1>10, <3>1, <3>2, <3>3 DEF Hand, InHand
  <2> QED  BY <2>1, <2>2, <2>3, FuturesStay
<1>11. ASSUME Dequeue PROVE ListOK' /\ FuturesOK'
  <2>1. UNCHANGED allVars /\ future' = future
    BY <1>11 DEF Dequeue, DequeueStub, DequeueTask, DequeueHead, StubSwap, StubLink, DequeueLast,
       DequeueUnchanged
  <2>2. ListOK' /\ Linked' = Linked /\ CarriedSame
    BY <1>4, <1>11, <2>1, ListStays
  <2>3. ~InHand /\ ~InHand' /\ owner'.pc # "gone" /\ owner.pc # "idle"
    BY <1>0, <1>11, DequeueMoves DEF Dequeue, OwnerMoves, InHand
  <2>4. is_terminated' = is_terminated \/ (is_terminated' /\ head_all = Null) \/ ~is_terminated'
    BY <1>11 DEF Dequeue, DequeueStub, DequeueTask, DequeueHead, StubSwap, StubLink, DequeueLast,
       Empty, Found,
       Inconsistent
  <2>5. head_all = Null => Linked = {} /\ PushLinking = {}
    BY <2>3, WholeWhenBusy DEF ListWhole
  <2>6. Hand = {} /\ Hand' = {}
    BY <2>3 DEF Hand
  <2>7. is_terminated' => future = {}
    BY <1>0, <2>4, <2>5, <2>6 DEF FuturesOK
  <2> QED  BY <1>0, <2>1, <2>2, <2>3, <2>6, <2>7 DEF FuturesOK, CarriedSame
<1> QED
  BY <1>1, <1>2, <1>3, <1>5, <1>6, <1>7, <1>8, <1>9, <1>10, <1>11 DEF Next, ThreadStep, OwnerStep

------------------------------------------------------------------------------
(* References                                                              *)

(* The queue's list stands for the reference of t.                         *)
Standing(t) == queue_refs # 0 /\ t \notin future /\ InQueue(t)
CountOK(t) == strong[t] = Bit(t \in future) + Bit(Standing(t)) + Bit(t \in waker)
QueueRefsOK == IsFiniteSet(Wakers) /\ queue_refs = Bit(owner.pc # "gone") + Cardinality(Wakers)

LEMMA RefsParts == RefsOK <=> QueueRefsOK /\ (\A t \in Tasks : CountOK(t)) /\ ~aborted
  BY DEF RefsOK, QueueRefsOK, CountOK, Standing

LEMMA WakersNext ==
  ASSUME IInv, TypeOK', NEW x \in Threads
  PROVE
  /\ ThreadStep(x) /\ ~WakeReturn(x) => Wakers' = Wakers
  /\ WakeReturn(x) => Wakers' = Wakers \ {x} /\ x \in Wakers
  /\ \A t \in Tasks : Push(x, t) => Wakers' = Wakers
  /\ \A t \in Tasks : Wake(x, t) => IF queue_refs = 0 THEN Wakers' = Wakers
                                    ELSE Wakers' = Wakers \cup {x} /\ x \notin Wakers
<1>0. ThreadTyped /\ ThreadTyped' /\ ThreadsOK
  BY DEF IInv, TypeOK, ActorsTyped
<1>1. ASSUME \A y \in Threads \ {x} : thread'[y] = thread[y], Waking(x)' <=> Waking(x)
      PROVE  Wakers' = Wakers
  BY <1>1 DEF Wakers, Waking
<1>2. PushLink(x) \/ WakeMark(x) \/ WakeSwap(x) \/ EnqueueSwap(x) \/ WakeParent(x) => Wakers' = Wakers
  BY <1>0, <1>1, ThreadEffects DEF ThreadMoves, Waking
<1>3. EnqueueLink(x) => Wakers' = Wakers
  <2>1. CASE Pushing(x)
    BY <1>0, <1>1, <2>1, ThreadEffects DEF ThreadMoves, Waking, Pushing
  <2>2. CASE ~Pushing(x)
    BY <1>0, <1>1, <2>2, ThreadEffects DEF ThreadMoves, Waking, Pushing
  <2> QED  BY <2>1, <2>2
<1>4. WakeReturn(x) => Wakers' = Wakers \ {x} /\ x \in Wakers
  BY <1>0, ThreadEffects DEF ThreadMoves, Wakers, Waking, ThreadsOK
<1>5. ASSUME NEW t \in Tasks, Push(x, t) PROVE Wakers' = Wakers
  BY <1>0, <1>1, <1>5, ThreadEffects DEF ThreadMoves, Waking, ThreadsOK
<1>6. ASSUME NEW t \in Tasks, Wake(x, t)
      PROVE  IF queue_refs = 0 THEN Wakers' = Wakers ELSE Wakers' = Wakers \cup {x} /\ x \notin Wakers
  <2>1. CASE queue_refs = 0
    BY <1>0, <1>6, <2>1, ThreadEffects DEF Wakers, Waking
  <2>2. CASE queue_refs # 0
    <3>1. ThreadMoves(x, "mark", t, Null, "wake") /\ thread[x].pc = "idle"
      BY <1>0, <1>6, <2>2, ThreadEffects
    <3> QED  BY <1>0, <2>2, <3>1 DEF ThreadMoves, Wakers, Waking, ThreadsOK
  <2> QED  BY <2>1, <2>2
<1> QED  BY <1>2, <1>3, <1>4, <1>5, <1>6 DEF ThreadStep

LEMMA QueueRefsKept ==
  ASSUME IInv, TypeOK', Next
  PROVE  QueueRefsOK'
<1>0. OwnerTyped /\ QueueRefsOK /\ queue_refs \in Int /\ Cardinality(Wakers) \in Nat
  BY RefsParts, FS_CardinalityType DEF IInv, TypeOK, ActorsTyped, MemTyped, QueueRefsOK
<1>1. ASSUME NEW x \in Threads, ThreadStep(x), ~WakeReturn(x) PROVE QueueRefsOK'
  <2>1. UNCHANGED <<owner, queue_refs>>
    BY <1>1 DEF ThreadStep, PushLink, WakeMark, WakeSwap, EnqueueSwap, EnqueueLink, WakeParent,
       memVars
  <2> QED  BY <1>0, <1>1, <2>1, WakersNext DEF QueueRefsOK, Bit
<1>2. ASSUME NEW x \in Threads, WakeReturn(x) PROVE QueueRefsOK'
  <2>1. Wakers' = Wakers \ {x} /\ x \in Wakers /\ owner' = owner /\ queue_refs' = queue_refs - 1
    BY <1>2, WakersNext DEF WakeReturn, UnrefQueue
  <2>2. IsFiniteSet(Wakers') /\ Cardinality(Wakers') = Cardinality(Wakers) - 1
    BY <1>0, <2>1, FS_RemoveElement DEF QueueRefsOK
  <2> QED  BY <1>0, <2>1, <2>2 DEF QueueRefsOK, Bit
<1>3. ASSUME NEW x \in Threads, NEW t \in Tasks, Push(x, t) PROVE QueueRefsOK'
  BY <1>0, <1>3, WakersNext DEF Push, QueueRefsOK, Bit
<1>4. ASSUME NEW x \in Threads, NEW t \in Tasks, Wake(x, t) PROVE QueueRefsOK'
  <2>1. CASE queue_refs = 0
    BY <1>0, <1>4, <2>1, WakersNext DEF Wake, QueueRefsOK, Bit
  <2>2. CASE queue_refs # 0
    <3>1. Wakers' = Wakers \cup {x} /\ x \notin Wakers /\ owner' = owner /\ queue_refs' = queue_refs + 1
      BY <1>4, <2>2, WakersNext DEF Wake
    <3>2. IsFiniteSet(Wakers') /\ Cardinality(Wakers') = Cardinality(Wakers) + 1
      BY <1>0, <3>1, FS_AddElement DEF QueueRefsOK
    <3> QED  BY <1>0, <3>1, <3>2 DEF QueueRefsOK, Bit
  <2> QED  BY <2>1, <2>2
<1>5. ASSUME DropQueue PROVE QueueRefsOK'
  <2>1. thread' = thread /\ queue_refs' = queue_refs - 1 /\ owner.pc = "drop" /\ owner'.pc = "gone"
    BY <1>0, <1>5, DropMoves DEF DropQueue, UnrefQueue, OwnerMoves
  <2>2. Wakers' = Wakers
    BY <2>1 DEF Wakers, Waking
  <2> QED  BY <1>0, <2>1, <2>2 DEF QueueRefsOK, Bit
<1>6. ASSUME (OwnerOutside /\ ~DropQueue) \/ Dequeue PROVE QueueRefsOK'
  <2>1. UNCHANGED <<thread, queue_refs>>
    BY <1>6 DEF OwnerOutside, Register, CleanOut, TakeOut, BeginPoll, Pending, Finish, ReleaseSwap,
       Release, DropHead,
         PollNext, StartDrop, Deliver, DropWaker, PollUnchanged, SharedUnchanged, memVars, Dequeue, DequeueStub,
         DequeueTask, DequeueHead, StubSwap, StubLink, DequeueLast, DequeueUnchanged
  <2>2. Wakers' = Wakers
    BY <2>1 DEF Wakers, Waking
  <2>3. owner'.pc = owner.pc \/ (owner.pc # "gone" /\ owner'.pc # "gone")
    <3>1. Dequeue => owner'.pc = owner.pc \/ (owner.pc # "gone" /\ owner'.pc # "gone")
      BY <1>0, DequeueMoves DEF Dequeue, OwnerMoves
    <3>2. OwnerOutside /\ ~DropQueue => owner'.pc = owner.pc \/ (owner.pc # "gone" /\ owner'.pc # "gone")
      BY <1>0, PollMoves, DropMoves DEF OwnerOutside, OwnerMoves, Deliver, DropWaker
    <3> QED  BY <1>6, <3>1, <3>2
  <2> QED  BY <1>0, <2>1, <2>2, <2>3 DEF QueueRefsOK, Bit
<1> QED
  BY <1>1, <1>2, <1>3, <1>4, <1>5, <1>6 DEF Next, ThreadStep, OwnerStep, OwnerOutside

(* Nobody is enqueuing or dequeuing any more: dropping the queue finds     *)
(* what is in it.                                                          *)
LEMMA QueueAtRest ==
  ASSUME IInv, Linking = {}, owner.pc # "stub_link"
  PROVE  ReadyNodes = QueueNodes /\ head \in ReadyNodes
<1>1. Behind = Links
  <2>1. \A p \in Nodes : Behind[p] = Links[p]
    BY DEF Behind, Linking
  <2> QED  BY <2>1 DEF Behind, Links
<1> QED  BY <1>1 DEF ReadyNodes, QueueNodes, IInv, QueueOK, Chain

LEMMA UnrefKeeps ==
  ASSUME IInv, UnrefQueue, UNCHANGED <<future, waker>>, \A t \in Tasks : InQueue(t)' <=> InQueue(t),
         queue_refs > 0,
         queue_refs = 1 => /\ Linking = {} /\ Enqueuing = {} /\ future = {}
                           /\ owner.pc \notin {"stub_link", "data"}
  PROVE  (\A t \in Tasks : CountOK(t)') /\ ~aborted'
<1>0. (\A t \in Tasks : CountOK(t)) /\ ~aborted /\ strong \in [Tasks -> Int] /\ queue_refs \in Int
  BY RefsParts DEF IInv, TypeOK, MemTyped
<1>1. CASE queue_refs # 1
  <2>1. queue_refs' # 0
    BY <1>0, <1>1 DEF UnrefQueue
  <2>2. \A t \in Tasks : strong'[t] = strong[t]
    BY <1>0, <1>1 DEF UnrefQueue
  <2>3. \A t \in Tasks : CountOK(t)'
    BY <1>0, <2>1, <2>2 DEF CountOK, Standing, Bit
  <2>4. ~aborted'
    BY <1>0, <1>1 DEF UnrefQueue
  <2> QED  BY <2>3, <2>4
<1>2. CASE queue_refs = 1
  <2>1. ReadyNodes = QueueNodes /\ head \in ReadyNodes
    BY <1>2, QueueAtRest
  <2>2. queue_refs' = 0 /\ \A t \in Tasks : strong'[t] = IF t \in QueueNodes THEN strong[t] - 1 ELSE strong[t]
    BY <1>2, <2>1 DEF UnrefQueue
  <2>3. \A t \in Tasks : Standing(t) <=> t \in QueueNodes
    BY <1>2 DEF Standing, InQueue
  <2>4. ASSUME NEW t \in Tasks PROVE CountOK(t)'
    <3>1. ~Standing(t)'
      BY <2>2 DEF Standing
    <3>2. strong[t] = Bit(t \in future) + Bit(t \in QueueNodes) + Bit(t \in waker)
      BY <1>0, <2>3 DEF CountOK, Bit
    <3>3. strong'[t] = Bit(t \in future) + Bit(t \in waker)
      BY <2>2, <3>2 DEF Bit
    <3> QED  BY <3>1, <3>3 DEF CountOK, Bit
  <2>5. ~aborted'
    BY <1>0, <2>1 DEF UnrefQueue
  <2> QED  BY <2>4, <2>5
<1> QED  BY <1>1, <1>2

LEMMA CountsKept ==
  ASSUME IInv, TypeOK', Next
  PROVE  (\A t \in Tasks : CountOK(t)') /\ ~aborted'
<1>0. /\ OwnerTyped /\ TasksAtHand /\ SetsTyped /\ FlagsOK /\ PlacesOK /\ ThreadsOK /\ QueueRefsOK
      /\ (\A t \in Tasks : CountOK(t)) /\ ~aborted /\ strong \in [Tasks -> Int] /\ queue_refs \in Int
      /\ Cardinality(Wakers) \in Nat
  BY AtHand, RefsParts, FS_CardinalityType DEF IInv, TypeOK, ActorsTyped, MemTyped, QueueRefsOK
<1>1. ASSUME NEW x \in Threads,
             WakeMark(x) \/ EnqueueLink(x) \/ WakeParent(x)
             \/ (\E t \in Tasks : Wake(x, t)) \/ (WakeSwap(x) /\ queued[thread[x].task])
      PROVE  (\A t \in Tasks : CountOK(t)') /\ ~aborted'
  <2>1. QueueStays /\ owner' = owner /\ CarriedSame
    BY <1>1, CarryingStays, CarriedNext
  <2>2. UNCHANGED <<strong, future, waker, aborted>>
    BY <1>1 DEF WakeMark, EnqueueLink, WakeParent, Wake, WakeSwap, memVars
  <2>3. queue_refs' = queue_refs \/ (queue_refs # 0 /\ queue_refs' # 0)
    <3>1. (\E t \in Tasks : Wake(x, t)) => queue_refs' = queue_refs \/ (queue_refs > 0 /\ queue_refs' = queue_refs + 1)
      BY <1>0 DEF Wake, QueueRefsOK, Bit
    <3> QED  BY <1>0, <1>1, <3>1 DEF WakeMark, EnqueueLink, WakeParent, WakeSwap, memVars
  <2>4. \A t \in Tasks : Standing(t)' <=> Standing(t)
    BY <2>1, <2>2, <2>3 DEF Standing, InQueue, QueueStays, CarriedSame
  <2> QED  BY <1>0, <2>2, <2>4 DEF CountOK, Bit
<1>2. ASSUME NEW x \in Threads, PushLink(x) \/ (WakeSwap(x) /\ ~queued[thread[x].task])
      PROVE  (\A t \in Tasks : CountOK(t)') /\ ~aborted'
  <2>1. QueueStays /\ owner' = owner
    BY <1>2, ThreadQuiet, QuietQueue DEF ThreadOutside
  <2>2. Enqueuing' = Enqueuing \cup {thread[x].task}
    BY <1>2, CarriedNext
  <2>3. thread[x].task \in future
    <3>1. PushLink(x) => thread[x].task \in future
      BY CarriedNext DEF IInv, FuturesOK
    <3>2. WakeSwap(x) /\ ~queued[thread[x].task] => thread[x].task \in future
      BY <1>0 DEF WakeSwap, FlagsOK, TasksAtHand
    <3> QED  BY <1>2, <3>1, <3>2
  <2>4. UNCHANGED <<strong, future, waker, aborted, queue_refs>>
    BY <1>2 DEF PushLink, WakeSwap, memVars
  <2>5. \A t \in Tasks : Standing(t)' <=> Standing(t)
    BY <2>1, <2>2, <2>3, <2>4 DEF Standing, InQueue, QueueStays
  <2> QED  BY <1>0, <2>4, <2>5 DEF CountOK, Bit
<1>3. ASSUME NEW x \in Threads, EnqueueSwap(x)
      PROVE  (\A t \in Tasks : CountOK(t)') /\ ~aborted'
  <2>1. QueueGains(thread[x].task) /\ owner' = owner
    BY <1>3, EnqueueSwapEffect
  <2>2. Enqueuing' = Enqueuing \ {thread[x].task} /\ thread[x].task \in Enqueuing
    BY <1>3, CarriedNext
  <2>3. QueueNodes' \cup Enqueuing' = QueueNodes \cup Enqueuing
    BY <2>1, <2>2 DEF QueueGains
  <2>4. UNCHANGED <<strong, future, waker, aborted, queue_refs>>
    BY <1>3 DEF EnqueueSwap, memVars
  <2>5. \A t \in Tasks : Standing(t)' <=> Standing(t)
    BY <2>1, <2>3, <2>4 DEF Standing, InQueue
  <2> QED  BY <1>0, <2>4, <2>5 DEF CountOK, Bit
<1>4. ASSUME NEW x \in Threads, NEW t \in Tasks, Push(x, t)
      PROVE  (\A q \in Tasks : CountOK(q)') /\ ~aborted'
  <2>1. QueueStays /\ owner' = owner /\ Enqueuing' = Enqueuing
    BY <1>4, ThreadQuiet, QuietQueue, CarriedNext DEF ThreadOutside
  <2>2. /\ strong' = [strong EXCEPT ![t] = 1] /\ future' = future \cup {t} /\ t \notin born
        /\ UNCHANGED <<waker, aborted, queue_refs>>
    BY <1>4 DEF Push
  <2>3. \A q \in Tasks \ {t} : strong'[q] = strong[q] /\ (Standing(q)' <=> Standing(q))
    BY <1>0, <2>1, <2>2 DEF Standing, InQueue, QueueStays
  <2>4. strong'[t] = 1 /\ ~Standing(t)' /\ t \in future' /\ t \notin waker
    BY <1>0, <2>2 DEF Standing, SetsTyped
  <2>5. ASSUME NEW q \in Tasks PROVE CountOK(q)'
    <3>1. CASE q = t
      BY <2>2, <2>4, <3>1 DEF CountOK, Bit
    <3>2. CASE q # t
      BY <1>0, <2>2, <2>3, <3>2 DEF CountOK, Bit
    <3> QED  BY <3>1, <3>2
  <2> QED  BY <1>0, <2>2, <2>5
<1>5. ASSUME NEW x \in Threads, WakeReturn(x)
      PROVE  (\A t \in Tasks : CountOK(t)') /\ ~aborted'
  <2>1. QueueStays /\ owner' = owner /\ CarriedSame
    BY <1>5, CarryingStays, CarriedNext
  <2>2. UnrefQueue /\ UNCHANGED <<future, waker>>
    BY <1>5 DEF WakeReturn
  <2>3. \A t \in Tasks : InQueue(t)' <=> InQueue(t)
    BY <2>1 DEF InQueue, QueueStays, CarriedSame
  <2>4. x \in Wakers
    BY <1>5, WakersNext
  <2>5. PICK n \in Nat : n = Cardinality(Wakers) /\ IsFiniteSet(Wakers \ {x})
                         /\ Cardinality(Wakers \ {x}) = n - 1 /\ n - 1 \in Nat
    <3>1. IsFiniteSet(Wakers \ {x}) /\ Cardinality(Wakers \ {x}) = Cardinality(Wakers) - 1
      BY <1>0, <2>4, FS_RemoveElement DEF QueueRefsOK
    <3>2. Cardinality(Wakers \ {x}) \in Nat
      BY <3>1, FS_CardinalityType
    <3> QED  BY <1>0, <3>1, <3>2
  <2>6. queue_refs > 0
    BY <1>0, <2>5 DEF QueueRefsOK, Bit
  <2>7. ASSUME queue_refs = 1
        PROVE  Linking = {} /\ Enqueuing = {} /\ future = {} /\ owner.pc \notin {"stub_link", "data"}
    <3>1. owner.pc = "gone" /\ Cardinality(Wakers \ {x}) = 0
      BY <1>0, <2>5, <2>7 DEF QueueRefsOK, Bit
    <3>2. Wakers \ {x} = {}
      BY <2>5, <3>1, FS_EmptySet
    <3>3. \A y \in Threads : thread[y].pc \in {"idle", "unref"}
      <4>1. thread[x].pc = "unref"
        BY <1>5 DEF WakeReturn
      <4>2. ASSUME NEW y \in Threads \ {x} PROVE thread[y].pc = "idle"
        <5>1. ~Waking(y) /\ ~Pushing(y)
          BY <1>0, <3>1, <3>2 DEF Wakers, ThreadsOK
        <5>2. thread[y].call \in {"none", "push", "wake"}
          BY DEF IInv, TypeOK, ActorsTyped, ThreadTyped
        <5> QED  BY <1>0, <5>1, <5>2 DEF Waking, Pushing, ThreadsOK
      <4> QED  BY <4>1, <4>2
    <3>4. Linking = {} /\ Enqueuing = {}
      BY <3>3 DEF Linking, Enqueuing
    <3> QED  BY <3>1, <3>4 DEF IInv, FuturesOK
  <2> QED  BY <2>2, <2>3, <2>6, <2>7, UnrefKeeps
<1>6. ASSUME OwnerOutside PROVE QueueStays /\ CarriedSame
  BY <1>6, OwnerQuiet, QuietQueue, CarriedByNobody
<1>7. ASSUME DropQueue PROVE (\A t \in Tasks : CountOK(t)') /\ ~aborted'
  <2>1. QueueStays /\ CarriedSame /\ owner.pc = "drop" /\ owner'.pc = "gone"
    BY <1>0, <1>6, <1>7, DropMoves DEF OwnerOutside, OwnerMoves
  <2>2. UnrefQueue /\ UNCHANGED <<future, waker>> /\ head_all = Null
    BY <1>7 DEF DropQueue
  <2>3. \A t \in Tasks : InQueue(t)' <=> InQueue(t)
    BY <2>1 DEF InQueue, QueueStays, CarriedSame
  <2>4. queue_refs > 0
    BY <1>0, <2>1 DEF QueueRefsOK, Bit
  <2>5. future = {}
    <3>1. ListWhole /\ Hand = {}
      BY <2>1, WholeWhenBusy DEF Hand, InHand
    <3> QED  BY <2>2, <3>1 DEF ListWhole, IInv, FuturesOK
  <2>6. ASSUME queue_refs = 1 PROVE Linking = {} /\ Enqueuing = {}
    <3>1. Cardinality(Wakers) = 0
      BY <1>0, <2>1, <2>6 DEF QueueRefsOK, Bit
    <3>2. Wakers = {}
      BY <1>0, <3>1, FS_EmptySet DEF QueueRefsOK
    <3>3. ASSUME NEW y \in Threads PROVE thread[y].pc = "idle"
      <4>1. ~Waking(y) /\ ~Pushing(y)
        BY <1>0, <2>1, <3>2 DEF Wakers, ThreadsOK
      <4>2. thread[y].call \in {"none", "push", "wake"}
        BY DEF IInv, TypeOK, ActorsTyped, ThreadTyped
      <4> QED  BY <1>0, <4>1, <4>2 DEF Waking, Pushing, ThreadsOK
    <3> QED  BY <3>3 DEF Linking, Enqueuing
  <2> QED  BY <2>1, <2>2, <2>3, <2>4, <2>5, <2>6, UnrefKeeps
<1>8. ASSUME NEW t \in Tasks, DropWaker(t) PROVE (\A q \in Tasks : CountOK(q)') /\ ~aborted'
  <2>1. QueueStays /\ CarriedSame
    BY <1>6, <1>8 DEF OwnerOutside
  <2>2. /\ strong' = [strong EXCEPT ![t] = @ - 1] /\ waker' = waker \ {t} /\ t \in waker
        /\ UNCHANGED <<owner, future, aborted, queue_refs>>
    BY <1>8 DEF DropWaker
  <2>3. \A q \in Tasks : Standing(q)' <=> Standing(q)
    BY <2>1, <2>2 DEF Standing, InQueue, QueueStays, CarriedSame
  <2>4. ASSUME NEW q \in Tasks PROVE CountOK(q)'
    <3>1. strong'[q] = IF q = t THEN strong[q] - 1 ELSE strong[q]
      BY <1>0, <2>2
    <3> QED  BY <1>0, <2>2, <2>3, <3>1 DEF CountOK, Bit
  <2> QED  BY <1>0, <2>2, <2>4
<1>9. ASSUME Register \/ TakeOut \/ Pending \/ Finish("ready") \/ Finish("panic") \/ ReleaseSwap
             \/ DropHead \/ PollNext \/ StartDrop \/ Deliver
      PROVE  (\A t \in Tasks : CountOK(t)') /\ ~aborted'
  <2>1. QueueStays /\ CarriedSame
    BY <1>6, <1>9 DEF OwnerOutside
  <2>2. UNCHANGED <<strong, future, waker, aborted, queue_refs>>
    BY <1>9 DEF Register, TakeOut, Pending, Finish, ReleaseSwap, DropHead, PollNext, StartDrop,
       Deliver,
                PollUnchanged, SharedUnchanged, memVars
  <2>3. \/ owner' = owner
        \/ owner'.pc # "data" /\ (owner.pc = "data" => owner.task \in future)
    BY <1>0, <1>9, PollMoves, DropMoves DEF OwnerMoves, Deliver, TakeOut
  <2>4. \A t \in Tasks : Standing(t)' <=> Standing(t)
    BY <2>1, <2>2, <2>3 DEF Standing, InQueue, QueueStays, CarriedSame
  <2> QED  BY <1>0, <2>2, <2>4 DEF CountOK, Bit
<1>10. ASSUME CleanOut PROVE (\A t \in Tasks : CountOK(t)') /\ ~aborted'
  <2>1. QueueStays /\ CarriedSame /\ owner.pc = "data" /\ owner'.pc = "dequeue"
    BY <1>0, <1>6, <1>10, PollMoves DEF OwnerOutside, OwnerMoves
  <2>2. PICK t \in Tasks : t = owner.task /\ t \notin future /\ strong' = [strong EXCEPT ![t] = @ - 1]
    BY <1>0, <1>10, <2>1 DEF CleanOut, TasksAtHand
  <2>3. UNCHANGED <<future, waker, aborted, queue_refs>>
    BY <1>10 DEF CleanOut, PollUnchanged, SharedUnchanged
  <2>4. queue_refs # 0
    BY <1>0, <2>1 DEF QueueRefsOK, Bit
  <2>5. t \notin QueueNodes \cup Enqueuing
    BY <1>0, <2>1, <2>2 DEF PlacesOK, Enqueuing, Carrying
  <2>6. Standing(t) /\ ~Standing(t)'
    BY <2>1, <2>2, <2>3, <2>4, <2>5 DEF Standing, InQueue, QueueStays, CarriedSame
  <2>7. \A q \in Tasks \ {t} : Standing(q)' <=> Standing(q)
    BY <2>1, <2>2, <2>3 DEF Standing, InQueue, QueueStays, CarriedSame
  <2>8. ASSUME NEW q \in Tasks PROVE CountOK(q)'
    <3>1. strong'[q] = IF q = t THEN strong[q] - 1 ELSE strong[q]
      BY <1>0, <2>2
    <3> QED  BY <1>0, <2>3, <2>6, <2>7, <3>1 DEF CountOK, Bit
  <2> QED  BY <1>0, <2>3, <2>8
<1>11. ASSUME BeginPoll PROVE (\A t \in Tasks : CountOK(t)') /\ ~aborted'
  <2>1. QueueStays /\ CarriedSame /\ owner.pc = "begin" /\ owner'.pc = "polling"
    BY <1>0, <1>6, <1>11, PollMoves DEF OwnerOutside, OwnerMoves
  <2>2. UNCHANGED <<future, aborted, queue_refs>>
    BY <1>11 DEF BeginPoll, PollUnchanged, SharedUnchanged
  <2>3. \A q \in Tasks : Standing(q)' <=> Standing(q)
    BY <2>1, <2>2 DEF Standing, InQueue, QueueStays, CarriedSame
  <2>4. \/ UNCHANGED <<waker, strong>>
        \/ /\ owner.task \notin waker /\ waker' = waker \cup {owner.task}
           /\ strong' = [strong EXCEPT ![owner.task] = @ + 1]
    BY <1>11 DEF BeginPoll
  <2>5. ASSUME NEW q \in Tasks PROVE CountOK(q)'
    <3>1. CASE UNCHANGED <<waker, strong>>
      BY <1>0, <2>2, <2>3, <3>1 DEF CountOK, Bit
    <3>2. CASE /\ owner.task \notin waker /\ waker' = waker \cup {owner.task}
               /\ strong' = [strong EXCEPT ![owner.task] = @ + 1]
      <4>1. strong'[q] = IF q = owner.task THEN strong[q] + 1 ELSE strong[q]
        BY <1>0, <3>2
      <4> QED  BY <1>0, <2>2, <2>3, <3>2, <4>1 DEF CountOK, Bit
    <3> QED  BY <2>4, <3>1, <3>2
  <2> QED  BY <1>0, <2>2, <2>5
<1>12. ASSUME Release PROVE (\A t \in Tasks : CountOK(t)') /\ ~aborted'
  <2>1. QueueStays /\ CarriedSame /\ owner.pc \in {"clear", "drop_clear"} /\ owner'.pc \in {"idle", "drop"}
    BY <1>0, <1>6, <1>12, DropMoves DEF OwnerOutside, OwnerMoves
  <2>2. UNCHANGED <<waker, aborted, queue_refs>>
    BY <1>12 DEF Release, PollUnchanged, SharedUnchanged
  <2>3. PICK t \in Tasks : t = owner.task /\ t \in future
    BY <1>0, <2>1 DEF TasksAtHand, InHand
  <2>4. /\ future' = future \ {t}
        /\ strong' = [strong EXCEPT ![t] = IF owner.prev THEN @ ELSE @ - 1]
    BY <1>12, <2>3 DEF Release
  <2>5. queue_refs # 0
    BY <1>0, <2>1 DEF QueueRefsOK, Bit
  <2>6. owner.prev <=> t \in QueueNodes \cup Enqueuing
    BY <1>0, <2>1, <2>3 DEF FlagsOK
  <2>7. Standing(t)' <=> owner.prev
    BY <2>1, <2>2, <2>4, <2>5, <2>6 DEF Standing, InQueue, QueueStays, CarriedSame
  <2>8. \A q \in Tasks \ {t} : Standing(q)' <=> Standing(q)
    BY <2>1, <2>2, <2>4 DEF Standing, InQueue, QueueStays, CarriedSame
  <2>9. ASSUME NEW q \in Tasks PROVE CountOK(q)'
    <3>1. CASE q # t
      <4>1. strong'[q] = strong[q] /\ (q \in future' <=> q \in future)
        BY <1>0, <2>4, <3>1
      <4> QED  BY <1>0, <2>2, <2>8, <3>1, <4>1 DEF CountOK, Bit
    <3>2. CASE q = t
      <4>1. strong'[t] = IF owner.prev THEN strong[t] ELSE strong[t] - 1
        BY <1>0, <2>4
      <4>2. ~Standing(t) /\ t \notin future'
        BY <2>3, <2>4 DEF Standing
      <4>3. strong[t] = 1 + Bit(t \in waker)
        BY <1>0, <2>3, <4>2 DEF CountOK, Bit
      <4> QED  BY <2>2, <2>7, <3>2, <4>1, <4>2, <4>3 DEF CountOK, Bit
    <3> QED  BY <3>1, <3>2
  <2> QED  BY <1>0, <2>2, <2>9
<1>13. ASSUME Dequeue PROVE (\A t \in Tasks : CountOK(t)') /\ ~aborted'
  <2>1. thread' = thread /\ UNCHANGED <<strong, future, waker, aborted, queue_refs>>
    BY <1>13 DEF Dequeue, DequeueStub, DequeueTask, DequeueHead, StubSwap, StubLink, DequeueLast,
       DequeueUnchanged,
       SharedUnchanged
  <2>2. CarriedSame
    BY <2>1, CarriedByNobody
  <2>3. owner.pc # "data"
    BY <1>0, <1>13, DequeueMoves DEF Dequeue
  <2>4. next_ready[tail] # tail
    BY BehindMembers, QueueClosed DEF IInv, QueueOK, Chain, BehindIs, IsBehind, QueueNodes
  <2>5. CASE tail' = tail
    <3>1. owner'.pc # "data"
      BY <1>0, <1>13, <2>3, <2>4, <2>5, DequeueMoves DEF Dequeue, OwnerMoves
    <3>2. \A t \in Tasks : t \in QueueNodes' <=> t \in QueueNodes
      BY <1>0, <1>13, <2>4, <2>5, DequeueCases, QuietQueue, StubSwapEffect, StubLinkEffect
      DEF QueueStays, TailMoves, QueueGains, TasksAtHand
    <3>3. \A t \in Tasks : Standing(t)' <=> Standing(t)
      BY <2>1, <2>2, <2>3, <3>1, <3>2 DEF Standing, InQueue, CarriedSame
    <3> QED  BY <1>0, <2>1, <3>3 DEF CountOK, Bit
  <2>6. CASE tail' # tail
    <3>1. QueueNodes' = QueueNodes \ {tail} /\ tail \in QueueNodes
      <4>1. TailMoves
        BY <1>0, <1>13, <2>6, DequeueCases, DequeueMoves DEF QuietStep
      <4> QED  BY <4>1, TailMovesEffect DEF QueueLosesTail
    <3>2. (owner'.pc = "data" /\ owner'.task = tail) \/ (owner'.pc # "data" /\ tail = Stub)
      BY <1>0, <1>13, <2>3, <2>6, DequeueMoves DEF Dequeue, OwnerMoves
    <3>3. \A t \in Tasks : Standing(t)' <=> Standing(t)
      BY <1>0, <2>1, <2>2, <2>3, <3>1, <3>2 DEF Standing, InQueue, CarriedSame, TasksAtHand
    <3> QED  BY <1>0, <2>1, <3>3 DEF CountOK, Bit
  <2> QED  BY <2>5, <2>6
<1> QED
  BY <1>1, <1>2, <1>3, <1>4, <1>5, <1>7, <1>8, <1>9, <1>10, <1>11, <1>12, <1>13
  DEF Next, ThreadStep, OwnerStep

LEMMA RefsPartsNext == RefsOK' <=> QueueRefsOK' /\ (\A t \in Tasks : CountOK(t)') /\ ~aborted'
  BY DEF RefsOK, QueueRefsOK, CountOK, Standing

LEMMA RefsKept == IInv /\ TypeOK' /\ Next => RefsOK'
  BY QueueRefsKept, CountsKept, RefsPartsNext

------------------------------------------------------------------------------
(* Wake-ups                                                                *)

OnItsWay(t, x) == thread[x].task = t /\ thread[x].pc \in {"mark", "swap", "enq_swap"}
WithOwner(t) == owner.task = t /\ ((InHand /\ owner.pc # "polling") \/ owner.pc = "data")
Covered(t) == t \in QueueNodes \/ (\E x \in Threads : OnItsWay(t, x)) \/ WithOwner(t)

LEMMA DueKept ==
  ASSUME IInv, TypeOK', Next
  PROVE  DueOK'
<1>0. /\ OwnerTyped /\ ThreadTyped /\ ThreadTyped' /\ TasksAtHand /\ SetsTyped /\ FlagsOK /\ ThreadsOK
      /\ \A t \in due : Covered(t)
  BY AtHand DEF IInv, TypeOK, ActorsTyped, DueOK, Covered, OnItsWay, WithOwner
<1>1. SUFFICES \A t \in due' : Covered(t)'
  BY DEF DueOK, Covered, OnItsWay, WithOwner
<1>2. ASSUME NEW x \in Threads,
             PushLink(x) \/ WakeMark(x) \/ EnqueueLink(x) \/ WakeParent(x) \/ WakeReturn(x)
      PROVE  \A t \in due' : Covered(t)'
  <2>1. owner' = owner /\ QueueStays /\ due' = due
    BY <1>2, CarryingStays DEF PushLink, WakeMark, EnqueueLink, WakeParent, WakeReturn, ghostVars
  <2>2. \A t : OnItsWay(t, x) => OnItsWay(t, x)'
    BY <1>0, <1>2, ThreadEffects DEF ThreadMoves, OnItsWay
  <2>3. \A y \in Threads \ {x} : thread'[y] = thread[y]
    BY <1>0, <1>2, ThreadEffects DEF ThreadMoves
  <2>4. \A t : \A y \in Threads : OnItsWay(t, y) => OnItsWay(t, y)'
    BY <2>2, <2>3 DEF OnItsWay
  <2> QED  BY <1>0, <2>1, <2>4 DEF Covered, WithOwner, InHand, QueueStays
<1>3. ASSUME NEW x \in Threads, WakeSwap(x) PROVE \A t \in due' : Covered(t)'
  <2>1. owner' = owner /\ QueueStays /\ due' = due
    BY <1>3, ThreadQuiet, QuietQueue DEF ThreadOutside, WakeSwap, ghostVars
  <2>2. thread[x].pc = "swap" /\ \A y \in Threads \ {x} : thread'[y] = thread[y]
    BY <1>0, <1>3, ThreadEffects DEF ThreadMoves
  <2>3. \A t : \A y \in Threads \ {x} : OnItsWay(t, y) => OnItsWay(t, y)'
    BY <2>2 DEF OnItsWay
  <2>4. ASSUME NEW t \in due, OnItsWay(t, x) PROVE Covered(t)'
    <3>1. CASE ~queued[thread[x].task]
      <4>1. OnItsWay(t, x)'
        BY <1>0, <1>3, <2>4, <3>1, ThreadEffects DEF ThreadMoves, OnItsWay
      <4> QED  BY <4>1 DEF Covered
    <3>2. CASE queued[thread[x].task]
      <4>1. t \in future /\ queued[t] /\ t = thread[x].task
        BY <1>0, <2>4, <3>2 DEF SetsTyped, OnItsWay
      <4>2. t \notin PushLinking
        BY <1>0, <2>4 DEF PushLinking, ThreadsOK
      <4>3. CASE t \in QueueNodes
        BY <2>1, <4>3 DEF Covered, QueueStays
      <4>4. CASE t \in Enqueuing
        <5>1. PICK y \in Threads : thread[y].pc = "enq_swap" /\ thread[y].task = t
          BY <4>4 DEF Enqueuing
        <5>2. OnItsWay(t, y)'
          BY <2>2, <2>3, <5>1 DEF OnItsWay
        <5> QED  BY <5>2 DEF Covered
      <4>5. CASE owner.task = t /\ owner.pc \in {"data", "clear", "drop_clear"}
        BY <2>1, <4>5 DEF Covered, WithOwner, InHand
      <4> QED  BY <1>0, <4>1, <4>2, <4>3, <4>4, <4>5 DEF FlagsOK
    <3> QED  BY <3>1, <3>2
  <2>5. ASSUME NEW t \in due, ~OnItsWay(t, x) PROVE Covered(t)'
    <3>1. Covered(t)
      BY <1>0
    <3>2. (\E y \in Threads : OnItsWay(t, y)) => \E y \in Threads : OnItsWay(t, y)'
      BY <2>3, <2>5
    <3> QED  BY <2>1, <3>1, <3>2 DEF Covered, WithOwner, InHand, QueueStays
  <2> QED  BY <2>1, <2>4, <2>5
<1>4. ASSUME NEW x \in Threads, EnqueueSwap(x) PROVE \A t \in due' : Covered(t)'
  <2>1. owner' = owner /\ due' = due /\ QueueGains(thread[x].task)
    BY <1>4, EnqueueSwapEffect DEF EnqueueSwap, ghostVars
  <2>2. \A y \in Threads \ {x} : thread'[y] = thread[y]
    BY <1>0, <1>4, ThreadEffects DEF ThreadMoves
  <2>3. \A t : \A y \in Threads \ {x} : OnItsWay(t, y) => OnItsWay(t, y)'
    BY <2>2 DEF OnItsWay
  <2>4. ASSUME NEW t \in due PROVE Covered(t)'
    <3>1. Covered(t)
      BY <1>0
    <3>2. OnItsWay(t, x) => t \in QueueNodes'
      BY <2>1 DEF OnItsWay, QueueGains
    <3> QED  BY <2>1, <2>3, <3>1, <3>2 DEF Covered, WithOwner, InHand, QueueGains
  <2> QED  BY <2>1, <2>4
<1>5. ASSUME NEW x \in Threads, NEW t \in Tasks, Push(x, t) \/ Wake(x, t) PROVE \A q \in due' : Covered(q)'
  <2>1. owner' = owner /\ QueueStays
    BY <1>5, ThreadQuiet, QuietQueue DEF ThreadOutside
  <2>2. thread[x].pc = "idle" /\ \A y \in Threads \ {x} : thread'[y] = thread[y]
    BY <1>0, <1>5, ThreadEffects DEF ThreadMoves
  <2>3. \A q : \A y \in Threads : OnItsWay(q, y) => OnItsWay(q, y)'
    BY <2>2 DEF OnItsWay
  <2>4. \A q \in due : Covered(q)'
    BY <1>0, <2>1, <2>3 DEF Covered, WithOwner, InHand, QueueStays
  <2>5. ASSUME NEW q \in due' \ due PROVE Covered(q)'
    <3>1. Wake(x, t) /\ q = t /\ t \in future
      BY <1>5, <2>5 DEF Push, Wake, ghostVars
    <3>2. queue_refs # 0
      <4>1. owner.pc # "gone"
        BY <3>1 DEF IInv, FuturesOK
      <4> QED  BY <4>1, RefsParts, FS_CardinalityType DEF IInv, QueueRefsOK, Bit
    <3>3. OnItsWay(q, x)'
      BY <1>0, <3>1, <3>2, ThreadEffects DEF ThreadMoves, OnItsWay
    <3> QED  BY <3>3 DEF Covered
  <2> QED  BY <2>4, <2>5
<1>6. ASSUME thread' = thread PROVE \A q : \A y \in Threads : OnItsWay(q, y)' <=> OnItsWay(q, y)
  BY <1>6 DEF OnItsWay
<1>7. ASSUME OwnerOutside PROVE \A t \in due' : Covered(t)'
  <2>1. QueueStays /\ thread' = thread
    BY <1>7, OwnerQuiet, QuietQueue
  <2>2. due' \subseteq due
    BY <1>7 DEF OwnerOutside, Register, CleanOut, TakeOut, BeginPoll, Pending, Finish, ReleaseSwap,
       Release, DropHead,
         DropQueue, PollNext, StartDrop, Deliver, DropWaker, ghostVars
  <2>3. ASSUME NEW t \in due', WithOwner(t) PROVE WithOwner(t)'
    <3>1. CASE owner' = owner
      BY <2>3, <3>1 DEF WithOwner, InHand
    <3>2. TakeOut \/ ReleaseSwap => WithOwner(t)'
      BY <1>0, <2>3, PollMoves, DropMoves DEF WithOwner, InHand, OwnerMoves
    <3>3. BeginPoll => t # owner.task
      BY <2>3 DEF BeginPoll
    <3>4. Release => t # owner.task
      BY <2>3 DEF Release
    <3>5. CleanOut => t # owner.task
      BY <1>0, <2>2, <2>3 DEF CleanOut, SetsTyped
    <3>6. Register \/ Pending \/ Finish("ready") \/ Finish("panic") \/ DropHead \/ DropQueue \/ PollNext
          \/ StartDrop => owner.pc \in {"register", "polling", "drop", "idle"}
      BY DEF Register, Pending, Finish, DropHead, DropQueue, PollNext, StartDrop
    <3>7. Deliver \/ (\E q \in Tasks : DropWaker(q)) => owner' = owner
      BY DEF Deliver, DropWaker
    <3> QED  BY <1>7, <2>3, <3>1, <3>2, <3>3, <3>4, <3>5, <3>6, <3>7 DEF OwnerOutside, WithOwner,
                InHand
  <2> QED  BY <1>0, <1>6, <2>1, <2>2, <2>3 DEF Covered, QueueStays
<1>8. ASSUME Dequeue PROVE \A t \in due' : Covered(t)'
  <2>1. thread' = thread /\ due' = due
    BY <1>8 DEF Dequeue, DequeueStub, DequeueTask, DequeueHead, StubSwap, StubLink, DequeueLast,
       DequeueUnchanged,
       SharedUnchanged
  <2>2. \A t : ~WithOwner(t)
    BY <1>0, <1>8, DequeueMoves DEF Dequeue, WithOwner, InHand
  <2>3. \/ QueueNodes \subseteq QueueNodes'
        \/ QueueNodes' = QueueNodes \ {tail} /\ TailMoves
    BY <1>8, DequeueCases, QuietQueue, TailMovesEffect, StubSwapEffect, StubLinkEffect
    DEF QueueStays, QueueLosesTail, QueueGains
  <2>4. TailMoves => tail = Stub \/ (owner'.task = tail /\ owner'.pc = "data")
    <3>1. next_ready[tail] # tail
      BY BehindMembers, QueueClosed DEF IInv, QueueOK, Chain, BehindIs, IsBehind, QueueNodes
    <3> QED  BY <1>0, <1>8, <3>1, DequeueMoves DEF Dequeue, OwnerMoves, TailMoves
  <2>5. Stub \notin due
    BY <1>0 DEF TasksAtHand, SetsTyped
  <2>6. ASSUME NEW t \in due, t \in QueueNodes PROVE Covered(t)'
    BY <2>3, <2>4, <2>5, <2>6 DEF Covered, WithOwner
  <2> QED  BY <1>0, <1>6, <2>1, <2>2, <2>6 DEF Covered
<1> QED
  BY <1>2, <1>3, <1>4, <1>5, <1>7, <1>8 DEF Next, ThreadStep, OwnerStep, OwnerOutside

LEMMA ArmedKept ==
  ASSUME IInv, TypeOK', Next
  PROVE  ArmedOK'
<1>0. OwnerTyped /\ ArmedOK /\ CellTyped
  BY DEF IInv, TypeOK, ActorsTyped
<1> DEFINE Armed == Parent \in registered \cup owed \cup notified
<1>1. ASSUME NEW x \in Threads, ThreadStep(x) PROVE ArmedOK'
  <2>1. owner' = owner /\ notified' = notified
    BY <1>1 DEF ThreadStep, PushLink, WakeMark, WakeSwap, EnqueueSwap, EnqueueLink, WakeParent,
       WakeReturn, cellVars
  <2>2. Armed => Armed'
    BY <1>1 DEF ThreadStep, PushLink, WakeMark, WakeSwap, EnqueueSwap, EnqueueLink, WakeParent,
       WakeReturn, cellVars,
                Cell!Take
  <2> QED  BY <1>0, <2>1, <2>2 DEF ArmedOK, Polling
<1>2. ASSUME NEW x \in Threads, NEW t \in Tasks, Push(x, t) \/ Wake(x, t) PROVE ArmedOK'
  BY <1>0, <1>2 DEF Push, Wake, cellVars, ArmedOK, Polling
<1>3. ASSUME NEW t \in Tasks, DropWaker(t) PROVE ArmedOK'
  BY <1>0, <1>3 DEF DropWaker, cellVars, ArmedOK, Polling
<1>4. ASSUME Deliver PROVE ArmedOK'
  BY <1>0, <1>4 DEF Deliver, Cell!Deliver, ArmedOK, Polling
<1>5. ASSUME PollNext PROVE ArmedOK'
  BY <1>0, <1>5, PollMoves DEF OwnerMoves, ArmedOK, Polling
<1>6. ASSUME Register PROVE ArmedOK'
  <2>1. Armed'
    BY <1>6 DEF Register, Cell!Register, Cell!RegisterStored, Cell!RegisterRaced
  <2> QED  BY <1>0, <1>6, <2>1, PollMoves DEF OwnerMoves, ArmedOK, Polling
<1>7. ASSUME Dequeue PROVE ArmedOK'
  <2>1. registered' = registered /\ owed' = owed /\ notified' \in {notified, {Parent}}
    BY <1>7 DEF Dequeue, DequeueStub, DequeueTask, DequeueHead, StubSwap, StubLink, DequeueLast,
       DequeueUnchanged,
       Empty, Found, Inconsistent
  <2>2. Polling
    BY <1>0, <1>7, DequeueMoves DEF Dequeue, Polling
  <2>3. Armed' /\ owner.res # "pending"
    BY <1>0, <2>1, <2>2 DEF ArmedOK
  <2>4. owner'.pc \in {"idle", "register"} \/ owner'.res = owner.res
    BY <1>0, <1>7, DequeueMoves DEF Dequeue, OwnerMoves
  <2>5. owner'.pc # "register"
    BY <1>0, <1>7, DequeueMoves DEF Dequeue, OwnerMoves
  <2> QED  BY <2>3, <2>4, <2>5 DEF ArmedOK, Polling
<1>8. ASSUME CleanOut \/ TakeOut \/ BeginPoll \/ Pending PROVE ArmedOK'
  <2>1. registered' = registered /\ owed' = owed /\ notified' \in {notified, {Parent}}
    BY <1>8 DEF CleanOut, TakeOut, BeginPoll, Pending, PollUnchanged
  <2>2. Polling
    BY <1>0, <1>8, PollMoves DEF Polling
  <2>3. Armed' /\ owner.res # "pending"
    BY <1>0, <2>1, <2>2 DEF ArmedOK
  <2>4. (owner'.pc = "idle" \/ owner'.res = owner.res) /\ owner'.pc # "register"
    BY <1>0, <1>8, PollMoves DEF OwnerMoves
  <2> QED  BY <2>3, <2>4 DEF ArmedOK, Polling
<1>9. ASSUME NEW r \in {"ready", "panic"}, Finish(r) PROVE ArmedOK'
  <2>1. UNCHANGED <<registered, owed, notified>>
    BY <1>9 DEF Finish, PollUnchanged
  <2>2. Polling /\ OwnerMoves("release", owner.task, owner.prev, r)
    BY <1>0, <1>9, PollMoves DEF Polling
  <2> QED  BY <1>0, <2>1, <2>2 DEF ArmedOK, Polling, OwnerMoves
<1>10. ASSUME ReleaseSwap \/ Release PROVE ArmedOK'
  <2>1. UNCHANGED <<registered, owed, notified>>
    BY <1>10 DEF ReleaseSwap, Release, PollUnchanged
  <2>2. owner'.res = owner.res /\ owner'.pc # "register" /\ (owner'.pc = "idle" \/ Polling' => Polling)
    BY <1>0, <1>10, DropMoves DEF OwnerMoves, Polling
  <2> QED  BY <1>0, <2>1, <2>2 DEF ArmedOK, Polling
<1>11. ASSUME StartDrop \/ DropHead \/ DropQueue PROVE ArmedOK'
  BY <1>0, <1>11, DropMoves DEF OwnerMoves, ArmedOK, Polling
<1> QED
  BY <1>1, <1>2, <1>3, <1>4, <1>5, <1>6, <1>7, <1>8, <1>9, <1>10, <1>11 DEF Next, OwnerStep

(* A thread that is going to wake the parent.                              *)
Alarm(x) == Waking(x) /\ thread[x].pc \in {"enq_link", "wake"}

(* When dequeue says Empty, what is in the queue is behind a missing link, *)
(* and the thread that is going to set it wakes the parent afterwards.     *)
LEMMA EmptyIsWatched ==
  ASSUME IInv, owner.pc = "dequeue", tail = Stub, next_ready[tail] = Null, NEW t \in QueueNodes, t \in Tasks
  PROVE  \E x \in Threads : Alarm(x)
<1>0. /\ BehindIs /\ tail \in Nodes /\ Chain(tail, head, Behind) /\ TasksAtHand /\ ThreadsOK
      /\ tail \in QueueNodes /\ QueueNodes \subseteq Nodes
  BY AtHand, BehindMembers, QueueClosed DEF IInv, TypeOK, QueueTyped, QueueOK
<1>1. tail # head
  <2>1. SUFFICES ASSUME tail = head PROVE FALSE
    OBVIOUS
  <2>2. Behind[tail] = {} /\ Behind \in LinkFunctions
    BY <1>0, <2>1 DEF Chain, BehindIs
  <2>3. QueueNodes = {tail}
    BY <1>0, <2>2, ReachableLast DEF QueueNodes
  <2> QED  BY <1>0, <2>3 DEF TasksAtHand
<1>2. PICK n \in Nodes : n \in Behind[tail]
  BY <1>0, <1>1 DEF Chain, QueueNodes
<1>3. IsBehind(n, tail) /\ n # Null
  BY <1>0, <1>2, TasksAssumption DEF BehindIs, Nodes, Null, Stub
<1>4. PICK x \in Linking : thread[x].ptr = tail
  BY <1>3 DEF IsBehind
<1>5. x \in Threads /\ thread[x].pc = "enq_link"
  BY DEF Linking
<1>6. thread[x].call \in {"none", "push", "wake"}
  BY <1>5 DEF IInv, TypeOK, ActorsTyped, ThreadTyped
<1> QED  BY <1>0, <1>5, <1>6 DEF Alarm, Waking, Pushing, ThreadsOK

LEMMA SleepKept ==
  ASSUME IInv, TypeOK', Next
  PROVE  SleepOK'
<1>0. /\ OwnerTyped /\ ThreadTyped /\ ThreadTyped' /\ ThreadsOK /\ ArmedOK /\ SetsTyped
      /\ Asleep /\ QueueNodes \cap (waker \cup due) # {} => Parent \in owed \/ \E x \in Threads : Alarm(x)
  BY DEF IInv, TypeOK, ActorsTyped, SleepOK, Alarm
<1>1. SUFFICES ASSUME Asleep', QueueNodes' \cap (waker' \cup due') # {}
               PROVE  Parent \in owed' \/ \E x \in Threads : Alarm(x)'
  BY DEF SleepOK, Alarm
<1> DEFINE Goal == Parent \in owed' \/ \E x \in Threads : Alarm(x)'
<1>2. ASSUME NEW x \in Threads, WakeParent(x) PROVE Goal
  <2>1. owner' = owner /\ notified' = notified /\ owed' = owed \cup registered
    BY <1>2 DEF WakeParent, Cell!Take
  <2> QED  BY <1>0, <1>1, <2>1 DEF Asleep, ArmedOK
<1>3. ASSUME NEW x \in Threads,
             PushLink(x) \/ WakeMark(x) \/ WakeSwap(x) \/ WakeReturn(x)
             \/ \E t \in Tasks : Push(x, t) \/ Wake(x, t)
      PROVE  Goal
  <2>1. QueueStays /\ owner' = owner
    BY <1>3, ThreadQuiet, QuietQueue DEF ThreadOutside
  <2>2. UNCHANGED <<waker, owed, notified>> /\ due' \subseteq due \cup waker
    BY <1>3 DEF PushLink, WakeMark, WakeSwap, WakeReturn, Push, Wake, memVars, cellVars, ghostVars
  <2>3. \A y \in Threads \ {x} : thread'[y] = thread[y]
    BY <1>0, <1>3, ThreadEffects DEF ThreadMoves
  <2>4. ~Alarm(x)
    BY <1>3 DEF PushLink, WakeMark, WakeSwap, WakeReturn, Push, Wake, Alarm
  <2>5. \A y \in Threads : Alarm(y) => Alarm(y)'
    BY <2>3, <2>4 DEF Alarm, Waking
  <2>6. Asleep /\ QueueNodes \cap (waker \cup due) # {}
    BY <1>1, <2>1, <2>2 DEF Asleep, QueueStays
  <2> QED  BY <1>0, <2>2, <2>5, <2>6
<1>4. ASSUME NEW x \in Threads, EnqueueSwap(x) PROVE Goal
  <2>1. /\ QueueGains(thread[x].task) /\ owner' = owner
        /\ \A y \in Threads \ {x} : thread'[y] = thread[y]
        /\ thread'[x].call = thread[x].call /\ thread'[x].pc = "enq_link"
    BY <1>4, EnqueueSwapEffect
  <2>2. UNCHANGED <<waker, owed, notified, due>> /\ thread[x].pc = "enq_swap"
    BY <1>4 DEF EnqueueSwap, memVars, cellVars, ghostVars
  <2>3. CASE Waking(x)
    BY <2>1, <2>3 DEF Alarm, Waking
  <2>4. CASE ~Waking(x)
    <3>1. thread[x].task \notin waker \cup due
      <4>1. thread[x].call \in {"none", "push", "wake"}
        BY <1>0 DEF ThreadTyped
      <4> QED  BY <1>0, <2>2, <2>4, <4>1 DEF ThreadsOK, Waking, Pushing
    <3>2. Asleep /\ QueueNodes \cap (waker \cup due) # {}
      BY <1>1, <2>1, <2>2, <3>1 DEF Asleep, QueueGains
    <3>3. \A y \in Threads : Alarm(y) => Alarm(y)'
      BY <2>1, <2>4 DEF Alarm, Waking
    <3> QED  BY <1>0, <2>2, <3>2, <3>3
  <2> QED  BY <2>3, <2>4
<1>5. ASSUME NEW x \in Threads, EnqueueLink(x) PROVE Goal
  <2>1. QueueStays /\ owner' = owner /\ \A y \in Threads \ {x} : thread'[y] = thread[y]
    BY <1>5, EnqueueLinkEffect
  <2>2. UNCHANGED <<waker, owed, notified, due>>
    BY <1>5 DEF EnqueueLink, memVars, cellVars, ghostVars
  <2>3. Asleep /\ QueueNodes \cap (waker \cup due) # {}
    BY <1>1, <2>1, <2>2 DEF Asleep, QueueStays
  <2>4. Alarm(x) => Alarm(x)'
    <3>1. Waking(x) => ~Pushing(x)
      BY DEF Waking, Pushing
    <3> QED  BY <1>0, <1>5, <3>1, ThreadEffects DEF ThreadMoves, Alarm, Waking
  <2>5. \A y \in Threads : Alarm(y) => Alarm(y)'
    BY <2>1, <2>4 DEF Alarm, Waking
  <2> QED  BY <1>0, <2>2, <2>3, <2>5
<1>6. ASSUME NEW t \in Tasks, DropWaker(t) PROVE Goal
  <2>1. QueueStays /\ thread' = thread
    BY <1>6, OwnerQuiet, QuietQueue DEF OwnerOutside
  <2>2. UNCHANGED <<owner, owed, notified, due>> /\ waker' \subseteq waker
    BY <1>6 DEF DropWaker, cellVars, ghostVars
  <2>3. Asleep /\ QueueNodes \cap (waker \cup due) # {}
    BY <1>1, <2>1, <2>2 DEF Asleep, QueueStays
  <2>4. \A y \in Threads : Alarm(y) => Alarm(y)'
    BY <2>1 DEF Alarm, Waking
  <2> QED  BY <1>0, <2>2, <2>3, <2>4
<1>7. ASSUME Deliver PROVE Goal
  BY <1>1, <1>7 DEF Deliver, Cell!Deliver, Asleep
<1>8. ASSUME OwnerOutside, ~Deliver, ~(\E t \in Tasks : DropWaker(t)) PROVE Goal
  <2>1. Register \/ CleanOut \/ TakeOut \/ BeginPoll \/ Finish("ready") \/ Finish("panic") \/ PollNext
        => owner'.pc # "idle"
    BY <1>0, PollMoves DEF OwnerMoves
  <2>2. ReleaseSwap \/ DropHead \/ DropQueue \/ StartDrop => owner'.pc # "idle"
    BY <1>0, DropMoves DEF OwnerMoves
  <2>3. Release => owner'.pc # "idle" \/ owner'.res # "pending"
    BY <1>0, DropMoves DEF OwnerMoves, ArmedOK, Polling
  <2>4. Pending => owner'.pc # "idle" \/ Parent \in notified'
    BY <1>0, PollMoves DEF OwnerMoves
  <2> QED  BY <1>1, <1>8, <2>1, <2>2, <2>3, <2>4 DEF OwnerOutside, Asleep
<1>9. ASSUME Dequeue PROVE Goal
  <2>1. DequeueTask \/ DequeueHead \/ StubSwap \/ StubLink \/ DequeueLast =>
          owner'.pc # "idle" \/ Parent \in notified'
    BY <1>0, DequeueMoves DEF OwnerMoves
  <2>2. DequeueStub /\ owner'.pc = "idle"
    <3>1. DequeueStub
      BY <1>1, <1>9, <2>1 DEF Dequeue, Asleep
    <3> QED  BY <1>1, <3>1 DEF Asleep
  <2>3. next_ready[tail] = Null /\ tail = Stub /\ owner.pc = "dequeue" /\ tail' = tail
    BY <1>0, <2>2, DequeueMoves
  <2>4. thread' = thread /\ UNCHANGED <<waker, due>>
    BY <2>2 DEF DequeueStub, DequeueUnchanged, SharedUnchanged
  <2>5. QueueNodes' = QueueNodes
    <3>1. ~TailMoves /\ ~StubSwap /\ ~StubLink
      BY <2>3 DEF TailMoves, StubSwap, StubLink
    <3> QED  BY <1>9, <3>1, DequeueCases, QuietQueue DEF QueueStays
  <2>6. PICK t \in QueueNodes : t \in waker \cup due
    BY <1>1, <2>4, <2>5
  <2>7. t \in Tasks
    BY <1>0, <2>6 DEF SetsTyped
  <2>8. \E x \in Threads : Alarm(x)
    BY <2>3, <2>6, <2>7, EmptyIsWatched
  <2> QED  BY <2>4, <2>8 DEF Alarm, Waking
<1> QED
  BY <1>2, <1>3, <1>4, <1>5, <1>6, <1>7, <1>8, <1>9 DEF Next, ThreadStep, OwnerStep, OwnerOutside

------------------------------------------------------------------------------
(* The inductive invariant                                                 *)

LEMMA InitEstablishes == Init => IInv
<1> SUFFICES ASSUME Init PROVE IInv
  OBVIOUS
<1> USE TasksAssumption DEF Init
<1>1. TypeOK
  <2>1. ListTyped /\ QueueTyped
    BY DEF ListTyped, QueueTyped, Nodes
  <2>4. FlagsTyped
    BY Zenon DEF FlagsTyped
  <2>5. MemTyped
    <3>1. aborted \in BOOLEAN /\ is_terminated \in BOOLEAN
      BY Zenon
    <3>2. strong \in [Tasks -> Int] /\ queue_refs \in Int
      OBVIOUS
    <3> QED  BY <3>1, <3>2 DEF MemTyped
  <2>6. SetsTyped
    BY DEF SetsTyped
  <2>2. ActorsTyped
    BY DEF ActorsTyped, OwnerTyped, ThreadTyped, OwnerPC, ThreadPC, Idle, Nodes
  <2>3. CellTyped
    BY DEF CellTyped, Cell!Init
  <2> QED  BY <2>1, <2>2, <2>3, <2>4, <2>5, <2>6 DEF TypeOK
<1>2. ThreadsOK
  BY DEF ThreadsOK, Idle, Pushing, Waking
<1>3. \A x \in Threads : thread[x].pc = "idle" /\ thread[x].call = "none"
  BY DEF Idle
<1>4. Linking = {} /\ Carrying = {} /\ Enqueuing = {} /\ PushLinking = {} /\ Pushers = {} /\ Wakers = {}
  BY <1>3 DEF Linking, Carrying, Enqueuing, PushLinking, Pushers, Wakers, Waking
<1>5. Behind \in LinkFunctions /\ Stub \in Nodes /\ Behind[Stub] = {}
  <2>1. BehindIs /\ Stub \in Nodes
    BY <1>1, BehindMembers DEF Nodes
  <2>2. ASSUME NEW n \in Nodes PROVE ~IsBehind(n, Stub)
    BY <1>4 DEF IsBehind, Nodes, Null, Stub
  <2> QED  BY <2>1, <2>2 DEF BehindIs, LinkFunctions
<1>6. QueueNodes = {Stub}
  BY <1>5, ReachableLast DEF QueueNodes
<1>7. QueueOK
  <2>1. Chain(tail, head, Behind)
    BY <1>5, <1>6 DEF Chain, QueueNodes
  <2> QED  BY <1>4, <2>1 DEF QueueOK, LinksPending, StubPlace
<1>8. PlacesOK /\ FlagsOK
  BY <1>4, <1>6 DEF PlacesOK, FlagsOK
<1>9. Linked = {}
  BY DEF Linked
<1>10. ListOK
  <2>1. Doubly({}, next_all, prev_all)
    BY DEF Doubly
  <2>2. Tops = {Null}
    BY <1>3 DEF Tops
  <2>3. TopsOK
    BY <1>4, <1>9, <2>2 DEF TopsOK
  <2>4. BaseOK
    BY <1>4, <1>9, <2>2, FS_EmptySet DEF BaseOK
  <2> QED  BY <1>9, <2>1, <2>3, <2>4 DEF ListOK
<1>11. FuturesOK
  BY <1>4, <1>9 DEF FuturesOK, Hand, InHand
<1>12. RefsOK
  <2>1. IsFiniteSet(Wakers) /\ Cardinality(Wakers) = 0
    BY <1>4, FS_EmptySet
  <2>2. \A t \in Tasks : ~InQueue(t)
    BY <1>4, <1>6 DEF InQueue
  <2> QED  BY <2>1, <2>2 DEF RefsOK, Bit
<1>13. DueOK /\ ArmedOK /\ SleepOK
  BY DEF DueOK, ArmedOK, SleepOK, Polling, Asleep
<1> QED  BY <1>1, <1>2, <1>7, <1>8, <1>10, <1>11, <1>12, <1>13 DEF IInv

LEMMA NextPreserves == IInv /\ Next => IInv'
<1> SUFFICES ASSUME IInv, Next PROVE IInv'
  OBVIOUS
<1>1. TypeOK'
  BY TypesKept
<1>2. QueueOK' /\ ThreadsOK' /\ PlacesOK' /\ FlagsOK'
  BY <1>1, QueueKept, ThreadsKept, PlacesKept, FlagsKept
<1>3. ListOK' /\ FuturesOK' /\ RefsOK'
  BY <1>1, ListKept, RefsKept
<1>4. DueOK' /\ ArmedOK' /\ SleepOK'
  BY <1>1, DueKept, ArmedKept, SleepKept
<1> QED  BY <1>1, <1>2, <1>3, <1>4 DEF IInv

LEMMA StutterPreserves == IInv /\ UNCHANGED vars => IInv'
<1> SUFFICES ASSUME IInv, UNCHANGED vars PROVE IInv'
  OBVIOUS
<1> USE DEF vars, allVars, readyVars, flagVars, memVars, ghostVars, cellVars
<1>1. TypeOK'
  BY DEF IInv, TypeOK, ListTyped, QueueTyped, FlagsTyped, MemTyped, SetsTyped, ActorsTyped,
     OwnerTyped, ThreadTyped,
         CellTyped
<1>2. QuietStep
  BY DEF QuietStep, Linking
<1>3. QueueStays /\ Chain(tail, head, Behind)' /\ LinksPending'
  BY <1>1, <1>2, QuietQueue
<1>4. CarriedSame /\ Carrying' = Carrying /\ thread' = thread /\ owner' = owner
  BY CarriedByNobody DEF Carrying
<1>5. QueueOK' /\ ThreadsOK'
  BY <1>3, <1>4 DEF IInv, QueueOK, StubPlace, QueueStays, ThreadsOK, Pushing, Waking
<1>6. PlacesOK' /\ FlagsOK'
  BY <1>3, <1>4 DEF IInv, PlacesOK, FlagsOK, QueueStays, CarriedSame
<1>7. ListOK' /\ Linked' = Linked
  BY <1>4, ListStays
<1>8. FuturesOK'
  <2>1. Hand' = Hand
    BY DEF Hand, InHand
  <2> QED  BY <1>4, <1>7, <2>1, FuturesStay
<1>9. RefsOK'
  <2>1. Wakers' = Wakers
    BY DEF Wakers, Waking
  <2>2. \A t \in Tasks : InQueue(t)' <=> InQueue(t)
    BY <1>3, <1>4 DEF InQueue, QueueStays, CarriedSame
  <2> QED  BY <2>1, <2>2 DEF IInv, RefsOK, Bit
<1>10. DueOK' /\ ArmedOK' /\ SleepOK'
  BY <1>3 DEF IInv, DueOK, ArmedOK, SleepOK, InHand, Polling, Asleep, Waking, QueueStays
<1> QED  BY <1>1, <1>5, <1>6, <1>7, <1>8, <1>9, <1>10 DEF IInv

(* The inductive invariant holds in every state that push, wake, poll_next *)
(* and drop can reach, whatever the tasks and the threads are.             *)
THEOREM Invariance == Spec => []IInv
<1>1. IInv /\ [Next]_vars => IInv'
  BY NextPreserves, StutterPreserves
<1> QED  BY InitEstablishes, <1>1, PTL DEF Spec

(* Types: only a task that was pushed has a future or a waker, and only a  *)
(* future that is still there can be due.                                  *)
THEOREM TypeCorrect == Spec => []TypeOK
<1>1. IInv => TypeOK
  BY DEF IInv
<1> QED  BY Invariance, <1>1, PTL

------------------------------------------------------------------------------
(* What the invariant says of the set                                      *)

LEMMA InvMemorySafe == IInv => MemorySafe
<1> SUFFICES ASSUME IInv PROVE MemorySafe
  OBVIOUS
<1>1. Owned = future
  BY DEF IInv, FuturesOK, Owned, Hand
<1>2. \A t \in Tasks : t \in OwnedByQueue <=> Standing(t)
  BY <1>1 DEF OwnedByQueue, Standing, InQueue
<1>3. \A t \in Tasks : CountOK(t)
  BY DEF IInv, RefsOK, CountOK, Standing
<1>4. \A t \in Tasks :
        strong[t] = (IF t \in Owned THEN 1 ELSE 0) + (IF t \in OwnedByQueue THEN 1 ELSE 0)
                    + (IF t \in waker THEN 1 ELSE 0)
  BY <1>1, <1>2, <1>3 DEF CountOK, Bit
<1>5. \A t \in future : t \in Tasks /\ strong[t] > 0
  <2> TAKE t \in future
  <2>1. t \in Tasks
    BY DEF IInv, TypeOK, SetsTyped
  <2> QED  BY <1>3, <2>1 DEF CountOK, Bit
<1>6. ASSUME queue_refs # 0, NEW t \in QueueNodes, t # Stub PROVE strong[t] > 0
  <2>1. t \in Tasks
    BY <1>6 DEF QueueNodes, Reachable, Nodes
  <2>2. t \in future \/ Standing(t)
    BY <1>6 DEF Standing, InQueue
  <2>3. CountOK(t)
    BY <1>3, <2>1
  <2> QED  BY <2>2, <2>3 DEF CountOK, Bit
<1>7. head \in QueueNodes
  BY DEF IInv, QueueOK, Chain, QueueNodes
<1>8. queue_refs > 0 => \A t \in (QueueNodes \cup {head}) \ {Stub} : strong[t] > 0
  BY <1>6, <1>7
<1>9. ASSUME NEW x \in Threads, thread[x].pc = "enq_link", thread[x].ptr # Stub
      PROVE  strong[thread[x].ptr] > 0
  <2>1. thread[x].ptr \in QueueNodes
    BY <1>9 DEF IInv, QueueOK, LinksPending, Linking
  <2>2. Pushing(x) \/ Waking(x)
    <3>1. thread[x].call # "none"
      BY <1>9 DEF IInv, ThreadsOK
    <3>2. thread[x].call \in {"none", "push", "wake"}
      BY DEF IInv, TypeOK, ActorsTyped, ThreadTyped
    <3> QED  BY <3>1, <3>2 DEF Pushing, Waking
  <2>3. queue_refs # 0
    <3>1. QueueRefsOK /\ Cardinality(Wakers) \in Nat
      BY FS_CardinalityType DEF IInv, RefsOK, QueueRefsOK
    <3>2. CASE Pushing(x)
      <4>1. owner.pc = "idle"
        BY <3>2 DEF IInv, ThreadsOK
      <4> QED  BY <3>1, <4>1 DEF QueueRefsOK, Bit
    <3>3. CASE Waking(x)
      <4>1. Cardinality(Wakers) # 0
        BY <3>1, <3>3, FS_EmptySet DEF Wakers, QueueRefsOK
      <4> QED  BY <3>1, <4>1 DEF QueueRefsOK, Bit
    <3> QED  BY <2>2, <3>2, <3>3
  <2> QED  BY <1>6, <1>9, <2>1, <2>3
<1> QED
  BY <1>4, <1>5, <1>8, <1>9 DEF MemorySafe, IInv, RefsOK

LEMMA InvSetConsistent == IInv => SetConsistent
<1> SUFFICES ASSUME IInv PROVE SetConsistent
  OBVIOUS
<1>1. (owner.pc = "begin" => owner.prev) /\ (is_terminated => future = {})
  BY DEF IInv, FlagsOK, FuturesOK
<1>2. ASSUME NEW t \in Linked, next_all[t] # Null PROVE prev_all[next_all[t]] = t
  BY <1>2 DEF IInv, ListOK, Doubly
<1>3. ASSUME NEW t \in Linked
      PROVE  prev_all[t] = Null <=>
               (head_all = t \/ (\E x \in Threads : thread[x].ptr = t /\ thread[x].pc = "link"))
  <2>1. prev_all[t] = Null <=> t \in Tops
    BY DEF IInv, ListOK, TopsOK
  <2> QED  BY <2>1 DEF Tops
<1>4. ASSUME PushLinking = {}
      PROVE  /\ head_all = Null <=> Linked = {}
             /\ head_all # Null => len_all[head_all] = Cardinality(Linked)
             /\ Linked = future \ (IF InHand THEN {owner.task} ELSE {})
  <2>1. \A x \in Threads : thread[x].pc # "link"
    <3>1. ASSUME NEW x \in Threads, thread[x].pc = "link" PROVE thread[x].task \in Tasks
      BY <3>1 DEF IInv, ThreadsOK, TypeOK, SetsTyped
    <3> QED  BY <1>4, <3>1 DEF PushLinking
  <2>2. Tops = {head_all}
    BY <2>1 DEF Tops
  <2>3. /\ head_all = Null <=> Linked = {}
        /\ head_all # Null => len_all[head_all] = Cardinality(Linked)
    BY <1>4, <2>2 DEF IInv, ListOK, BaseOK
  <2>4. Linked = future \ Hand
    BY <1>4 DEF IInv, FuturesOK
  <2> QED  BY <2>3, <2>4 DEF Hand
<1> QED  BY <1>1, <1>2, <1>3, <1>4 DEF SetConsistent

LEMMA InvNoLostWakeUp == IInv => NoLostWakeUp
<1> SUFFICES ASSUME IInv, NEW t \in due
             PROVE  /\ \/ t \in QueueNodes
                       \/ \E x \in Threads : OnItsWay(t, x)
                       \/ owner.task = t /\ (InHand \/ owner.pc = "data")
                    /\ Asleep => \/ Parent \in owed
                                 \/ \E x \in Threads : thread[x].pc \notin {"idle", "unref"}
  BY DEF NoLostWakeUp, OnItsWay
<1>1. \/ t \in QueueNodes
      \/ \E x \in Threads : OnItsWay(t, x)
      \/ owner.task = t /\ (InHand \/ owner.pc = "data")
  BY DEF IInv, DueOK, OnItsWay
<1>2. ASSUME Asleep
      PROVE  Parent \in owed \/ \E x \in Threads : thread[x].pc \notin {"idle", "unref"}
  <2>1. CASE t \in QueueNodes
    BY <1>2, <2>1 DEF IInv, SleepOK
  <2>2. CASE \E x \in Threads : OnItsWay(t, x)
    BY <2>2 DEF OnItsWay
  <2> QED  BY <1>1, <1>2, <2>1, <2>2 DEF Asleep, InHand
<1> QED  BY <1>1, <1>2

(* The Arc counts are right for any number of tasks and threads: what      *)
(* link, release_task and the queue's drop keep as raw pointers is counted *)
(* once, so no task is freed while the set, the queue, an enqueue under    *)
(* way or a waker points to it, none is leaked, and neither abort is met.  *)
THEOREM MemoryIsSafe == Spec => []MemorySafe
  BY Invariance, InvMemorySafe, PTL

(* The list of all tasks is what poll_next and unlink take it for, and so  *)
(* are len(), is_terminated() and `assert!(prev)`, for any number of       *)
(* concurrent pushes.                                                      *)
THEOREM SetIsConsistent == Spec => []SetConsistent
  BY Invariance, InvSetConsistent, PTL

(* The debug_assert at the head of enqueue: the task is marked `queued`.   *)
EnqueuesQueued == \A x \in Threads : thread[x].pc = "enq_swap" => queued[thread[x].task]

(* The assertion of enqueue holds for push and for wake_by_ref: between    *)
(* the flag and the swap of the head nobody takes `queued` back.           *)
THEOREM EnqueueAssertHolds == Spec => []EnqueuesQueued
<1>1. IInv => EnqueuesQueued
  BY DEF IInv, PlacesOK, Carrying, EnqueuesQueued
<1> QED  BY Invariance, <1>1, PTL

(* A wake() is never lost: its task is in the ready-to-run queue, on its   *)
(* way there or with the owner until it is polled, and a set whose last    *)
(* poll was Pending has its parent woken.                                  *)
THEOREM WakeUpsAreKept == Spec => []NoLostWakeUp
  BY Invariance, InvNoLostWakeUp, PTL
==============================================================================
