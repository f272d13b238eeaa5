------------------------------ MODULE MpscQueue ------------------------------
(***************************************************************************)
(* futures-channel/src/mpsc/queue.rs: the intrusive linked list under the  *)
(* mpsc channels.  A push swaps itself in as the new head and only then    *)
(* links the old head to it, so the list is broken in between.  One action *)
(* per access to shared memory.  Addresses are reused as soon as they are  *)
(* freed, as an allocator may.                                             *)
(***************************************************************************)
EXTENDS Integers, Sequences

CONSTANTS Nodes,       \* addresses of list nodes
          Producers,   \* threads that push
          Values,      \* what is pushed
          None,        \* Option::None
          Null,        \* the null pointer
          Empty, Inconsistent   \* results of pop

VARIABLES head,      \* Queue::head
          tail,      \* Queue::tail, the consumer's
          next,      \* Node::next of every address
          value,     \* Node::value of every address
          alloc,     \* the addresses that hold a node
          prod,      \* where each producer is in push
          cons,      \* where the consumer is: in pop, or in pop_spin
          result,    \* what pop returned last
          order      \* history: the nodes from tail on, in the order of the swaps

vars == <<head, tail, next, value, alloc, prod, cons, result, order>>

ASSUME ConstantsAssumption == /\ Null \notin Nodes
                              /\ None \notin Values
                              /\ {Empty, Inconsistent} \cap Values = {}
                              /\ Empty # Inconsistent

Idle == [pc |-> "idle", prev |-> Null, node |-> Null]

(* The stub node, without a value.                                         *)
Init == /\ head \in Nodes
        /\ tail = head
        /\ alloc = {head}
        /\ next = [n \in Nodes |-> Null]
        /\ value = [n \in Nodes |-> None]
        /\ prod = [p \in Producers |-> Idle]
        /\ cons = "idle"
        /\ result = Empty
        /\ order = <<head>>

Alive == cons \notin {"drop", "dropped"}

------------------------------------------------------------------------------
(* push                                                                    *)

(* Node::new and head.swap(n)                                              *)
PushSwap(p, n, v) ==
  /\ Alive
  /\ prod[p].pc = "idle"
  /\ n \notin alloc
  /\ alloc' = alloc \cup {n}
  /\ next' = [next EXCEPT ![n] = Null]
  /\ value' = [value EXCEPT ![n] = v]
  /\ head' = n
  /\ prod' = [prod EXCEPT ![p] = [pc |-> "link", prev |-> head, node |-> n]]
  /\ order' = Append(order, n)
  /\ UNCHANGED <<tail, cons, result>>

(* BUG: the link is skipped when another push came in between.             *)
PushLinkIfLast(p) ==
  /\ prod[p].pc = "link"
  /\ next' = IF head = prod[p].node THEN [next EXCEPT ![prod[p].prev] = prod[p].node] ELSE next
  /\ prod' = [prod EXCEPT ![p] = Idle]
  /\ UNCHANGED <<head, tail, value, alloc, cons, result, order>>

(* prev.next.store(n)                                                      *)
PushLink(p) ==
  /\ prod[p].pc = "link"
  /\ next' = [next EXCEPT ![prod[p].prev] = prod[p].node]
  /\ prod' = [prod EXCEPT ![p] = Idle]
  /\ UNCHANGED <<head, tail, value, alloc, cons, result, order>>

------------------------------------------------------------------------------
(* pop, called by itself or in the loop of pop_spin                        *)

InPop == cons \in {"pop", "spin"}

BeginPop ==
  /\ cons = "idle"
  /\ cons' \in {"pop", "spin"}
  /\ UNCHANGED <<head, tail, next, value, alloc, prod, result, order>>

(* BUG: the node whose value was taken is freed, not the old tail.         *)
PopDataFreesNext ==
  /\ InPop
  /\ next[tail] # Null
  /\ result' = value[next[tail]]
  /\ value' = [value EXCEPT ![next[tail]] = None]
  /\ alloc' = alloc \ {next[tail]}
  /\ tail' = next[tail]
  /\ cons' = "idle"
  /\ order' = Tail(order)
  /\ UNCHANGED <<head, next, prod>>

(* The next pointer is there: move on to it, take its value, free the old  *)
(* tail.                                                                   *)
PopData ==
  /\ InPop
  /\ next[tail] # Null
  /\ tail' = next[tail]
  /\ result' = value[next[tail]]
  /\ value' = [value EXCEPT ![next[tail]] = None]
  /\ alloc' = alloc \ {tail}
  /\ cons' = "idle"
  /\ order' = Tail(order)
  /\ UNCHANGED <<head, next, prod>>

PopNoNext ==
  /\ InPop
  /\ next[tail] = Null
  /\ cons' = IF cons = "pop" THEN "pop_head" ELSE "spin_head"
  /\ UNCHANGED <<head, tail, next, value, alloc, prod, result, order>>

(* BUG: an unlinked push is reported as an empty queue.                    *)
PopHeadAlwaysEmpty ==
  /\ cons \in {"pop_head", "spin_head"}
  /\ result' = Empty
  /\ cons' = "idle"
  /\ UNCHANGED <<head, tail, next, value, alloc, prod, order>>

(* head == tail: Empty; otherwise a push is or was under way, and pop_spin *)
(* yields and tries again.                                                 *)
PopHead ==
  /\ cons \in {"pop_head", "spin_head"}
  /\ result' = IF head = tail THEN Empty ELSE Inconsistent
  /\ cons' = IF head # tail /\ cons = "spin_head" THEN "spin" ELSE "idle"
  /\ UNCHANGED <<head, tail, next, value, alloc, prod, order>>

------------------------------------------------------------------------------
(* Queue::drop, with exclusive access: frees node after node from the tail *)

BeginDrop ==
  /\ cons = "idle"
  /\ \A p \in Producers : prod[p].pc = "idle"
  /\ cons' = "drop"
  /\ UNCHANGED <<head, tail, next, value, alloc, prod, result, order>>

DropNode ==
  /\ cons = "drop"
  /\ IF tail = Null
     THEN /\ cons' = "dropped"
          /\ UNCHANGED <<tail, alloc, order>>
     ELSE /\ alloc' = alloc \ {tail}
          /\ tail' = next[tail]
          /\ order' = Tail(order)
          /\ UNCHANGED cons
  /\ UNCHANGED <<head, next, value, prod, result>>

------------------------------------------------------------------------------
Push(p) == PushLink(p) \/ \E n \in Nodes, v \in Values : PushSwap(p, n, v)

Pop == PopData \/ PopNoNext \/ PopHead

Next == \/ \E p \in Producers : Push(p)
        \/ BeginPop \/ Pop
        \/ BeginDrop \/ DropNode

Spec == Init /\ [][Next]_vars

(* A push under way is finished, and so is a pop or a drop.                *)
FairSpec == /\ Spec
            /\ \A p \in Producers : WF_vars(PushLink(p))
            /\ WF_vars(Pop) /\ WF_vars(DropNode)

------------------------------------------------------------------------------
TypeOK == /\ head \in Nodes
          /\ tail \in Nodes \cup {Null}
          /\ next \in [Nodes -> Nodes \cup {Null}]
          /\ value \in [Nodes -> Values \cup {None}]
          /\ alloc \subseteq Nodes
          /\ prod \in [Producers -> [pc : {"idle", "link"},
                                     prev : Nodes \cup {Null}, node : Nodes \cup {Null}]]
          /\ cons \in {"idle", "pop", "spin", "pop_head", "spin_head", "drop", "dropped"}
          /\ result \in Values \cup {Empty, Inconsistent}
          /\ order \in Seq(Nodes)

(* No freed node is written or read: not by the late link of a slow        *)
(* producer, not by the consumer, although the consumer frees each tail as *)
(* soon as it has moved on.                                                *)
NoUseAfterFree ==
  /\ Alive => {head, tail} \subseteq alloc
  /\ cons = "drop" /\ tail # Null => tail \in alloc
  /\ \A p \in Producers : prod[p].pc = "link" => prod[p].prev \in alloc
  /\ InPop /\ next[tail] # Null => next[tail] \in alloc

(* The two asserts of pop: the tail's own value is gone, the next node's   *)
(* is there.                                                               *)
PopAssertsHold ==
  InPop /\ next[tail] # Null => value[tail] = None /\ value[next[tail]] # None

(* Drop walks over every node that is left.                                *)
NoLeak == cons = "dropped" => alloc = {}

(* All three: nodes are used while they are allocated, for what they are,  *)
(* and freed in the end.                                                   *)
NodesAreSound == NoUseAfterFree /\ PopAssertsHold /\ NoLeak

(* The refinement mapping: the values from behind the tail to the head, in *)
(* the order in which the pushes swapped themselves in; nothing once the   *)
(* queue is being dropped.                                                 *)
Contents == IF Alive THEN [i \in 1 .. Len(order) - 1 |-> value[order[i + 1]]] ELSE << >>

Fifo == INSTANCE FifoQueue WITH queue <- Contents

(* Through every broken state of the list, values come out exactly once    *)
(* and in the order of the swaps; Empty means empty and Inconsistent means *)
(* there is something.                                                     *)
ImplementsFifo == Fifo!Spec

(* pop_spin comes back: a producer preempted between its two steps holds   *)
(* the consumer up, but the steps of others cannot do so for ever.         *)
PopReturns == (cons \in {"spin", "spin_head"}) ~> (cons = "idle")
==============================================================================
