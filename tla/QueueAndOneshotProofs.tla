------------------------ MODULE QueueAndOneshotProofs ------------------------
(***************************************************************************)
(* Two parts of futures-channel that have nothing in common but the crate. *)
(* For any number of producers, nodes and values: the mpsc queue never     *)
(* touches freed memory, its asserts hold, drop leaks nothing, and it      *)
(* implements a FIFO queue.  The oneshot channel, the instance One below   *)
(* with variables of its own, accounts for its message and loses no        *)
(* wake-up, and a RemoteHandle over it cancels what it should.             *)
(***************************************************************************)
EXTENDS MpscQueue, SequenceTheorems, TLAPS

------------------------------------------------------------------------------
(* Facts about the sequence operators used.                                *)

LEMMA TailFacts ==
  ASSUME NEW S, NEW s \in Seq(S), Len(s) > 0
  PROVE  /\ Tail(s) \in Seq(S)
         /\ Len(Tail(s)) = Len(s) - 1
         /\ \A i \in 1 .. Len(s) - 1 : Tail(s)[i] = s[i + 1]
  OBVIOUS

LEMMA LenFacts ==
  ASSUME NEW S, NEW s \in Seq(S)
  PROVE  Len(s) \in Nat /\ \A i \in 1 .. Len(s) : s[i] \in S
  OBVIOUS

------------------------------------------------------------------------------
(* The list as the swaps ordered it: no node twice, nothing else           *)
(* allocated, the consumer at its front and the head at its back.          *)
Shape ==
  /\ \A i, j \in 1 .. Len(order) : order[i] = order[j] => i = j
  /\ alloc = {order[i] : i \in 1 .. Len(order)}
  /\ tail = IF Len(order) = 0 THEN Null ELSE order[1]
  /\ Len(order) > 0 => head = order[Len(order)] /\ next[head] = Null

(* Each node points to the one swapped in after it, or a producer that has *)
(* swapped but not linked yet is about to make it so.                      *)
Links ==
  \A i \in 1 .. Len(order) - 1 :
    \/ next[order[i]] = order[i + 1]
    \/ /\ next[order[i]] = Null
       /\ \E p \in Producers : prod[p].pc = "link" /\ prod[p].prev = order[i]

Pushing ==
  \A p \in Producers :
    prod[p].pc = "link" =>
      \E i \in 1 .. Len(order) - 1 :
        prod[p].prev = order[i] /\ prod[p].node = order[i + 1] /\ next[order[i]] = Null

OnePusherPerLink ==
  \A p, q \in Producers :
    prod[p].pc = "link" /\ prod[q].pc = "link" /\ prod[p].prev = prod[q].prev => p = q

(* The tail is the stub; every node behind it still has its value.         *)
Filled ==
  /\ \A i \in 2 .. Len(order) : value[order[i]] \in Values
  /\ Alive => Len(order) > 0 /\ value[order[1]] = None

Phases ==
  /\ ~Alive => \A p \in Producers : prod[p].pc = "idle"
  /\ cons = "dropped" => Len(order) = 0

IInv == TypeOK /\ Shape /\ Links /\ Pushing /\ OnePusherPerLink /\ Filled /\ Phases
LEMMA InitEstablishes == Init => IInv
<1> SUFFICES ASSUME Init PROVE IInv
  OBVIOUS
<1>1. /\ order = <<head>> /\ Len(order) = 1 /\ order[1] = head /\ order \in Seq(Nodes)
      /\ head \in Nodes
  BY DEF Init
<1>2. TypeOK /\ Alive
  BY <1>1 DEF Init, TypeOK, Idle, Alive
<1>3. Shape
  BY <1>1 DEF Init, Shape
<1>4. Links /\ Pushing /\ OnePusherPerLink
  BY <1>1 DEF Init, Links, Pushing, OnePusherPerLink, Idle
<1>5. Filled /\ Phases
  BY <1>1, <1>2 DEF Init, Filled, Phases, Alive
<1> QED
  BY <1>2, <1>3, <1>4, <1>5 DEF IInv

LEMMA PushSwapPreserves == ASSUME IInv, NEW p \in Producers, NEW n \in Nodes, NEW v \in Values,
                                  PushSwap(p, n, v) PROVE IInv'
<1> USE ConstantsAssumption DEF IInv
<1>a. /\ order \in Seq(Nodes) /\ Len(order) \in Nat /\ Len(order) > 0
      /\ \A i \in 1 .. Len(order) : order[i] \in Nodes
  BY LenFacts DEF TypeOK, PushSwap, Filled
<1>b. /\ order' \in Seq(Nodes)
      /\ Len(order') = Len(order) + 1
      /\ \A i \in 1 .. Len(order) : order'[i] = order[i]
      /\ order'[Len(order) + 1] = n
  BY <1>a, AppendProperties DEF PushSwap
<1>c. n \notin alloc /\ \A i \in 1 .. Len(order) : order[i] # n
  BY DEF PushSwap, Shape
<1>1. TypeOK'
  BY <1>b DEF PushSwap, TypeOK
<1>2. Shape'
  BY <1>a, <1>b, <1>c DEF PushSwap, TypeOK, Shape
<1>3. Links'
  BY <1>a, <1>b, <1>c DEF PushSwap, TypeOK, Shape, Links
<1>4. Pushing'
  BY <1>a, <1>b, <1>c DEF PushSwap, TypeOK, Shape, Pushing
<1>5. OnePusherPerLink'
  BY <1>a, <1>b, <1>c DEF PushSwap, TypeOK, Shape, Pushing, OnePusherPerLink
<1>6. Filled'
  BY <1>a, <1>b, <1>c DEF PushSwap, TypeOK, Filled, Alive
<1>7. Phases'
  BY <1>a, <1>b DEF PushSwap, TypeOK, Phases, Alive
<1> QED
  BY <1>1, <1>2, <1>3, <1>4, <1>5, <1>6, <1>7

LEMMA PushLinkPreserves == ASSUME IInv, NEW p \in Producers, PushLink(p) PROVE IInv'
<1> USE ConstantsAssumption DEF IInv
<1>a. /\ order \in Seq(Nodes) /\ Len(order) \in Nat
      /\ \A i \in 1 .. Len(order) : order[i] \in Nodes
  BY LenFacts DEF TypeOK
<1>b. PICK k \in 1 .. Len(order) - 1 :
        prod[p].prev = order[k] /\ prod[p].node = order[k + 1] /\ next[order[k]] = Null
  BY DEF PushLink, Pushing
<1>c. next' = [next EXCEPT ![order[k]] = order[k + 1]] /\ order' = order
  BY <1>b DEF PushLink
<1>d. /\ next'[order[k]] = order[k + 1]
      /\ \A i \in 1 .. Len(order) : i # k => next'[order[i]] = next[order[i]]
  BY <1>a, <1>b, <1>c DEF TypeOK, Shape
<1>1. TypeOK'
  BY <1>a, <1>b, <1>c DEF PushLink, TypeOK, Idle
<1>2. Shape'
  BY <1>a, <1>b, <1>d DEF PushLink, TypeOK, Shape
<1>3. Links'
  BY <1>a, <1>b, <1>d DEF PushLink, TypeOK, Shape, Links, Idle
<1>4. Pushing'
  BY <1>a, <1>b, <1>d DEF PushLink, TypeOK, Shape, Pushing, OnePusherPerLink, Idle
<1>5. OnePusherPerLink'
  BY DEF PushLink, TypeOK, OnePusherPerLink, Idle
<1>6. Filled'
  BY DEF PushLink, Filled, Alive
<1>7. Phases'
  BY DEF PushLink, TypeOK, Phases, Alive
<1> QED
  BY <1>1, <1>2, <1>3, <1>4, <1>5, <1>6, <1>7

LEMMA PopDataPreserves == ASSUME IInv, PopData PROVE IInv'
<1> USE ConstantsAssumption DEF IInv
<1>a. /\ order \in Seq(Nodes) /\ Len(order) \in Nat /\ Alive
      /\ \A i \in 1 .. Len(order) : order[i] \in Nodes
  BY LenFacts DEF TypeOK, PopData, InPop, Alive
<1>b. Len(order) > 1 /\ tail = order[1] /\ next[tail] = order[2]
  BY <1>a DEF PopData, Shape, Links, Filled
<1>c. /\ order' \in Seq(Nodes)
      /\ Len(order') = Len(order) - 1
      /\ \A i \in 1 .. Len(order) - 1 : order'[i] = order[i + 1]
  BY <1>a, <1>b, TailFacts DEF PopData
<1>d. next' = next /\ prod' = prod /\ head' = head
  BY DEF PopData
<1>1. TypeOK'
  BY <1>a, <1>b, <1>c DEF PopData, TypeOK, Filled
<1>2. Shape'
  <2>1. \A i, j \in 1 .. Len(order') : order'[i] = order'[j] => i = j
    BY <1>a, <1>b, <1>c DEF Shape
  <2>2. alloc' = {order'[i] : i \in 1 .. Len(order')}
    <3>1. \A x : x \in alloc' => x \in {order'[i] : i \in 1 .. Len(order')}
      <4> SUFFICES ASSUME NEW x \in alloc' PROVE \E i \in 1 .. Len(order') : x = order'[i]
        OBVIOUS
      <4>1. PICK j \in 1 .. Len(order) : x = order[j] /\ j # 1
        BY <1>a, <1>b, <1>c, <1>d DEF Shape, PopData
      <4>2. j - 1 \in 1 .. Len(order') /\ order'[j - 1] = order[j]
        BY <4>1, <1>a, <1>b, <1>c, <1>d
      <4> QED
        BY <4>1, <4>2
    <3>2. \A i \in 1 .. Len(order') : order'[i] \in alloc'
      <4> TAKE i \in 1 .. Len(order')
      <4>1. i + 1 \in 1 .. Len(order) /\ order'[i] = order[i + 1] /\ order[i + 1] # order[1]
        BY <1>a, <1>b, <1>c, <1>d DEF Shape
      <4> QED
        BY <4>1, <1>a, <1>b, <1>c, <1>d DEF Shape, PopData
    <3> QED
      BY <3>1, <3>2
  <2>3. tail' = IF Len(order') = 0 THEN Null ELSE order'[1]
    BY <1>a, <1>b, <1>c, <1>d DEF Shape, PopData
  <2>4. Len(order') > 0 => head' = order'[Len(order')] /\ next'[head'] = Null
    BY <1>a, <1>b, <1>c, <1>d DEF Shape
  <2> QED
    BY <2>1, <2>2, <2>3, <2>4 DEF Shape
<1>3. Links'
  BY <1>a, <1>b, <1>c, <1>d DEF Shape, Links
<1>4. Pushing'
  <2> SUFFICES ASSUME NEW p \in Producers, prod[p].pc = "link"
               PROVE \E i \in 1 .. Len(order') - 1 :
                       /\ prod[p].prev = order'[i] /\ prod[p].node = order'[i + 1]
                       /\ next[order'[i]] = Null
    BY <1>d DEF Pushing
  <2>1. PICK j \in 1 .. Len(order) - 1 :
          prod[p].prev = order[j] /\ prod[p].node = order[j + 1] /\ next[order[j]] = Null
    BY DEF Pushing
  <2>2. j # 1
    BY <1>a, <1>b, <2>1, ConstantsAssumption
  <2>3. /\ j - 1 \in 1 .. Len(order') - 1
        /\ order'[j - 1] = order[j] /\ order'[(j - 1) + 1] = order[j + 1]
    BY <1>a, <1>b, <1>c, <2>2
  <2> QED
    BY <2>1, <2>3
<1>5. OnePusherPerLink'
  BY <1>d DEF OnePusherPerLink
<1>6. Filled'
  BY <1>a, <1>b, <1>c DEF PopData, TypeOK, Shape, Filled
<1>7. Phases'
  BY <1>a DEF PopData, Phases, Alive
<1> QED
  BY <1>1, <1>2, <1>3, <1>4, <1>5, <1>6, <1>7

LEMMA DropNodePreserves == ASSUME IInv, DropNode PROVE IInv'
<1> USE ConstantsAssumption DEF IInv
<1>a. /\ order \in Seq(Nodes) /\ Len(order) \in Nat /\ ~Alive
      /\ \A i \in 1 .. Len(order) : order[i] \in Nodes
      /\ \A p \in Producers : prod[p].pc = "idle"
  BY LenFacts DEF TypeOK, DropNode, Alive, Phases
<1>b. CASE tail = Null
  <2>1. Len(order) = 0
    BY <1>a, <1>b DEF Shape
  <2> QED
    BY <1>a, <1>b, <2>1 DEF DropNode, TypeOK, Shape, Links, Pushing, OnePusherPerLink,
                            Filled, Phases, Alive
<1>c. CASE tail # Null
  <2>a. Len(order) > 0 /\ tail = order[1]
    BY <1>a, <1>c DEF Shape
  <2>b. (Len(order) = 1 => next[tail] = Null) /\ (Len(order) > 1 => next[tail] = order[2])
    <3>1. ASSUME Len(order) = 1 PROVE next[tail] = Null
      BY <2>a, <3>1 DEF Shape
    <3>2. ASSUME Len(order) > 1 PROVE next[tail] = order[2]
      <4>1. 1 \in 1 .. Len(order) - 1
        BY <1>a, <3>2
      <4>2. next[order[1]] = order[1 + 1]
        BY <1>a, <4>1 DEF Links
      <4> QED
        BY <2>a, <4>2
    <3> QED
      BY <3>1, <3>2
  <2>c. /\ order' \in Seq(Nodes)
        /\ Len(order') = Len(order) - 1
        /\ \A i \in 1 .. Len(order) - 1 : order'[i] = order[i + 1]
    BY <1>a, <1>c, <2>a, TailFacts DEF DropNode
  <2>d. next' = next /\ prod' = prod /\ head' = head /\ value' = value /\ cons' = cons
    BY <1>c DEF DropNode
  <2>1. TypeOK'
    BY <1>a, <1>c, <2>a, <2>c DEF DropNode, TypeOK
  <2>2. Shape'
    <3>1. \A i, j \in 1 .. Len(order') : order'[i] = order'[j] => i = j
      BY <1>a, <2>a, <2>c DEF Shape
    <3>2. alloc' = {order'[i] : i \in 1 .. Len(order')}
      <4>1. \A x : x \in alloc' => x \in {order'[i] : i \in 1 .. Len(order')}
        <5> SUFFICES ASSUME NEW x \in alloc' PROVE \E i \in 1 .. Len(order') : x = order'[i]
          OBVIOUS
        <5>1. PICK j \in 1 .. Len(order) : x = order[j] /\ j # 1
          BY <1>a, <1>c, <2>a, <2>b, <2>c, <2>d DEF Shape, DropNode
        <5>2. j - 1 \in 1 .. Len(order') /\ order'[j - 1] = order[j]
          BY <5>1, <1>a, <1>c, <2>a, <2>b, <2>c, <2>d
        <5> QED
          BY <5>1, <5>2
      <4>2. \A i \in 1 .. Len(order') : order'[i] \in alloc'
        <5> TAKE i \in 1 .. Len(order')
        <5>1. i + 1 \in 1 .. Len(order) /\ order'[i] = order[i + 1] /\ order[i + 1] # order[1]
          BY <1>a, <1>c, <2>a, <2>b, <2>c, <2>d DEF Shape
        <5> QED
          BY <5>1, <1>a, <1>c, <2>a, <2>b, <2>c, <2>d DEF Shape, DropNode
      <4> QED
        BY <4>1, <4>2
    <3>3. tail' = IF Len(order') = 0 THEN Null ELSE order'[1]
      BY <1>a, <1>c, <2>a, <2>b, <2>c, <2>d DEF Shape, DropNode
    <3>4. Len(order') > 0 => head' = order'[Len(order')] /\ next'[head'] = Null
      BY <1>a, <1>c, <2>a, <2>b, <2>c, <2>d DEF Shape
    <3> QED
      BY <3>1, <3>2, <3>3, <3>4 DEF Shape
  <2>3. Links'
    <3> SUFFICES ASSUME NEW i \in 1 .. Len(order') - 1
                 PROVE next'[order'[i]] = order'[i + 1]
      BY DEF Links
    <3>1. /\ i + 1 \in 1 .. Len(order) - 1
          /\ order'[i] = order[i + 1] /\ order'[i + 1] = order[(i + 1) + 1]
      <4>1. Len(order) \in Nat /\ Len(order') = Len(order) - 1 /\ Len(order) > 0
        BY <1>a, <2>a, <2>c
      <4>2. i + 1 \in 1 .. Len(order) - 1 /\ i \in 1 .. Len(order) - 1
        BY <4>1
      <4> QED
        BY <2>c, <4>2
    <3> QED
      BY <1>a, <2>d, <3>1 DEF Links
  <2>4. Pushing'
    BY <1>a, <2>d DEF Pushing
  <2>5. OnePusherPerLink'
    BY <2>d DEF OnePusherPerLink
  <2>6. Filled'
    BY <1>a, <2>a, <2>c, <2>d DEF Filled, Alive
  <2>7. Phases'
    BY <1>a, <1>c, <2>d DEF DropNode, Phases, Alive
  <2> QED
    BY <2>1, <2>2, <2>3, <2>4, <2>5, <2>6, <2>7
<1> QED
  BY <1>b, <1>c

LEMMA NextPreserves == IInv /\ [Next]_vars => IInv'
<1> SUFFICES ASSUME IInv, [Next]_vars PROVE IInv'
  OBVIOUS
<1> DEFINE SameList == /\ UNCHANGED <<head, tail, next, value, alloc, prod, order>>
                       /\ cons' \in {"idle", "pop", "spin", "pop_head", "spin_head", "drop"}
                       /\ result' \in Values \cup {Empty, Inconsistent}
                       /\ cons' = "drop" => \A p \in Producers : prod[p].pc = "idle"
<1>1. ASSUME SameList, Alive PROVE IInv'
  BY <1>1 DEF IInv, TypeOK, Shape, Links, Pushing, OnePusherPerLink, Filled, Phases, Alive
<1> HIDE DEF SameList
<1>2. ASSUME BeginPop PROVE SameList /\ Alive
  BY <1>2 DEF BeginPop, SameList, Alive, IInv, TypeOK
<1>3. ASSUME PopNoNext PROVE SameList /\ Alive
  BY <1>3 DEF PopNoNext, InPop, SameList, Alive, IInv, TypeOK
<1>4. ASSUME PopHead PROVE SameList /\ Alive
  BY <1>4 DEF PopHead, SameList, Alive
<1>5. ASSUME BeginDrop PROVE SameList /\ Alive
  BY <1>5 DEF BeginDrop, SameList, Alive, IInv, TypeOK
<1>6. ASSUME UNCHANGED vars PROVE IInv'
  BY <1>6 DEF vars, IInv, TypeOK, Shape, Links, Pushing, OnePusherPerLink, Filled, Phases, Alive
<1> QED
  BY <1>1, <1>2, <1>3, <1>4, <1>5, <1>6, PushSwapPreserves, PushLinkPreserves,
     PopDataPreserves, DropNodePreserves
  DEF Next, Push, Pop

LEMMA InvariantHolds == Spec => []IInv
  BY InitEstablishes, NextPreserves, PTL DEF Spec

(* Neither producers nor consumer ever touch a freed node.                 *)
THEOREM MemorySafe == Spec => []NoUseAfterFree
<1>1. IInv => NoUseAfterFree
  <2> SUFFICES ASSUME IInv PROVE NoUseAfterFree
    OBVIOUS
  <2> USE DEF IInv
  <2>1. Len(order) \in Nat
    BY LenFacts DEF TypeOK
  <2>2. Alive => {head, tail} \subseteq alloc
    BY <2>1 DEF Shape, Filled
  <2>3. cons = "drop" /\ tail # Null => tail \in alloc
    BY <2>1 DEF Shape
  <2>4. \A p \in Producers : prod[p].pc = "link" => prod[p].prev \in alloc
    BY <2>1 DEF Shape, Pushing
  <2>5. InPop /\ next[tail] # Null => next[tail] \in alloc
    BY <2>1 DEF InPop, Alive, Shape, Links, Filled
  <2> QED
    BY <2>2, <2>3, <2>4, <2>5 DEF NoUseAfterFree
<1> QED
  BY <1>1, InvariantHolds, PTL

(* The asserts of pop never fail.                                          *)
THEOREM AssertsNeverFail == Spec => []PopAssertsHold
<1>1. IInv => PopAssertsHold
  <2> SUFFICES ASSUME IInv, InPop, next[tail] # Null
               PROVE value[tail] = None /\ value[next[tail]] # None
    BY DEF PopAssertsHold
  <2>1. Len(order) \in Nat
    BY LenFacts DEF IInv, TypeOK
  <2>2. Len(order) > 1 /\ tail = order[1] /\ next[tail] = order[2]
    BY <2>1 DEF IInv, InPop, Alive, Shape, Links, Filled
  <2> QED
    BY <2>1, <2>2, ConstantsAssumption DEF IInv, InPop, Alive, Filled
<1> QED
  BY <1>1, InvariantHolds, PTL

(* Dropping the queue frees every node.                                    *)
THEOREM DropFreesAll == Spec => []NoLeak
<1>1. IInv => NoLeak
  BY DEF IInv, NoLeak, Phases, Shape
<1> QED
  BY <1>1, InvariantHolds, PTL

(* Memory safety of the queue, its asserts, and no leak.                   *)
THEOREM NodesSound == Spec => []NodesAreSound
  BY MemorySafe, AssertsNeverFail, DropFreesAll, PTL DEF NodesAreSound

------------------------------------------------------------------------------
(* Refinement of FifoQueue.                                                *)

(* A sequence of values given element by element.                          *)
LEMMA ValueSeq ==
  ASSUME NEW m \in Nat, NEW f, f = [i \in 1 .. m |-> f[i]], \A i \in 1 .. m : f[i] \in Values
  PROVE  f \in Seq(Values) /\ Len(f) = m
  OBVIOUS

LEMMA ContentsFacts ==
  ASSUME IInv, Alive
  PROVE  /\ Len(order) \in Nat /\ Len(order) > 0
         /\ Contents \in Seq(Values)
         /\ Len(Contents) = Len(order) - 1
         /\ \A i \in 1 .. Len(order) - 1 : Contents[i] = value[order[i + 1]]
<1>1. Len(order) \in Nat /\ Len(order) > 0
  BY LenFacts DEF IInv, TypeOK, Filled
<1>2. \A i \in 1 .. Len(order) - 1 : i + 1 \in 2 .. Len(order)
  BY <1>1
<1>3. \A i \in 1 .. Len(order) - 1 : value[order[i + 1]] \in Values
  BY <1>2 DEF IInv, Filled
<1>4. Contents = [i \in 1 .. Len(order) - 1 |-> value[order[i + 1]]] /\ Len(order) - 1 \in Nat
  BY <1>1 DEF Contents
<1>5. Contents \in Seq(Values) /\ Len(Contents) = Len(order) - 1
  BY <1>3, <1>4, ValueSeq
<1> QED
  BY <1>1, <1>4, <1>5

LEMMA PushRefines ==
  ASSUME IInv, NEW p \in Producers, NEW n \in Nodes, NEW v \in Values, PushSwap(p, n, v)
  PROVE  Contents' = Append(Contents, v)
<1>1. Alive /\ Alive' /\ order \in Seq(Nodes)
  BY DEF PushSwap, Alive, IInv, TypeOK
<1>2. /\ Len(order) \in Nat /\ Len(order) > 0
      /\ Contents \in Seq(Values)
      /\ Len(Contents) = Len(order) - 1
      /\ \A i \in 1 .. Len(order) - 1 : Contents[i] = value[order[i + 1]]
  BY <1>1, ContentsFacts
<1>3. /\ Len(order') = Len(order) + 1
      /\ \A i \in 1 .. Len(order) : order'[i] = order[i] /\ order'[i] # n /\ order[i] \in Nodes
      /\ order'[Len(order) + 1] = n
  BY <1>1, AppendProperties, LenFacts DEF PushSwap, IInv, Shape
<1>4. Contents' = [i \in 1 .. Len(order) |-> value'[order'[i + 1]]]
  BY <1>1, <1>2, <1>3 DEF Contents
<1>5. \A i \in 1 .. Len(order) - 1 : value'[order'[i + 1]] = Contents[i]
  <2> TAKE i \in 1 .. Len(order) - 1
  <2>1. i + 1 \in 1 .. Len(order)
    BY <1>2
  <2>2. order'[i + 1] = order[i + 1] /\ order[i + 1] # n /\ order[i + 1] \in Nodes
    BY <1>3, <2>1
  <2> QED
    BY <1>2, <2>2 DEF PushSwap, IInv, TypeOK
<1>6. value'[order'[Len(order) + 1]] = v
  BY <1>3 DEF PushSwap, IInv, TypeOK
<1>7. /\ Append(Contents, v) \in Seq(Values)
      /\ Len(Append(Contents, v)) = Len(order)
      /\ \A i \in 1 .. Len(order) - 1 : Append(Contents, v)[i] = Contents[i]
      /\ Append(Contents, v)[Len(order)] = v
  BY <1>2, AppendProperties
<1>8. \A i \in 1 .. Len(order) : Contents'[i] = Append(Contents, v)[i]
  <2> TAKE i \in 1 .. Len(order)
  <2>1. CASE i \in 1 .. Len(order) - 1
    BY <1>4, <1>5, <1>7, <2>1
  <2>2. CASE i = Len(order)
    BY <1>4, <1>6, <1>7, <2>2
  <2> QED
    BY <1>2, <2>1, <2>2
<1>9. Contents' \in Seq(Values) /\ Len(Contents') = Len(order)
  <2>1. \A i \in 1 .. Len(order) : Contents'[i] \in Values
    BY <1>7, <1>8, LenFacts
  <2>2. Contents' = [i \in 1 .. Len(order) |-> Contents'[i]]
    BY <1>4
  <2> QED
    BY <1>2, <2>1, <2>2, ValueSeq
<1> QED
  BY <1>7, <1>8, <1>9, SeqEqual

LEMMA PopRefines == ASSUME IInv, PopData PROVE Fifo!PopData
<1>1. Alive /\ Alive' /\ order \in Seq(Nodes)
  BY DEF PopData, InPop, Alive, IInv, TypeOK
<1>2. /\ Len(order) \in Nat
      /\ Contents \in Seq(Values)
      /\ Len(Contents) = Len(order) - 1
      /\ \A i \in 1 .. Len(order) - 1 : Contents[i] = value[order[i + 1]]
      /\ \A i \in 1 .. Len(order) : order[i] \in Nodes
  BY <1>1, ContentsFacts, LenFacts
<1>3. Len(order) > 1 /\ tail = order[1] /\ next[tail] = order[2]
  BY <1>1, <1>2 DEF PopData, IInv, Shape, Links, Filled
<1>4. /\ Len(order') = Len(order) - 1
      /\ \A i \in 1 .. Len(order) - 1 : order'[i] = order[i + 1]
  BY <1>1, <1>3, TailFacts DEF PopData
<1>5. Contents # << >> /\ Head(Contents) = Contents[1]
  BY <1>2, <1>3
<1>6. result' = Head(Contents)
  BY <1>2, <1>3, <1>5 DEF PopData
<1>7. /\ Tail(Contents) \in Seq(Values)
      /\ Len(Tail(Contents)) = Len(order) - 2
      /\ \A i \in 1 .. Len(order) - 2 : Tail(Contents)[i] = Contents[i + 1]
  BY <1>2, <1>3, TailFacts
<1>8. Contents' = [i \in 1 .. Len(order) - 2 |-> value'[order'[i + 1]]]
  BY <1>1, <1>2, <1>3, <1>4 DEF Contents
<1>9. \A i \in 1 .. Len(order) - 2 : Contents'[i] = Tail(Contents)[i]
  <2> TAKE i \in 1 .. Len(order) - 2
  <2>1. i + 1 \in 1 .. Len(order) - 1 /\ (i + 1) + 1 \in 1 .. Len(order) /\ 2 \in 1 .. Len(order)
        /\ (i + 1) + 1 # 2
    BY <1>2, <1>3
  <2>2. order'[i + 1] = order[(i + 1) + 1] /\ Contents[i + 1] = value[order[(i + 1) + 1]]
    BY <1>2, <1>4, <2>1
  <2>3. order[(i + 1) + 1] # order[2] /\ order[(i + 1) + 1] \in Nodes
    BY <1>2, <2>1 DEF IInv, Shape
  <2>4. value'[order[(i + 1) + 1]] = value[order[(i + 1) + 1]]
    BY <1>3, <2>3 DEF PopData, IInv, TypeOK
  <2> QED
    BY <1>7, <1>8, <2>2, <2>4
<1>10. Contents' \in Seq(Values) /\ Len(Contents') = Len(order) - 2
  <2>1. \A i \in 1 .. Len(order) - 2 : Contents'[i] \in Values
    BY <1>7, <1>9, LenFacts
  <2>2. Contents' = [i \in 1 .. Len(order) - 2 |-> Contents'[i]] /\ Len(order) - 2 \in Nat
    BY <1>2, <1>3, <1>8
  <2> QED
    BY <2>1, <2>2, ValueSeq
<1>11. Contents' = Tail(Contents)
  BY <1>7, <1>9, <1>10, SeqEqual
<1> QED
  BY <1>5, <1>6, <1>11 DEF Fifo!PopData

LEMMA EmptyContents == ASSUME IInv, Alive PROVE (Contents = << >>) <=> (head = tail)
<1>1. /\ Len(order) \in Nat /\ Len(order) > 0
      /\ Contents \in Seq(Values)
      /\ Len(Contents) = Len(order) - 1
  BY ContentsFacts
<1>2. head = order[Len(order)] /\ tail = order[1]
  BY <1>1 DEF IInv, Shape
<1>3. (head = tail) <=> Len(order) = 1
  BY <1>1, <1>2 DEF IInv, Shape
<1>4. (Contents = << >>) <=> Len(Contents) = 0
  BY <1>1, EmptySeq
<1> QED
  BY <1>1, <1>3, <1>4

LEMMA StepRefines == IInv /\ [Next]_vars => [Fifo!Next]_<<Contents, result>>
<1> SUFFICES ASSUME IInv, [Next]_vars
             PROVE Fifo!Next \/ (Contents' = Contents /\ result' = result)
  OBVIOUS
<1>1. ASSUME NEW p \in Producers, NEW n \in Nodes, NEW v \in Values, PushSwap(p, n, v)
      PROVE Fifo!Push(v)
  BY <1>1, PushRefines DEF Fifo!Push, PushSwap
<1>2. ASSUME NEW p \in Producers, PushLink(p) PROVE Contents' = Contents /\ result' = result
  BY <1>2 DEF PushLink, Contents, Alive
<1>3. ASSUME BeginPop \/ PopNoNext PROVE Contents' = Contents /\ result' = result
  BY <1>3 DEF BeginPop, PopNoNext, InPop, Contents, Alive
<1>4. ASSUME PopHead PROVE Fifo!PopEmpty \/ Fifo!PopInconsistent
  <2>1. Alive /\ Contents' = Contents
    BY <1>4 DEF PopHead, Contents, Alive
  <2> QED
    BY <1>4, <2>1, EmptyContents DEF PopHead, Fifo!PopEmpty, Fifo!PopInconsistent
<1>5. ASSUME BeginDrop PROVE Fifo!Drop
  BY <1>5 DEF BeginDrop, Fifo!Drop, Contents, Alive
<1>6. ASSUME DropNode PROVE Contents' = Contents /\ result' = result
  BY <1>6 DEF DropNode, Contents, Alive
<1>7. ASSUME UNCHANGED vars PROVE Contents' = Contents /\ result' = result
  BY <1>7 DEF vars, Contents, Alive
<1> QED
  BY <1>1, <1>2, <1>3, <1>4, <1>5, <1>6, <1>7, PopRefines DEF Next, Push, Pop, Fifo!Next

(* The linked list, broken as it may be, is a FIFO queue.                  *)
THEOREM RefinesFifo == Spec => ImplementsFifo
<1>1. Init => Fifo!Init
  BY DEF Init, Fifo!Init, Contents, Alive
<1> QED
  BY <1>1, InvariantHolds, StepRefines, PTL DEF Spec, ImplementsFifo, Fifo!Spec

------------------------------------------------------------------------------
(* The oneshot channel and RemoteHandle                                    *)

CONSTANT AfterReady
VARIABLES complete, held, message, rx_task, tx_task, tx, rx, send_res, recv_res,
          dropping, pending, notified, remote, keep_running

One == INSTANCE RemoteHandle

(* Where the two halves are.                                               *)
Sending == {"send_lock", "send_unlock", "send_check", "send_relock", "send_reunlock"}
Canceling == {"cancel_lock", "cancel_unlock", "cancel_check"}
DroppingTx == {"drop_rx_task", "drop_rx_unlock", "drop_rx_unlock_wake", "drop_wake",
               "drop_tx_task", "drop_tx_unlock", "gone"}
Receiving == {"recv_lock", "recv_unlock", "recv_check", "take", "take_unlock"}
DroppingRx == {"drop_rx_task", "drop_rx_unlock"}
Closing == {"tx_task", "tx_unlock", "tx_unlock_wake", "tx_wake"}

HalvesTyped ==
  /\ held \in [One!Locks -> {One!Free, One!Tx, One!Rx}]
  /\ message \in {One!Tx, "data", One!Rx}
  /\ tx \in {"idle", "drop"} \cup Sending \cup Canceling \cup DroppingTx
  /\ rx \in {"idle", "gone"} \cup Receiving \cup DroppingRx \cup Closing
  /\ send_res \in {"none", "ok", "err"} /\ recv_res \in {"none", "ok", "canceled"}

(* A lock is held exactly while its half is between try_lock and drop.     *)
LocksOK ==
  /\ held["data"] = One!Tx <=> tx \in {"send_unlock", "send_reunlock"}
  /\ held["data"] = One!Rx <=> rx = "take_unlock"
  /\ held["rx_task"] = One!Tx <=> tx \in {"drop_rx_unlock", "drop_rx_unlock_wake"}
  /\ held["rx_task"] = One!Rx <=> rx \in {"recv_unlock", "drop_rx_unlock"}
  /\ held["tx_task"] = One!Tx <=> tx \in {"cancel_unlock", "drop_tx_unlock"}
  /\ held["tx_task"] = One!Rx <=> rx \in {"tx_unlock", "tx_unlock_wake"}

(* Who has set `complete`, and who has seen it.                            *)
CompleteOK ==
  /\ tx \in DroppingTx \cup {"send_relock", "send_reunlock"} => complete
  /\ rx \in {"take", "take_unlock", "gone"} \cup DroppingRx \cup Closing => complete
  /\ recv_res # "none" => complete
  /\ rx \in DroppingRx \cup {"gone"} => dropping
  /\ dropping => rx \in DroppingRx \cup Closing \cup {"gone"}

(* Where the message is while it is sent.                                  *)
MessageOK ==
  /\ message = One!Rx <=> recv_res = "ok"
  /\ tx \in {"idle", "send_lock"} \cup Canceling => message = One!Tx /\ send_res = "none"
  /\ tx = "send_unlock" => message = "data" /\ send_res = "none"
  /\ tx \in {"send_check", "send_relock"} => message # One!Tx /\ send_res = "none"
  /\ tx = "send_reunlock" => send_res # "none" /\ (send_res = "ok" => message = One!Rx)
  /\ send_res = "none" /\ tx \in {"drop"} \cup DroppingTx => message = One!Tx
  /\ send_res = "err" => message = One!Tx
  /\ send_res = "ok" => message \in {"data", One!Rx}

(* is_terminated() is not called after Ready.                              *)
NotAskedAgain == "is_terminated" \notin AfterReady

(* A receiver that has its answer and holds the lock of data has left no   *)
(* message there, so a sender that cannot take it back has been heard.     *)
ResultsOK ==
  /\ rx = "take_unlock" /\ recv_res # "none" => message # "data"
  /\ recv_res = "canceled" => send_res # "ok"

(* A receiver left Pending has its waker in rx_task until drop_tx takes it *)
(* out to wake it; the same from the store to the second load of complete. *)
RxArmed ==
  /\ dropping \/ rx \in {"recv_lock", "recv_unlock", "recv_check"} => One!Rx \notin pending
  /\ rx \in {"recv_unlock", "recv_check"} /\ ~complete => rx_task
  /\ One!Rx \in pending /\ One!Rx \notin notified =>
       \/ ~complete /\ rx_task
       \/ tx \in {"drop_rx_unlock_wake", "drop_wake"}
       \/ tx = "drop_rx_task" /\ rx_task

(* And so has a sender in tx_task, until the receiver closes.              *)
TxArmed ==
  /\ One!Tx \in pending => tx = "idle"
  /\ tx \in {"cancel_unlock", "cancel_check"} /\ ~complete => tx_task
  /\ One!Tx \in pending /\ One!Tx \notin notified =>
       \/ ~complete /\ tx_task
       \/ rx \in {"tx_unlock_wake", "tx_wake"}
       \/ rx \in DroppingRx \cup {"tx_task"} /\ tx_task

(* The Remote goes on step by step with its sender, and only the drop of   *)
(* the handle completes the channel before the Remote does.                *)
RemoteOK ==
  remote # "none" =>
    /\ remote \in {"idle", "check", "future", "sent", "cancelled", "dropped"}
    /\ remote \in {"idle", "future"} => tx = "idle"
    /\ remote = "check" => tx \in {"idle"} \cup Canceling
    /\ remote = "check" /\ tx = "idle" /\ One!Tx \notin pending => complete
    /\ remote = "sent" => tx \in {"drop"} \cup Sending \cup DroppingTx
    /\ remote = "sent" /\ tx \in {"drop"} \cup DroppingTx => send_res # "none"
    /\ remote = "cancelled" => tx \in {"idle"} \cup DroppingTx
    /\ remote = "dropped" => tx \in DroppingTx
    /\ complete => dropping \/ tx \in DroppingTx
    /\ rx \in Closing => dropping
    /\ send_res = "err" => dropping
    /\ remote = "cancelled" => dropping /\ ~keep_running
    /\ recv_res = "canceled" => remote = "dropped"

HalvesInv == HalvesTyped /\ LocksOK /\ CompleteOK /\ MessageOK /\ RxArmed /\ TxArmed
OneshotInv == HalvesInv /\ RemoteOK

------------------------------------------------------------------------------
(* Every step of each half.                                                *)
TxActs == \/ One!SendLoad \/ One!SendStore \/ One!SendUnlock \/ One!SendCheck \/ One!SendTakeBack
          \/ One!PollCanceled \/ One!CancelStore \/ One!CancelUnlock \/ One!CancelCheck
          \/ One!DropTxComplete \/ One!DropTxTakeRx \/ One!DropTxUnlockRx \/ One!DropTxWake
          \/ One!DropTxTakeTx \/ One!DropTxUnlockTx
RxActs == \/ One!PollRx \/ One!RecvStore \/ One!RecvUnlock \/ One!RecvCheck
          \/ One!TryRecv \/ One!TakeData \/ One!TakeUnlock \/ One!IsTerminated
          \/ One!CloseRx \/ One!DropRxComplete \/ One!DropRxTakeRx \/ One!DropRxUnlockRx
          \/ One!RxTakeTx \/ One!RxUnlockTx \/ One!RxWakeTx

LEMMA TxKeepsHalves == HalvesInv /\ TxActs => HalvesInv'
<1> SUFFICES ASSUME HalvesInv, TxActs PROVE HalvesInv'
  OBVIOUS
<1> USE DEF HalvesInv, HalvesTyped, LocksOK, CompleteOK, MessageOK, RxArmed, TxArmed,
            Sending, Canceling, DroppingTx, Receiving, DroppingRx, Closing, One!Tx, One!Rx,
            One!Free, One!Locks
<1>1. ASSUME One!SendLoad PROVE HalvesInv'
  BY <1>1 DEF One!SendLoad, One!slots, One!rxVars, One!rxRest
<1>2. ASSUME One!SendStore PROVE HalvesInv'
  BY <1>2 DEF One!SendStore, One!Acquire, One!Fails, One!rxVars, One!taskVars, One!rxRest
<1>3. ASSUME One!SendUnlock PROVE HalvesInv'
  BY <1>3 DEF One!SendUnlock, One!Release, One!slots, One!rxVars, One!taskVars, One!rxRest
<1>4. ASSUME One!SendCheck PROVE HalvesInv'
  BY <1>4 DEF One!SendCheck, One!slots, One!rxVars, One!taskVars, One!rxRest
<1>5. ASSUME One!SendTakeBack PROVE HalvesInv'
  BY <1>5 DEF One!SendTakeBack, One!Acquire, One!Fails, One!rxVars, One!taskVars, One!rxRest
<1>6. ASSUME One!PollCanceled PROVE HalvesInv'
  BY <1>6 DEF One!PollCanceled, One!slots, One!rxVars, One!rxRest
<1>7. ASSUME One!CancelStore PROVE HalvesInv'
  BY <1>7 DEF One!CancelStore, One!Acquire, One!Fails, One!TxReady, One!rxVars, One!rxRest
<1>8. ASSUME One!CancelUnlock PROVE HalvesInv'
  BY <1>8 DEF One!CancelUnlock, One!Release, One!slots, One!rxVars, One!taskVars, One!rxRest
<1>9. ASSUME One!CancelCheck PROVE HalvesInv'
  BY <1>9 DEF One!CancelCheck, One!slots, One!rxVars, One!rxRest
<1>10. ASSUME One!DropTxComplete PROVE HalvesInv'
  BY <1>10 DEF One!DropTxComplete, One!slots, One!rxVars, One!rxRest
<1>11. ASSUME One!DropTxTakeRx PROVE HalvesInv'
  BY <1>11 DEF One!DropTxTakeRx, One!Acquire, One!Fails, One!rxVars, One!taskVars, One!rxRest
<1>12. ASSUME One!DropTxUnlockRx PROVE HalvesInv'
  BY <1>12 DEF One!DropTxUnlockRx, One!Release, One!slots, One!rxVars, One!taskVars, One!rxRest
<1>13. ASSUME One!DropTxWake PROVE HalvesInv'
  BY <1>13 DEF One!DropTxWake, One!slots, One!rxVars, One!rxRest
<1>14. ASSUME One!DropTxTakeTx PROVE HalvesInv'
  BY <1>14 DEF One!DropTxTakeTx, One!Acquire, One!Fails, One!rxVars, One!taskVars, One!rxRest
<1>15. ASSUME One!DropTxUnlockTx PROVE HalvesInv'
  BY <1>15 DEF One!DropTxUnlockTx, One!Release, One!slots, One!rxVars, One!taskVars, One!rxRest
<1> QED
  BY <1>1, <1>2, <1>3, <1>4, <1>5, <1>6, <1>7, <1>8, <1>9, <1>10, <1>11, <1>12, <1>13, <1>14,
     <1>15 DEF TxActs

LEMMA RxKeepsHalves == HalvesInv /\ RxActs => HalvesInv'
<1> SUFFICES ASSUME HalvesInv, RxActs PROVE HalvesInv'
  OBVIOUS
<1> USE DEF HalvesInv, HalvesTyped, LocksOK, CompleteOK, MessageOK, RxArmed, TxArmed,
            Sending, Canceling, DroppingTx, Receiving, DroppingRx, Closing, One!Tx, One!Rx,
            One!Free, One!Locks
<1>1. ASSUME One!PollRx PROVE HalvesInv'
  BY <1>1 DEF One!PollRx, One!slots, One!rxRest, One!txVars
<1>2. ASSUME One!RecvStore PROVE HalvesInv'
  BY <1>2 DEF One!RecvStore, One!Acquire, One!Fails, One!rxRest, One!txVars, One!taskVars
<1>3. ASSUME One!RecvUnlock PROVE HalvesInv'
  BY <1>3 DEF One!RecvUnlock, One!Release, One!slots, One!rxRest, One!txVars, One!taskVars
<1>4. ASSUME One!RecvCheck PROVE HalvesInv'
  BY <1>4 DEF One!RecvCheck, One!slots, One!rxRest, One!txVars
<1>5. ASSUME One!TryRecv PROVE HalvesInv'
  BY <1>5 DEF One!TryRecv, One!MayCall, One!slots, One!rxRest, One!txVars, One!taskVars
<1>6. ASSUME One!TakeData PROVE HalvesInv'
  BY <1>6 DEF One!TakeData, One!Acquire, One!Fails, One!txVars, One!taskVars
<1>7. ASSUME One!TakeUnlock PROVE HalvesInv'
  BY <1>7 DEF One!TakeUnlock, One!Release, One!slots, One!rxRest, One!txVars, One!taskVars
<1>8. ASSUME One!IsTerminated PROVE HalvesInv'
  BY <1>8 DEF One!IsTerminated, One!Acquire, One!MayCall, One!slots, One!rxRest, One!txVars,
     One!taskVars
<1>9. ASSUME One!CloseRx PROVE HalvesInv'
  BY <1>9 DEF One!CloseRx, One!slots, One!rxRest, One!txVars
<1>10. ASSUME One!DropRxComplete PROVE HalvesInv'
  BY <1>10 DEF One!DropRxComplete, One!slots, One!txVars
<1>11. ASSUME One!DropRxTakeRx PROVE HalvesInv'
  BY <1>11 DEF One!DropRxTakeRx, One!Acquire, One!Fails, One!rxRest, One!txVars, One!taskVars
<1>12. ASSUME One!DropRxUnlockRx PROVE HalvesInv'
  BY <1>12 DEF One!DropRxUnlockRx, One!Release, One!slots, One!rxRest, One!txVars, One!taskVars
<1>13. ASSUME One!RxTakeTx PROVE HalvesInv'
  BY <1>13 DEF One!RxTakeTx, One!Acquire, One!Fails, One!Closed, One!rxRest, One!txVars,
     One!taskVars
<1>14. ASSUME One!RxUnlockTx PROVE HalvesInv'
  BY <1>14 DEF One!RxUnlockTx, One!Release, One!Closed, One!slots, One!rxRest, One!txVars,
     One!taskVars
<1>15. ASSUME One!RxWakeTx PROVE HalvesInv'
  BY <1>15 DEF One!RxWakeTx, One!Closed, One!slots, One!rxRest, One!txVars
<1> QED
  BY <1>1, <1>2, <1>3, <1>4, <1>5, <1>6, <1>7, <1>8, <1>9, <1>10, <1>11, <1>12, <1>13, <1>14,
     <1>15 DEF RxActs

LEMMA TxKeepsResults == HalvesInv /\ ResultsOK /\ TxActs => ResultsOK'
<1> SUFFICES ASSUME HalvesInv, ResultsOK, TxActs PROVE ResultsOK'
  OBVIOUS
<1> USE DEF ResultsOK, HalvesInv, HalvesTyped, LocksOK, CompleteOK, MessageOK,
            Sending, Canceling, DroppingTx, Receiving, DroppingRx, Closing, One!Tx, One!Rx,
            One!Free, One!Locks
<1>1. ASSUME One!SendLoad PROVE ResultsOK'
  BY <1>1 DEF One!SendLoad, One!slots, One!rxVars, One!rxRest
<1>2. ASSUME One!SendStore PROVE ResultsOK'
  BY <1>2 DEF One!SendStore, One!Acquire, One!Fails, One!rxVars, One!taskVars, One!rxRest
<1>3. ASSUME One!SendUnlock PROVE ResultsOK'
  BY <1>3 DEF One!SendUnlock, One!Release, One!slots, One!rxVars, One!taskVars, One!rxRest
<1>4. ASSUME One!SendCheck PROVE ResultsOK'
  BY <1>4 DEF One!SendCheck, One!slots, One!rxVars, One!taskVars, One!rxRest
<1>5. ASSUME One!SendTakeBack PROVE ResultsOK'
  BY <1>5 DEF One!SendTakeBack, One!Acquire, One!Fails, One!rxVars, One!taskVars, One!rxRest
<1>6. ASSUME One!PollCanceled PROVE ResultsOK'
  BY <1>6 DEF One!PollCanceled, One!slots, One!rxVars, One!rxRest
<1>7. ASSUME One!CancelStore PROVE ResultsOK'
  BY <1>7 DEF One!CancelStore, One!Acquire, One!Fails, One!TxReady, One!rxVars, One!rxRest
<1>8. ASSUME One!CancelUnlock PROVE ResultsOK'
  BY <1>8 DEF One!CancelUnlock, One!Release, One!slots, One!rxVars, One!taskVars, One!rxRest
<1>9. ASSUME One!CancelCheck PROVE ResultsOK'
  BY <1>9 DEF One!CancelCheck, One!slots, One!rxVars, One!rxRest
<1>10. ASSUME One!DropTxComplete PROVE ResultsOK'
  BY <1>10 DEF One!DropTxComplete, One!slots, One!rxVars, One!rxRest
<1>11. ASSUME One!DropTxTakeRx PROVE ResultsOK'
  BY <1>11 DEF One!DropTxTakeRx, One!Acquire, One!Fails, One!rxVars, One!taskVars, One!rxRest
<1>12. ASSUME One!DropTxUnlockRx PROVE ResultsOK'
  BY <1>12 DEF One!DropTxUnlockRx, One!Release, One!slots, One!rxVars, One!taskVars, One!rxRest
<1>13. ASSUME One!DropTxWake PROVE ResultsOK'
  BY <1>13 DEF One!DropTxWake, One!slots, One!rxVars, One!rxRest
<1>14. ASSUME One!DropTxTakeTx PROVE ResultsOK'
  BY <1>14 DEF One!DropTxTakeTx, One!Acquire, One!Fails, One!rxVars, One!taskVars, One!rxRest
<1>15. ASSUME One!DropTxUnlockTx PROVE ResultsOK'
  BY <1>15 DEF One!DropTxUnlockTx, One!Release, One!slots, One!rxVars, One!taskVars, One!rxRest
<1> QED
  BY <1>1, <1>2, <1>3, <1>4, <1>5, <1>6, <1>7, <1>8, <1>9, <1>10, <1>11, <1>12, <1>13, <1>14,
     <1>15 DEF TxActs

LEMMA RxKeepsResults == NotAskedAgain /\ HalvesInv /\ ResultsOK /\ RxActs => ResultsOK'
<1> SUFFICES ASSUME NotAskedAgain, HalvesInv, ResultsOK, RxActs PROVE ResultsOK'
  OBVIOUS
<1> USE DEF NotAskedAgain, ResultsOK, HalvesInv, HalvesTyped, LocksOK, CompleteOK, MessageOK,
            Sending, Canceling, DroppingTx, Receiving, DroppingRx, Closing, One!Tx, One!Rx,
            One!Free, One!Locks
<1>1. ASSUME One!PollRx PROVE ResultsOK'
  BY <1>1 DEF One!PollRx, One!slots, One!rxRest, One!txVars
<1>2. ASSUME One!RecvStore PROVE ResultsOK'
  BY <1>2 DEF One!RecvStore, One!Acquire, One!Fails, One!rxRest, One!txVars, One!taskVars
<1>3. ASSUME One!RecvUnlock PROVE ResultsOK'
  BY <1>3 DEF One!RecvUnlock, One!Release, One!slots, One!rxRest, One!txVars, One!taskVars
<1>4. ASSUME One!RecvCheck PROVE ResultsOK'
  BY <1>4 DEF One!RecvCheck, One!slots, One!rxRest, One!txVars
<1>5. ASSUME One!TryRecv PROVE ResultsOK'
  BY <1>5 DEF One!TryRecv, One!MayCall, One!slots, One!rxRest, One!txVars, One!taskVars
<1>6. ASSUME One!TakeData PROVE ResultsOK'
  BY <1>6 DEF One!TakeData, One!Acquire, One!Fails, One!txVars, One!taskVars
<1>7. ASSUME One!TakeUnlock PROVE ResultsOK'
  BY <1>7 DEF One!TakeUnlock, One!Release, One!slots, One!rxRest, One!txVars, One!taskVars
<1>8. ASSUME One!IsTerminated PROVE ResultsOK'
  BY <1>8 DEF One!IsTerminated, One!Acquire, One!MayCall, One!slots, One!rxRest, One!txVars,
     One!taskVars
<1>9. ASSUME One!CloseRx PROVE ResultsOK'
  BY <1>9 DEF One!CloseRx, One!slots, One!rxRest, One!txVars
<1>10. ASSUME One!DropRxComplete PROVE ResultsOK'
  BY <1>10 DEF One!DropRxComplete, One!slots, One!txVars
<1>11. ASSUME One!DropRxTakeRx PROVE ResultsOK'
  BY <1>11 DEF One!DropRxTakeRx, One!Acquire, One!Fails, One!rxRest, One!txVars, One!taskVars
<1>12. ASSUME One!DropRxUnlockRx PROVE ResultsOK'
  BY <1>12 DEF One!DropRxUnlockRx, One!Release, One!slots, One!rxRest, One!txVars, One!taskVars
<1>13. ASSUME One!RxTakeTx PROVE ResultsOK'
  BY <1>13 DEF One!RxTakeTx, One!Acquire, One!Fails, One!Closed, One!rxRest, One!txVars,
     One!taskVars
<1>14. ASSUME One!RxUnlockTx PROVE ResultsOK'
  BY <1>14 DEF One!RxUnlockTx, One!Release, One!Closed, One!slots, One!rxRest, One!txVars,
     One!taskVars
<1>15. ASSUME One!RxWakeTx PROVE ResultsOK'
  BY <1>15 DEF One!RxWakeTx, One!Closed, One!slots, One!rxRest, One!txVars
<1> QED
  BY <1>1, <1>2, <1>3, <1>4, <1>5, <1>6, <1>7, <1>8, <1>9, <1>10, <1>11, <1>12, <1>13, <1>14,
     <1>15 DEF RxActs

LEMMA RemoteKept == OneshotInv /\ One!RemoteNext => RemoteOK'
<1> SUFFICES ASSUME OneshotInv, One!RemoteNext PROVE RemoteOK'
  OBVIOUS
<1> USE DEF OneshotInv, HalvesInv, HalvesTyped, LocksOK, CompleteOK, MessageOK, TxArmed, RemoteOK,
            Sending, Canceling, DroppingTx, Receiving, DroppingRx, Closing, One!Tx, One!Rx,
            One!Free, One!Locks, One!remoteVars
<1>1. ASSUME One!SendStore, UNCHANGED One!remoteVars PROVE RemoteOK'
  BY <1>1 DEF One!SendStore, One!Acquire, One!Fails, One!rxVars, One!taskVars, One!rxRest
<1>2. ASSUME One!SendUnlock, UNCHANGED One!remoteVars PROVE RemoteOK'
  BY <1>2 DEF One!SendUnlock, One!Release, One!slots, One!rxVars, One!taskVars, One!rxRest
<1>3. ASSUME One!SendCheck, UNCHANGED One!remoteVars PROVE RemoteOK'
  BY <1>3 DEF One!SendCheck, One!slots, One!rxVars, One!taskVars, One!rxRest
<1>4. ASSUME One!SendTakeBack, UNCHANGED One!remoteVars PROVE RemoteOK'
  BY <1>4 DEF One!SendTakeBack, One!Acquire, One!Fails, One!rxVars, One!taskVars, One!rxRest
<1>5. ASSUME One!CancelStore, UNCHANGED One!remoteVars PROVE RemoteOK'
  BY <1>5 DEF One!CancelStore, One!Acquire, One!Fails, One!TxReady, One!rxVars, One!rxRest
<1>6. ASSUME One!CancelUnlock, UNCHANGED One!remoteVars PROVE RemoteOK'
  BY <1>6 DEF One!CancelUnlock, One!Release, One!slots, One!rxVars, One!taskVars, One!rxRest
<1>7. ASSUME One!CancelCheck, UNCHANGED One!remoteVars PROVE RemoteOK'
  BY <1>7 DEF One!CancelCheck, One!slots, One!rxVars, One!rxRest
<1>8. ASSUME One!DropTxTakeRx, UNCHANGED One!remoteVars PROVE RemoteOK'
  BY <1>8 DEF One!DropTxTakeRx, One!Acquire, One!Fails, One!rxVars, One!taskVars, One!rxRest
<1>9. ASSUME One!DropTxUnlockRx, UNCHANGED One!remoteVars PROVE RemoteOK'
  BY <1>9 DEF One!DropTxUnlockRx, One!Release, One!slots, One!rxVars, One!taskVars, One!rxRest
<1>10. ASSUME One!DropTxWake, UNCHANGED One!remoteVars PROVE RemoteOK'
  BY <1>10 DEF One!DropTxWake, One!slots, One!rxVars, One!rxRest
<1>11. ASSUME One!DropTxTakeTx, UNCHANGED One!remoteVars PROVE RemoteOK'
  BY <1>11 DEF One!DropTxTakeTx, One!Acquire, One!Fails, One!rxVars, One!taskVars, One!rxRest
<1>12. ASSUME One!DropTxUnlockTx, UNCHANGED One!remoteVars PROVE RemoteOK'
  BY <1>12 DEF One!DropTxUnlockTx, One!Release, One!slots, One!rxVars, One!taskVars, One!rxRest
<1>13. ASSUME tx = "drop", One!DropTxComplete, UNCHANGED One!remoteVars PROVE RemoteOK'
  BY <1>13 DEF One!DropTxComplete, One!slots, One!rxVars, One!rxRest
<1>14. ASSUME One!RecvStore, UNCHANGED One!remoteVars PROVE RemoteOK'
  BY <1>14 DEF One!RecvStore, One!Acquire, One!Fails, One!rxRest, One!txVars, One!taskVars
<1>15. ASSUME One!RecvUnlock, UNCHANGED One!remoteVars PROVE RemoteOK'
  BY <1>15 DEF One!RecvUnlock, One!Release, One!slots, One!rxRest, One!txVars, One!taskVars
<1>16. ASSUME One!RecvCheck, UNCHANGED One!remoteVars PROVE RemoteOK'
  BY <1>16 DEF One!RecvCheck, One!slots, One!rxRest, One!txVars
<1>17. ASSUME One!TakeData, UNCHANGED One!remoteVars PROVE RemoteOK'
  BY <1>17 DEF One!TakeData, One!Acquire, One!Fails, One!txVars, One!taskVars
<1>18. ASSUME One!TakeUnlock, UNCHANGED One!remoteVars PROVE RemoteOK'
  BY <1>18 DEF One!TakeUnlock, One!Release, One!slots, One!rxRest, One!txVars, One!taskVars
<1>19. ASSUME One!DropRxTakeRx, UNCHANGED One!remoteVars PROVE RemoteOK'
  BY <1>19 DEF One!DropRxTakeRx, One!Acquire, One!Fails, One!rxRest, One!txVars, One!taskVars
<1>20. ASSUME One!DropRxUnlockRx, UNCHANGED One!remoteVars PROVE RemoteOK'
  BY <1>20 DEF One!DropRxUnlockRx, One!Release, One!slots, One!rxRest, One!txVars, One!taskVars
<1>21. ASSUME One!RxTakeTx, UNCHANGED One!remoteVars PROVE RemoteOK'
  BY <1>21 DEF One!RxTakeTx, One!Acquire, One!Fails, One!Closed, One!rxRest, One!txVars,
     One!taskVars
<1>22. ASSUME One!RxUnlockTx, UNCHANGED One!remoteVars PROVE RemoteOK'
  BY <1>22 DEF One!RxUnlockTx, One!Release, One!Closed, One!slots, One!rxRest, One!txVars,
     One!taskVars
<1>23. ASSUME One!RxWakeTx, UNCHANGED One!remoteVars PROVE RemoteOK'
  BY <1>23 DEF One!RxWakeTx, One!Closed, One!slots, One!rxRest, One!txVars
<1>24. ASSUME One!PlainCall PROVE RemoteOK'
  BY <1>24 DEF One!PlainCall
<1>25. ASSUME One!RemoteCheck PROVE RemoteOK'
  BY <1>25 DEF One!RemoteCheck, One!vars, One!slots, One!txVars, One!rxVars, One!rxRest,
     One!taskVars
<1>26. ASSUME One!RemotePolled PROVE RemoteOK'
  BY <1>26 DEF One!RemotePolled, One!SendLoad, One!vars, One!slots, One!txVars, One!rxVars,
     One!rxRest, One!taskVars
<1>27. ASSUME One!RemoteDrop PROVE RemoteOK'
  BY <1>27 DEF One!RemoteDrop, One!DropTxComplete, One!slots, One!rxVars, One!rxRest
<1>28. ASSUME One!HandlePoll PROVE RemoteOK'
  BY <1>28 DEF One!HandlePoll, One!PollRx, One!slots, One!rxRest, One!txVars
<1>29. ASSUME One!RemotePoll PROVE RemoteOK'
  BY <1>29 DEF One!RemotePoll, One!PollCanceled, One!slots, One!rxVars, One!rxRest
<1>30. ASSUME One!FutureWakes PROVE RemoteOK'
  BY <1>30 DEF One!FutureWakes, One!slots, One!txVars, One!rxVars, One!rxRest
<1>31. ASSUME One!Forget PROVE RemoteOK'
  BY <1>31 DEF One!Forget, One!vars, One!slots, One!txVars, One!rxVars, One!rxRest, One!taskVars
<1>32. ASSUME One!HandleDrop PROVE RemoteOK'
  BY <1>32 DEF One!HandleDrop, One!DropRxComplete, One!slots, One!txVars
<1>33. ASSUME One!ChannelStep PROVE RemoteOK'
  <2>1. ASSUME One!TxStep PROVE RemoteOK'
    BY <1>33, <2>1, <1>1, <1>2, <1>3, <1>4, <1>5, <1>6, <1>7, <1>8, <1>9, <1>10, <1>11, <1>12,
       <1>13 DEF One!ChannelStep, One!TxStep
  <2>2. ASSUME One!RxStep PROVE RemoteOK'
    BY <1>33, <2>2, <1>14, <1>15, <1>16, <1>17, <1>18, <1>19, <1>20, <1>21, <1>22,
       <1>23 DEF One!ChannelStep, One!RxStep
  <2> QED  BY <1>33, <2>1, <2>2 DEF One!ChannelStep
<1> QED
  BY <1>24, <1>25, <1>26, <1>27, <1>28, <1>29, <1>30, <1>31, <1>32, <1>33 DEF One!RemoteNext,
     One!RemoteStep

(* To the channel a step of the pair is a step of a half, or nothing.      *)
LEMMA RemoteIsChannelStep ==
  One!RemoteNext => TxActs \/ RxActs \/ One!FutureWakes \/ UNCHANGED One!vars
<1>1. One!ChannelStep => TxActs \/ RxActs
  BY DEF One!ChannelStep, One!TxStep, One!RxStep, TxActs, RxActs
<1>2. One!PlainCall \/ One!HandlePoll \/ One!RemotePoll \/ One!HandleDrop => TxActs \/ RxActs
  BY DEF One!PlainCall, One!TxCall, One!RxCall, One!HandlePoll, One!RemotePoll, One!HandleDrop,
     TxActs, RxActs
<1>3. One!RemoteDrop \/ One!RemotePolled => TxActs \/ UNCHANGED One!vars
  BY DEF One!RemoteDrop, One!RemotePolled, TxActs
<1>4. One!RemoteCheck \/ One!Forget => UNCHANGED One!vars
  BY DEF One!RemoteCheck, One!Forget
<1> QED
  BY <1>1, <1>2, <1>3, <1>4 DEF One!RemoteNext, One!RemoteStep

LEMMA HalvesStay == HalvesInv /\ (One!FutureWakes \/ UNCHANGED One!vars) => HalvesInv'
  BY DEF One!FutureWakes, One!vars, One!slots, One!txVars, One!rxVars, One!rxRest, One!taskVars,
     HalvesInv, HalvesTyped, LocksOK,
         CompleteOK, MessageOK, RxArmed, TxArmed, One!Tx, One!Rx

LEMMA ResultsStay == ResultsOK /\ (One!FutureWakes \/ UNCHANGED One!vars) => ResultsOK'
  BY DEF One!FutureWakes, One!vars, One!slots, One!txVars, One!rxVars, One!rxRest, One!taskVars,
     ResultsOK

LEMMA RemoteInitEstablishes == One!RemoteInit => OneshotInv /\ ResultsOK
<1> SUFFICES ASSUME One!RemoteInit PROVE OneshotInv /\ ResultsOK
  OBVIOUS
<1>1. One!NewChannel
  BY DEF One!RemoteInit, One!Init
<1>2. HalvesInv /\ ResultsOK
  BY <1>1 DEF One!NewChannel, HalvesInv, HalvesTyped, LocksOK, CompleteOK, MessageOK, RxArmed,
     TxArmed, ResultsOK,
              One!Tx, One!Rx, One!Free, One!Locks, Sending, Canceling, DroppingTx, Receiving,
              DroppingRx, Closing
<1>3. RemoteOK
  BY <1>1 DEF One!RemoteInit, One!NewChannel, RemoteOK, One!Tx, One!Rx, One!Free, Canceling,
     DroppingTx, Closing
<1> QED  BY <1>2, <1>3 DEF OneshotInv

LEMMA RemoteNextPreserves == OneshotInv /\ [One!RemoteNext]_(One!allVars) => OneshotInv'
<1>1. OneshotInv /\ One!RemoteNext => OneshotInv'
  BY RemoteIsChannelStep, TxKeepsHalves, RxKeepsHalves, HalvesStay, RemoteKept DEF OneshotInv
<1>2. OneshotInv /\ UNCHANGED One!allVars => OneshotInv'
  <2> SUFFICES ASSUME OneshotInv, UNCHANGED One!allVars PROVE OneshotInv'
    OBVIOUS
  <2>1. HalvesInv'
    BY HalvesStay DEF OneshotInv, One!allVars
  <2>2. RemoteOK'
    BY DEF OneshotInv, RemoteOK, One!allVars, One!remoteVars, One!vars, One!slots, One!txVars,
       One!rxVars, One!rxRest, One!taskVars
  <2> QED  BY <2>1, <2>2 DEF OneshotInv
<1> QED  BY <1>1, <1>2

LEMMA ResultsKept ==
  ASSUME NotAskedAgain
  PROVE  OneshotInv /\ ResultsOK /\ [One!RemoteNext]_(One!allVars) => ResultsOK'
<1>1. HalvesInv /\ ResultsOK /\ One!RemoteNext => ResultsOK'
  BY NotAskedAgain, RemoteIsChannelStep, TxKeepsResults, RxKeepsResults, ResultsStay
<1>2. UNCHANGED One!allVars => UNCHANGED One!vars
  BY DEF One!allVars
<1> QED  BY <1>1, <1>2, ResultsStay DEF OneshotInv

LEMMA RemoteInvariance == One!RemoteSpec => []OneshotInv
<1>1. One!RemoteSpec => One!RemoteInit /\ [][One!RemoteNext]_(One!allVars)
  BY PTL DEF One!RemoteSpec
<1> QED  BY <1>1, RemoteInitEstablishes, RemoteNextPreserves, PTL

(* No wake-up is lost between the two halves of a oneshot channel, whoever *)
(* owns them: the second load of `complete` in recv and poll_canceled      *)
(* closes the window that the try-locks leave.                             *)
THEOREM OneshotWakeUpsKept == One!RemoteSpec => []One!NoLostWakeUp
<1>1. OneshotInv => One!NoLostWakeUp
  BY DEF OneshotInv, HalvesInv, RxArmed, TxArmed, One!NoLostWakeUp, DroppingRx
<1> QED  BY <1>1, RemoteInvariance, PTL

(* Remote::poll gives up only after a drop of its handle that was not      *)
(* forgotten, and a RemoteHandle panics for a lost sender only if the      *)
(* executor dropped a Remote that was not Ready.                           *)
THEOREM RemoteIsCorrect == One!RemoteSpec => []One!RemoteCorrect
<1>1. OneshotInv => One!RemoteCorrect
  BY DEF OneshotInv, RemoteOK, One!RemoteCorrect
<1> QED  BY <1>1, RemoteInvariance, PTL

(* send and the receiver agree on what became of the message and it is     *)
(* with one of them or in the channel, for every owner that does not call  *)
(* is_terminated() on a receiver that was Ready (with that call they can   *)
(* disagree).                                                              *)
THEOREM OneshotMessageAccounted ==
  ASSUME "is_terminated" \notin AfterReady
  PROVE  One!RemoteSpec => []One!MessageAccounted
<1>1. NotAskedAgain
  BY DEF NotAskedAgain
<1>2. OneshotInv /\ ResultsOK /\ [One!RemoteNext]_(One!allVars) => OneshotInv' /\ ResultsOK'
  BY <1>1, RemoteNextPreserves, ResultsKept
<1>3. OneshotInv /\ ResultsOK => One!MessageAccounted
  BY DEF OneshotInv, HalvesInv, MessageOK, ResultsOK, One!MessageAccounted, One!ResultsAgree,
     One!Tx, One!Rx
<1>4. One!RemoteSpec => One!RemoteInit /\ [][One!RemoteNext]_(One!allVars)
  BY PTL DEF One!RemoteSpec
<1> QED  BY RemoteInitEstablishes, <1>2, <1>3, <1>4, PTL
==============================================================================
