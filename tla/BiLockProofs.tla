----------------------------- MODULE BiLockProofs -----------------------------
(***************************************************************************)
(* With one poller per half (any two of them), BiLock excludes, never      *)
(* panics and never loses the wake-up of a parked task.  The same holds of *)
(* the BiLock of a split object, whose halves then deliver in order what   *)
(* they are given.                                                         *)
(***************************************************************************)
EXTENDS Split, TLAPS

(* "These are the only two handles": among any three pollers two are the   *)
(* same one.                                                               *)
TwoOwners == \A p, q, r \in Pollers : p = q \/ q = r \/ p = r

(* No poller is in one of the two explicit panics.                         *)
PanicUnreached == \A p \in Pollers : pc[p] # "panic"

(* The word says unlocked exactly when there is no guard.                  *)
WordMatchesGuard ==
  /\ MutualExclusion
  /\ (\E p \in Pollers : pc[p] = "held") <=> state # Unlocked

(* A parked waker is not the holder's, and nobody is about to park on it.  *)
ParkedWaker ==
  \A p \in Pollers :
    /\ state = p => pc[p] \in {"idle", "parked", "swap", "dropped"}
    /\ pc[p] = "park" => state \notin Pollers

(* A box taken out by unlock belongs to the poller that wakes it.          *)
WakeeOwned ==
  \A p \in Pollers : (pc[p] = "wake" <=> wakee[p] \in Pollers)

(* The inductive invariant.                                                *)
IInv == /\ TypeOK
        /\ PanicUnreached
        /\ WordMatchesGuard
        /\ ParkedWaker
        /\ WakeeOwned
        /\ ParkedIsReachable

LEMMA InitEstablishes == Init => IInv
  BY PollersAssumption
  DEF Init, IInv, TypeOK, PC, PanicUnreached, WordMatchesGuard, MutualExclusion, ParkedWaker,
      WakeeOwned, ParkedIsReachable, Unlocked, Locked, NoBox

LEMMA NextPreserves == TwoOwners /\ IInv /\ [Next]_vars => IInv'
<1> SUFFICES ASSUME TwoOwners, IInv, [Next]_vars PROVE IInv'
  OBVIOUS
<1>0. Unlocked # Locked /\ Unlocked \notin Pollers /\ Locked \notin Pollers /\ NoBox \notin Pollers
  BY PollersAssumption DEF Unlocked, Locked
<1> USE <1>0 DEF IInv, TypeOK, PC, PanicUnreached, WordMatchesGuard, MutualExclusion,
        ParkedWaker, WakeeOwned, Goto
<1>1. ASSUME NEW p \in Pollers, PollLock(p) PROVE IInv'
  <2>1. ParkedIsReachable'
    BY <1>1 DEF PollLock, ParkedIsReachable
  <2> QED
    BY <1>1, <2>1 DEF PollLock
<1>2. ASSUME NEW p \in Pollers, Swap(p) PROVE IInv'
  <2>1. ParkedIsReachable'
    BY <1>2 DEF Swap, ParkedIsReachable, TwoOwners
  <2>2. ParkedWaker' /\ WakeeOwned' /\ TypeOK' /\ PanicUnreached'
    BY <1>2 DEF Swap
  <2>3. WordMatchesGuard'
    BY <1>2 DEF Swap
  <2> QED
    BY <2>1, <2>2, <2>3
<1>3. ASSUME NEW p \in Pollers, Park(p) PROVE IInv'
  <2>1. ParkedIsReachable'
    BY <1>3 DEF Park, ParkedIsReachable
  <2>2. ParkedWaker'
    BY <1>3 DEF Park, TwoOwners
  <2>3. WakeeOwned' /\ TypeOK' /\ PanicUnreached'
    BY <1>3 DEF Park
  <2>4. WordMatchesGuard'
    BY <1>3 DEF Park
  <2> QED
    BY <2>1, <2>2, <2>3, <2>4
<1>4. ASSUME NEW p \in Pollers, Cancel(p) PROVE IInv'
  <2>1. ParkedIsReachable'
    BY <1>4 DEF Cancel, ParkedIsReachable
  <2> QED
    BY <1>4, <2>1 DEF Cancel
<1>5. ASSUME NEW p \in Pollers, Unlock(p) PROVE IInv'
  <2>1. ParkedIsReachable'
    BY <1>5 DEF Unlock, ParkedIsReachable
  <2>2. ParkedWaker' /\ WakeeOwned' /\ TypeOK' /\ PanicUnreached'
    BY <1>5 DEF Unlock
  <2>3. WordMatchesGuard'
    BY <1>5 DEF Unlock
  <2> QED
    BY <2>1, <2>2, <2>3
<1>6. ASSUME NEW p \in Pollers, Wake(p) PROVE IInv'
  <2>1. ParkedIsReachable'
    BY <1>6 DEF Wake, ParkedIsReachable
  <2> QED
    BY <1>6, <2>1 DEF Wake
<1>7. ASSUME NEW p \in Pollers, DropHalf(p) PROVE IInv'
  <2>1. ParkedIsReachable'
    BY <1>7 DEF DropHalf, ParkedIsReachable
  <2> QED
    BY <1>7, <2>1 DEF DropHalf
<1>8. ASSUME UNCHANGED vars PROVE IInv'
  BY <1>8 DEF vars, ParkedIsReachable
<1> QED
  BY <1>1, <1>2, <1>3, <1>4, <1>5, <1>6, <1>7, <1>8 DEF Next, Continue

LEMMA InvariantHolds == ASSUME TwoOwners PROVE Spec => []IInv
  BY InitEstablishes, NextPreserves, TwoOwners, PTL DEF Spec

(* At most one guard of a BiLock exists.                                   *)
THEOREM Exclusion == ASSUME TwoOwners PROVE Spec => []MutualExclusion
<1>1. IInv => MutualExclusion
  BY DEF IInv, WordMatchesGuard
<1> QED
  BY <1>1, InvariantHolds, TwoOwners, PTL

(* No panic of bilock.rs can be reached, nor does its assert fail.         *)
THEOREM NeverPanics == ASSUME TwoOwners PROVE Spec => []NoPanic
<1>1. IInv => NoPanic
  BY DEF IInv, PanicUnreached, WordMatchesGuard, NoPanic
<1> QED
  BY <1>1, InvariantHolds, TwoOwners, PTL

(* At most one guard exists, and no panic of bilock.rs is reached.         *)
THEOREM Sound == ASSUME TwoOwners PROVE Spec => []LockIsSound
  BY Exclusion, NeverPanics, TwoOwners, PTL DEF LockIsSound

(* No wake-up of a task parked on a BiLock is lost.                        *)
THEOREM NoLostWakeUp == ASSUME TwoOwners PROVE Spec => []ParkedIsReachable
<1>1. IInv => ParkedIsReachable
  BY DEF IInv
<1> QED
  BY <1>1, InvariantHolds, TwoOwners, PTL

------------------------------------------------------------------------------
(* Split: the invariant of its BiLock, and what the halves add to it.      *)

SplitTyped ==
  /\ call \in [Pollers -> {"none", "next", "ready", "flush", "close"}]
  /\ res \in [Pollers -> {"none", "ok", "end", "err", "pending"}]
  /\ armed \subseteq Pollers
  /\ slot \in Nat /\ ready \in BOOLEAN /\ given \in Nat
  /\ sunk \in Seq(Nat) /\ flushed \in Nat /\ promised \in Nat

(* A task has no answer before it has the lock, and makes no call after    *)
(* the end.                                                                *)
CallsInOrder ==
  /\ call[Reader] \in {"none", "next"}
  /\ \A p \in Pollers :
       /\ pc[p] \in {"swap", "park", "parked", "dropped"} => res[p] = "none"
       /\ p \in done => pc[p] \in {"idle", "dropped"} /\ res[p] = "none"

(* Every item given is sunk but the one in the slot, until an error takes  *)
(* that one away.                                                          *)
WriterFailed == ~ready /\ (res[Writer] = "err" \/ Writer \in done)
ItemsAccounted ==
  /\ \A i \in 1 .. Len(sunk) : sunk[i] = i
  /\ slot # 0 => slot = Len(sunk) + 1 /\ given = slot /\ ~ready
  /\ slot = 0 => given = Len(sunk) \/ WriterFailed

(* An Ok for a flush that is about to be returned has flushed everything.  *)
OkMeansFlushed ==
  /\ promised <= flushed /\ flushed <= Len(sunk)
  /\ res[Writer] = "ok" => slot = 0 /\ given = Len(sunk)
  /\ res[Writer] = "ok" /\ call[Writer] \in {"flush", "close"} => flushed = given

SplitInv == SplitTyped /\ CallsInOrder /\ ItemsAccounted /\ OkMeansFlushed

(* The two tasks are the two owners.                                       *)
LEMMA HalvesAreTwo == TwoOwners /\ Reader \in Pollers /\ Writer \in Pollers /\ Reader # Writer
  BY SplitAssumption DEF TwoOwners

LEMMA SplitInitEstablishes == SplitInit => IInv /\ SplitInv
<1> SUFFICES ASSUME SplitInit PROVE IInv /\ SplitInv
  OBVIOUS
<1>1. IInv
  BY InitEstablishes DEF SplitInit
<1>2. SplitInv
  <2>1. sunk = << >> /\ sunk \in Seq(Nat) /\ Len(sunk) = 0
    BY DEF SplitInit
  <2>2. SplitTyped /\ CallsInOrder
    BY <2>1, HalvesAreTwo DEF SplitInit, Init, SplitTyped, CallsInOrder
  <2>3. ItemsAccounted /\ OkMeansFlushed
    BY <2>1, HalvesAreTwo DEF SplitInit, ItemsAccounted, OkMeansFlushed
  <2> QED
    BY <2>2, <2>3 DEF SplitInv
<1> QED
  BY <1>1, <1>2

(* Everything the halves do to the lock, BiLock does; the object's calls   *)
(* of a waker only add to those notified.                                  *)
LEMMA SplitKeepsLock == IInv /\ SplitInv /\ [SplitNext]_splitVars => IInv'
<1> SUFFICES ASSUME IInv, SplitInv, [SplitNext]_splitVars PROVE IInv'
  OBVIOUS
<1>1. ASSUME [Next]_vars PROVE IInv'
  BY <1>1, NextPreserves, HalvesAreTwo
<1>2. ASSUME NEW p \in Pollers, ObjectWakes(p) PROVE IInv'
  <2>1. /\ state' = state /\ pc' = pc /\ wakee' = wakee
        /\ notified' = notified \cup {p}
    BY <1>2 DEF ObjectWakes
  <2> QED
    BY <2>1 DEF IInv, TypeOK, PanicUnreached, WordMatchesGuard, MutualExclusion, ParkedWaker,
       WakeeOwned, ParkedIsReachable
<1>3. ASSUME NEW p \in Pollers, Calls(p) PROVE [Next]_vars
  BY <1>3, HalvesAreTwo DEF Calls, PollNext, PollReadyEmpty, PollReady, StartSend, PollFlush,
     PollClose, Call, Next
<1>4. ASSUME NEW p \in Pollers, Goes(p) PROVE [Next]_vars
  BY <1>4, HalvesAreTwo DEF Goes, LockStep, ObjectPends, ObjectFails, DropGuard, Return,
     ObjectYields, FlushSlot, FlushObject, Next
<1>5. ASSUME NEW p \in Pollers, GiveUp(p) \/ DropPart(p) PROVE [Next]_vars
  BY <1>5 DEF GiveUp, DropPart, Next
<1>6. ASSUME UNCHANGED splitVars PROVE [Next]_vars
  BY <1>6 DEF splitVars
<1> QED
  BY <1>1, <1>2, <1>3, <1>4, <1>5, <1>6 DEF SplitNext

(* The steps of BiLock move a task along without touching its answer.      *)
LEMMA LockMoves ==
  ASSUME IInv, NEW p \in Pollers, Continue(p)
  PROVE  /\ pc[p] \in {"swap", "park", "wake"}
         /\ \E l \in {"held", "park", "parked", "swap", "panic", "idle"} :
              pc' = [pc EXCEPT ![p] = l]
         /\ pc[p] = "wake" => pc' = [pc EXCEPT ![p] = "idle"]
  BY DEF Continue, Swap, Park, Wake, Goto

LEMMA SplitCallsPreserve ==
  ASSUME IInv, SplitInv, NEW p \in Pollers, Calls(p) PROVE SplitInv'
<1> USE HalvesAreTwo
<1>1. pc \in [Pollers -> PC]
  BY DEF IInv, TypeOK
<1>2. ASSUME NEW q \in Pollers, NEW c \in {"next", "ready", "flush", "close"}, Call(q, c),
             res[q] = "none", q = Reader => c = "next"
      PROVE SplitInv'
  <2>1. /\ q \notin done /\ pc' = [pc EXCEPT ![q] = "swap"] /\ call' = [call EXCEPT ![q] = c]
        /\ UNCHANGED <<res, done, armed, slot, ready, given, sunk, flushed, promised>>
    BY <1>2 DEF Call, PollLock, Goto, sinkVars, objectVars
  <2>2. SplitTyped' /\ CallsInOrder'
    BY <1>1, <1>2, <2>1 DEF SplitInv, SplitTyped, CallsInOrder
  <2>3. ItemsAccounted' /\ OkMeansFlushed'
    BY <1>2, <2>1 DEF SplitInv, SplitTyped, ItemsAccounted, WriterFailed, OkMeansFlushed
  <2> QED
    BY <2>2, <2>3 DEF SplitInv
<1>3. CASE PollReadyEmpty
  <2>1. /\ ready' = TRUE /\ slot = 0 /\ Writer \notin done /\ res[Writer] = "none"
        /\ UNCHANGED <<pc, call, res, done, armed, slot, given, sunk, flushed, promised>>
    BY <1>3 DEF PollReadyEmpty, vars, taskVars, objectVars
  <2>2. SplitTyped' /\ CallsInOrder'
    BY <2>1 DEF SplitInv, SplitTyped, CallsInOrder
  <2>3. ItemsAccounted' /\ OkMeansFlushed'
    BY <2>1 DEF SplitInv, SplitTyped, ItemsAccounted, WriterFailed, OkMeansFlushed
  <2> QED
    BY <2>2, <2>3 DEF SplitInv
<1>4. CASE StartSend
  <2>1. /\ ready /\ ready' = FALSE /\ given' = given + 1 /\ slot' = given'
        /\ res[Writer] = "none"
        /\ UNCHANGED <<pc, call, res, done, armed, sunk, flushed, promised>>
    BY <1>4 DEF StartSend, vars, taskVars, objectVars
  <2>2. SplitTyped'
    <3>1. given \in Nat /\ given' \in Nat /\ slot' \in Nat
      BY <2>1 DEF SplitInv, SplitTyped
    <3> QED
      BY <2>1, <3>1 DEF SplitInv, SplitTyped
  <2>4. CallsInOrder'
    BY <2>1 DEF SplitInv, CallsInOrder
  <2>3. ItemsAccounted' /\ OkMeansFlushed'
    BY <2>1 DEF SplitInv, SplitTyped, ItemsAccounted, WriterFailed, OkMeansFlushed
  <2> QED
    BY <2>2, <2>3, <2>4 DEF SplitInv
<1> QED
  BY <1>2, <1>3, <1>4 DEF Calls, PollNext, PollReady, PollFlush, PollClose

LEMMA SplitObjectPreserves ==
  ASSUME IInv, SplitInv, NEW p \in Pollers,
         \/ ObjectPends(p) \/ ObjectFails(p)
         \/ (p = Reader /\ ObjectYields)
         \/ (p = Writer /\ (FlushSlot \/ FlushObject))
  PROVE  SplitInv'
<1> USE HalvesAreTwo
<1>1. pc \in [Pollers -> PC] /\ "held" \notin {"swap", "park", "parked", "idle", "dropped"}
  BY DEF IInv, TypeOK
<1>2. /\ pc[p] = "held" /\ res[p] = "none" /\ p \notin done
      /\ UNCHANGED <<pc, call, done, ready, given, promised>>
  BY <1>1 DEF ObjectPends, ObjectFails, ObjectYields, FlushSlot, FlushObject, InObject, vars,
     sinkVars, objectVars, SplitInv, CallsInOrder
<1>3. ASSUME NEW a \in {"ok", "end", "err", "pending"}, res' = [res EXCEPT ![p] = a]
      PROVE  CallsInOrder'
  BY <1>1, <1>2, <1>3 DEF SplitInv, SplitTyped, CallsInOrder
<1>4. CASE ObjectPends(p)
  <2>1. /\ res' = [res EXCEPT ![p] = "pending"] /\ armed' = armed \cup {p}
        /\ UNCHANGED <<slot, sunk, flushed>>
    BY <1>4 DEF ObjectPends, Answer, sinkVars
  <2>2. SplitTyped' /\ ItemsAccounted' /\ OkMeansFlushed'
    BY <1>2, <2>1 DEF SplitInv, SplitTyped, ItemsAccounted, WriterFailed, OkMeansFlushed
  <2> QED
    BY <1>3, <2>1, <2>2 DEF SplitInv
<1>5. CASE ObjectFails(p)
  <2>1. /\ res' = [res EXCEPT ![p] = "err"]
        /\ slot' = slot \/ (p = Writer /\ slot' = 0)
        /\ UNCHANGED <<armed, sunk, flushed>>
    BY <1>5 DEF ObjectFails, Answer, objectVars
  <2>2. SplitTyped' /\ ItemsAccounted' /\ OkMeansFlushed'
    BY <1>2, <2>1 DEF SplitInv, SplitTyped, ItemsAccounted, WriterFailed, OkMeansFlushed
  <2> QED
    BY <1>3, <2>1, <2>2 DEF SplitInv
<1>6. CASE p = Reader /\ ObjectYields
  <2>1. /\ res' = [res EXCEPT ![p] = res'[p]] /\ res'[p] \in {"ok", "end"}
        /\ UNCHANGED <<armed, slot, sunk, flushed>>
    BY <1>6 DEF ObjectYields, Answer, sinkVars, SplitInv, SplitTyped
  <2>2. SplitTyped' /\ ItemsAccounted' /\ OkMeansFlushed'
    BY <1>2, <1>6, <2>1 DEF SplitInv, SplitTyped, ItemsAccounted, WriterFailed, OkMeansFlushed
  <2> QED
    BY <1>3, <2>1, <2>2 DEF SplitInv
<1>7. CASE p = Writer /\ FlushSlot
  <2>1. /\ slot # 0 /\ sunk' = Append(sunk, slot) /\ slot' = 0
        /\ UNCHANGED <<armed, flushed>>
        /\ IF call[p] = "ready" THEN res' = [res EXCEPT ![p] = "ok"] ELSE res' = res
    BY <1>7 DEF FlushSlot, Answer, SlotTaken, objectVars
  <2>2. /\ sunk \in Seq(Nat) /\ slot \in Nat
        /\ Len(sunk') = Len(sunk) + 1 /\ sunk' \in Seq(Nat) /\ Len(sunk) \in Nat
        /\ \A i \in 1 .. Len(sunk) : sunk'[i] = sunk[i]
        /\ sunk'[Len(sunk) + 1] = slot
    BY <2>1 DEF SplitInv, SplitTyped
  <2>3. \A i \in 1 .. Len(sunk') : sunk'[i] = i
    BY <2>1, <2>2 DEF SplitInv, ItemsAccounted
  <2>4. given' = Len(sunk') /\ slot' = 0
    BY <1>2, <2>1, <2>2 DEF SplitInv, ItemsAccounted
  <2>5. ItemsAccounted'
    BY <2>3, <2>4 DEF ItemsAccounted
  <2>6. SplitTyped' /\ CallsInOrder'
    BY <1>1, <1>2, <2>1, <2>2 DEF SplitInv, SplitTyped, CallsInOrder
  <2>7. OkMeansFlushed'
    BY <1>2, <1>7, <2>1, <2>2, <2>4 DEF SplitInv, SplitTyped, OkMeansFlushed
  <2> QED
    BY <2>5, <2>6, <2>7 DEF SplitInv
<1>8. CASE p = Writer /\ FlushObject
  <2>1. /\ slot = 0 /\ flushed' = Len(sunk) /\ res' = [res EXCEPT ![p] = "ok"]
        /\ UNCHANGED <<armed, slot, sunk>>
    BY <1>8 DEF FlushObject, Answer, objectVars
  <2>2. given = Len(sunk) /\ Len(sunk) \in Nat
    BY <1>2, <1>8, <2>1 DEF SplitInv, SplitTyped, ItemsAccounted, WriterFailed
  <2>3. SplitTyped' /\ ItemsAccounted'
    BY <1>2, <2>1, <2>2 DEF SplitInv, SplitTyped, ItemsAccounted, WriterFailed
  <2>4. OkMeansFlushed'
    BY <1>2, <2>1, <2>2 DEF SplitInv, SplitTyped, OkMeansFlushed
  <2> QED
    BY <1>3, <2>1, <2>3, <2>4 DEF SplitInv
<1> QED
  BY <1>4, <1>5, <1>6, <1>7, <1>8

LEMMA SplitReturnPreserves ==
  ASSUME IInv, SplitInv, NEW p \in Pollers,
         LockStep(p) \/ DropGuard(p) \/ Return(p) \/ GiveUp(p) \/ DropPart(p) \/ ObjectWakes(p)
  PROVE  SplitInv'
<1> USE HalvesAreTwo
<1>1. pc \in [Pollers -> PC]
  BY DEF IInv, TypeOK
<1>2. ASSUME UNCHANGED <<taskVars, sinkVars, armed>>, NEW l \in PC,
             pc' = [pc EXCEPT ![p] = l],
             l \in {"swap", "park", "parked", "dropped"} => res[p] = "none",
             p \in done => l \in {"idle", "dropped"}
      PROVE  SplitInv'
  <2>1. UNCHANGED <<call, res, done, slot, ready, given, sunk, flushed, promised, armed>>
    BY <1>2 DEF taskVars, sinkVars
  <2>2. SplitTyped' /\ ItemsAccounted' /\ OkMeansFlushed'
    BY <2>1 DEF SplitInv, SplitTyped, ItemsAccounted, WriterFailed, OkMeansFlushed
  <2>3. CallsInOrder'
    BY <1>1, <1>2, <2>1 DEF SplitInv, CallsInOrder
  <2> QED
    BY <2>2, <2>3 DEF SplitInv
<1>3. CASE LockStep(p)
  <2>1. Continue(p) /\ UNCHANGED <<taskVars, sinkVars, armed>>
    BY <1>3 DEF LockStep, objectVars
  <2>2. PICK l \in {"held", "park", "parked", "swap", "panic", "idle"} :
          pc' = [pc EXCEPT ![p] = l]
    BY <2>1, LockMoves
  <2>3. pc[p] \in {"swap", "park", "wake"} /\ (pc[p] = "wake" => l = "idle")
    BY <1>1, <2>1, <2>2, LockMoves
  <2> QED
    BY <1>2, <2>1, <2>2, <2>3 DEF SplitInv, CallsInOrder, PC
<1>4. CASE DropGuard(p)
  <2>1. PICK l \in {"panic", "idle", "wake"} : pc' = [pc EXCEPT ![p] = l]
    BY <1>4 DEF DropGuard, Unlock, Goto
  <2>2. pc[p] = "held" /\ UNCHANGED <<taskVars, sinkVars, armed>>
    BY <1>4 DEF DropGuard, Unlock, objectVars
  <2> QED
    BY <1>2, <2>1, <2>2 DEF SplitInv, CallsInOrder, PC
<1>5. CASE DropPart(p)
  <2>1. pc' = [pc EXCEPT ![p] = "dropped"]
    BY <1>5 DEF DropPart, DropHalf, Goto
  <2>2. res[p] = "none" /\ UNCHANGED <<taskVars, sinkVars, armed>>
    BY <1>5 DEF DropPart, objectVars
  <2> QED
    BY <1>2, <2>1, <2>2 DEF PC
<1>6. CASE ObjectWakes(p)
  <2>1. UNCHANGED <<taskVars, sinkVars, pc>> /\ armed' = armed \ {p}
    BY <1>6 DEF ObjectWakes
  <2>2. UNCHANGED <<call, res, done, slot, ready, given, sunk, flushed, promised>>
    BY <2>1 DEF taskVars, sinkVars
  <2> QED
    BY <2>1, <2>2 DEF SplitInv, SplitTyped, CallsInOrder, ItemsAccounted, WriterFailed,
       OkMeansFlushed
<1>7. CASE GiveUp(p)
  <2>1. /\ pc[p] = "parked" /\ pc' = [pc EXCEPT ![p] = "idle"]
        /\ call' = [call EXCEPT ![p] = "none"]
        /\ UNCHANGED <<res, done, armed, slot, ready, given, sunk, flushed, promised>>
    BY <1>7 DEF GiveUp, Cancel, Goto, sinkVars, objectVars
  <2>2. SplitTyped' /\ CallsInOrder'
    BY <1>1, <2>1 DEF SplitInv, SplitTyped, CallsInOrder
  <2>3. ItemsAccounted' /\ OkMeansFlushed'
    BY <2>1 DEF SplitInv, SplitTyped, CallsInOrder, ItemsAccounted, WriterFailed, OkMeansFlushed
  <2> QED
    BY <2>2, <2>3 DEF SplitInv
<1>8. CASE Return(p)
  <2>1. /\ pc[p] = "idle" /\ res[p] # "none"
        /\ call' = [call EXCEPT ![p] = "none"] /\ res' = [res EXCEPT ![p] = "none"]
        /\ done' = IF res[p] \in {"err", "end"} \/ (res[p] = "ok" /\ call[p] = "close")
                   THEN done \cup {p} ELSE done
        /\ ready' = (ready \/ (res[p] = "ok" /\ call[p] = "ready"))
        /\ promised' = IF res[p] = "ok" /\ call[p] \in {"flush", "close"} THEN given ELSE promised
        /\ UNCHANGED <<pc, armed, slot, given, sunk, flushed>>
    BY <1>8 DEF Return, Answer, vars, objectVars
  <2>2. SplitTyped'
    BY <2>1 DEF SplitInv, SplitTyped
  <2>3. CallsInOrder'
    BY <2>1 DEF SplitInv, SplitTyped, CallsInOrder
  <2>4. CASE p = Reader
    <3>1. ready' = ready /\ promised' = promised /\ res'[Writer] = res[Writer]
          /\ (Writer \in done => Writer \in done')
      BY <2>1, <2>4 DEF SplitInv, SplitTyped, CallsInOrder
    <3> QED
      BY <2>1, <2>2, <2>3, <3>1 DEF SplitInv, SplitTyped, ItemsAccounted, WriterFailed,
         OkMeansFlushed
  <2>5. CASE p = Writer
    <3>1. res'[Writer] = "none"
      BY <2>1, <2>5 DEF SplitInv, SplitTyped
    <3>2. ItemsAccounted'
      BY <2>1, <2>5 DEF SplitInv, SplitTyped, CallsInOrder, ItemsAccounted, WriterFailed,
         OkMeansFlushed
    <3>3. OkMeansFlushed'
      BY <2>1, <2>5, <3>1 DEF SplitInv, SplitTyped, OkMeansFlushed
    <3> QED
      BY <2>2, <2>3, <3>2, <3>3 DEF SplitInv
  <2> QED
    BY <2>4, <2>5, SplitAssumption
<1> QED
  BY <1>3, <1>4, <1>5, <1>6, <1>7, <1>8

LEMMA SplitPreserves == IInv /\ SplitInv /\ [SplitNext]_splitVars => SplitInv'
<1> SUFFICES ASSUME IInv, SplitInv, [SplitNext]_splitVars PROVE SplitInv'
  OBVIOUS
<1>1. CASE SplitNext
  BY <1>1, SplitCallsPreserve, SplitObjectPreserves, SplitReturnPreserves DEF SplitNext, Goes
<1>2. CASE UNCHANGED splitVars
  <2>1. UNCHANGED <<pc, call, res, done, slot, ready, given, sunk, flushed, promised, armed>>
    BY <1>2 DEF splitVars, vars, sinkVars, taskVars, objectVars
  <2> QED
    BY <2>1 DEF SplitInv, SplitTyped, CallsInOrder, ItemsAccounted, WriterFailed, OkMeansFlushed
<1> QED
  BY <1>1, <1>2

LEMMA SplitInvariantHolds == SplitSpec => [](IInv /\ SplitInv)
  BY SplitInitEstablishes, SplitKeepsLock, SplitPreserves, PTL DEF SplitSpec

(* The items given to the SplitSink get to the object once and in order,   *)
(* whichever calls, cancelled polls and errors come in between, and a      *)
(* poll_flush or poll_close that returns Ok has flushed all of them.       *)
THEOREM SplitIsFaithful == SplitSpec => []SplitDelivers
<1>1. SplitInv => SplitDelivers
  BY DEF SplitInv, ItemsAccounted, OkMeansFlushed, SplitDelivers
<1> QED
  BY <1>1, SplitInvariantHolds, PTL

(* The BiLock of a split object excludes and never panics, although the    *)
(* object's own wake-ups mix with those of the lock.                       *)
THEOREM SplitLockSound == SplitSpec => []LockIsSound
<1>1. IInv => LockIsSound
  BY DEF IInv, PanicUnreached, WordMatchesGuard, NoPanic, LockIsSound
<1> QED
  BY <1>1, SplitInvariantHolds, PTL

(* A half that waits for the lock of a split object is never forgotten.    *)
THEOREM SplitLosesNoWakeUp == SplitSpec => []ParkedIsReachable
<1>1. IInv => ParkedIsReachable
  BY DEF IInv
<1> QED
  BY <1>1, SplitInvariantHolds, PTL
==============================================================================
