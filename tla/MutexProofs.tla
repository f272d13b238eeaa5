----------------------------- MODULE MutexProofs -----------------------------
(***************************************************************************)
(* The futures Mutex for any number of tasks: one guard at a time, a slab  *)
(* that matches the live futures, and no lost wake-up.                     *)
(***************************************************************************)
EXTENDS Mutex, TLAPS

IInv == /\ TypeOK /\ MutualExclusion /\ SlabMatchesFutures
        /\ KeyMatchesPc /\ WokenIsNotified /\ SomeoneWillLock

LEMMA InitInv == Init => IInv
BY DEF Init, IInv, TypeOK, MutualExclusion, Owners, SlabMatchesFutures, KeyMatchesPc,
       WokenIsNotified, SomeoneWillLock, Used, NoKey

LEMMA NextInv == IInv /\ [Next]_vars => IInv'
<1> SUFFICES ASSUME IInv, [Next]_vars PROVE IInv'
  OBVIOUS
<1> USE KeysAssumption DEF IInv, NoKey, Waiters
<1>0. CASE UNCHANGED vars
  BY <1>0 DEF vars, wordVars, TypeOK, MutualExclusion, Owners, SlabMatchesFutures,
              KeyMatchesPc, WokenIsNotified, SomeoneWillLock, Used
<1> SUFFICES ASSUME NEW t \in Tasks, Step(t) \/ Call(t) PROVE IInv'
  BY <1>0 DEF Next
<1>1. CASE TryLock(t)
  BY <1>1 DEF TryLock, Goto, TypeOK, MutualExclusion, Owners, SlabMatchesFutures,
              KeyMatchesPc, WokenIsNotified, SomeoneWillLock, Used
<1>2. CASE Poll(t)
  <2>1. TypeOK' /\ SlabMatchesFutures' /\ KeyMatchesPc' /\ SomeoneWillLock'
    BY <1>2 DEF Poll, Goto, TypeOK, SlabMatchesFutures, KeyMatchesPc, SomeoneWillLock, Used
  <2>2. MutualExclusion'
    BY <1>2 DEF Poll, Goto, TypeOK, MutualExclusion, Owners
  <2>3. WokenIsNotified'
    BY <1>2 DEF Poll, Goto, TypeOK, WokenIsNotified, Used
  <2> QED BY <2>1, <2>2, <2>3
<1>3. CASE Insert(t)
  <2>1. PICK k \in Keys :
          /\ IF wait_key[t] = NoKey THEN k \notin Used ELSE k = wait_key[t]
          /\ waiters' = [j \in Used \cup {k} |->
                           IF j = k THEN [task |-> t, woken |-> FALSE] ELSE waiters[j]]
          /\ wait_key' = [wait_key EXCEPT ![t] = k]
    BY <1>3 DEF Insert
  <2>2. Used' = Used \cup {k} /\ waiters'[k] = [task |-> t, woken |-> FALSE]
        /\ \A j \in Used \ {k} : waiters'[j] = waiters[j]
    BY <2>1 DEF Used
  <2>3. TypeOK'
    BY <1>3, <2>1 DEF Insert, Goto, TypeOK, Used
  <2>4. MutualExclusion' /\ SomeoneWillLock'
    BY <1>3 DEF Insert, Goto, TypeOK, MutualExclusion, Owners, SomeoneWillLock
  <2>5. SlabMatchesFutures'
    <3>1. has_waiters'
      BY <1>3 DEF Insert, TypeOK, SlabMatchesFutures
    <3>2. \A u \in Tasks \ {t} : wait_key'[u] = wait_key[u] /\ wait_key[u] # k
      BY <2>1 DEF TypeOK, SlabMatchesFutures
    <3>3. wait_key'[t] = k
      BY <2>1 DEF TypeOK
    <3>4. \A j \in Used \ {k} : waiters[j].task \in Tasks \ {t}
      BY <2>1 DEF TypeOK, SlabMatchesFutures
    <3>5. ASSUME NEW u \in Tasks, wait_key'[u] # NoKey
          PROVE  wait_key'[u] \in Used' /\ waiters'[wait_key'[u]].task = u
      <4>1. CASE u = t
        BY <2>2, <3>3, <4>1
      <4>2. CASE u # t
        <5>1. wait_key[u] \in Used /\ waiters[wait_key[u]].task = u /\ wait_key[u] # k
          BY <3>2, <3>5, <4>2 DEF SlabMatchesFutures
        <5> QED BY <2>2, <3>2, <4>2, <5>1
      <4> QED BY <4>1, <4>2
    <3>6. ASSUME NEW j \in Used' PROVE wait_key'[waiters'[j].task] = j
      <4>1. CASE j = k
        BY <2>2, <3>3, <4>1
      <4>2. CASE j # k
        BY <2>2, <3>2, <3>4, <4>2 DEF SlabMatchesFutures
      <4> QED BY <4>1, <4>2
    <3> QED BY <2>2, <3>1, <3>5, <3>6 DEF SlabMatchesFutures
  <2>6. KeyMatchesPc'
    BY <1>3, <2>1 DEF Insert, Goto, TypeOK, KeyMatchesPc
  <2>7. WokenIsNotified'
    <3>1. \A j \in Used \ {k} : waiters[j].task # t
      BY <2>1 DEF SlabMatchesFutures, TypeOK
    <3>2. SUFFICES ASSUME NEW j \in Used', waiters'[j].woken,
                          pc'[waiters'[j].task] \in {"idle", "retry"}
                   PROVE  waiters'[j].task \in notified'
      BY DEF WokenIsNotified
    <3>3. j # k
      BY <2>2, <3>2
    <3>4. j \in Used /\ waiters'[j] = waiters[j] /\ waiters[j].task \in Tasks \ {t}
      BY <2>2, <3>1, <3>3 DEF TypeOK
    <3>5. pc'[waiters[j].task] = pc[waiters[j].task]
      BY <1>3, <3>4 DEF Insert, Goto, TypeOK
    <3> QED BY <1>3, <3>2, <3>4, <3>5 DEF Insert, WokenIsNotified
  <2> QED BY <2>3, <2>4, <2>5, <2>6, <2>7
<1>4. CASE Retry(t)
  <2>1. TypeOK' /\ SlabMatchesFutures' /\ KeyMatchesPc' /\ SomeoneWillLock'
    BY <1>4 DEF Retry, Goto, TypeOK, SlabMatchesFutures, KeyMatchesPc, SomeoneWillLock, Used
  <2>2. MutualExclusion'
    BY <1>4 DEF Retry, Goto, TypeOK, MutualExclusion, Owners
  <2>3. WokenIsNotified'
    BY <1>4 DEF Retry, Goto, TypeOK, WokenIsNotified, Used
  <2> QED BY <2>1, <2>2, <2>3
<1>5. CASE RemoveWaker(t)
  <2>1. locked /\ locked'
    BY <1>5 DEF RemoveWaker, MutualExclusion, Owners
  <2>2. MutualExclusion' /\ SomeoneWillLock'
    BY <1>5, <2>1 DEF RemoveWaker, Goto, TypeOK, MutualExclusion, Owners, SomeoneWillLock
  <2>3. CASE wait_key[t] = NoKey
    BY <1>5, <2>2, <2>3 DEF RemoveWaker, Goto, TypeOK, SlabMatchesFutures, KeyMatchesPc,
                            WokenIsNotified, Used
  <2>4. CASE wait_key[t] # NoKey
    <3>1. /\ Used' = Used \ {wait_key[t]}
          /\ \A j \in Used' : waiters'[j] = waiters[j]
      BY <1>5, <2>4 DEF RemoveWaker, Without, Used
    <3>2. TypeOK'
      BY <1>5, <2>4 DEF RemoveWaker, Goto, Leave, Without, TypeOK, Used
    <3>3. SlabMatchesFutures'
      <4>1. has_waiters' <=> Used' # {}
        BY <1>5, <2>4, <3>1 DEF RemoveWaker, Leave, SlabMatchesFutures
      <4>2. /\ wait_key'[t] = NoKey
            /\ \A u \in Tasks \ {t} : wait_key'[u] = wait_key[u] /\ wait_key[u] # wait_key[t]
        BY <1>5, <2>4 DEF RemoveWaker, Leave, TypeOK, SlabMatchesFutures
      <4>3. \A j \in Used' : waiters[j].task # t
        BY <2>4, <3>1 DEF SlabMatchesFutures
      <4>4. ASSUME NEW u \in Tasks, wait_key'[u] # NoKey
            PROVE  wait_key'[u] \in Used' /\ waiters'[wait_key'[u]].task = u
        <5>1. u # t /\ wait_key'[u] = wait_key[u] /\ wait_key[u] # wait_key[t]
          BY <4>2, <4>4
        <5>2. wait_key[u] \in Used /\ waiters[wait_key[u]].task = u
          BY <4>4, <5>1 DEF SlabMatchesFutures
        <5> QED BY <3>1, <5>1, <5>2
      <4>5. ASSUME NEW j \in Used' PROVE wait_key'[waiters'[j].task] = j
        <5>1. j \in Used /\ waiters'[j] = waiters[j] /\ waiters[j].task \in Tasks \ {t}
          BY <3>1, <4>3 DEF TypeOK
        <5> QED BY <4>2, <5>1 DEF SlabMatchesFutures
      <4> QED BY <4>1, <4>4, <4>5 DEF SlabMatchesFutures
    <3>4. KeyMatchesPc'
      BY <1>5, <2>4 DEF RemoveWaker, Goto, Leave, TypeOK, KeyMatchesPc
    <3>5. WokenIsNotified'
      BY <1>5, <3>1 DEF RemoveWaker, Goto, TypeOK, WokenIsNotified
    <3> QED BY <2>2, <3>2, <3>3, <3>4, <3>5
  <2> QED BY <2>3, <2>4
<1>6. CASE DropFuture(t)
  <2> DEFINE own == wait_key[t]
             rest == Without(own)
  <2>1. own \in Used /\ waiters[own].task = t /\ DOMAIN rest = Used \ {own}
        /\ \A j \in DOMAIN rest : rest[j] = waiters[j] /\ rest[j].task # t
    BY <1>6 DEF DropFuture, SlabMatchesFutures, Without
  <2>2. Used' = DOMAIN rest
    BY <1>6 DEF DropFuture, Used
  <2>3. \A j \in Used' : /\ waiters'[j].task = waiters[j].task
                         /\ waiters'[j].woken => \/ waiters[j].woken
                                                 \/ waiters[j].task \in notified'
                         /\ waiters[j].woken => waiters'[j].woken
    <3> SUFFICES ASSUME NEW j \in DOMAIN rest
                 PROVE  /\ waiters'[j].task = rest[j].task
                        /\ waiters'[j].woken => rest[j].woken \/ rest[j].task \in notified'
                        /\ rest[j].woken => waiters'[j].woken
      BY <2>1, <2>2
    <3>1. rest \in [DOMAIN rest -> Waiters]
      BY <2>1 DEF TypeOK, Without
    <3>2. CASE waiters' = rest
      BY <3>2
    <3>3. ASSUME NEW k \in DOMAIN rest, waiters' = [rest EXCEPT ![k].woken = TRUE],
                 notified' = IF rest[k].woken THEN notified \ {t}
                             ELSE (notified \ {t}) \cup {rest[k].task}
          PROVE  /\ waiters'[j].task = rest[j].task
                 /\ waiters'[j].woken => rest[j].woken \/ rest[j].task \in notified'
                 /\ rest[j].woken => waiters'[j].woken
      <4> HIDE DEF rest
      <4>1. CASE j = k
        BY <3>1, <3>3, <4>1
      <4>2. CASE j # k
        BY <3>1, <3>3, <4>2
      <4> QED BY <4>1, <4>2
    <3> QED BY <1>6, <3>2, <3>3 DEF DropFuture
  <2>4. notified \ {t} \subseteq notified' /\ notified' \subseteq Tasks
    BY <1>6, <2>1 DEF DropFuture, TypeOK
  <2>5. TypeOK'
    <3>1. rest \in [DOMAIN rest -> Waiters]
      BY <2>1 DEF TypeOK, Without
    <3>2. waiters' \in [Used' -> Waiters]
      <4>1. CASE waiters' = rest
        BY <3>1, <2>2, <4>1
      <4>2. CASE \E k \in DOMAIN rest : waiters' = [rest EXCEPT ![k].woken = TRUE]
        BY <3>1, <2>2, <4>2
      <4> QED BY <1>6, <4>1, <4>2 DEF DropFuture
    <3> QED BY <1>6, <2>1, <2>2, <2>4, <3>2 DEF DropFuture, Leave, TypeOK
  <2>6. MutualExclusion'
    BY <1>6 DEF DropFuture, MutualExclusion, Owners
  <2>7. SlabMatchesFutures'
    <3>1. has_waiters' <=> Used' # {}
      BY <1>6, <2>1, <2>2 DEF DropFuture, Leave, SlabMatchesFutures
    <3>2. /\ wait_key'[t] = NoKey
          /\ \A u \in Tasks \ {t} : wait_key'[u] = wait_key[u] /\ wait_key[u] # own
      BY <1>6, <2>1 DEF DropFuture, Leave, TypeOK, SlabMatchesFutures
    <3>3. ASSUME NEW u \in Tasks, wait_key'[u] # NoKey
          PROVE  wait_key'[u] \in Used' /\ waiters'[wait_key'[u]].task = u
      <4>1. u # t /\ wait_key'[u] = wait_key[u] /\ wait_key[u] # own
        BY <3>2, <3>3
      <4>2. wait_key[u] \in Used /\ waiters[wait_key[u]].task = u
        BY <3>3, <4>1 DEF SlabMatchesFutures
      <4> QED BY <2>1, <2>2, <2>3, <4>1, <4>2
    <3>4. ASSUME NEW j \in Used' PROVE wait_key'[waiters'[j].task] = j
      <4>1. j \in Used /\ waiters'[j].task = waiters[j].task /\ waiters[j].task \in Tasks \ {t}
        BY <2>1, <2>2, <2>3 DEF TypeOK
      <4> QED BY <3>2, <4>1 DEF SlabMatchesFutures
    <3> QED BY <3>1, <3>3, <3>4 DEF SlabMatchesFutures
  <2>8. KeyMatchesPc'
    BY <1>6 DEF DropFuture, Leave, TypeOK, KeyMatchesPc
  <2>9. WokenIsNotified'
    BY <1>6, <2>1, <2>2, <2>3, <2>4 DEF DropFuture, TypeOK, WokenIsNotified
  <2>10. SomeoneWillLock'
    <3> SUFFICES ASSUME ~locked, pending' # {},
                        ~ \E u \in Tasks : pc[u] \in {"unlock_wake", "insert", "retry"}
                 PROVE  \E k \in Used' : waiters'[k].woken /\ waiters'[k].task \in notified'
      BY <1>6 DEF DropFuture, SomeoneWillLock
    <3>1. pending' \subseteq pending \ {t}
      BY <1>6 DEF DropFuture
    <3>2. DOMAIN rest # {}
      BY <2>1, <3>1 DEF TypeOK, KeyMatchesPc, SlabMatchesFutures
    <3>3. PICK k \in Used : waiters[k].woken /\ waiters[k].task \in notified
      BY <3>1 DEF SomeoneWillLock
    <3>4. CASE k # own
      BY <3>3, <3>4, <2>1, <2>2, <2>3, <2>4
    <3>5. CASE k = own
      <4>1. PICK j \in DOMAIN rest :
              /\ waiters' = [rest EXCEPT ![j].woken = TRUE]
              /\ notified' = IF rest[j].woken THEN notified \ {t}
                             ELSE (notified \ {t}) \cup {rest[j].task}
        BY <1>6, <3>2, <3>3, <3>5 DEF DropFuture
      <4>2. waiters'[j].woken /\ waiters'[j].task = rest[j].task
        BY <4>1, <2>1, <2>2 DEF TypeOK
      <4>3. CASE rest[j].woken
        <5>1. rest[j].task \in Tasks
          BY <2>1 DEF TypeOK
        <5>2. pc[rest[j].task] = "idle"
          <6> HIDE DEF rest
          <6> QED BY <5>1 DEF MutualExclusion, Owners, TypeOK
        <5> QED BY <4>1, <4>2, <4>3, <5>2, <2>1, <2>2 DEF WokenIsNotified, TypeOK
      <4>4. CASE ~rest[j].woken
        BY <4>1, <4>2, <4>4, <2>2
      <4> QED BY <4>3, <4>4
    <3> QED BY <3>4, <3>5
  <2> QED BY <2>5, <2>6, <2>7, <2>8, <2>9, <2>10
<1>7. CASE Unlock(t)
  <2>1. TypeOK' /\ SlabMatchesFutures' /\ KeyMatchesPc' /\ WokenIsNotified'
    BY <1>7 DEF Unlock, Goto, TypeOK, SlabMatchesFutures, KeyMatchesPc, WokenIsNotified, Used
  <2>2. MutualExclusion'
    BY <1>7 DEF Unlock, Goto, TypeOK, MutualExclusion, Owners
  <2>3. SomeoneWillLock'
    <3>1. pending # {} => has_waiters
      BY DEF TypeOK, KeyMatchesPc, SlabMatchesFutures
    <3> QED BY <1>7, <3>1 DEF Unlock, Goto, TypeOK, SomeoneWillLock
  <2> QED BY <2>1, <2>2, <2>3
<1>8. CASE UnlockWake(t)
  <2>1. CASE Used = {}
    BY <1>8, <2>1 DEF UnlockWake, Goto, WakeKey, First, TypeOK, MutualExclusion, Owners,
                      SlabMatchesFutures, KeyMatchesPc, WokenIsNotified, SomeoneWillLock, Used
  <2>2. CASE Used # {}
    <3>1. PICK k \in Used : WakeKey(waiters, k)
      BY <1>8, <2>2 DEF UnlockWake
    <3>2. /\ Used' = Used
          /\ waiters'[k].woken /\ \A j \in Used : waiters'[j].task = waiters[j].task
          /\ \A j \in Used \ {k} : waiters'[j] = waiters[j]
      BY <3>1 DEF WakeKey, Used, TypeOK
    <3>3. notified \subseteq notified' /\ (waiters[k].woken \/ waiters[k].task \in notified')
      BY <3>1 DEF WakeKey
    <3>4. TypeOK'
      BY <1>8, <3>1 DEF UnlockWake, Goto, WakeKey, TypeOK, Used
    <3>5. MutualExclusion'
      BY <1>8 DEF UnlockWake, Goto, TypeOK, MutualExclusion, Owners
    <3>6. SlabMatchesFutures'
      BY <1>8, <3>2 DEF UnlockWake, SlabMatchesFutures
    <3>7. KeyMatchesPc'
      BY <1>8 DEF UnlockWake, Goto, TypeOK, KeyMatchesPc
    <3>8. pc[waiters[k].task] # "unlock_wake" /\ waiters[k].task \in Tasks
      BY DEF TypeOK, KeyMatchesPc, SlabMatchesFutures
    <3>9. WokenIsNotified'
      BY <1>8, <3>2, <3>3 DEF UnlockWake, Goto, TypeOK, WokenIsNotified, KeyMatchesPc,
                              SlabMatchesFutures
    <3>10. SomeoneWillLock'
      <4> SUFFICES ASSUME ~locked, pc[waiters[k].task] \notin {"insert", "retry"}
                   PROVE  waiters[k].task \in notified'
        BY <1>8, <3>2, <3>8 DEF UnlockWake, Goto, TypeOK, SomeoneWillLock
      <4>1. pc[waiters[k].task] = "idle"
        BY <3>8 DEF TypeOK, MutualExclusion, Owners
      <4> QED BY <3>3, <4>1 DEF WokenIsNotified
    <3> QED BY <3>4, <3>5, <3>6, <3>7, <3>9, <3>10
  <2> QED BY <2>1, <2>2
<1> QED BY <1>1, <1>2, <1>3, <1>4, <1>5, <1>6, <1>7, <1>8 DEF Step, Call

LEMMA Inductive == Spec => []IInv
BY InitInv, NextInv, PTL DEF Spec

(* Mutex and its slab are well formed in every reachable state.            *)
THEOREM TypeCorrect == Spec => []TypeOK
<1>1. IInv => TypeOK
  BY DEF IInv
<1> QED BY <1>1, Inductive, PTL

(* fetch_or and fetch_and on IS_LOCKED give out one guard at a time.       *)
THEOREM OneGuard == Spec => []MutualExclusion
<1>1. IInv => MutualExclusion
  BY DEF IInv
<1> QED BY <1>1, Inductive, PTL

(* remove_waker and poll never index the slab with a dead key, and         *)
(* HAS_WAITERS is exact.                                                   *)
THEOREM SlabConsistent == Spec => []SlabMatchesFutures
<1>1. IInv => SlabMatchesFutures
  BY DEF IInv
<1> QED BY <1>1, Inductive, PTL

(* A free Mutex never leaves its waiters asleep with nobody on the way,    *)
(* whichever futures are dropped.                                          *)
THEOREM NoLostWakeUp == Spec => []SomeoneWillLock
<1>1. IInv => SomeoneWillLock
  BY DEF IInv
<1> QED BY <1>1, Inductive, PTL
==============================================================================
