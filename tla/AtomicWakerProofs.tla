-------------------------- MODULE AtomicWakerProofs --------------------------
(***************************************************************************)
(* For any number of threads and wakers: AtomicWaker is type correct, its  *)
(* cell is never raced, its asserts hold, and it implements WakerCell.     *)
(* Over its steps, for any number of handles and clones: an Abortable      *)
(* never misses an abort() unless another clone has pushed its waker out.  *)
(***************************************************************************)
EXTENDS Abortable, TLAPS

(* Each lock bit belongs to the one thread that is in the cell.            *)
Ownership ==
  /\ CellExclusion
  /\ state \in {REGISTERING, BOTH} => \E t \in Threads : pc[t] \in RegisterLocked
  /\ \A t \in Threads :
       /\ pc[t] \in RegisterLocked => state \in {REGISTERING, BOTH}
       /\ pc[t] \in WakeLocked => state = WAKING
       /\ pc[t] \in {"reg_take", "reg_swap"} => state = BOTH

(* Where the waker of a call is: in the argument, the cell or the thread.  *)
Custody ==
  \A t \in Threads :
    /\ pc[t] \in RegisterLocked \cup {"reg_cas"} => arg[t] \in Wakers
    /\ pc[t] \in {"reg_release", "reg_take"} => waker = arg[t]
    /\ pc[t] = "reg_swap" => waker = NoWaker /\ held[t] = arg[t]
    /\ pc[t] = "take_swap" => waker = NoWaker
    /\ pc[t] = "deliver" => held[t] \in Wakers
    /\ pc[t] \notin {"reg_swap", "take_swap", "deliver"} => held[t] = NoWaker

(* The inductive invariant.                                                *)
IInv == TypeOK /\ Ownership /\ Custody

LEMMA InitEstablishes == Init => IInv
  BY DEF Init, IInv, TypeOK, Ownership, Custody, CellExclusion, InCell, PC,
         RegisterLocked, WakeLocked, WAITING, REGISTERING, WAKING, BOTH

LEMMA NextPreserves == IInv /\ [Next]_vars => IInv'
<1> SUFFICES ASSUME IInv, [Next]_vars PROVE IInv'
  OBVIOUS
<1> USE NoWakerAssumption
    DEF IInv, TypeOK, PC, RegisterLocked, WakeLocked, InCell, CellExclusion, Goto,
        WAITING, REGISTERING, WAKING, BOTH
<1>0. ASSUME NEW t \in Threads, NEW w \in Wakers, RegisterCall(t, w) PROVE IInv'
  <2>1. TypeOK'
    BY <1>0 DEF RegisterCall
  <2>2. Ownership'
    BY <1>0 DEF RegisterCall, Ownership
  <2>3. Custody'
    BY <1>0 DEF RegisterCall, Custody
  <2> QED
    BY <2>1, <2>2, <2>3
<1>1. ASSUME NEW t \in Threads, RegisterCas(t) PROVE IInv'
  <2>1. TypeOK'
    BY <1>1 DEF RegisterCas
  <2>2. Ownership'
    BY <1>1 DEF RegisterCas, Ownership
  <2>3. Custody'
    BY <1>1 DEF RegisterCas, Custody
  <2> QED
    BY <2>1, <2>2, <2>3
<1>2. ASSUME NEW t \in Threads, RegisterStore(t) PROVE IInv'
  <2>1. TypeOK'
    BY <1>2 DEF RegisterStore, Custody
  <2>2. Ownership'
    BY <1>2 DEF RegisterStore, Ownership
  <2>3. Custody'
    BY <1>2 DEF RegisterStore, Custody, Ownership
  <2> QED
    BY <2>1, <2>2, <2>3
<1>3. ASSUME NEW t \in Threads, RegisterRelease(t) PROVE IInv'
  <2>1. TypeOK'
    BY <1>3 DEF RegisterRelease, Custody
  <2>2. Ownership'
    BY <1>3 DEF RegisterRelease, Ownership
  <2>3. Custody'
    BY <1>3 DEF RegisterRelease, Custody, Ownership
  <2> QED
    BY <2>1, <2>2, <2>3
<1>4. ASSUME NEW t \in Threads, RegisterTake(t) PROVE IInv'
  <2>1. TypeOK'
    BY <1>4 DEF RegisterTake, Custody
  <2>2. Ownership'
    BY <1>4 DEF RegisterTake, Ownership
  <2>3. Custody'
    BY <1>4 DEF RegisterTake, Custody, Ownership
  <2> QED
    BY <2>1, <2>2, <2>3
<1>5. ASSUME NEW t \in Threads, RegisterSwap(t) PROVE IInv'
  <2>1. TypeOK'
    BY <1>5 DEF RegisterSwap, Custody
  <2>2. Ownership'
    BY <1>5 DEF RegisterSwap, Ownership
  <2>3. Custody'
    BY <1>5 DEF RegisterSwap, Custody, Ownership
  <2> QED
    BY <2>1, <2>2, <2>3
<1>6. ASSUME NEW t \in Threads, TakeFetchOr(t) PROVE IInv'
  <2>1. TypeOK'
    BY <1>6 DEF TakeFetchOr, FetchOrWaking, Custody
  <2>2. Ownership'
    BY <1>6 DEF TakeFetchOr, FetchOrWaking, Ownership
  <2>3. Custody'
    BY <1>6 DEF TakeFetchOr, FetchOrWaking, Custody, Ownership
  <2> QED
    BY <2>1, <2>2, <2>3
<1>7. ASSUME NEW t \in Threads, TakeCell(t) PROVE IInv'
  <2>1. TypeOK'
    BY <1>7 DEF TakeCell, Custody
  <2>2. Ownership'
    BY <1>7 DEF TakeCell, Ownership
  <2>3. Custody'
    BY <1>7 DEF TakeCell, Custody, Ownership
  <2> QED
    BY <2>1, <2>2, <2>3
<1>8. ASSUME NEW t \in Threads, TakeSwap(t) PROVE IInv'
  <2>1. TypeOK'
    BY <1>8 DEF TakeSwap, Custody
  <2>2. Ownership'
    BY <1>8 DEF TakeSwap, Ownership
  <2>3. Custody'
    BY <1>8 DEF TakeSwap, Custody, Ownership
  <2> QED
    BY <2>1, <2>2, <2>3
<1>9. ASSUME NEW t \in Threads, Deliver(t) PROVE IInv'
  <2>1. TypeOK'
    BY <1>9 DEF Deliver, Custody
  <2>2. Ownership'
    BY <1>9 DEF Deliver, Ownership
  <2>3. Custody'
    BY <1>9 DEF Deliver, Custody, Ownership
  <2> QED
    BY <2>1, <2>2, <2>3
<1>10. ASSUME NEW w \in Wakers, PollTask(w) PROVE IInv'
  BY <1>10 DEF PollTask, Ownership, Custody
<1>11. ASSUME UNCHANGED vars PROVE IInv'
  BY <1>11 DEF vars, Ownership, Custody
<1> QED
  BY <1>0, <1>1, <1>2, <1>3, <1>4, <1>5, <1>6, <1>7, <1>8, <1>9, <1>10, <1>11
  DEF Next, Begin, Continue

LEMMA InvariantHolds == Spec => []IInv
  BY InitEstablishes, NextPreserves, PTL DEF Spec

(* Type correctness of AtomicWaker.                                        *)
THEOREM TypeCorrect == Spec => []TypeOK
<1>1. IInv => TypeOK
  BY DEF IInv
<1> QED
  BY <1>1, InvariantHolds, PTL

(* No two threads are ever in the waker cell at once.                      *)
THEOREM CellNeverRaced == Spec => []CellExclusion
<1>1. IInv => CellExclusion
  BY DEF IInv, Ownership
<1> QED
  BY <1>1, InvariantHolds, PTL

(* The debug_asserts and the unwrap of register and take never fail.       *)
THEOREM AssertsNeverFail == Spec => []AssertsHold
<1>1. IInv => AssertsHold
  BY NoWakerAssumption DEF IInv, Ownership, Custody, AssertsHold, RegisterLocked, WakeLocked
<1> QED
  BY <1>1, InvariantHolds, PTL

(* The waker cell has one owner at a time, as the asserts say.             *)
THEOREM CellSound == Spec => []CellIsSound
  BY CellNeverRaced, AssertsNeverFail, PTL DEF CellIsSound

------------------------------------------------------------------------------
(* Refinement: what each step does to the abstract slot.                   *)

LEMMA InitRefines == Init => Cell!Init
  BY NoWakerAssumption
  DEF Init, Cell!Init, Registered, Owed, RegisterLocked, WAITING, REGISTERING, WAKING, BOTH

(* What a register does to the slot, at its compare_exchange.              *)
LEMMA CasEffect ==
  ASSUME IInv, NEW t \in Threads, RegisterCas(t)
  PROVE  /\ arg[t] \in Wakers /\ UNCHANGED notified
         /\ state = WAITING => Registered' = {arg[t]} /\ Owed' = Owed
         /\ state = WAKING => /\ Registered = {} /\ Registered' = {}
                              /\ Owed' = Owed \cup {arg[t]}
         /\ state \in {REGISTERING, BOTH} => UNCHANGED <<Registered, Owed>>
<1> USE NoWakerAssumption
    DEF IInv, TypeOK, PC, Ownership, Custody, CellExclusion, InCell, Goto,
        RegisterLocked, WakeLocked, WAITING, REGISTERING, WAKING, BOTH,
        Registered, Owed
<1>0. arg[t] \in Wakers /\ UNCHANGED notified
  BY DEF RegisterCas
<1>1. CASE state = WAITING
  <2>1. Registered' = {arg[t]}
    BY <1>0, <1>1 DEF RegisterCas
  <2>2. Owed' = Owed
    BY <1>1 DEF RegisterCas
  <2> QED
    BY <1>0, <1>1, <2>1, <2>2
<1>2. CASE state = WAKING
  <2>1. Registered = {} /\ Registered' = {}
    BY <1>2 DEF RegisterCas
  <2>2. Owed' = Owed \cup {arg[t]}
    BY <1>0, <1>2 DEF RegisterCas
  <2> QED
    BY <1>0, <1>2, <2>1, <2>2
<1>3. CASE state \in {REGISTERING, BOTH}
  BY <1>0, <1>3 DEF RegisterCas
<1> QED
  BY <1>1, <1>2, <1>3

(* What a wake does to it, at its fetch_or.                                *)
LEMMA TakeEffect ==
  ASSUME IInv, NEW t \in Threads, TakeFetchOr(t)
  PROVE  UNCHANGED notified /\ Registered' = {} /\ Owed' = Owed \cup Registered
<1> USE NoWakerAssumption
    DEF IInv, TypeOK, PC, Ownership, Custody, CellExclusion, InCell, Goto,
        RegisterLocked, WakeLocked, WAITING, REGISTERING, WAKING, BOTH,
        Registered, Owed, TakeFetchOr, FetchOrWaking
<1>1. UNCHANGED notified /\ Registered' = {}
  OBVIOUS
<1>2. CASE state = WAITING
  BY <1>1, <1>2
<1>3. CASE state = REGISTERING
  BY <1>1, <1>3
<1>4. CASE state \in {WAKING, BOTH}
  BY <1>1, <1>4
<1> QED
  BY <1>1, <1>2, <1>3, <1>4

(* Waker::wake.                                                            *)
LEMMA DeliverEffect ==
  ASSUME IInv, NEW t \in Threads, Deliver(t)
  PROVE  /\ held[t] \in Wakers /\ held[t] \in Owed
         /\ UNCHANGED Registered
         /\ notified' = notified \cup {held[t]}
         /\ Owed' \in {Owed, Owed \ {held[t]}}
<1> USE NoWakerAssumption
    DEF IInv, TypeOK, PC, Ownership, Custody, CellExclusion, InCell, Goto,
        RegisterLocked, WakeLocked, WAITING, REGISTERING, WAKING, BOTH,
        Registered, Owed
<1>1. held[t] \in Wakers /\ held[t] \in Owed /\ notified' = notified \cup {held[t]}
  BY DEF Deliver
<1>2. Registered' = Registered
  BY DEF Deliver
<1>3. CASE held[t] \in Owed'
  <2>1. Owed' = Owed
    BY <1>1, <1>3 DEF Deliver
  <2> QED
    BY <1>1, <1>2, <2>1
<1>4. CASE held[t] \notin Owed'
  <2>1. Owed' = Owed \ {held[t]}
    BY <1>1, <1>4 DEF Deliver
  <2> QED
    BY <1>1, <1>2, <2>1
<1> QED
  BY <1>3, <1>4

(* The other steps of a call do nothing to it.                             *)
Silent(t) == \/ RegisterStore(t) \/ RegisterRelease(t) \/ RegisterTake(t) \/ RegisterSwap(t)
             \/ TakeCell(t) \/ TakeSwap(t)
LEMMA SilentEffect ==
  ASSUME IInv, NEW t \in Threads, Silent(t)
  PROVE  UNCHANGED <<Registered, Owed, notified>>
<1> USE NoWakerAssumption
    DEF IInv, TypeOK, PC, Ownership, Custody, CellExclusion, InCell, Goto,
        RegisterLocked, WakeLocked, WAITING, REGISTERING, WAKING, BOTH,
        Registered, Owed
<1>1. CASE RegisterStore(t)
  BY <1>1 DEF RegisterStore
<1>2. CASE RegisterRelease(t)
  BY <1>2 DEF RegisterRelease
<1>3. CASE RegisterTake(t)
  BY <1>3 DEF RegisterTake
<1>4. CASE RegisterSwap(t)
  BY <1>4 DEF RegisterSwap
<1>5. CASE TakeCell(t)
  BY <1>5 DEF TakeCell
<1>6. CASE TakeSwap(t)
  BY <1>6 DEF TakeSwap
<1> QED
  BY <1>1, <1>2, <1>3, <1>4, <1>5, <1>6 DEF Silent

(* A register call is only announced.                                      *)
LEMMA CallEffect ==
  ASSUME IInv, NEW t \in Threads, NEW w \in Wakers, RegisterCall(t, w)
  PROVE  UNCHANGED <<Registered, Owed, notified>>
  BY NoWakerAssumption
  DEF IInv, TypeOK, PC, Ownership, Custody, CellExclusion, InCell, Goto, RegisterLocked,
      WakeLocked, WAITING, REGISTERING, WAKING, BOTH, Registered, Owed, RegisterCall

LEMMA StepRefines == IInv /\ [Next]_vars => [Cell!Next]_(Cell!cellVars)
<1> SUFFICES ASSUME IInv, [Next]_vars PROVE Cell!Next \/ UNCHANGED Cell!cellVars
  OBVIOUS
<1>0. ASSUME NEW t \in Threads, NEW w \in Wakers, RegisterCall(t, w)
      PROVE UNCHANGED Cell!cellVars
  BY <1>0, CallEffect DEF Cell!cellVars
<1>1. ASSUME NEW t \in Threads, RegisterCas(t) PROVE Cell!Next \/ UNCHANGED Cell!cellVars
  <2>1. state \in {WAITING, WAKING, REGISTERING, BOTH}
    BY DEF IInv, TypeOK
  <2> QED
    BY <1>1, <2>1, CasEffect
    DEF Cell!Next, Cell!cellVars, Cell!Register, Cell!RegisterStored, Cell!RegisterRaced
<1>2. ASSUME NEW t \in Threads, TakeFetchOr(t) PROVE Cell!Next
  BY <1>2, TakeEffect DEF Cell!Next, Cell!Take
<1>3. ASSUME NEW t \in Threads, Silent(t) PROVE UNCHANGED Cell!cellVars
  BY <1>3, SilentEffect DEF Cell!cellVars
<1>4. ASSUME NEW t \in Threads, Deliver(t) PROVE Cell!Next
  BY <1>4, DeliverEffect DEF Cell!Next, Cell!Deliver
<1>5. ASSUME NEW w \in Wakers, PollTask(w) PROVE Cell!Next
  <2>1. UNCHANGED <<Registered, Owed>>
    BY <1>5 DEF PollTask, Registered, Owed
  <2> QED
    BY <1>5, <2>1 DEF PollTask, Cell!Next, Cell!Consume
<1>6. ASSUME UNCHANGED vars PROVE UNCHANGED Cell!cellVars
  BY <1>6 DEF vars, Cell!cellVars, Registered, Owed
<1> QED
  BY <1>0, <1>1, <1>2, <1>3, <1>4, <1>5, <1>6 DEF Next, Begin, Continue, Silent

(* A register call that overlaps no other one is never lost.               *)
THEOREM RegisterNeverLost == Spec => RegisterTakesEffect
<1>1. IInv /\ [Next]_vars =>
        [\A t \in Threads :
           /\ pc[t] = "reg_cas"
           /\ pc'[t] # "reg_cas"
           /\ \A u \in Threads : pc[u] \notin RegisterLocked
           => arg[t] \in Registered' \cup Owed']_vars
  <2> SUFFICES ASSUME IInv, Next, NEW t \in Threads, pc[t] = "reg_cas",
                      pc'[t] # "reg_cas", \A u \in Threads : pc[u] \notin RegisterLocked
               PROVE arg[t] \in Registered' \cup Owed'
    BY DEF vars
  <2>1. RegisterCas(t)
    <3>1. pc' # pc
      BY DEF IInv, TypeOK
    <3>2. PICK u \in Threads : Begin(u) \/ Continue(u)
      BY <3>1 DEF Next, PollTask
    <3>3. u = t
      BY <3>2 DEF IInv, TypeOK, Begin, Continue, RegisterCall, RegisterCas, Goto,
         RegisterStore, RegisterRelease, RegisterTake, RegisterSwap, TakeFetchOr,
         TakeCell, TakeSwap, Deliver
    <3> QED
      BY <3>2, <3>3 DEF Begin, Continue, RegisterCall, RegisterStore, RegisterRelease,
         RegisterTake, RegisterSwap, TakeFetchOr, TakeCell, TakeSwap, Deliver
  <2>2. state \in {WAITING, WAKING} /\ arg[t] \in Wakers
    BY <2>1 DEF IInv, TypeOK, Ownership, Custody, RegisterCas
  <2> QED
    BY <2>1, <2>2 DEF IInv, TypeOK, RegisterCas, Registered, Owed, Goto,
       RegisterLocked, WAITING, REGISTERING, WAKING, BOTH
<1> QED
  BY <1>1, InvariantHolds, PTL DEF Spec, RegisterTakesEffect

(* AtomicWaker implements WakerCell: no wake misses a registered waker,    *)
(* and a register that meets a wake is not lost either.                    *)
THEOREM RefinesWakerCell == Spec => ImplementsWakerCell
  BY InvariantHolds, InitRefines, StepRefines, RegisterNeverLost, PTL
  DEF Spec, ImplementsWakerCell, Cell!Spec

------------------------------------------------------------------------------
(* Abortable                                                               *)

(* Clones register, each with its own waker and inside try_poll; handles   *)
(* only wake.                                                              *)
Calls ==
  /\ \A t \in Tasks : /\ pc[t] # "idle" => poll[t] = "recheck"
                      /\ pc[t] = "reg_cas" => arg[t] = t
  /\ \A h \in Handles : pc[h] \notin RegisterLocked \cup {"reg_cas"}

(* A task that sleeps while the flag is set is registered, and a call of   *)
(* abort() that stored the flag has not taken the waker yet.               *)
WakeUpPending ==
  \A t \in Tasks \ displaced :
    aborted /\ Asleep(t) /\ t \notin Owed =>
      t \in Registered /\ \E h \in Handles : call[h] = "wake"

(* A task that went to sleep left its waker behind, unless it was taken,   *)
(* and the same holds from its compare_exchange to its second check.       *)
SleeperRegistered ==
  \A t \in Tasks \ displaced :
    Asleep(t) \/ (poll[t] = "recheck" /\ pc[t] # "reg_cas") =>
      t \in Registered \cup Owed \cup notified \/ aborted

AbortInv == AbortableTypeOK /\ Calls /\ WakeUpPending /\ SleeperRegistered

(* A step of the composition is a step of AtomicWaker, or leaves it alone. *)
LEMMA IsWakerStep == [AbortableNext]_allVars => [Next]_vars
<1> SUFFICES ASSUME AbortableNext PROVE [Next]_vars
  BY DEF allVars
<1> USE CallersAssumption
<1>1. ASSUME NEW t \in Tasks, Poll(t) PROVE [Next]_vars
  BY <1>1 DEF Poll, PollCheck, PollInner, PollRegister, PollRecheck, Next, Begin
<1>2. ASSUME NEW h \in Handles, AbortStore(h) \/ AbortWake(h) PROVE [Next]_vars
  BY <1>2 DEF AbortStore, AbortWake, Next, Begin
<1>3. ASSUME NEW t \in Threads, InWaker(t) PROVE [Next]_vars
  BY <1>3 DEF InWaker, Next
<1> QED
  BY <1>1, <1>2, <1>3 DEF AbortableNext

LEMMA AbortInitEstablishes == AbortableInit => AbortInv
  BY CallersAssumption
  DEF AbortableInit, Init, AbortInv, AbortableTypeOK, Calls, WakeUpPending,
      SleeperRegistered, Asleep, Results, RegisterLocked

LEMMA AbortNextPreserves == IInv /\ IInv' /\ AbortInv /\ [AbortableNext]_allVars => AbortInv'
<1> SUFFICES ASSUME IInv, IInv', AbortInv, [AbortableNext]_allVars PROVE AbortInv'
  OBVIOUS
<1> USE CallersAssumption
    DEF AbortInv, AbortableTypeOK, Calls, WakeUpPending, SleeperRegistered, Asleep, Results
<1>0. pc \in [Threads -> PC] /\ arg \in [Threads -> Wakers \cup {NoWaker}]
  BY DEF IInv, TypeOK
<1>1. ASSUME NEW t \in Tasks, PollCheck(t) PROVE AbortInv'
  <2>1. UNCHANGED <<Registered, Owed, pc, arg>>
    BY <1>1 DEF PollCheck, PollTask, vars, Registered, Owed
  <2>2. notified' \in {notified, notified \ {t}}
    BY <1>1 DEF PollCheck, PollTask, vars
  <2> QED
    BY <1>1, <2>1, <2>2 DEF PollCheck, Polls
<1>2. ASSUME NEW t \in Tasks, PollInner(t) PROVE AbortInv'
  <2>1. UNCHANGED <<Registered, Owed, pc, arg, notified>>
    BY <1>2 DEF PollInner, vars, Registered, Owed
  <2> QED
    BY <1>2, <2>1 DEF PollInner, Polls
<1>3. ASSUME NEW t \in Tasks, PollRegister(t) PROVE AbortInv'
  <2>1. UNCHANGED <<Registered, Owed, notified>>
    BY <1>3, CallEffect DEF PollRegister
  <2>2. pc' = [pc EXCEPT ![t] = "reg_cas"] /\ arg' = [arg EXCEPT ![t] = t]
    BY <1>3 DEF PollRegister, RegisterCall, Goto
  <2> QED
    BY <1>0, <1>3, <2>1, <2>2 DEF PollRegister, Polls
<1>4. ASSUME NEW t \in Tasks, PollRecheck(t) PROVE AbortInv'
  <2>1. UNCHANGED <<Registered, Owed, pc, arg, notified>>
    BY <1>4 DEF PollRecheck, vars, Registered, Owed
  <2> QED
    BY <1>4, <2>1 DEF PollRecheck, Polls
<1>5. ASSUME NEW h \in Handles, AbortStore(h) PROVE AbortInv'
  <2>1. UNCHANGED <<Registered, Owed, pc, arg, notified>>
    BY <1>5 DEF AbortStore, vars, Registered, Owed
  <2> QED
    BY <1>5, <2>1 DEF AbortStore
<1>6. ASSUME NEW h \in Handles, AbortWake(h) PROVE AbortInv'
  <2>1. UNCHANGED notified /\ Registered' = {} /\ Owed' = Owed \cup Registered
    BY <1>6, TakeEffect DEF AbortWake
  <2>2. UNCHANGED arg /\ pc' \in {pc, [pc EXCEPT ![h] = "take_cell"]}
    BY <1>6 DEF AbortWake, TakeFetchOr, Goto
  <2>3. AbortableTypeOK' /\ Calls'
    BY <1>0, <1>6, <2>2 DEF AbortWake, RegisterLocked
  <2>4. WakeUpPending' /\ SleeperRegistered'
    BY <1>0, <1>6, <2>1, <2>2 DEF AbortWake
  <2> QED
    BY <2>3, <2>4
<1>7. ASSUME NEW t \in Threads, InWaker(t), RegisterCas(t) PROVE AbortInv'
  <2>1. t \in Tasks /\ arg[t] = t /\ poll[t] = "recheck"
    BY <1>0, <1>7 DEF RegisterCas
  <2>2. /\ \A u \in Threads \ {t} : pc'[u] = pc[u] /\ arg'[u] = arg[u]
        /\ pc'[t] \notin {"reg_cas"}
    BY <1>0, <1>7 DEF RegisterCas, Goto
  <2>3. AbortableTypeOK' /\ Calls'
    <3>1. Registered \subseteq Tasks
      BY DEF Registered
    <3> QED
      BY <1>7, <2>1, <2>2, <3>1 DEF InWaker, abortVars
  <2>4. state \in {WAITING, WAKING, REGISTERING, BOTH}
    BY DEF IInv, TypeOK
  <2>5. displaced' = IF state \in {REGISTERING, BOTH} THEN displaced \cup {t}
                     ELSE (displaced \cup Registered) \ {t}
    BY <1>7 DEF InWaker, RegisterCas
  <2>6. WakeUpPending' /\ SleeperRegistered'
    <3>1. UNCHANGED <<aborted, poll, call, notified>>
      BY <1>7, CasEffect DEF InWaker, abortVars
    <3>2. CASE state = WAITING
      <4>1. Registered' = {t} /\ Owed' = Owed
        BY <1>7, <2>1, <3>2, CasEffect
      <4>2. displaced' = (displaced \cup Registered) \ {t}
        BY <2>5, <3>2 DEF WAITING, REGISTERING, WAKING, BOTH
      <4> QED
        BY <2>1, <2>2, <3>1, <4>1, <4>2
    <3>3. CASE state = WAKING
      <4>1. Registered = {} /\ Registered' = {} /\ Owed' = Owed \cup {t}
        BY <1>7, <2>1, <3>3, CasEffect
      <4>2. displaced' = displaced \ {t}
        BY <2>5, <3>3, <4>1 DEF WAITING, REGISTERING, WAKING, BOTH
      <4> QED
        BY <2>1, <2>2, <3>1, <4>1, <4>2
    <3>4. CASE state \in {REGISTERING, BOTH}
      <4>1. Registered' = Registered /\ Owed' = Owed
        BY <1>7, <3>4, CasEffect
      <4>2. displaced' = displaced \cup {t}
        BY <2>5, <3>4
      <4> QED
        BY <2>1, <2>2, <3>1, <4>1, <4>2
    <3> QED
      BY <2>4, <3>2, <3>3, <3>4
  <2> QED
    BY <2>3, <2>6
<1>8. ASSUME NEW t \in Threads, InWaker(t), Silent(t) \/ Deliver(t) PROVE AbortInv'
  <2>1. pc[t] \notin {"idle", "reg_cas"} /\ pc'[t] # "reg_cas"
    BY <1>0, <1>8
    DEF Silent, RegisterStore, RegisterRelease, RegisterTake, RegisterSwap, TakeCell, TakeSwap,
        Deliver, Goto
  <2>2. \A u \in Threads \ {t} : pc'[u] = pc[u] /\ arg'[u] = arg[u]
    BY <1>0, <1>8
    DEF Silent, RegisterStore, RegisterRelease, RegisterTake, RegisterSwap, TakeCell, TakeSwap,
        Deliver, Goto
  <2>3. t \in Handles => pc'[t] \notin RegisterLocked
    BY <1>0, <1>8
    DEF Silent, RegisterStore, RegisterRelease, RegisterTake, RegisterSwap, TakeCell, TakeSwap,
        Deliver, Goto, RegisterLocked
  <2>4. UNCHANGED <<aborted, poll, call, displaced>>
    BY <1>8, <2>1 DEF InWaker, abortVars
  <2>5. AbortableTypeOK' /\ Calls'
    BY <2>1, <2>2, <2>3, <2>4
  <2>6. CASE Silent(t)
    <3>1. UNCHANGED <<Registered, Owed, notified>>
      BY <2>6, SilentEffect
    <3> QED
      BY <2>1, <2>2, <2>4, <2>5, <3>1
  <2>7. CASE Deliver(t)
    <3>1. /\ UNCHANGED Registered
          /\ notified' = notified \cup {held[t]}
          /\ Owed' \in {Owed, Owed \ {held[t]}}
      BY <2>7, DeliverEffect
    <3> QED
      BY <2>1, <2>2, <2>4, <2>5, <3>1
  <2> QED
    BY <1>8, <2>6, <2>7
<1>9. ASSUME UNCHANGED allVars PROVE AbortInv'
  BY <1>9 DEF allVars, abortVars, vars, Registered, Owed
<1> QED
  BY <1>1, <1>2, <1>3, <1>4, <1>5, <1>6, <1>7, <1>8, <1>9
  DEF AbortableNext, Poll, InWaker, Continue, Silent

(* abort() reaches the task of every clone that has not been displaced.    *)
THEOREM AbortNeverLost == AbortableSpec => []AbortReachesTask
<1>1. AbortableInit => IInv /\ AbortInv
  BY InitEstablishes, AbortInitEstablishes DEF AbortableInit
<1>2. IInv /\ AbortInv /\ [AbortableNext]_allVars => IInv' /\ AbortInv'
  BY IsWakerStep, NextPreserves, AbortNextPreserves
<1>3. AbortInv => AbortReachesTask
  BY DEF AbortInv, AbortReachesTask, WakeUpPending
<1> QED
  BY <1>1, <1>2, <1>3, PTL DEF AbortableSpec
==============================================================================
