------------------------------- MODULE Oneshot -------------------------------
(***************************************************************************)
(* futures-channel/src/oneshot.rs and lock.rs: one message between two     *)
(* threads, synchronised by the flag `complete` and three locks that can   *)
(* only be tried.  One action per access to shared state: a try_lock with  *)
(* the access to what it protects, the release of the lock, a load or      *)
(* store of `complete`, a wake.                                            *)
(***************************************************************************)
CONSTANT AfterReady   \* what the receiver's owner still calls after Ready

ASSUME AfterReadyAssumption == AfterReady \subseteq {"try_recv", "is_terminated"}

Tx == "tx"            \* the Sender, its thread and its task
Rx == "rx"            \* the Receiver, its thread and its task
Free == "free"
Locks == {"data", "rx_task", "tx_task"}

VARIABLES complete,   \* Inner::complete
          held,       \* who holds each Lock
          message,    \* where the message is: with Tx, in data, or with Rx
          rx_task,    \* is a waker stored in Inner::rx_task?
          tx_task,    \* is a waker stored in Inner::tx_task?
          tx, rx,     \* where the two threads are
          send_res,   \* what send() returned
          recv_res,   \* what the receiver got: Ready(Ok), Ready(Err(Canceled))
          dropping,   \* has Receiver::drop begun?
          pending,    \* halves whose last poll returned Pending
          notified    \* tasks woken since they last polled

txVars == <<tx, send_res>>
rxRest == <<recv_res, dropping>>
rxVars == <<rx, rxRest>>
slots == <<message, rx_task, tx_task>>
taskVars == <<pending, notified>>
vars == <<complete, held, slots, txVars, rxVars, taskVars>>

(* channel(), and the receiver's task is about to poll it.                 *)
NewChannel ==
  /\ complete = FALSE
  /\ held = [l \in Locks |-> Free]
  /\ message = Tx /\ rx_task = FALSE /\ tx_task = FALSE
  /\ tx = "idle" /\ send_res = "none"
  /\ rx = "idle" /\ recv_res = "none" /\ dropping = FALSE
  /\ pending = {}
Init == NewChannel /\ notified = {Rx}

(* Lock::try_lock that succeeds, and the drop of the TryLock               *)
Acquire(l, half) == held[l] = Free /\ held' = [held EXCEPT ![l] = half]
Release(l) == held' = [held EXCEPT ![l] = Free]
Fails(l) == held[l] # Free /\ UNCHANGED held

------------------------------------------------------------------------------
(* Sender::send, and the Drop that follows it                              *)

SendLoad ==
  /\ tx = "idle"
  /\ IF complete THEN tx' = "drop" /\ send_res' = "err"
                 ELSE tx' = "send_lock" /\ UNCHANGED send_res
  /\ pending' = pending \ {Tx}
  /\ UNCHANGED <<complete, held, slots, rxVars, notified>>

SendStore ==
  /\ tx = "send_lock"
  /\ \/ /\ Acquire("data", Tx)
        /\ message' = "data"
        /\ tx' = "send_unlock"
        /\ UNCHANGED send_res
     \/ /\ Fails("data")
        /\ tx' = "drop" /\ send_res' = "err"
        /\ UNCHANGED message
  /\ UNCHANGED <<complete, rx_task, tx_task, rxVars, taskVars>>

SendUnlock ==
  /\ tx \in {"send_unlock", "send_reunlock"}
  /\ Release("data")
  /\ tx' = IF tx = "send_unlock" THEN "send_check" ELSE "drop"
  /\ UNCHANGED <<complete, slots, send_res, rxVars, taskVars>>

(* BUG: the sender does not look whether the receiver closed meanwhile.    *)
SendNoCheck ==
  /\ tx = "send_check"
  /\ tx' = "drop" /\ send_res' = "ok"
  /\ UNCHANGED <<complete, held, slots, rxVars, taskVars>>

SendCheck ==
  /\ tx = "send_check"
  /\ IF complete THEN tx' = "send_relock" /\ UNCHANGED send_res
                 ELSE tx' = "drop" /\ send_res' = "ok"
  /\ UNCHANGED <<complete, held, slots, rxVars, taskVars>>

(* It was: pull the message back out, unless the receiver has it.          *)
SendTakeBack ==
  /\ tx = "send_relock"
  /\ \/ /\ Acquire("data", Tx)
        /\ tx' = "send_reunlock"
        /\ IF message = "data" THEN message' = Tx /\ send_res' = "err"
                               ELSE UNCHANGED message /\ send_res' = "ok"
     \/ /\ Fails("data")
        /\ tx' = "drop" /\ send_res' = "ok"
        /\ UNCHANGED message
  /\ UNCHANGED <<complete, rx_task, tx_task, rxVars, taskVars>>

------------------------------------------------------------------------------
(* Sender::poll_canceled                                                   *)

TxReady == tx' = "idle" /\ UNCHANGED pending

PollCanceled ==
  /\ tx = "idle"
  /\ pending' = pending \ {Tx}
  /\ notified' = notified \ {Tx}
  /\ tx' = IF complete THEN "idle" ELSE "cancel_lock"
  /\ UNCHANGED <<complete, held, slots, send_res, rxVars>>

CancelStore ==
  /\ tx = "cancel_lock"
  /\ \/ Acquire("tx_task", Tx) /\ tx_task' = TRUE /\ tx' = "cancel_unlock" /\ UNCHANGED pending
     \/ Fails("tx_task") /\ UNCHANGED tx_task /\ TxReady
  /\ UNCHANGED <<complete, message, rx_task, send_res, rxVars, notified>>

CancelUnlock ==
  /\ tx = "cancel_unlock"
  /\ Release("tx_task")
  /\ tx' = "cancel_check"
  /\ UNCHANGED <<complete, slots, send_res, rxVars, taskVars>>

(* BUG: `complete` is not loaded again after the waker is stored.          *)
CancelNoCheck ==
  /\ tx = "cancel_check"
  /\ tx' = "idle"
  /\ pending' = pending \cup {Tx}
  /\ UNCHANGED <<complete, held, slots, send_res, rxVars, notified>>

CancelCheck ==
  /\ tx = "cancel_check"
  /\ tx' = "idle"
  /\ pending' = IF complete THEN pending ELSE pending \cup {Tx}
  /\ UNCHANGED <<complete, held, slots, send_res, rxVars, notified>>

------------------------------------------------------------------------------
(* drop_tx                                                                 *)

DropTxComplete ==
  /\ tx \in {"idle", "drop"}
  /\ complete' = TRUE
  /\ tx' = "drop_rx_task"
  /\ pending' = pending \ {Tx}
  /\ UNCHANGED <<held, slots, send_res, rxVars, notified>>

DropTxTakeRx ==
  /\ tx = "drop_rx_task"
  /\ \/ /\ Acquire("rx_task", Tx)
        /\ rx_task' = FALSE
        /\ tx' = IF rx_task THEN "drop_rx_unlock_wake" ELSE "drop_rx_unlock"
     \/ Fails("rx_task") /\ tx' = "drop_tx_task" /\ UNCHANGED rx_task
  /\ UNCHANGED <<complete, message, tx_task, send_res, rxVars, taskVars>>

DropTxUnlockRx ==
  /\ tx \in {"drop_rx_unlock", "drop_rx_unlock_wake"}
  /\ Release("rx_task")
  /\ tx' = IF tx = "drop_rx_unlock" THEN "drop_tx_task" ELSE "drop_wake"
  /\ UNCHANGED <<complete, slots, send_res, rxVars, taskVars>>

DropTxWake ==
  /\ tx = "drop_wake"
  /\ notified' = notified \cup {Rx}
  /\ tx' = "drop_tx_task"
  /\ UNCHANGED <<complete, held, slots, send_res, rxVars, pending>>

DropTxTakeTx ==
  /\ tx = "drop_tx_task"
  /\ \/ Acquire("tx_task", Tx) /\ tx_task' = FALSE /\ tx' = "drop_tx_unlock"
     \/ Fails("tx_task") /\ tx' = "gone" /\ UNCHANGED tx_task
  /\ UNCHANGED <<complete, message, rx_task, send_res, rxVars, taskVars>>

DropTxUnlockTx ==
  /\ tx = "drop_tx_unlock"
  /\ Release("tx_task")
  /\ tx' = "gone"
  /\ UNCHANGED <<complete, slots, send_res, rxVars, taskVars>>

------------------------------------------------------------------------------
(* Receiver::poll (recv) and try_recv                                      *)

PollRx ==
  /\ rx = "idle"
  /\ recv_res = "none"
  /\ pending' = pending \ {Rx}
  /\ notified' = notified \ {Rx}
  /\ rx' = IF complete THEN "take" ELSE "recv_lock"
  /\ UNCHANGED <<complete, held, slots, txVars, rxRest>>

(* A failing try_lock means `done`.                                        *)
RecvStore ==
  /\ rx = "recv_lock"
  /\ \/ Acquire("rx_task", Rx) /\ rx_task' = TRUE /\ rx' = "recv_unlock"
     \/ Fails("rx_task") /\ rx' = "take" /\ UNCHANGED rx_task
  /\ UNCHANGED <<complete, message, tx_task, txVars, rxRest, taskVars>>

RecvUnlock ==
  /\ rx = "recv_unlock"
  /\ Release("rx_task")
  /\ rx' = "recv_check"
  /\ UNCHANGED <<complete, slots, txVars, rxRest, taskVars>>

(* BUG: `complete` is not loaded again after the waker is stored.          *)
RecvNoCheck ==
  /\ rx = "recv_check"
  /\ rx' = "idle" /\ pending' = pending \cup {Rx}
  /\ UNCHANGED <<complete, held, slots, txVars, rxRest, notified>>

RecvCheck ==
  /\ rx = "recv_check"
  /\ IF complete THEN rx' = "take" /\ UNCHANGED pending
                 ELSE rx' = "idle" /\ pending' = pending \cup {Rx}
  /\ UNCHANGED <<complete, held, slots, txVars, rxRest, notified>>

MayCall(call) == rx = "idle" /\ (recv_res = "none" \/ call \in AfterReady)

TryRecv ==
  /\ MayCall("try_recv")
  /\ rx' = IF complete THEN "take" ELSE "idle"
  /\ UNCHANGED <<complete, held, slots, txVars, rxRest, taskVars>>

(* Ready(Ok(message)) if it is there, Ready(Err(Canceled)) if it is not or *)
(* the lock is taken.                                                      *)
TakeData ==
  /\ rx = "take"
  /\ \/ /\ Acquire("data", Rx)
        /\ rx' = "take_unlock"
        /\ IF message = "data"
           THEN message' = Rx /\ recv_res' = "ok"
           ELSE UNCHANGED message /\ recv_res' = IF recv_res = "ok" THEN "ok" ELSE "canceled"
     \/ /\ Fails("data")
        /\ rx' = "idle"
        /\ recv_res' = IF recv_res = "ok" THEN "ok" ELSE "canceled"
        /\ UNCHANGED message
  /\ UNCHANGED <<complete, rx_task, tx_task, txVars, dropping, taskVars>>

TakeUnlock ==
  /\ rx = "take_unlock"
  /\ Release("data")
  /\ rx' = "idle"
  /\ UNCHANGED <<complete, slots, txVars, rxRest, taskVars>>

(* FusedFuture::is_terminated: looks into data without taking.  Where it   *)
(* does not get to lock data it changes nothing.                           *)
IsTerminated ==
  /\ MayCall("is_terminated")
  /\ complete
  /\ Acquire("data", Rx)
  /\ rx' = "take_unlock"
  /\ UNCHANGED <<complete, slots, txVars, rxRest, taskVars>>

------------------------------------------------------------------------------
(* close_rx and drop_rx.  The task that called close() polls on.           *)

CloseRx ==
  /\ rx = "idle"
  /\ complete' = TRUE
  /\ rx' = "tx_task"
  /\ notified' = notified \cup {Rx}
  /\ UNCHANGED <<held, slots, txVars, rxRest, pending>>

DropRxComplete ==
  /\ rx = "idle"
  /\ complete' = TRUE
  /\ rx' = "drop_rx_task"
  /\ dropping' = TRUE
  /\ pending' = pending \ {Rx}
  /\ UNCHANGED <<held, slots, txVars, recv_res, notified>>

DropRxTakeRx ==
  /\ rx = "drop_rx_task"
  /\ \/ Acquire("rx_task", Rx) /\ rx_task' = FALSE /\ rx' = "drop_rx_unlock"
     \/ Fails("rx_task") /\ rx' = "tx_task" /\ UNCHANGED rx_task
  /\ UNCHANGED <<complete, message, tx_task, txVars, rxRest, taskVars>>

DropRxUnlockRx ==
  /\ rx = "drop_rx_unlock"
  /\ Release("rx_task")
  /\ rx' = "tx_task"
  /\ UNCHANGED <<complete, slots, txVars, rxRest, taskVars>>

(* Both end by waking the sender's task, if it is there to be woken.       *)
Closed == IF dropping THEN "gone" ELSE "idle"

RxTakeTx ==
  /\ rx = "tx_task"
  /\ \/ /\ Acquire("tx_task", Rx)
        /\ tx_task' = FALSE
        /\ rx' = IF tx_task THEN "tx_unlock_wake" ELSE "tx_unlock"
     \/ Fails("tx_task") /\ rx' = Closed /\ UNCHANGED tx_task
  /\ UNCHANGED <<complete, message, rx_task, txVars, rxRest, taskVars>>

RxUnlockTx ==
  /\ rx \in {"tx_unlock", "tx_unlock_wake"}
  /\ Release("tx_task")
  /\ rx' = IF rx = "tx_unlock" THEN Closed ELSE "tx_wake"
  /\ UNCHANGED <<complete, slots, txVars, rxRest, taskVars>>

RxWakeTx ==
  /\ rx = "tx_wake"
  /\ notified' = notified \cup {Tx}
  /\ rx' = Closed
  /\ UNCHANGED <<complete, held, slots, txVars, rxRest, pending>>

------------------------------------------------------------------------------
TxStep == \/ SendStore \/ SendUnlock \/ SendCheck \/ SendTakeBack
          \/ CancelStore \/ CancelUnlock \/ CancelCheck
          \/ (tx = "drop" /\ DropTxComplete)
          \/ DropTxTakeRx \/ DropTxUnlockRx \/ DropTxWake
          \/ DropTxTakeTx \/ DropTxUnlockTx

TxCall == SendLoad \/ PollCanceled \/ (tx = "idle" /\ DropTxComplete)

RxStep == \/ RecvStore \/ RecvUnlock \/ RecvCheck \/ TakeData \/ TakeUnlock
          \/ DropRxTakeRx \/ DropRxUnlockRx \/ RxTakeTx \/ RxUnlockTx \/ RxWakeTx

RxCall == TryRecv \/ IsTerminated \/ CloseRx \/ DropRxComplete

Next == TxStep \/ TxCall \/ RxStep \/ RxCall \/ PollRx

Spec == Init /\ [][Next]_vars

(* Calls under way go on, and the receiver's task polls when it is woken   *)
(* and does not call close() or try_recv() forever instead.                *)
FairSpec == /\ Spec
            /\ WF_vars(TxStep) /\ WF_vars(RxStep)
            /\ SF_vars(Rx \in notified /\ PollRx)

------------------------------------------------------------------------------
(* The two sides agree: if the receiver was told Canceled then send did    *)
(* not or will not return Ok ("the sender will realise that [we're] `done` *)
(* ... and will treat the send as a failure", recv), and a message that    *)
(* was received is not given back to the sender too.                       *)
ResultsAgree == /\ recv_res = "canceled" => send_res # "ok"
                /\ recv_res = "ok" => send_res # "err"

(* The two sides agree and a message is not lost: once send has returned,  *)
(* it is with the sender again if the send failed, and in the channel or   *)
(* with the receiver if it was Ok.                                         *)
MessageAccounted == /\ ResultsAgree
                    /\ send_res = "err" => message = Tx
                    /\ send_res = "ok" => message \in {"data", Rx}

(* A receiver left Pending on a channel the sender has completed, and a    *)
(* sender left Pending by poll_canceled on one the receiver has closed,    *)
(* are woken or about to be: the other half has not got past the slot with *)
(* their waker.                                                            *)
NoLostWakeUp ==
  /\ complete /\ Rx \in pending /\ Rx \notin notified =>
       \/ tx \in {"drop_rx_unlock_wake", "drop_wake"}
       \/ tx = "drop_rx_task" /\ rx_task
  /\ complete /\ Tx \in pending /\ Tx \notin notified =>
       \/ rx \in {"tx_unlock_wake", "tx_wake"}
       \/ rx \in {"drop_rx_task", "drop_rx_unlock", "tx_task"} /\ tx_task

(* Once the sender is gone the receiver gets its answer.                   *)
ReceiverCompletes == (tx = "gone") ~> (recv_res # "none" \/ rx = "gone")
==============================================================================
