---------------------------- MODULE UnboundedMpsc ----------------------------
(***************************************************************************)
(* futures-channel/src/mpsc/mod.rs: the unbounded channel.  It has the     *)
(* state word, the queue and the waker of the bounded one (Mpsc), and the  *)
(* same receiver, except that nobody is ever parked.  poll_ready only      *)
(* reads the state, poll_flush does nothing.  Calls through a shared       *)
(* &UnboundedSender are like those of clones of it.                        *)
(***************************************************************************)
EXTENDS Mpsc

VARIABLE bounded       \* which of the two channels there is

mpscVars == <<vars, bounded>>

UnboundedInit == Init /\ bounded = FALSE

(* do_send_nb, through start_send or unbounded_send: inc_num_messages      *)
(* counts the message, or finds the channel closed: Disconnected.          *)
DoSendNb(s) ==
  /\ tx[s] = "idle"
  /\ SentSoFar < MaxSends
  /\ IsOpen(state)
  /\ NumMessages(state) < MAX_CAPACITY      \* asserted
  /\ state' = encode_state(TRUE, NumMessages(state) + 1)
  /\ sent' = [sent EXCEPT ![s] = @ + 1]
  /\ TxGoto(s, "push")
  /\ UNCHANGED <<message_queue, parked_queue, num_senders, sender_task, maybe_parked,
                 awaiting, rx, got, registered, owed, notified>>

UnboundedPush(s) == PushMessage(s)
UnboundedWake(s) == WakeReceiver(s)

(* As for a Sender, with another limit.                                    *)
UnboundedClone(s, t) == num_senders < MAX_BUFFER /\ Clone(s, t)

(* BUG: fetch_sub is taken to return the new count.                        *)
ComparesNewCount(s) ==
  /\ tx[s] = "idle"
  /\ num_senders' = num_senders - 1
  /\ TxGoto(s, IF num_senders = 0 THEN "close_last" ELSE "dropped")
  /\ UNCHANGED <<state, message_queue, parked_queue, sender_task, maybe_parked, awaiting, sent,
                 rx, got, registered, owed, notified>>

(* drop, disconnect() or Sink::poll_close of an UnboundedSender.           *)
UnboundedDropSender(s) == DropSender(s)

(* close_channel(), or Sink::poll_close of an &UnboundedSender.            *)
UnboundedCallClose(s) == CallCloseChannel(s)
UnboundedCloseChannel(s) == CloseChannel(s)

------------------------------------------------------------------------------
UnboundedPollNext == PollNext
UnboundedTryRecv == TryRecv

(* next_message, with no sender to unpark.                                 *)
UnboundedPopMessage ==
  /\ rx.pc = "pop"
  /\ IF message_queue = << >>
     THEN /\ rx' = [rx EXCEPT !.pc = "load"]
          /\ UNCHANGED message_queue
     ELSE /\ rx' = [rx EXCEPT !.pc = "dec", !.msg = Head(message_queue),
                              !.mode = IF rx.mode = "drop" THEN "drop" ELSE "once"]
          /\ message_queue' = Tail(message_queue)
  /\ RxUnchanged
  /\ UNCHANGED <<state, parked_queue, sender_task, got, cellVars>>
UnboundedDecNumMessages == DecNumMessages

(* BUG: the queue was empty, and a closed channel is at its end.           *)
ClosedIsDrained ==
  /\ rx.pc = "load"
  /\ rx' = CASE ~IsOpen(state) -> RxAt(IF rx.mode = "drop" THEN "gone" ELSE "ended", "none")
             [] IsOpen(state) /\ rx.mode = "poll" -> RxAt("register", "poll")
             [] OTHER -> RxAt("idle", "none")
  /\ RxUnchanged
  /\ UNCHANGED <<state, message_queue, parked_queue, sender_task, got, cellVars>>
UnboundedLoadState == LoadState
UnboundedRegister == RegisterReceiver
UnboundedDropRecheck == DropRecheck

(* UnboundedReceiver::close, and drop, which goes on to drain the channel. *)
UnboundedClose(mode) ==
  /\ rx.pc = "idle"
  /\ rx' = IF mode = "drop" THEN RxAt("pop", "drop") ELSE RxAt("idle", "none")
  /\ state' = encode_state(FALSE, NumMessages(state))
  /\ notified' = notified \cup {Rx}
  /\ RxUnchanged
  /\ UNCHANGED <<message_queue, parked_queue, sender_task, got, registered, owed>>

------------------------------------------------------------------------------
UnboundedSenderStep(s) == UnboundedPush(s) \/ UnboundedWake(s) \/ UnboundedCloseChannel(s)
UnboundedSenderCall(s) == \/ DoSendNb(s) \/ UnboundedDropSender(s) \/ UnboundedCallClose(s)
                          \/ \E t \in Senders : UnboundedClone(s, t)
UnboundedReceiverStep == \/ UnboundedPopMessage \/ UnboundedDecNumMessages \/ UnboundedLoadState
                         \/ UnboundedRegister \/ UnboundedDropRecheck

UnboundedNext == \/ \E s \in Senders : UnboundedSenderStep(s) \/ UnboundedSenderCall(s)
                 \/ UnboundedReceiverStep \/ UnboundedPollNext \/ UnboundedTryRecv
                 \/ \E mode \in {"close", "drop"} : UnboundedClose(mode)
                 \/ WakeTaken

------------------------------------------------------------------------------
(* A channel of either kind.                                               *)
MpscInit == UnboundedInit \/ (Init /\ bounded = TRUE)
MpscNext == (IF bounded THEN Next ELSE UnboundedNext) /\ UNCHANGED bounded
MpscSpec == MpscInit /\ [][MpscNext]_mpscVars

(* Calls under way go on, wakes arrive, and a woken consumer polls: strong *)
(* fairness, for it does not call close() or try_recv() forever instead.   *)
SenderGoesOn(s) == IF bounded THEN SenderStep(s) ELSE UnboundedSenderStep(s)
ReceiverGoesOn == IF bounded THEN ReceiverStep ELSE UnboundedReceiverStep
FairMpscSpec == /\ MpscSpec
                /\ \A s \in Senders : WF_vars(SenderGoesOn(s))
                /\ WF_vars(ReceiverGoesOn) /\ SF_vars(Rx \in notified /\ PollNext)
                /\ WF_vars(WakeTaken)

(* Every sender that was ever created has one slot beyond the buffer of a  *)
(* bounded channel.  The message in the receiver's hands comes on top of   *)
(* that: next_message unparks a sender before it subtracts.                *)
CapacityBound ==
  bounded =>
    NumMessages(state) <= Buffer + Cardinality({s \in Senders : tx[s] # "unborn"}) + InHand
==============================================================================
