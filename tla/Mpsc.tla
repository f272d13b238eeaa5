--------------------------------- MODULE Mpsc ---------------------------------
(***************************************************************************)
(* futures-channel/src/mpsc/mod.rs: the bounded multi-producer channel.    *)
(* Senders count a message in the state word, park themselves when the     *)
(* count exceeds the buffer, and push; the receiver pops, unparks one      *)
(* sender and decrements.  One action per access to shared state; the two  *)
(* queues are FIFO queues (MpscQueue implements one, and its pop_spin      *)
(* returns), recv_task is a WakerCell (AtomicWaker implements one).        *)
(*                                                                         *)
(* A message is [from, seq]: the seq-th message counted by that sender.    *)
(***************************************************************************)
EXTENDS Integers, Sequences, FiniteSets

CONSTANTS Senders,     \* every Sender that is ever created, each in its own task
          First,       \* the one that channel() returns
          Buffer,      \* the buffer the channel was created with
          OPEN_MASK,   \* the top bit of the state word: half its modulus
          MaxSends     \* bound: messages counted by all senders

MAX_CAPACITY == OPEN_MASK - 1
MAX_BUFFER == MAX_CAPACITY \div 2
max_senders == MAX_CAPACITY - Buffer

Rx == "rx"     \* the receiver's task

ASSUME ConstantsAssumption ==
  /\ First \in Senders /\ Rx \notin Senders
  /\ OPEN_MASK \in Nat \ {0}
  /\ Buffer \in Nat /\ Buffer < MAX_BUFFER       \* the assert of channel()
  /\ MaxSends \in Nat

VARIABLES state,          \* BoundedInner::state, one word
          message_queue,  \* BoundedInner::message_queue
          parked_queue,   \* BoundedInner::parked_queue, of senders
          num_senders,    \* BoundedInner::num_senders
          sender_task,    \* SenderTask of each sender
          maybe_parked,   \* BoundedSenderInner::maybe_parked of each sender
          tx,             \* where each sender is
          awaiting,       \* senders whose task counts on the wake-up of a Pending poll_ready
          sent,           \* messages counted by each sender
          rx,             \* where the receiver is: pc, mode, msg and handle in hand
          got,            \* messages of each sender that the receiver returned
          registered, owed, notified  \* recv_task; the tasks woken

txVars == <<num_senders, sender_task, maybe_parked, tx, awaiting, sent>>
cellVars == <<registered, owed, notified>>
vars == <<state, message_queue, parked_queue, num_senders, sender_task, maybe_parked,
          tx, awaiting, sent, rx, got, registered, owed, notified>>

Waker == INSTANCE WakerCell WITH Wakers <- {Rx}

(* The state word: is_open in the top bit, num_messages below it.          *)
encode_state(open, n) == n + (IF open THEN OPEN_MASK ELSE 0)
IsOpen(word) == word >= OPEN_MASK
NumMessages(word) == word % OPEN_MASK
is_closed(word) == ~IsOpen(word) /\ NumMessages(word) = 0
FetchSubOne(word) == (word - 1) % (2 * OPEN_MASK)

NoTask == [is_parked |-> FALSE, task |-> FALSE]
NoMsg == [from |-> First, seq |-> 0]
RxAt(pc, mode) == [pc |-> pc, mode |-> mode, msg |-> NoMsg, handle |-> First]

(* channel(buffer): the first sender and the receiver, whose consumer is   *)
(* about to poll it.                                                       *)
Init ==
  /\ state = encode_state(TRUE, 0)
  /\ message_queue = << >> /\ parked_queue = << >>
  /\ num_senders = 1
  /\ sender_task = [s \in Senders |-> NoTask]
  /\ maybe_parked = [s \in Senders |-> FALSE]
  /\ tx = [s \in Senders |-> IF s = First THEN "idle" ELSE "unborn"]
  /\ awaiting = {}
  /\ sent = [s \in Senders |-> 0]
  /\ rx = RxAt("idle", "none")
  /\ got = [s \in Senders |-> 0]
  /\ registered = {} /\ owed = {} /\ notified = {Rx}

TxGoto(s, label) == tx' = [tx EXCEPT ![s] = label]

------------------------------------------------------------------------------
(* Sender::poll_ready, also as Sink::poll_flush                            *)

(* The load of the state: a closed channel is an error, reported as        *)
(* Ready.                                                                  *)
PollReady(s) ==
  /\ tx[s] = "idle"
  /\ awaiting' = awaiting \ {s}
  /\ notified' = notified \ {s}
  /\ IF IsOpen(state) THEN TxGoto(s, "unparked") ELSE UNCHANGED tx
  /\ UNCHANGED <<state, message_queue, parked_queue, num_senders, sender_task,
                 maybe_parked, sent, rx, got, registered, owed>>

(* BUG: the waker is not stored for a sender that is parked.               *)
PollUnparkedKeepsTask(s) ==
  /\ tx[s] = "unparked"
  /\ TxGoto(s, "idle")
  /\ IF maybe_parked[s] /\ sender_task[s].is_parked
     THEN /\ awaiting' = awaiting \cup {s}
          /\ UNCHANGED maybe_parked
     ELSE /\ maybe_parked' = [maybe_parked EXCEPT ![s] = FALSE]
          /\ UNCHANGED awaiting
  /\ UNCHANGED <<state, message_queue, parked_queue, num_senders, sender_task, sent, rx,
                 got, registered, owed, notified>>

(* poll_unparked(Some(cx)), under the mutex of the SenderTask.             *)
PollUnparked(s) ==
  /\ tx[s] = "unparked"
  /\ TxGoto(s, "idle")
  /\ IF maybe_parked[s] /\ sender_task[s].is_parked
     THEN /\ sender_task' = [sender_task EXCEPT ![s].task = TRUE]
          /\ awaiting' = awaiting \cup {s}
          /\ UNCHANGED maybe_parked
     ELSE /\ maybe_parked' = [maybe_parked EXCEPT ![s] = FALSE]
          /\ UNCHANGED <<sender_task, awaiting>>
  /\ UNCHANGED <<state, message_queue, parked_queue, num_senders, sent, rx, got,
                 registered, owed, notified>>

------------------------------------------------------------------------------
(* Sender::try_send, also as start_send                                    *)

SentSoFar == Cardinality(UNION {{s} \X (1 .. sent[s]) : s \in Senders})

(* poll_unparked(None) finds the sender parked: Full, and the waker that   *)
(* an earlier poll_ready has stored is gone, and with it its wake-up.      *)
TrySendFull(s) ==
  /\ tx[s] = "idle"
  /\ maybe_parked[s] /\ sender_task[s].is_parked
  /\ sender_task' = [sender_task EXCEPT ![s].task = FALSE]
  /\ awaiting' = awaiting \ {s}
  /\ UNCHANGED <<state, message_queue, parked_queue, num_senders, maybe_parked, tx,
                 sent, rx, got, registered, owed, notified>>

(* BUG: a sender parks one message too late.                               *)
ParkSelfLate(n) == n > Buffer + 1

(* Block once the number of pending messages exceeds the buffer.           *)
park_self(n) == n > Buffer

(* Not parked (a flag only this sender sets): inc_num_messages' loop ends  *)
(* with a compare_exchange that counts the message, or finds the channel   *)
(* closed: Disconnected.                                                   *)
TrySend(s) ==
  /\ tx[s] = "idle"
  /\ ~(maybe_parked[s] /\ sender_task[s].is_parked)
  /\ SentSoFar < MaxSends
  /\ maybe_parked' = [maybe_parked EXCEPT ![s] = FALSE]
  /\ IF IsOpen(state)
     THEN LET n == NumMessages(state) + 1 IN
          /\ n <= MAX_CAPACITY           \* asserted: it panics, see CapacityBound
          /\ state' = encode_state(TRUE, n)
          /\ sent' = [sent EXCEPT ![s] = @ + 1]
          /\ TxGoto(s, IF park_self(n) THEN "park" ELSE "push")
     ELSE UNCHANGED <<state, sent, tx>>
  /\ UNCHANGED <<message_queue, parked_queue, num_senders, sender_task, awaiting, rx,
                 got, registered, owed, notified>>

(* park: the SenderTask is marked under its mutex, which nobody else looks *)
(* at until its handle is pushed;                                          *)
ParkPush(s) ==
  /\ tx[s] = "park"
  /\ sender_task' = [sender_task EXCEPT ![s] = [is_parked |-> TRUE, task |-> FALSE]]
  /\ parked_queue' = Append(parked_queue, s)
  /\ TxGoto(s, "park_check")
  /\ UNCHANGED <<state, message_queue, num_senders, maybe_parked, awaiting, sent, rx,
                 got, registered, owed, notified>>

(* the sender counts as parked unless the channel was closed.          *)
ParkCheck(s) ==
  /\ tx[s] = "park_check"
  /\ maybe_parked' = [maybe_parked EXCEPT ![s] = IsOpen(state)]
  /\ TxGoto(s, "push")
  /\ UNCHANGED <<state, message_queue, parked_queue, num_senders, sender_task,
                 awaiting, sent, rx, got, registered, owed, notified>>

(* queue_push_and_signal: push,                                            *)
PushMessage(s) ==
  /\ tx[s] = "push"
  /\ message_queue' = Append(message_queue, [from |-> s, seq |-> sent[s]])
  /\ TxGoto(s, "wake")
  /\ UNCHANGED <<state, parked_queue, num_senders, sender_task, maybe_parked,
                 awaiting, sent, rx, got, registered, owed, notified>>

(* recv_task.wake(), also the end of close_channel                         *)
WakeReceiver(s) ==
  /\ tx[s] \in {"wake", "wake_last"}
  /\ Waker!Take
  /\ TxGoto(s, IF tx[s] = "wake" THEN "idle" ELSE "dropped")
  /\ UNCHANGED <<state, message_queue, parked_queue, num_senders, sender_task,
                 maybe_parked, awaiting, sent, rx, got, notified>>

------------------------------------------------------------------------------
(* Sender: clone, drop, disconnect and close_channel                       *)

Clone(s, t) ==
  /\ tx[s] = "idle"
  /\ tx[t] = "unborn"
  /\ num_senders < max_senders
  /\ num_senders' = num_senders + 1
  /\ TxGoto(t, "idle")
  /\ UNCHANGED <<state, message_queue, parked_queue, sender_task, maybe_parked,
                 awaiting, sent, rx, got, registered, owed, notified>>

(* drop, disconnect() or Sink::poll_close: the last sender closes.  The    *)
(* SenderTask lives on in the parked queue.                                *)
DropSender(s) ==
  /\ tx[s] = "idle"
  /\ num_senders' = num_senders - 1
  /\ awaiting' = awaiting \ {s}
  /\ notified' = notified \ {s}
  /\ maybe_parked' = [maybe_parked EXCEPT ![s] = FALSE]
  /\ TxGoto(s, IF num_senders = 1 THEN "close_last" ELSE "dropped")
  /\ UNCHANGED <<state, message_queue, parked_queue, sender_task, sent, rx, got,
                 registered, owed>>

CallCloseChannel(s) ==
  /\ tx[s] = "idle"
  /\ TxGoto(s, "close")
  /\ UNCHANGED <<state, message_queue, parked_queue, num_senders, sender_task,
                 maybe_parked, awaiting, sent, rx, got, registered, owed, notified>>

(* set_closed                                                              *)
CloseChannel(s) ==
  /\ tx[s] \in {"close", "close_last"}
  /\ state' = encode_state(FALSE, NumMessages(state))
  /\ TxGoto(s, IF tx[s] = "close" THEN "wake" ELSE "wake_last")
  /\ UNCHANGED <<message_queue, parked_queue, num_senders, sender_task, maybe_parked,
                 awaiting, sent, rx, got, registered, owed, notified>>

------------------------------------------------------------------------------
(* The receiver.  next_message is entered at "pop" and, when the queue is  *)
(* empty, ends according to the mode: poll_next goes on to register        *)
(* ("poll"), its second look and try_recv return Pending ("once"), and     *)
(* Receiver::drop loops ("drop").                                          *)

RxUnchanged == UNCHANGED <<num_senders, maybe_parked, tx, awaiting, sent>>

PollNext ==
  /\ rx.pc = "idle"
  /\ notified' = notified \ {Rx}
  /\ rx' = RxAt("pop", "poll")
  /\ RxUnchanged
  /\ UNCHANGED <<state, message_queue, parked_queue, sender_task, got, registered, owed>>

TryRecv ==
  /\ rx.pc = "idle"
  /\ rx' = RxAt("pop", "once")
  /\ RxUnchanged
  /\ UNCHANGED <<state, message_queue, parked_queue, sender_task, got, cellVars>>

PopMessage ==
  /\ rx.pc = "pop"
  /\ IF message_queue = << >>
     THEN /\ rx' = [rx EXCEPT !.pc = "load"]
          /\ UNCHANGED message_queue
     ELSE /\ rx' = [rx EXCEPT !.pc = "unpark", !.msg = Head(message_queue),
                              !.mode = IF rx.mode = "drop" THEN "drop" ELSE "once"]
          /\ message_queue' = Tail(message_queue)
  /\ RxUnchanged
  /\ UNCHANGED <<state, parked_queue, sender_task, got, cellVars>>

(* BUG: no sender is unparked.                                             *)
SkipUnpark ==
  /\ rx.pc \in {"unpark", "drain"}
  /\ rx' = IF rx.pc = "unpark" THEN [rx EXCEPT !.pc = "dec"]
           ELSE IF rx.mode = "drop" THEN [rx EXCEPT !.pc = "pop"]
           ELSE RxAt("idle", "none")
  /\ RxUnchanged
  /\ UNCHANGED <<state, message_queue, parked_queue, sender_task, got, cellVars>>

(* unpark_one, and the loop of close()                                     *)
PopParked ==
  /\ rx.pc \in {"unpark", "drain"}
  /\ IF parked_queue = << >>
     THEN /\ rx' = IF rx.pc = "unpark" THEN [rx EXCEPT !.pc = "dec"]
                   ELSE IF rx.mode = "drop" THEN [rx EXCEPT !.pc = "pop"]
                   ELSE RxAt("idle", "none")
          /\ UNCHANGED parked_queue
     ELSE /\ rx' = [rx EXCEPT !.pc = IF rx.pc = "unpark" THEN "notify" ELSE "drain_notify",
                              !.handle = Head(parked_queue)]
          /\ parked_queue' = Tail(parked_queue)
  /\ RxUnchanged
  /\ UNCHANGED <<state, message_queue, sender_task, got, cellVars>>

(* SenderTask::notify, under its mutex                                     *)
NotifySender ==
  /\ rx.pc \in {"notify", "drain_notify"}
  /\ sender_task' = [sender_task EXCEPT ![rx.handle] = NoTask]
  /\ notified' = IF sender_task[rx.handle].task THEN notified \cup {rx.handle} ELSE notified
  /\ rx' = [rx EXCEPT !.pc = IF rx.pc = "notify" THEN "dec" ELSE "drain", !.handle = First]
  /\ RxUnchanged
  /\ UNCHANGED <<state, message_queue, parked_queue, got, registered, owed>>

(* BUG: nothing is subtracted once the channel is closed.                  *)
DecOnlyWhenOpen ==
  /\ rx.pc = "dec"
  /\ state' = IF IsOpen(state) THEN FetchSubOne(state) ELSE state
  /\ IF rx.mode = "drop"
     THEN /\ rx' = RxAt("pop", "drop")
          /\ UNCHANGED <<got, notified>>
     ELSE /\ rx' = RxAt("idle", "none")
          /\ got' = [got EXCEPT ![rx.msg.from] = rx.msg.seq]
          /\ notified' = notified \cup {Rx}
  /\ RxUnchanged
  /\ UNCHANGED <<message_queue, parked_queue, sender_task, registered, owed>>

(* dec_num_messages; then the message is returned to the consumer, who     *)
(* will poll again, or dropped by Receiver::drop.                          *)
DecNumMessages ==
  /\ rx.pc = "dec"
  /\ state' = FetchSubOne(state)
  /\ IF rx.mode = "drop"
     THEN /\ rx' = RxAt("pop", "drop")
          /\ UNCHANGED <<got, notified>>
     ELSE /\ rx' = RxAt("idle", "none")
          /\ got' = [got EXCEPT ![rx.msg.from] = rx.msg.seq]
          /\ notified' = notified \cup {Rx}
  /\ RxUnchanged
  /\ UNCHANGED <<message_queue, parked_queue, sender_task, registered, owed>>

(* The queue was empty: end of stream if closed and drained, else Pending. *)
LoadState ==
  /\ rx.pc = "load"
  /\ rx' = CASE is_closed(state) -> RxAt(IF rx.mode = "drop" THEN "gone" ELSE "ended", "none")
             [] ~is_closed(state) /\ rx.mode = "poll" -> RxAt("register", "poll")
             [] ~is_closed(state) /\ rx.mode = "drop" -> RxAt("recheck", "drop")
             [] OTHER -> RxAt("idle", "none")
  /\ RxUnchanged
  /\ UNCHANGED <<state, message_queue, parked_queue, sender_task, got, cellVars>>

(* poll_next registers and looks a second time.                            *)
RegisterReceiver ==
  /\ rx.pc = "register"
  /\ Waker!Register(Rx)
  /\ rx' = RxAt("pop", "once")
  /\ RxUnchanged
  /\ UNCHANGED <<state, message_queue, parked_queue, sender_task, got, notified>>

(* The loop of Receiver::drop found nothing to pop: it stops if the        *)
(* channel is drained by now, else a sender is about to push.              *)
DropRecheck ==
  /\ rx.pc = "recheck"
  /\ rx' = IF is_closed(state) THEN RxAt("gone", "none") ELSE RxAt("pop", "drop")
  /\ RxUnchanged
  /\ UNCHANGED <<state, message_queue, parked_queue, sender_task, got, cellVars>>

(* Receiver::close and Receiver::drop: set_closed, then the loop over the  *)
(* parked senders.  The task that called close() is running, and goes on   *)
(* to drain the stream.                                                    *)
CloseReceiver(mode) ==
  /\ rx.pc = "idle"
  /\ rx' = RxAt("drain", mode)
  /\ state' = encode_state(FALSE, NumMessages(state))
  /\ notified' = notified \cup {Rx}
  /\ RxUnchanged
  /\ UNCHANGED <<message_queue, parked_queue, sender_task, got, registered, owed>>

(* The second half of recv_task.wake()                                     *)
WakeTaken ==
  /\ Waker!Deliver(Rx)
  /\ RxUnchanged
  /\ UNCHANGED <<state, message_queue, parked_queue, sender_task, rx, got, registered>>

------------------------------------------------------------------------------
SenderStep(s) == \/ PollUnparked(s) \/ ParkPush(s) \/ ParkCheck(s)
                 \/ PushMessage(s) \/ WakeReceiver(s) \/ CloseChannel(s)

SenderCall(s) == \/ PollReady(s) \/ TrySendFull(s) \/ TrySend(s)
                 \/ \E t \in Senders : Clone(s, t)
                 \/ DropSender(s) \/ CallCloseChannel(s)

ReceiverStep == \/ PopMessage \/ PopParked \/ NotifySender \/ DecNumMessages
                \/ LoadState \/ RegisterReceiver \/ DropRecheck

ReceiverCall == TryRecv \/ \E mode \in {"close", "drop"} : CloseReceiver(mode)

Next == \/ \E s \in Senders : SenderStep(s) \/ SenderCall(s)
        \/ ReceiverStep \/ PollNext \/ ReceiverCall
        \/ WakeTaken

Spec == Init /\ [][Next]_vars

------------------------------------------------------------------------------
Words == 0 .. 2 * OPEN_MASK - 1
Messages == [from : Senders, seq : Nat]

TxPC == {"unborn", "idle", "unparked", "park", "park_check", "push", "wake",
         "close", "close_last", "wake_last", "dropped"}
Receivers == [pc : {"idle", "pop", "unpark", "notify", "dec", "load", "register", "recheck",
                    "drain", "drain_notify", "ended", "gone"},
              mode : {"none", "poll", "once", "drop", "close"},
              msg : Messages, handle : Senders]

TypeOK ==
  /\ state \in Words
  /\ message_queue \in Seq(Messages) /\ parked_queue \in Seq(Senders)
  /\ num_senders \in Int
  /\ sender_task \in [Senders -> [is_parked : BOOLEAN, task : BOOLEAN]]
  /\ maybe_parked \in [Senders -> BOOLEAN]
  /\ tx \in [Senders -> TxPC]
  /\ awaiting \subseteq Senders
  /\ sent \in [Senders -> Nat]
  /\ rx \in Receivers
  /\ got \in [Senders -> Nat]
  /\ registered \subseteq {Rx} /\ owed \subseteq {Rx}
  /\ notified \subseteq Senders \cup {Rx}

(* Senders that have counted their message and not pushed it yet.          *)
Counting == {s \in Senders : tx[s] \in {"park", "park_check", "push"}}

(* The receiver has popped a message it has not subtracted yet.            *)
InHand == IF rx.pc \in {"unpark", "notify", "dec"} THEN 1 ELSE 0

(* The count in the state word is the messages in the queue, those about   *)
(* to be pushed and the one being received.  So dec_num_messages never     *)
(* underflows into the open bit, and is_closed means drained.              *)
CountIsExact == NumMessages(state) = Len(message_queue) + Cardinality(Counting) + InHand

(* The messages that the receiver has not returned yet, and what it is     *)
(* about, as a Channel has them.                                           *)
Backlog == (IF InHand = 1 THEN <<rx.msg>> ELSE << >>) \o message_queue
Phase == CASE rx.pc \in {"ended", "gone"} -> rx.pc
           [] rx.pc \notin {"ended", "gone"} /\ rx.mode = "drop" -> "dropping"
           [] OTHER -> "receiving"

(* The channel is a Channel: messages that were accepted come out in the   *)
(* order they were pushed; poll_next returns None, and try_recv Closed,    *)
(* only after every message whose send was or will be Ok; Receiver::drop   *)
(* leaves no message behind, not even one that was counted before the      *)
(* channel closed and is pushed afterwards.                                *)
Abstract == INSTANCE Channel WITH
  open <- IsOpen(state), accepted <- sent, inFlight <- Counting,
  queue <- Backlog, received <- got, receiver <- Phase
ImplementsChannel == Abstract!Spec

(* A receiver that sleeps with a message in the queue, or at the end of    *)
(* the stream, has a wake-up on its way.                                   *)
ReceiverAsleep == rx.pc = "idle" /\ Rx \notin notified
NoLostReceiverWakeUp ==
  ReceiverAsleep /\ (message_queue # << >> \/ is_closed(state)) =>
    \/ Rx \in owed
    \/ \E s \in Senders : tx[s] \in {"wake", "wake_last"}

(* "At this point, an unpark request is pending" (poll_unparked): the      *)
(* handle of a sender that considers itself parked is in the receiver's    *)
(* hands, or in the parked queue of a receiver with enough messages to     *)
(* come to reach it, or of one that is draining the queue.                 *)
UnparkIsPending ==
  \A s \in Senders :
    maybe_parked[s] /\ sender_task[s].is_parked =>
      \/ rx.pc \in {"notify", "drain_notify"} /\ rx.handle = s
      \/ \E i \in 1 .. Len(parked_queue) :
           /\ parked_queue[i] = s
           /\ \/ rx.pc = "drain"  \/ rx.pc = "drain_notify"
              \/ i <= Len(message_queue) + Cardinality(Counting)
                      + (IF rx.pc = "unpark" THEN 1 ELSE 0)

(* Both sides are woken in time: neither the receiver nor a parked sender  *)
(* is left with nothing on its way to it.                                  *)
NoLostWakeUp == NoLostReceiverWakeUp /\ UnparkIsPending

(* "The current task is queued to be notified once capacity is available"  *)
(* (poll_ready): a sender task left Pending is notified, that is, no task  *)
(* waits for ever without it, whatever the other senders and the receiver  *)
(* do; unless it calls try_send before, which drops its own waker.         *)
Waits(s) == s \in awaiting /\ s \notin notified
PendingSenderIsNotified == \A s \in Senders : []<>~Waits(s)

(* When the last sender is gone, which is for ever, the consumer sees the  *)
(* end of the stream, after which it stays there.                          *)
EndIsReached == []<>(num_senders = 0 => rx.pc \in {"ended", "gone"})
==============================================================================
