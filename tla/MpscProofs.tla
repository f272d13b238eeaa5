------------------------------ MODULE MpscProofs ------------------------------
(***************************************************************************)
(* The channels of futures-channel/src/mpsc, bounded and unbounded, for    *)
(* any set of senders, any buffer and any width of the state word.         *)
(***************************************************************************)
EXTENDS UnboundedMpsc, FiniteSetTheorems, TLAPS

------------------------------------------------------------------------------
(* The state word                                                          *)

(* A word is an open bit and a count below OPEN_MASK.                      *)
LEMMA WordParts ==
  ASSUME NEW w \in Words
  PROVE  /\ IsOpen(w) \in BOOLEAN /\ MAX_CAPACITY \in Nat
         /\ NumMessages(w) \in 0 .. MAX_CAPACITY
         /\ w = encode_state(IsOpen(w), NumMessages(w))
  BY ConstantsAssumption DEF Words, IsOpen, NumMessages, MAX_CAPACITY, encode_state

(* encode_state puts together what decode_state takes apart.               *)
LEMMA EncodeParts ==
  ASSUME NEW open \in BOOLEAN, NEW n \in 0 .. MAX_CAPACITY
  PROVE  /\ encode_state(open, n) \in Words
         /\ IsOpen(encode_state(open, n)) = open
         /\ NumMessages(encode_state(open, n)) = n
  BY ConstantsAssumption DEF Words, IsOpen, NumMessages, MAX_CAPACITY, encode_state

(* fetch_sub(1) leaves the open bit alone as long as there is a message.   *)
LEMMA FetchSubParts ==
  ASSUME NEW w \in Words
  PROVE  /\ FetchSubOne(w) \in Words
         /\ NumMessages(w) > 0 => /\ IsOpen(FetchSubOne(w)) = IsOpen(w)
                                 /\ NumMessages(FetchSubOne(w)) = NumMessages(w) - 1
<1>1. FetchSubOne(w) \in Words
  BY ConstantsAssumption DEF Words, FetchSubOne
<1>2. ASSUME NumMessages(w) > 0
      PROVE  /\ w > 0 /\ (IsOpen(w) => w > OPEN_MASK)
             /\ FetchSubOne(w) = w - 1
  BY <1>2, ConstantsAssumption DEF Words, IsOpen, NumMessages, FetchSubOne
<1> QED
  BY <1>1, <1>2, ConstantsAssumption DEF Words, IsOpen, NumMessages

------------------------------------------------------------------------------
LEMMA HeadAndTail ==
  ASSUME NEW S, NEW q \in Seq(S), q # << >>
  PROVE  Head(q) \in S /\ Tail(q) \in Seq(S) /\ Len(Tail(q)) = Len(q) - 1
  OBVIOUS

(* Queues: what a message in hand in front of the queue amounts to.        *)
LEMMA QueueFacts ==
  ASSUME NEW S, NEW q \in Seq(S), NEW m \in S
  PROVE  /\ << >> \o q = q
         /\ <<m>> \o q \in Seq(S) /\ <<m>> \o q # << >> /\ Len(<<m>> \o q) = Len(q) + 1
         /\ Head(<<m>> \o q) = m /\ Tail(<<m>> \o q) = q
         /\ q # << >> => <<Head(q)>> \o Tail(q) = q
         /\ \A x \in S : Append(<<m>> \o q, x) = <<m>> \o Append(q, x)
<1>1. <<m>> \in Seq(S) /\ Len(<<m>>) = 1 /\ <<m>>[1] = m
  OBVIOUS
<1>2. <<m>> \o q \in Seq(S) /\ Len(<<m>> \o q) = Len(q) + 1
  BY <1>1
<1>3. << >> \o q = q
  OBVIOUS
<1>4. <<m>> \o q # << >> /\ Head(<<m>> \o q) = m
  BY <1>1, <1>2
<1>5. Tail(<<m>> \o q) = q
  BY <1>1, <1>2
<1>6. ASSUME q # << >>
      PROVE  <<Head(q)>> \o Tail(q) = q
  BY <1>6
<1>7. ASSUME NEW x \in S PROVE Append(<<m>> \o q, x) = <<m>> \o Append(q, x)
  BY <1>1, <1>2
<1> QED
  BY <1>2, <1>3, <1>4, <1>5, <1>6, <1>7

------------------------------------------------------------------------------
(* An update of a function keeps its type, also inside a record.           *)
LEMMA UpdateTyped ==
  ASSUME NEW S, NEW T, NEW f \in [S -> T], NEW x \in S, NEW v \in T
  PROVE  [f EXCEPT ![x] = v] \in [S -> T]
  OBVIOUS

LEMMA SetTaskTyped ==
  ASSUME NEW s \in Senders, NEW b \in BOOLEAN,
         NEW f \in [Senders -> [is_parked : BOOLEAN, task : BOOLEAN]]
  PROVE  [f EXCEPT ![s].task = b] \in [Senders -> [is_parked : BOOLEAN, task : BOOLEAN]]
<1>1. [f[s] EXCEPT !.task = b] \in [is_parked : BOOLEAN, task : BOOLEAN]
  OBVIOUS
<1> QED
  BY <1>1, UpdateTyped

(* The modes go with the places of the receiver's code.                    *)
ModesMatch ==
  /\ rx.pc \in {"idle", "ended", "gone"} => rx.mode = "none"
  /\ rx.pc \in {"pop", "load"} => rx.mode \in {"poll", "once", "drop"}
  /\ rx.pc = "register" => rx.mode = "poll"
  /\ rx.pc = "recheck" => rx.mode = "drop"
  /\ rx.pc \in {"unpark", "notify", "dec"} => rx.mode \in {"once", "drop"}
  /\ rx.pc \in {"drain", "drain_notify"} => rx.mode \in {"close", "drop"}

(* Nobody is parked on an unbounded channel.                               *)
UnboundedNeverParks ==
  ~bounded => /\ parked_queue = << >>
              /\ \A s \in Senders : tx[s] \notin {"park", "park_check", "unparked"}
              /\ rx.pc \notin {"unpark", "notify", "drain", "drain_notify"}

(* The count, with what makes it a number.                                 *)
Counted == IsFiniteSet(Counting) /\ CountIsExact

Typed == TypeOK /\ bounded \in BOOLEAN /\ ModesMatch /\ UnboundedNeverParks

LEMMA InitTyped == MpscInit => Typed
<1> SUFFICES ASSUME MpscInit PROVE Typed
  OBVIOUS
<1>1. Init /\ bounded \in BOOLEAN
  BY DEF MpscInit, UnboundedInit
<1>2. 0 \in 0 .. MAX_CAPACITY /\ First \in Senders
  BY ConstantsAssumption DEF MAX_CAPACITY
<1>3. state \in Words
  BY <1>1, <1>2, EncodeParts DEF Init
<1>4. rx \in [pc : {"idle"}, mode : {"none"}, msg : Messages, handle : Senders]
  BY <1>1, <1>2 DEF Init, RxAt, NoMsg, Messages
<1>5. sender_task \in [Senders -> [is_parked : BOOLEAN, task : BOOLEAN]]
  BY <1>1 DEF Init, NoTask
<1>6. TypeOK
  <2>1. rx \in Receivers /\ tx \in [Senders -> TxPC]
    BY <1>1, <1>4 DEF Init, Receivers, TxPC
  <2>2. /\ maybe_parked \in [Senders -> BOOLEAN] /\ num_senders \in Int
        /\ sent \in [Senders -> Nat] /\ got \in [Senders -> Nat]
        /\ message_queue \in Seq(Messages) /\ parked_queue \in Seq(Senders)
    BY <1>1 DEF Init
  <2>3. /\ awaiting \subseteq Senders /\ registered \subseteq {Rx} /\ owed \subseteq {Rx}
        /\ notified \subseteq Senders \cup {Rx}
    BY <1>1 DEF Init
  <2> QED
    BY <1>3, <1>5, <2>1, <2>2, <2>3 DEF TypeOK
<1> QED
  BY <1>1, <1>4, <1>6 DEF Typed, ModesMatch, UnboundedNeverParks, Init

(* RxAt is a state of the receiver.                                        *)
LEMMA RxAtTyped ==
  ASSUME NEW pc \in {"idle", "pop", "register", "recheck", "drain", "ended", "gone"},
         NEW mode \in {"none", "poll", "once", "drop", "close"}
  PROVE  RxAt(pc, mode) \in Receivers /\ RxAt(pc, mode).pc = pc /\ RxAt(pc, mode).mode = mode
  BY ConstantsAssumption DEF RxAt, NoMsg, Receivers, Messages

(* What every step of a sender keeps.                                      *)
LEMMA SendersTyped ==
  ASSUME Typed, UNCHANGED bounded, NEW s \in Senders,
         IF bounded THEN SenderStep(s) \/ SenderCall(s)
                    ELSE UnboundedSenderStep(s) \/ UnboundedSenderCall(s)
  PROVE  Typed'
<1> USE DEF Typed, TypeOK, ModesMatch, UnboundedNeverParks, TxGoto, TxPC
<1>a. /\ IsOpen(state) \in BOOLEAN /\ MAX_CAPACITY \in Nat
      /\ NumMessages(state) \in 0 .. MAX_CAPACITY
      /\ encode_state(FALSE, NumMessages(state)) \in Words
  BY WordParts, EncodeParts
<1>b. ASSUME NumMessages(state) + 1 <= MAX_CAPACITY
      PROVE  encode_state(TRUE, NumMessages(state) + 1) \in Words
  <2>1. NumMessages(state) + 1 \in 0 .. MAX_CAPACITY
    BY <1>a, <1>b
  <2> QED
    BY <2>1, EncodeParts
<1>1. CASE PollReady(s) /\ bounded
  BY <1>1 DEF PollReady
<1>2. CASE PollUnparked(s)
  <2>1. sender_task' \in [Senders -> [is_parked : BOOLEAN, task : BOOLEAN]]
    <3>1. sender_task' \in {sender_task, [sender_task EXCEPT ![s].task = TRUE]}
      BY <1>2 DEF PollUnparked
    <3>2. [sender_task EXCEPT ![s].task = TRUE] \in [Senders -> [is_parked : BOOLEAN, task : BOOLEAN]]
      BY SetTaskTyped
    <3> QED
      BY <3>1, <3>2, Zenon
  <2>2. maybe_parked' \in [Senders -> BOOLEAN] /\ awaiting' \subseteq Senders
    BY <1>2 DEF PollUnparked
  <2>3. tx' \in [Senders -> TxPC]
    BY <1>2 DEF PollUnparked
  <2> QED
    BY <1>2, <2>1, <2>2, <2>3 DEF PollUnparked
<1>3. CASE TrySendFull(s)
  BY <1>3 DEF TrySendFull
<1>4. CASE TrySend(s) /\ bounded
  <2>1. state' \in Words
    BY <1>4, <1>b DEF TrySend
  <2>2. maybe_parked' \in [Senders -> BOOLEAN]
    BY <1>4 DEF TrySend
  <2>3. tx' \in [Senders -> TxPC] /\ sent' \in [Senders -> Nat]
    <3>1. CASE IsOpen(state)
      <4>1. sent[s] + 1 \in Nat
        OBVIOUS
      <4>2. PICK label \in TxPC : tx' = [tx EXCEPT ![s] = label]
        BY <1>4, <3>1 DEF TrySend
      <4> QED
        BY <1>4, <3>1, <4>1, <4>2 DEF TrySend
    <3>2. CASE ~IsOpen(state)
      BY <1>4, <3>2 DEF TrySend
    <3> QED
      BY <3>1, <3>2
  <2> QED
    BY <1>4, <2>1, <2>2, <2>3 DEF TrySend
<1>5. CASE ParkPush(s) /\ bounded
  BY <1>5 DEF ParkPush
<1>6. CASE ParkCheck(s)
  <2>1. maybe_parked' \in [Senders -> BOOLEAN]
    BY <1>6, <1>a DEF ParkCheck
  <2> QED
    BY <1>6, <2>1 DEF ParkCheck
<1>7. CASE PushMessage(s)
  BY <1>7 DEF PushMessage, Messages
<1>8. CASE WakeReceiver(s)
  BY <1>8 DEF WakeReceiver, Waker!Take
<1>9. ASSUME NEW t \in Senders, Clone(s, t) PROVE Typed'
  BY <1>9 DEF Clone
<1>10. CASE DropSender(s)
  BY <1>10 DEF DropSender
<1>11. CASE CallCloseChannel(s)
  BY <1>11 DEF CallCloseChannel
<1>12. CASE CloseChannel(s)
  BY <1>12, <1>a DEF CloseChannel
<1>13. CASE DoSendNb(s)
  <2>1. NumMessages(state) + 1 <= MAX_CAPACITY
    BY <1>13, <1>a DEF DoSendNb
  <2>2. state' \in Words
    BY <1>13, <1>b, <2>1 DEF DoSendNb
  <2>3. sent[s] + 1 \in Nat
    OBVIOUS
  <2>4. sent' \in [Senders -> Nat] /\ tx' \in [Senders -> TxPC]
    BY <1>13, <2>3, UpdateTyped DEF DoSendNb
  <2> QED
    BY <1>13, <2>2, <2>4 DEF DoSendNb
<1> QED
  BY <1>1, <1>2, <1>3, <1>4, <1>5, <1>6, <1>7, <1>8, <1>9, <1>10, <1>11, <1>12, <1>13
  DEF SenderStep, SenderCall, UnboundedSenderStep, UnboundedSenderCall, UnboundedPush,
      UnboundedWake, UnboundedCloseChannel, UnboundedDropSender, UnboundedCallClose, UnboundedClone

(* What every step of the receiver keeps.                                  *)
LEMMA ReceiverTyped ==
  ASSUME Typed, UNCHANGED bounded,
         IF bounded
         THEN ReceiverStep \/ PollNext \/ ReceiverCall
         ELSE UnboundedReceiverStep \/ PollNext \/ TryRecv
                \/ \E mode \in {"close", "drop"} : UnboundedClose(mode)
  PROVE  Typed'
<1>c. message_queue # << >> => Head(message_queue) \in Messages /\ Tail(message_queue) \in Seq(Messages)
  BY HeadAndTail DEF Typed, TypeOK
<1>d. parked_queue # << >> => Head(parked_queue) \in Senders /\ Tail(parked_queue) \in Seq(Senders)
  BY HeadAndTail DEF Typed, TypeOK
<1> USE DEF Typed, TypeOK, ModesMatch, UnboundedNeverParks, RxUnchanged, cellVars
<1>a. /\ IsOpen(state) \in BOOLEAN /\ NumMessages(state) \in 0 .. MAX_CAPACITY
      /\ encode_state(FALSE, NumMessages(state)) \in Words
  BY WordParts, EncodeParts
<1>b. NoMsg \in Messages /\ First \in Senders
  BY ConstantsAssumption DEF NoMsg, Messages
<1>1. CASE PollNext
  BY <1>1, RxAtTyped DEF PollNext
<1>2. CASE TryRecv
  BY <1>2, RxAtTyped DEF TryRecv
<1>3. CASE PopMessage /\ bounded
  <2>1. CASE message_queue = << >>
    BY <1>3, <2>1 DEF PopMessage, Receivers
  <2>2. CASE message_queue # << >>
    <3>1. Head(message_queue) \in Messages /\ message_queue' \in Seq(Messages)
      BY <1>3, <1>c, <2>2 DEF PopMessage
    <3> QED
      BY <1>3, <2>2, <3>1 DEF PopMessage, Receivers
  <2> QED
    BY <2>1, <2>2
<1>4. CASE UnboundedPopMessage
  <2>1. CASE message_queue = << >>
    BY <1>4, <2>1 DEF UnboundedPopMessage, Receivers
  <2>2. CASE message_queue # << >>
    <3>1. Head(message_queue) \in Messages /\ message_queue' \in Seq(Messages)
      BY <1>4, <1>c, <2>2 DEF UnboundedPopMessage
    <3> QED
      BY <1>4, <2>2, <3>1 DEF UnboundedPopMessage, Receivers
  <2> QED
    BY <2>1, <2>2
<1>5. CASE PopParked
  <2>1. CASE parked_queue = << >>
    <3>1. rx' \in {[rx EXCEPT !.pc = "dec"], [rx EXCEPT !.pc = "pop"], RxAt("idle", "none")}
      BY <1>5, <2>1 DEF PopParked
    <3>2. rx' \in Receivers
      <4>1. [rx EXCEPT !.pc = "dec"] \in Receivers /\ [rx EXCEPT !.pc = "pop"] \in Receivers
        BY DEF Receivers
      <4>2. RxAt("idle", "none") \in Receivers
        BY RxAtTyped
      <4> QED
        BY <3>1, <4>1, <4>2, Zenon
    <3>3. ModesMatch' /\ UnboundedNeverParks'
      BY <1>5, <2>1, <1>b DEF PopParked, RxAt, Receivers
    <3> QED
      BY <1>5, <2>1, <3>2, <3>3 DEF PopParked
  <2>2. CASE parked_queue # << >>
    <3>1. Head(parked_queue) \in Senders /\ parked_queue' \in Seq(Senders)
      BY <1>5, <1>d, <2>2 DEF PopParked
    <3> QED
      BY <1>5, <2>2, <3>1 DEF PopParked, Receivers
  <2> QED
    BY <2>1, <2>2
<1>6. CASE NotifySender
  <2>1. rx.handle \in Senders /\ NoTask \in [is_parked : BOOLEAN, task : BOOLEAN]
    BY DEF Receivers, NoTask
  <2>2. sender_task' \in [Senders -> [is_parked : BOOLEAN, task : BOOLEAN]]
    BY <1>6, <2>1 DEF NotifySender
  <2>3. notified' \subseteq Senders \cup {Rx}
    BY <1>6, <2>1 DEF NotifySender
  <2>4. rx' \in Receivers /\ ModesMatch'
    BY <1>6, ConstantsAssumption DEF NotifySender, Receivers
  <2> QED
    BY <1>6, <2>2, <2>3, <2>4 DEF NotifySender
<1>7. CASE DecNumMessages
  <2>1. state' \in Words
    BY <1>7, FetchSubParts DEF DecNumMessages
  <2>2. got' \in [Senders -> Nat]
    BY <1>7 DEF DecNumMessages, Receivers, Messages
  <2> QED
    BY <1>7, <2>1, <2>2, <1>b DEF DecNumMessages, RxAt, Receivers
<1>8. CASE LoadState
  BY <1>8, RxAtTyped DEF LoadState
<1>9. CASE RegisterReceiver
  BY <1>9, RxAtTyped DEF RegisterReceiver, Waker!Register, Waker!RegisterStored, Waker!RegisterRaced
<1>10. CASE DropRecheck
  BY <1>10, <1>b DEF DropRecheck, RxAt, Receivers
<1>11. ASSUME NEW mode \in {"close", "drop"}, CloseReceiver(mode), bounded PROVE Typed'
  BY <1>11, <1>a, <1>b DEF CloseReceiver, RxAt, Receivers
<1>12. ASSUME NEW mode \in {"close", "drop"}, UnboundedClose(mode) PROVE Typed'
  BY <1>12, <1>a, <1>b DEF UnboundedClose, RxAt, Receivers
<1> QED
  BY <1>1, <1>2, <1>3, <1>4, <1>5, <1>6, <1>7, <1>8, <1>9, <1>10, <1>11, <1>12
  DEF ReceiverStep, ReceiverCall, UnboundedReceiverStep, UnboundedDecNumMessages,
      UnboundedLoadState, UnboundedRegister, UnboundedDropRecheck

LEMMA NextTyped == Typed /\ [MpscNext]_mpscVars => Typed'
<1> SUFFICES ASSUME Typed, [MpscNext]_mpscVars PROVE Typed'
  OBVIOUS
<1>1. CASE UNCHANGED mpscVars
  BY <1>1 DEF mpscVars, vars, Typed, TypeOK, ModesMatch, UnboundedNeverParks
<1>2. CASE WakeTaken /\ UNCHANGED bounded
  BY <1>2 DEF WakeTaken, Waker!Deliver, RxUnchanged, Typed, TypeOK, ModesMatch, UnboundedNeverParks
<1> QED
  BY <1>1, <1>2, SendersTyped, ReceiverTyped
  DEF MpscNext, Next, UnboundedNext, UnboundedPollNext, UnboundedTryRecv

(* The state word stays a word of its width, and senders, receiver and     *)
(* queues hold only what was put there, in both channels.                  *)
THEOREM TypeCorrect == MpscSpec => []TypeOK
<1>1. Typed => TypeOK
  BY DEF Typed
<1> QED
  BY <1>1, InitTyped, NextTyped, PTL DEF MpscSpec

------------------------------------------------------------------------------
(* What a step does to the channel as its users see it                     *)

NumCounted == NumMessages(state)
View == <<IsOpen(state), sent, Counting, Backlog, got, Phase, NumCounted>>

(* A sender that moves is counting afterwards or not: the others stay.     *)
CountingPC == {"park", "park_check", "push"}

LEMMA MoveCounting ==
  ASSUME Typed, NEW u \in Senders, NEW label \in TxPC, TxGoto(u, label)
  PROVE  Counting' = IF label \in CountingPC THEN Counting \cup {u} ELSE Counting \ {u}
<1>1. tx \in [Senders -> TxPC]
  BY DEF Typed, TypeOK
<1>2. \A v \in Senders : tx'[v] = IF v = u THEN label ELSE tx[v]
  BY <1>1 DEF TxGoto
<1> QED
  BY <1>2 DEF Counting, CountingPC

(* The steps of a sender that nobody else notices.                         *)
LEMMA SenderQuiet ==
  ASSUME Typed, NEW s \in Senders,
         \/ PollReady(s) \/ PollUnparked(s) \/ TrySendFull(s) \/ ParkPush(s) \/ ParkCheck(s)
         \/ WakeReceiver(s) \/ DropSender(s) \/ CallCloseChannel(s)
         \/ (TrySend(s) /\ ~IsOpen(state))
         \/ \E t \in Senders : Clone(s, t)
  PROVE  UNCHANGED View
<1>1. UNCHANGED <<state, sent, message_queue, rx, got>>
  BY DEF PollReady, PollUnparked, TrySendFull, ParkPush, ParkCheck, WakeReceiver, DropSender,
         CallCloseChannel, TrySend, Clone
<1>2. \/ UNCHANGED tx
      \/ \E u \in Senders, label \in TxPC :
           TxGoto(u, label) /\ (tx[u] \in CountingPC <=> label \in CountingPC)
  <2>1. CASE PollReady(s)
    BY <2>1 DEF PollReady, TxPC, CountingPC
  <2>2. CASE PollUnparked(s) \/ ParkPush(s) \/ ParkCheck(s) \/ CallCloseChannel(s)
    BY <2>2 DEF PollUnparked, ParkPush, ParkCheck, CallCloseChannel, TxPC, CountingPC
  <2>3. CASE TrySendFull(s) \/ (TrySend(s) /\ ~IsOpen(state))
    BY <2>3 DEF TrySendFull, TrySend
  <2>4. CASE WakeReceiver(s) \/ DropSender(s)
    BY <2>4 DEF WakeReceiver, DropSender, TxPC, CountingPC
  <2>5. ASSUME NEW t \in Senders, Clone(s, t)
        PROVE  TxGoto(t, "idle") /\ tx[t] \notin CountingPC
    BY <2>5 DEF Clone, CountingPC
  <2>6. "idle" \in TxPC \ CountingPC
    BY DEF TxPC, CountingPC
  <2> QED
    BY <2>1, <2>2, <2>3, <2>4, <2>5, <2>6
<1>3. Counting' = Counting
  <2>1. CASE UNCHANGED tx
    BY <2>1 DEF Counting
  <2>2. ASSUME NEW u \in Senders, NEW label \in TxPC, TxGoto(u, label),
               tx[u] \in CountingPC <=> label \in CountingPC
        PROVE  Counting' = Counting
    <3>1. u \in Counting <=> label \in CountingPC
      BY <2>2 DEF Counting, CountingPC
    <3> QED
      BY <2>2, <3>1, MoveCounting
  <2> QED
    BY <1>2, <2>1, <2>2
<1> QED
  BY <1>1, <1>3 DEF View, Backlog, Phase, InHand, NumCounted

(* inc_num_messages accepts a message.                                     *)
LEMMA SenderAccepts ==
  ASSUME Typed, NEW s \in Senders, (TrySend(s) /\ IsOpen(state)) \/ DoSendNb(s)
  PROVE  Abstract!Accept(s) /\ NumCounted' = NumCounted + 1
<1>1. /\ IsOpen(state) /\ tx[s] = "idle"
      /\ NumMessages(state) + 1 <= MAX_CAPACITY
      /\ state' = encode_state(TRUE, NumMessages(state) + 1)
      /\ sent' = [sent EXCEPT ![s] = @ + 1]
      /\ \E label \in CountingPC : TxGoto(s, label)
      /\ UNCHANGED <<message_queue, rx, got>>
  <2>1. state \in Words
    BY DEF Typed, TypeOK
  <2>2. NumMessages(state) \in 0 .. MAX_CAPACITY /\ MAX_CAPACITY \in Nat
    BY <2>1, WordParts
  <2>3. CASE TrySend(s) /\ IsOpen(state)
    <3>1. \E label \in CountingPC : TxGoto(s, label)
      BY <2>3 DEF TrySend, CountingPC
    <3> QED
      BY <2>3, <3>1 DEF TrySend
  <2>4. CASE DoSendNb(s)
    <3>1. NumMessages(state) + 1 <= MAX_CAPACITY
      BY <2>2, <2>4 DEF DoSendNb
    <3> QED
      BY <2>4, <3>1 DEF DoSendNb, CountingPC
  <2> QED
    BY <2>3, <2>4
<1>2. IsOpen(state') /\ NumMessages(state') = NumMessages(state) + 1
  <2>1. NumMessages(state) + 1 \in 0 .. MAX_CAPACITY
    BY <1>1, WordParts DEF Typed, TypeOK
  <2> QED
    BY <1>1, <2>1, EncodeParts
<1>3. Counting' = Counting \cup {s}
  BY <1>1, MoveCounting DEF TxPC, CountingPC
<1>4. s \notin Counting
  BY <1>1 DEF Counting
<1>5. UNCHANGED <<Backlog, Phase>>
  BY <1>1 DEF Backlog, Phase, InHand
<1> QED
  BY <1>1, <1>2, <1>3, <1>4, <1>5 DEF Abstract!Accept, NumCounted

(* push enqueues it.                                                       *)
LEMMA SenderEnqueues ==
  ASSUME Typed, NEW s \in Senders, PushMessage(s)
  PROVE  Abstract!Enqueue(s) /\ NumCounted' = NumCounted
<1>1. /\ tx[s] = "push" /\ TxGoto(s, "wake") /\ UNCHANGED <<state, sent, rx, got>>
      /\ message_queue' = Append(message_queue, [from |-> s, seq |-> sent[s]])
  BY DEF PushMessage
<1>2. s \in Counting /\ Counting' = Counting \ {s}
  BY <1>1, MoveCounting DEF TxPC, CountingPC, Counting
<1>3. Backlog' = Append(Backlog, [from |-> s, seq |-> sent[s]])
  <2>1. message_queue \in Seq(Messages) /\ rx.msg \in Messages
    BY DEF Typed, TypeOK, Receivers
  <2>2. [from |-> s, seq |-> sent[s]] \in Messages
    BY DEF Typed, TypeOK, Messages
  <2>3. Append(message_queue, [from |-> s, seq |-> sent[s]]) \in Seq(Messages)
    BY <2>1, <2>2
  <2>4. CASE InHand = 1
    BY <1>1, <2>1, <2>2, <2>4, QueueFacts DEF Backlog, InHand
  <2>5. CASE InHand # 1
    BY <1>1, <2>1, <2>3, <2>5, QueueFacts DEF Backlog, InHand
  <2> QED
    BY <2>4, <2>5
<1> QED
  BY <1>1, <1>2, <1>3 DEF Abstract!Enqueue, NumCounted, Phase

(* set_closed, by a sender or by the receiver.                             *)
LEMMA ChannelCloses ==
  ASSUME Typed,
         \/ \E s \in Senders : CloseChannel(s)
         \/ \E mode \in {"close", "drop"} : CloseReceiver(mode) \/ UnboundedClose(mode)
  PROVE  Abstract!Close /\ NumCounted' = NumCounted
<1>1. state' = encode_state(FALSE, NumMessages(state)) /\ UNCHANGED <<message_queue, sent, got>>
  BY DEF CloseChannel, CloseReceiver, UnboundedClose, RxUnchanged
<1>2. ~IsOpen(state') /\ NumMessages(state') = NumMessages(state) /\ IsOpen(state') \in BOOLEAN
  BY <1>1, WordParts, EncodeParts DEF Typed, TypeOK
<1>3. Counting' = Counting
  <2>1. ASSUME NEW s \in Senders, CloseChannel(s) PROVE Counting' = Counting
    <3>1. s \notin Counting
      BY <2>1 DEF CloseChannel, Counting
    <3>2. \E label \in TxPC \ CountingPC : TxGoto(s, label)
      BY <2>1 DEF CloseChannel, TxPC, CountingPC
    <3> QED
      BY <3>1, <3>2, MoveCounting
  <2>2. ASSUME NEW mode \in {"close", "drop"}, CloseReceiver(mode) \/ UnboundedClose(mode)
        PROVE  Counting' = Counting
    BY <2>2 DEF CloseReceiver, UnboundedClose, RxUnchanged, Counting
  <2> QED
    BY <2>1, <2>2
<1>4. /\ Backlog' = Backlog
      /\ UNCHANGED Phase \/ (Phase = "receiving" /\ Phase' = "dropping")
  <2>1. CASE UNCHANGED rx
    BY <1>1, <2>1 DEF Backlog, InHand, Phase
  <2>2. ASSUME NEW mode \in {"close", "drop"}, CloseReceiver(mode) \/ UnboundedClose(mode)
        PROVE  <1>4!1 /\ <1>4!2
    <3>1. rx.pc = "idle" /\ rx.mode = "none"
      BY <2>2 DEF CloseReceiver, UnboundedClose, Typed, ModesMatch
    <3>2. rx' \in {RxAt("drain", "close"), RxAt("drain", "drop"), RxAt("pop", "drop"), RxAt("idle", "none")}
      BY <2>2 DEF CloseReceiver, UnboundedClose
    <3>3. /\ rx'.pc \in {"idle", "pop", "drain"} /\ rx'.mode \in {"close", "drop", "none"}
      BY <3>2, RxAtTyped
    <3> QED
      BY <1>1, <3>1, <3>3 DEF Backlog, InHand, Phase
  <2> QED
    BY <2>1, <2>2 DEF CloseChannel
<1> QED
  BY <1>1, <1>2, <1>3, <1>4 DEF Abstract!Close, NumCounted

LEMMA CountParts ==
  ASSUME Typed, Counted
  PROVE  /\ Len(message_queue) \in Nat /\ Cardinality(Counting) \in Nat
         /\ NumCounted = Len(message_queue) + Cardinality(Counting) + InHand
         /\ Cardinality(Counting) = 0 <=> Counting = {}
         /\ Len(message_queue) = 0 <=> message_queue = << >>
  BY FS_CardinalityType, FS_EmptySet DEF Counted, CountIsExact, NumCounted, Typed, TypeOK

(* dec_num_messages ends the life of the message in hand.                  *)
LEMMA ReceiverTakes ==
  ASSUME Typed, Counted, DecNumMessages
  PROVE  (Abstract!Receive \/ Abstract!Discard) /\ NumCounted' = NumCounted - 1
<1>1. /\ rx.pc = "dec" /\ state' = FetchSubOne(state)
      /\ UNCHANGED <<message_queue, sent, tx>>
      /\ \/ rx.mode = "drop" /\ rx' = RxAt("pop", "drop") /\ UNCHANGED got
         \/ /\ rx.mode # "drop" /\ rx' = RxAt("idle", "none")
            /\ got' = [got EXCEPT ![rx.msg.from] = rx.msg.seq]
  BY DEF DecNumMessages, RxUnchanged
<1>2. NumCounted > 0
  BY <1>1, CountParts DEF InHand
<1>3. IsOpen(state') = IsOpen(state) /\ NumCounted' = NumCounted - 1
  BY <1>1, <1>2, FetchSubParts DEF NumCounted, Typed, TypeOK
<1>4. Counting' = Counting
  BY <1>1 DEF Counting
<1>5. /\ rx'.pc \in {"pop", "idle"} /\ rx'.mode = (IF rx.mode = "drop" THEN "drop" ELSE "none")
  BY <1>1, RxAtTyped
<1>6. /\ Phase = (IF rx.mode = "drop" THEN "dropping" ELSE "receiving") /\ Phase' = Phase
  BY <1>1, <1>5 DEF Phase
<1>7. Backlog # << >> /\ Head(Backlog) = rx.msg /\ Backlog' = Tail(Backlog)
  <2>1. message_queue \in Seq(Messages) /\ rx.msg \in Messages
    BY DEF Typed, TypeOK, Receivers
  <2>2. Backlog = <<rx.msg>> \o message_queue /\ Backlog' = << >> \o message_queue
    <3>1. InHand = 1 /\ InHand' = 0
      BY <1>1, <1>5 DEF InHand
    <3> QED
      BY <1>1, <3>1 DEF Backlog
  <2> QED
    BY <2>1, <2>2, QueueFacts
<1> QED
  BY <1>1, <1>3, <1>4, <1>6, <1>7 DEF Abstract!Receive, Abstract!Discard

(* The load of the state that finds the channel closed and drained.        *)
LEMMA ReceiverEnds ==
  ASSUME Typed, Counted, is_closed(state), LoadState \/ DropRecheck
  PROVE  Abstract!End /\ NumCounted' = NumCounted
<1>1. /\ rx.pc \in {"load", "recheck"} /\ UNCHANGED <<state, message_queue, sent, got, tx>>
      /\ rx' = RxAt(IF rx.mode = "drop" THEN "gone" ELSE "ended", "none")
  BY DEF LoadState, DropRecheck, RxUnchanged, Typed, ModesMatch
<1>2. Counting = {} /\ message_queue = << >> /\ Counting' = Counting
  BY <1>1, CountParts DEF InHand, is_closed, NumCounted, Counting
<1>3. rx'.pc = IF rx.mode = "drop" THEN "gone" ELSE "ended"
  BY <1>1, RxAtTyped
<1>4. Backlog = << >> /\ Backlog' = Backlog
  BY <1>1, <1>2, <1>3 DEF Backlog, InHand
<1>5. /\ Phase = (IF rx.mode = "drop" THEN "dropping" ELSE "receiving")
      /\ Phase' = IF rx.mode = "drop" THEN "gone" ELSE "ended"
  BY <1>1, <1>3 DEF Phase
<1> QED
  BY <1>1, <1>2, <1>4, <1>5 DEF Abstract!End, NumCounted, is_closed

(* The other steps of the receiver.                                        *)
LEMMA ReceiverQuiet ==
  ASSUME Typed,
         \/ PollNext \/ TryRecv \/ PopMessage \/ UnboundedPopMessage \/ PopParked \/ NotifySender
         \/ RegisterReceiver \/ ((LoadState \/ DropRecheck) /\ ~is_closed(state)) \/ WakeTaken
  PROVE  UNCHANGED View
<1>1. UNCHANGED <<state, sent, got, tx>>
  BY DEF PollNext, TryRecv, PopMessage, UnboundedPopMessage, PopParked, NotifySender,
         RegisterReceiver, LoadState, DropRecheck, WakeTaken, RxUnchanged
<1>2. Counting' = Counting
  BY <1>1 DEF Counting
<1>3. message_queue \in Seq(Messages) /\ rx.msg \in Messages
  BY DEF Typed, TypeOK, Receivers
<1>4. UNCHANGED <<Backlog, Phase>>
  <2>1. CASE WakeTaken
    BY <2>1 DEF WakeTaken, Backlog, Phase, InHand
  <2>2. CASE PopMessage \/ UnboundedPopMessage
    <3>1. rx.pc = "pop" /\ rx.mode \in {"poll", "once", "drop"}
      BY <2>2 DEF PopMessage, UnboundedPopMessage, Typed, ModesMatch
    <3>2. CASE message_queue = << >>
      <4>1. rx' = [rx EXCEPT !.pc = "load"] /\ UNCHANGED message_queue
        BY <2>2, <3>2 DEF PopMessage, UnboundedPopMessage
      <4>2. rx'.pc = "load" /\ rx'.mode = rx.mode
        BY <4>1 DEF Typed, TypeOK, Receivers
      <4>3. InHand = 0 /\ InHand' = 0
        BY <3>1, <4>2 DEF InHand
      <4>4. Backlog' = Backlog
        BY <4>1, <4>3 DEF Backlog
      <4> QED
        BY <3>1, <4>2, <4>4 DEF Phase
    <3>3. CASE message_queue # << >>
      <4>1. message_queue' = Tail(message_queue)
        BY <2>2, <3>3 DEF PopMessage, UnboundedPopMessage
      <4>2. /\ rx'.pc \in {"unpark", "dec"} /\ rx'.msg = Head(message_queue)
            /\ rx'.mode = (IF rx.mode = "drop" THEN "drop" ELSE "once")
        BY <2>2, <3>3 DEF PopMessage, UnboundedPopMessage, Typed, TypeOK, Receivers
      <4>3. Backlog = << >> \o message_queue /\ Backlog' = <<Head(message_queue)>> \o Tail(message_queue)
        <5>1. InHand = 0 /\ InHand' = 1
          BY <3>1, <4>2 DEF InHand
        <5> QED
          BY <4>1, <4>2, <5>1 DEF Backlog
      <4>4. Backlog' = Backlog
        BY <1>3, <3>3, <4>3, QueueFacts
      <4> QED
        BY <3>1, <4>2, <4>4 DEF Phase
    <3> QED
      BY <3>2, <3>3
  <2>3. CASE PopParked \/ NotifySender
    <3>1. /\ UNCHANGED message_queue
          /\ \/ /\ rx.pc \in {"unpark", "notify"} /\ rx'.pc \in {"notify", "dec"}
                /\ rx'.mode = rx.mode /\ rx'.msg = rx.msg
             \/ /\ rx.pc \in {"drain", "drain_notify"} /\ rx'.pc \in {"drain", "drain_notify", "pop"}
                /\ rx'.mode = rx.mode
             \/ rx.pc = "drain" /\ rx.mode # "drop" /\ rx' = RxAt("idle", "none")
      BY <2>3 DEF PopParked, NotifySender, Typed, TypeOK, Receivers
    <3> QED
      BY <3>1, RxAtTyped DEF Backlog, Phase, InHand
  <2>4. CASE \/ PollNext \/ TryRecv \/ RegisterReceiver
             \/ ((LoadState \/ DropRecheck) /\ ~is_closed(state))
    <3>1. /\ UNCHANGED message_queue
          /\ rx.pc \in {"idle", "register", "load", "recheck"}
          /\ \/ rx.mode # "drop" /\ rx' \in {RxAt("pop", "poll"), RxAt("pop", "once"),
                                             RxAt("register", "poll"), RxAt("idle", "none")}
             \/ rx.mode = "drop" /\ rx' \in {RxAt("recheck", "drop"), RxAt("pop", "drop")}
      BY <2>4 DEF PollNext, TryRecv, RegisterReceiver, LoadState, DropRecheck, Typed, ModesMatch
    <3> QED
      BY <3>1, RxAtTyped DEF Backlog, Phase, InHand
  <2> QED
    BY <2>1, <2>2, <2>3, <2>4
<1> QED
  BY <1>1, <1>2, <1>4 DEF View, NumCounted

(* Every step is one of these.                                             *)
LEMMA StepsOfTheChannel ==
  ASSUME Typed, Counted, MpscNext
  PROVE  \/ \E s \in Senders : Abstract!Accept(s) /\ NumCounted' = NumCounted + 1
         \/ \E s \in Senders : Abstract!Enqueue(s) /\ NumCounted' = NumCounted
         \/ (Abstract!Receive \/ Abstract!Discard) /\ NumCounted' = NumCounted - 1
         \/ (Abstract!Close \/ Abstract!End) /\ NumCounted' = NumCounted
         \/ UNCHANGED View
<1>1. ASSUME NEW s \in Senders,
             \/ SenderStep(s) \/ SenderCall(s)
             \/ UnboundedSenderStep(s) \/ UnboundedSenderCall(s)
      PROVE  \/ Abstract!Accept(s) /\ NumCounted' = NumCounted + 1
             \/ Abstract!Enqueue(s) /\ NumCounted' = NumCounted
             \/ Abstract!Close /\ NumCounted' = NumCounted
             \/ UNCHANGED View
  <2>1. \/ PollReady(s) \/ PollUnparked(s) \/ TrySendFull(s) \/ ParkPush(s) \/ ParkCheck(s)
        \/ WakeReceiver(s) \/ DropSender(s) \/ CallCloseChannel(s) \/ TrySend(s)
        \/ (\E t \in Senders : Clone(s, t)) \/ PushMessage(s) \/ CloseChannel(s) \/ DoSendNb(s)
    BY <1>1 DEF SenderStep, SenderCall, UnboundedSenderStep, UnboundedSenderCall, UnboundedPush,
                UnboundedWake, UnboundedCloseChannel, UnboundedDropSender, UnboundedCallClose,
                UnboundedClone
  <2> QED
    BY <2>1, SenderQuiet, SenderAccepts, SenderEnqueues, ChannelCloses
<1>2. ASSUME \/ ReceiverStep \/ PollNext \/ ReceiverCall \/ WakeTaken
             \/ UnboundedReceiverStep \/ UnboundedPollNext \/ UnboundedTryRecv
             \/ \E mode \in {"close", "drop"} : UnboundedClose(mode)
      PROVE  \/ (Abstract!Receive \/ Abstract!Discard) /\ NumCounted' = NumCounted - 1
             \/ (Abstract!Close \/ Abstract!End) /\ NumCounted' = NumCounted
             \/ UNCHANGED View
  <2>1. \/ PollNext \/ TryRecv \/ PopMessage \/ UnboundedPopMessage \/ PopParked \/ NotifySender
        \/ RegisterReceiver \/ LoadState \/ DropRecheck \/ WakeTaken \/ DecNumMessages
        \/ \E mode \in {"close", "drop"} : CloseReceiver(mode) \/ UnboundedClose(mode)
    BY <1>2 DEF ReceiverStep, ReceiverCall, UnboundedReceiverStep, UnboundedPollNext,
                UnboundedTryRecv, UnboundedDecNumMessages, UnboundedLoadState, UnboundedRegister,
                UnboundedDropRecheck
  <2> QED
    BY <2>1, ReceiverQuiet, ReceiverEnds, ReceiverTakes, ChannelCloses
<1> QED
  BY <1>1, <1>2 DEF MpscNext, Next, UnboundedNext

(* The count in terms of the Channel.                                      *)
CountOfChannel ==
  IsFiniteSet(Counting) /\ NumCounted = Len(Backlog) + Cardinality(Counting)

LEMMA CountOfTheChannel ==
  Typed => (Counted <=> CountOfChannel) /\ Backlog \in Seq(Messages)
<1> SUFFICES ASSUME Typed PROVE (Counted <=> CountOfChannel) /\ Backlog \in Seq(Messages)
  OBVIOUS
<1>1. message_queue \in Seq(Messages) /\ rx.msg \in Messages
  BY DEF Typed, TypeOK, Receivers
<1>2. Backlog \in Seq(Messages) /\ Len(Backlog) = Len(message_queue) + InHand
  BY <1>1, QueueFacts DEF Backlog, InHand
<1>3. IsFiniteSet(Counting) => Cardinality(Counting) \in Nat
  BY FS_CardinalityType
<1>4. Len(message_queue) \in Nat /\ InHand \in {0, 1}
  BY <1>1 DEF InHand
<1> QED
  BY <1>2, <1>3, <1>4 DEF Counted, CountIsExact, NumCounted, CountOfChannel

LEMMA InitCounted == MpscInit => Counted
<1> SUFFICES ASSUME MpscInit PROVE Counted
  OBVIOUS
<1>1. Init
  BY DEF MpscInit, UnboundedInit
<1>2. Counting = {} /\ message_queue = << >> /\ InHand = 0
  BY <1>1, RxAtTyped DEF Init, Counting, InHand
<1>3. NumMessages(state) = 0
  <2>1. 0 \in 0 .. MAX_CAPACITY
    BY ConstantsAssumption DEF MAX_CAPACITY
  <2> QED
    BY <1>1, <2>1, EncodeParts DEF Init
<1> QED
  BY <1>2, <1>3, FS_EmptySet DEF Counted, CountIsExact

LEMMA NextCounted ==
  ASSUME Typed, Typed', Counted, MpscNext
  PROVE  Counted'
<1> DEFINE n == Cardinality(Counting)
<1>1. /\ IsFiniteSet(Counting) /\ n \in Nat /\ Backlog \in Seq(Messages)
      /\ NumCounted = Len(Backlog) + n /\ Len(Backlog) \in Nat
  BY CountOfTheChannel, FS_CardinalityType DEF CountOfChannel
<1>7. Typed' => (Counted' <=> CountOfChannel')
  BY CountOfTheChannel, PTL
<1> SUFFICES /\ IsFiniteSet(Counting')
             /\ NumCounted' = Len(Backlog') + Cardinality(Counting')
  BY <1>7 DEF CountOfChannel
<1>2. ASSUME NEW s \in Senders, Abstract!Accept(s), NumCounted' = NumCounted + 1
      PROVE  IsFiniteSet(Counting') /\ NumCounted' = Len(Backlog') + Cardinality(Counting')
  <2>1. s \notin Counting /\ Counting' = Counting \cup {s} /\ Backlog' = Backlog
    BY <1>2 DEF Abstract!Accept
  <2>2. IsFiniteSet(Counting') /\ Cardinality(Counting') = n + 1
    BY <1>1, <2>1, FS_AddElement
  <2> QED
    BY <1>1, <1>2, <2>1, <2>2
<1>3. ASSUME NEW s \in Senders, Abstract!Enqueue(s), NumCounted' = NumCounted
      PROVE  IsFiniteSet(Counting') /\ NumCounted' = Len(Backlog') + Cardinality(Counting')
  <2>1. /\ s \in Counting /\ Counting' = Counting \ {s}
        /\ Backlog' = Append(Backlog, [from |-> s, seq |-> sent[s]])
    BY <1>3 DEF Abstract!Enqueue
  <2>2. IsFiniteSet(Counting') /\ Cardinality(Counting') = n - 1
    BY <1>1, <2>1, FS_RemoveElement
  <2>3. Len(Backlog') = Len(Backlog) + 1
    BY <1>1, <2>1
  <2> QED
    BY <1>1, <1>3, <2>2, <2>3
<1>4. ASSUME Abstract!Receive \/ Abstract!Discard, NumCounted' = NumCounted - 1
      PROVE  IsFiniteSet(Counting') /\ NumCounted' = Len(Backlog') + Cardinality(Counting')
  <2>1. Counting' = Counting /\ Backlog # << >> /\ Backlog' = Tail(Backlog)
    BY <1>4 DEF Abstract!Receive, Abstract!Discard
  <2>2. Len(Backlog') = Len(Backlog) - 1
    BY <1>1, <2>1, HeadAndTail
  <2> QED
    BY <1>1, <1>4, <2>1, <2>2
<1>5. CASE (Abstract!Close \/ Abstract!End) /\ NumCounted' = NumCounted
  BY <1>1, <1>5 DEF Abstract!Close, Abstract!End
<1>6. CASE UNCHANGED View
  BY <1>1, <1>6 DEF View
<1> QED
  BY <1>2, <1>3, <1>4, <1>5, <1>6, StepsOfTheChannel

LEMMA CountedIsInductive == Typed /\ Counted /\ [MpscNext]_mpscVars => Counted'
<1> SUFFICES ASSUME Typed, Counted, [MpscNext]_mpscVars PROVE Counted'
  OBVIOUS
<1>1. CASE UNCHANGED mpscVars
  BY <1>1 DEF mpscVars, vars, Counted, CountIsExact, Counting, InHand
<1> QED
  BY <1>1, NextTyped, NextCounted

(* The count in the state word is exact, for every number of senders and   *)
(* every buffer: inc_num_messages, dec_num_messages and set_closed, in any *)
(* interleaving, never lose or invent a message, and the subtraction never *)
(* reaches the open bit.                                                   *)
THEOREM CountCorrect == MpscSpec => []CountIsExact
<1>1. Counted => CountIsExact
  BY DEF Counted
<1> QED
  BY <1>1, InitTyped, InitCounted, NextTyped, CountedIsInductive, PTL DEF MpscSpec

(* Both channels implement a Channel: what was accepted comes out in the   *)
(* order it was pushed, and neither the end of the stream nor the end of   *)
(* Receiver::drop comes before the last accepted message.                  *)
THEOREM RefinesChannel == MpscSpec => ImplementsChannel
<1>1. MpscInit => Abstract!Init
  <2> SUFFICES ASSUME MpscInit PROVE Abstract!Init
    OBVIOUS
  <2>1. Init
    BY DEF MpscInit, UnboundedInit
  <2>2. IsOpen(state) = TRUE
    <3>1. 0 \in 0 .. MAX_CAPACITY
      BY ConstantsAssumption DEF MAX_CAPACITY
    <3> QED
      BY <2>1, <3>1, EncodeParts DEF Init
  <2>3. rx.pc = "idle" /\ rx.mode = "none"
    BY <2>1, RxAtTyped DEF Init
  <2>4. Backlog = << >> /\ Phase = "receiving"
    <3>1. InHand = 0 /\ Phase = "receiving"
      BY <2>3 DEF InHand, Phase
    <3>2. << >> \o message_queue = << >>
      BY <2>1 DEF Init
    <3> QED
      BY <3>1, <3>2 DEF Backlog
  <2>5. Counting = {}
    BY <2>1 DEF Init, Counting
  <2> QED
    BY <2>1, <2>2, <2>4, <2>5 DEF Init, Abstract!Init
<1>2. Typed /\ Counted /\ [MpscNext]_mpscVars => [Abstract!Next]_(Abstract!channelVars)
  <2> SUFFICES ASSUME Typed, Counted, [MpscNext]_mpscVars
               PROVE  Abstract!Next \/ UNCHANGED Abstract!channelVars
    OBVIOUS
  <2>1. CASE UNCHANGED mpscVars
    BY <2>1 DEF mpscVars, vars, Abstract!channelVars, Counting, Backlog, InHand, Phase
  <2>2. CASE UNCHANGED View
    BY <2>2 DEF View, Abstract!channelVars
  <2> QED
    BY <2>1, <2>2, StepsOfTheChannel DEF Abstract!Next
<1> QED
  BY <1>1, <1>2, InitTyped, InitCounted, NextTyped, CountedIsInductive, PTL
  DEF MpscSpec, ImplementsChannel, Abstract!Spec

------------------------------------------------------------------------------
(* The receiver is woken                                                   *)

WakeOnItsWay == Rx \in owed \/ \E s \in Senders : tx[s] \in {"wake", "wake_last"}

(* A receiver that was not woken since it last began to poll, and is past  *)
(* its registration, is registered or owed a wake-up; it was last seen to  *)
(* find an empty queue, and whatever changed that since comes with a wake. *)
ReceiverIsArmed ==
  Rx \notin notified /\ rx.mode \notin {"poll", "drop"} =>
    /\ rx.pc \in {"idle", "pop", "load"} => Rx \in registered \cup owed
    /\ rx.pc \in {"idle", "load"} /\ message_queue # << >> => WakeOnItsWay
    /\ rx.pc = "idle" /\ is_closed(state) => WakeOnItsWay
    /\ rx.pc \notin {"drain", "drain_notify"}

LEMMA InitArmed == MpscInit => ReceiverIsArmed
  BY DEF MpscInit, UnboundedInit, Init, ReceiverIsArmed

(* A sender that changes the queue or the state word is about to wake the  *)
(* receiver; one that wakes it takes its waker.                            *)
LEMMA SenderKeepsArmed ==
  ASSUME Typed, ReceiverIsArmed, NEW s \in Senders,
         \/ SenderStep(s) \/ SenderCall(s) \/ UnboundedSenderStep(s) \/ UnboundedSenderCall(s)
  PROVE  ReceiverIsArmed'
<1>0. tx \in [Senders -> TxPC] /\ s # Rx /\ registered \subseteq {Rx} /\ owed \subseteq {Rx}
  BY ConstantsAssumption DEF Typed, TypeOK
<1>1. UNCHANGED rx /\ (Rx \in notified' <=> Rx \in notified)
  BY <1>0 DEF SenderStep, SenderCall, UnboundedSenderStep, UnboundedSenderCall, UnboundedPush,
              UnboundedWake, UnboundedCloseChannel, UnboundedDropSender, UnboundedCallClose,
              UnboundedClone, PollReady, PollUnparked, TrySendFull, ParkPush, ParkCheck, WakeReceiver,
              DropSender, CallCloseChannel, TrySend, Clone, PushMessage, CloseChannel, DoSendNb
<1>2. CASE WakeReceiver(s)
  BY <1>0, <1>1, <1>2 DEF WakeReceiver, Waker!Take, ReceiverIsArmed, WakeOnItsWay
<1>3. CASE PushMessage(s) \/ CloseChannel(s)
  <2>1. tx'[s] \in {"wake", "wake_last"} /\ UNCHANGED <<registered, owed>>
    BY <1>0, <1>3 DEF PushMessage, CloseChannel, TxGoto
  <2> QED
    BY <1>1, <2>1 DEF ReceiverIsArmed, WakeOnItsWay
<1>4. ASSUME NEW u \in Senders, NEW label \in TxPC,
             UNCHANGED tx \/ (tx[u] \notin {"wake", "wake_last"} /\ TxGoto(u, label)),
             UNCHANGED <<message_queue, registered, owed>>,
             is_closed(state') => is_closed(state)
      PROVE  ReceiverIsArmed'
  <2>1. \A v \in Senders : tx[v] \in {"wake", "wake_last"} => tx'[v] = tx[v]
    BY <1>0, <1>4 DEF TxGoto
  <2>2. WakeOnItsWay => WakeOnItsWay'
    BY <1>4, <2>1 DEF WakeOnItsWay
  <2> QED
    BY <1>1, <1>4, <2>2 DEF ReceiverIsArmed
<1>5. CASE PollReady(s) \/ PollUnparked(s) \/ TrySendFull(s) \/ CallCloseChannel(s) \/ DropSender(s)
  <2>1. UNCHANGED <<message_queue, registered, owed, state>>
    BY <1>5 DEF PollReady, PollUnparked, TrySendFull, CallCloseChannel, DropSender
  <2>2. \E label \in TxPC : UNCHANGED tx \/ (tx[s] \notin {"wake", "wake_last"} /\ TxGoto(s, label))
    BY <1>5 DEF PollReady, PollUnparked, TrySendFull, CallCloseChannel, DropSender, TxPC
  <2> QED
    BY <1>4, <2>1, <2>2
<1>6. CASE ParkPush(s) \/ ParkCheck(s)
  <2>1. UNCHANGED <<message_queue, registered, owed, state>>
    BY <1>6 DEF ParkPush, ParkCheck
  <2>2. \E label \in TxPC : tx[s] \notin {"wake", "wake_last"} /\ TxGoto(s, label)
    BY <1>6 DEF ParkPush, ParkCheck, TxPC
  <2> QED
    BY <1>4, <2>1, <2>2
<1>7. ASSUME NEW t \in Senders, Clone(s, t) PROVE ReceiverIsArmed'
  <2>1. UNCHANGED <<message_queue, registered, owed, state>>
    BY <1>7 DEF Clone
  <2>2. \E label \in TxPC : tx[t] \notin {"wake", "wake_last"} /\ TxGoto(t, label)
    BY <1>7 DEF Clone, TxPC
  <2> QED
    BY <1>4, <2>1, <2>2
<1>8. CASE TrySend(s) /\ ~IsOpen(state)
  BY <1>8, <1>4 DEF TrySend, TxPC
<1>9. CASE (TrySend(s) /\ IsOpen(state)) \/ DoSendNb(s)
  <2>1. UNCHANGED <<message_queue, registered, owed>> /\ tx[s] = "idle"
    BY <1>9 DEF TrySend, DoSendNb
  <2>2. \E label \in TxPC : TxGoto(s, label)
    BY <1>9 DEF TrySend, DoSendNb, TxPC
  <2>3. IsOpen(state')
    BY <1>9, SenderAccepts DEF Abstract!Accept
  <2> QED
    BY <1>4, <2>1, <2>2, <2>3 DEF is_closed
<1> QED
  BY <1>2, <1>3, <1>5, <1>6, <1>7, <1>8, <1>9
  DEF SenderStep, SenderCall, UnboundedSenderStep, UnboundedSenderCall, UnboundedPush,
      UnboundedWake, UnboundedCloseChannel, UnboundedDropSender, UnboundedCallClose, UnboundedClone

LEMMA ReceiverKeepsArmed ==
  ASSUME Typed, ReceiverIsArmed,
         \/ ReceiverStep \/ PollNext \/ ReceiverCall \/ WakeTaken
         \/ UnboundedReceiverStep \/ UnboundedPollNext \/ UnboundedTryRecv
         \/ \E mode \in {"close", "drop"} : UnboundedClose(mode)
  PROVE  ReceiverIsArmed'
<1>0. /\ rx.handle # Rx /\ owed \subseteq {Rx} /\ registered \subseteq {Rx}
      /\ rx.pc \in {"unpark", "drain", "pop", "load"} => rx.mode # "none"
  BY ConstantsAssumption DEF Typed, TypeOK, Receivers, ModesMatch
<1>1. CASE PollNext
  BY <1>1, RxAtTyped DEF PollNext, ReceiverIsArmed
<1>2. CASE TryRecv
  BY <1>2, RxAtTyped DEF TryRecv, ReceiverIsArmed, cellVars, Typed, ModesMatch
<1>3. CASE PopMessage \/ UnboundedPopMessage
  <2>1. UNCHANGED cellVars /\ rx.pc = "pop"
    BY <1>3 DEF PopMessage, UnboundedPopMessage
  <2>2. \/ message_queue' = << >> /\ rx'.pc = "load" /\ rx'.mode = rx.mode
        \/ rx'.pc \in {"unpark", "dec"}
    BY <1>3 DEF PopMessage, UnboundedPopMessage, Typed, TypeOK, Receivers
  <2> QED
    BY <2>1, <2>2 DEF ReceiverIsArmed, cellVars
<1>4. CASE PopParked
  <2>1. UNCHANGED cellVars /\ rx.pc \in {"unpark", "drain"}
    BY <1>4 DEF PopParked
  <2>2. \/ rx.pc = "unpark" /\ rx'.pc \in {"dec", "notify"}
        \/ rx.pc = "drain" /\ rx.mode # "drop" /\ rx' = RxAt("idle", "none")
        \/ rx.pc = "drain" /\ rx'.pc \in {"pop", "drain_notify"} /\ rx'.mode = rx.mode /\ rx.mode = "drop"
        \/ rx.pc = "drain" /\ rx'.pc = "drain_notify" /\ rx'.mode = rx.mode
    BY <1>4 DEF PopParked, Typed, TypeOK, Receivers
  <2>3. rx.pc = "drain" /\ rx.mode # "drop" => Rx \in notified
    BY DEF ReceiverIsArmed, Typed, ModesMatch
  <2> QED
    BY <2>1, <2>2, <2>3 DEF ReceiverIsArmed, cellVars
<1>5. CASE NotifySender
  <2>1. Rx \in notified => Rx \in notified'
    BY <1>5 DEF NotifySender
  <2>2. \/ rx'.pc = "dec"
        \/ rx.pc = "drain_notify" /\ rx'.pc = "drain" /\ rx'.mode = rx.mode
    BY <1>5 DEF NotifySender, Typed, TypeOK, Receivers
  <2> QED
    BY <2>1, <2>2 DEF ReceiverIsArmed, Typed, ModesMatch
<1>6. CASE DecNumMessages
  BY <1>6, RxAtTyped DEF DecNumMessages, ReceiverIsArmed
<1>7. CASE LoadState
  <2>1. /\ UNCHANGED <<state, message_queue, registered, owed, notified, tx>> /\ rx.pc = "load"
    BY <1>7 DEF LoadState, RxUnchanged, cellVars
  <2>2. \/ rx'.pc \in {"gone", "ended"}
        \/ rx'.mode \in {"poll", "drop"}
        \/ ~is_closed(state) /\ rx'.pc = "idle" /\ rx.mode \notin {"poll", "drop"}
    BY <1>7, RxAtTyped DEF LoadState
  <2> QED
    BY <2>1, <2>2 DEF ReceiverIsArmed, WakeOnItsWay
<1>8. CASE RegisterReceiver
  <2>1. rx'.pc = "pop" /\ Rx \in registered' \cup owed'
    BY <1>8, RxAtTyped DEF RegisterReceiver, Waker!Register, Waker!RegisterStored, Waker!RegisterRaced
  <2> QED
    BY <2>1 DEF ReceiverIsArmed
<1>9. CASE DropRecheck
  <2>1. rx'.mode = "drop" \/ rx'.pc = "gone"
    BY <1>9, RxAtTyped DEF DropRecheck
  <2> QED
    BY <2>1 DEF ReceiverIsArmed
<1>10. ASSUME NEW mode \in {"close", "drop"}, CloseReceiver(mode) \/ UnboundedClose(mode)
       PROVE  ReceiverIsArmed'
  BY <1>10 DEF CloseReceiver, UnboundedClose, ReceiverIsArmed
<1>11. CASE WakeTaken
  BY <1>11 DEF WakeTaken, Waker!Deliver, ReceiverIsArmed
<1> QED
  BY <1>1, <1>2, <1>3, <1>4, <1>5, <1>6, <1>7, <1>8, <1>9, <1>10, <1>11
  DEF ReceiverStep, ReceiverCall, UnboundedReceiverStep, UnboundedPollNext, UnboundedTryRecv,
      UnboundedDecNumMessages, UnboundedLoadState, UnboundedRegister, UnboundedDropRecheck

LEMMA ArmedIsInductive == Typed /\ ReceiverIsArmed /\ [MpscNext]_mpscVars => ReceiverIsArmed'
<1> SUFFICES ASSUME Typed, ReceiverIsArmed, [MpscNext]_mpscVars PROVE ReceiverIsArmed'
  OBVIOUS
<1>1. CASE UNCHANGED mpscVars
  BY <1>1 DEF mpscVars, vars, ReceiverIsArmed, WakeOnItsWay
<1> QED
  BY <1>1, SenderKeepsArmed, ReceiverKeepsArmed DEF MpscNext, Next, UnboundedNext

(* A receiver asleep next to a message, or at the end of the stream, has a *)
(* wake-up on its way, whichever interleaving of poll_next's two looks at  *)
(* the queue with the senders' push and wake led there.                    *)
THEOREM ReceiverIsWoken == MpscSpec => []NoLostReceiverWakeUp
<1>1. Typed /\ ReceiverIsArmed => NoLostReceiverWakeUp
  <2> SUFFICES ASSUME Typed, ReceiverIsArmed, ReceiverAsleep,
                      message_queue # << >> \/ is_closed(state)
               PROVE  WakeOnItsWay
    BY DEF NoLostReceiverWakeUp, WakeOnItsWay
  <2> QED
    BY DEF ReceiverIsArmed, ReceiverAsleep, Typed, ModesMatch
<1> QED
  BY <1>1, InitTyped, InitArmed, NextTyped, ArmedIsInductive, PTL DEF MpscSpec

------------------------------------------------------------------------------
(* Parked senders are unparked                                             *)

Elements(q) == {q[i] : i \in 1 .. Len(q)}
Distinct(q) == \A i, j \in 1 .. Len(q) : i # j => q[i] # q[j]

LEMMA ElementsAppend ==
  ASSUME NEW S, NEW q \in Seq(S), NEW x \in S
  PROVE  /\ Elements(Append(q, x)) = Elements(q) \cup {x}
         /\ Distinct(q) /\ x \notin Elements(q) => Distinct(Append(q, x))
<1>1. /\ Len(Append(q, x)) = Len(q) + 1 /\ Len(q) \in Nat
      /\ \A i \in 1 .. Len(q) + 1 : Append(q, x)[i] = IF i = Len(q) + 1 THEN x ELSE q[i]
  OBVIOUS
<1>2. Elements(Append(q, x)) \subseteq Elements(q) \cup {x}
  BY <1>1 DEF Elements
<1>3. ASSUME NEW y \in Elements(q) PROVE y \in Elements(Append(q, x))
  <2>1. PICK i \in 1 .. Len(q) : y = q[i]
    BY DEF Elements
  <2>2. i \in 1 .. Len(q) + 1 /\ Append(q, x)[i] = y
    BY <1>1, <2>1
  <2> QED
    BY <1>1, <2>2 DEF Elements
<1>4. x \in Elements(Append(q, x))
  <2>1. Len(q) + 1 \in 1 .. Len(q) + 1 /\ Append(q, x)[Len(q) + 1] = x
    BY <1>1
  <2> QED
    BY <1>1, <2>1 DEF Elements
<1>5. ASSUME Distinct(q), x \notin Elements(q) PROVE Distinct(Append(q, x))
  BY <1>1, <1>5 DEF Distinct, Elements
<1> QED
  BY <1>2, <1>3, <1>4, <1>5

LEMMA ElementsTail ==
  ASSUME NEW S, NEW q \in Seq(S), q # << >>
  PROVE  /\ Elements(q) = {Head(q)} \cup Elements(Tail(q))
         /\ Distinct(q) => Distinct(Tail(q)) /\ Head(q) \notin Elements(Tail(q))
<1>1. /\ Len(Tail(q)) = Len(q) - 1 /\ Len(q) \in Nat \ {0} /\ Head(q) = q[1]
      /\ \A i \in 1 .. Len(q) - 1 : Tail(q)[i] = q[i + 1]
  OBVIOUS
<1>2. ASSUME NEW y \in Elements(q) PROVE y = Head(q) \/ y \in Elements(Tail(q))
  <2>1. PICK i \in 1 .. Len(q) : y = q[i]
    BY DEF Elements
  <2>2. ASSUME i # 1 PROVE i - 1 \in 1 .. Len(q) - 1 /\ Tail(q)[i - 1] = y
    BY <1>1, <2>1, <2>2
  <2> QED
    BY <1>1, <2>1, <2>2 DEF Elements
<1>3. ASSUME NEW y \in Elements(Tail(q)) PROVE y \in Elements(q)
  <2>1. PICK i \in 1 .. Len(q) - 1 : y = Tail(q)[i]
    BY <1>1 DEF Elements
  <2>2. i + 1 \in 1 .. Len(q) /\ q[i + 1] = y
    BY <1>1, <2>1
  <2> QED
    BY <2>2 DEF Elements
<1>4. Head(q) \in Elements(q)
  BY <1>1 DEF Elements
<1>5. ASSUME Distinct(q) PROVE Distinct(Tail(q)) /\ Head(q) \notin Elements(Tail(q))
  BY <1>1, <1>5 DEF Distinct, Elements
<1> QED
  BY <1>2, <1>3, <1>4, <1>5

Waiting == Elements(parked_queue)
Handed == IF rx.pc \in {"notify", "drain_notify"} THEN {rx.handle} ELSE {}
Held == Waiting \cup Handed        \* the senders whose handle is not back yet

(* A SenderTask marked parked has its handle in the queue or in the        *)
(* receiver's hand.                                                        *)
HandleIsHeld == \A s \in Senders : sender_task[s].is_parked => s \in Held

(* While the channel is open a handle is there once, its task is marked,   *)
(* and its sender knows: or is about to, or is gone.                       *)
SenderKnows(s) == maybe_parked[s] \/ tx[s] \in {"park_check", "close_last", "dropped"}
HandlesAreUnique ==
  IsOpen(state) => /\ Distinct(parked_queue) /\ Handed \cap Waiting = {}
                   /\ \A s \in Held : sender_task[s].is_parked /\ SenderKnows(s)

Handles == /\ HandleIsHeld /\ HandlesAreUnique
           /\ \A s \in Held : s \in Senders /\ tx[s] # "unborn"
           /\ \A s \in Senders : tx[s] = "park" => ~maybe_parked[s]
           /\ rx.pc \in {"drain", "drain_notify"} => ~IsOpen(state)

LEMMA InitHandles == MpscInit => Handles
<1> SUFFICES ASSUME MpscInit PROVE Handles
  OBVIOUS
<1>1. Init
  BY DEF MpscInit, UnboundedInit
<1>2. rx.pc = "idle" /\ Handed = {}
  BY <1>1, RxAtTyped DEF Init, Handed
<1>3. Waiting = {} /\ Distinct(parked_queue)
  BY <1>1 DEF Init, Waiting, Elements, Distinct
<1>4. \A s \in Senders : ~sender_task[s].is_parked /\ tx[s] # "park"
  BY <1>1 DEF Init, NoTask
<1> QED
  BY <1>2, <1>3, <1>4 DEF Handles, HandleIsHeld, HandlesAreUnique, Held

(* A step of one sender that touches no handle.                            *)
LEMMA SenderKeepsHandles ==
  ASSUME Typed, Handles, NEW u \in Senders, UNCHANGED <<parked_queue, rx>>,
         \A v \in Senders : sender_task'[v].is_parked = sender_task[v].is_parked,
         IsOpen(state') => IsOpen(state),
         \A v \in Senders \ {u} : tx'[v] = tx[v] /\ maybe_parked'[v] = maybe_parked[v],
         tx'[u] # "unborn" \/ tx[u] = "unborn",
         tx'[u] = "park" => ~maybe_parked'[u],
         IsOpen(state') /\ sender_task[u].is_parked /\ SenderKnows(u) => SenderKnows(u)'
  PROVE  Handles'
<1>1. Held' = Held /\ Handed' = Handed /\ Waiting' = Waiting
  BY DEF Held, Handed, Waiting
<1>2. HandleIsHeld'
  BY <1>1 DEF Handles, HandleIsHeld
<1>3. \A s \in Held : s \in Senders /\ (tx'[s] # "unborn")
  BY DEF Handles
<1>4. \A s \in Senders : tx'[s] = "park" => ~maybe_parked'[s]
  BY DEF Handles
<1>5. HandlesAreUnique'
  <2> SUFFICES ASSUME IsOpen(state')
               PROVE  /\ Distinct(parked_queue)' /\ Handed' \cap Waiting' = {}
                      /\ \A s \in Held : sender_task'[s].is_parked /\ SenderKnows(s)'
    BY <1>1 DEF HandlesAreUnique
  <2>1. Distinct(parked_queue)' /\ Handed' \cap Waiting' = {}
    BY <1>1 DEF Handles, HandlesAreUnique
  <2>2. ASSUME NEW s \in Held PROVE sender_task'[s].is_parked /\ SenderKnows(s)'
    <3>1. s \in Senders /\ sender_task[s].is_parked /\ SenderKnows(s)
      BY DEF Handles, HandlesAreUnique
    <3>2. CASE s = u
      BY <3>1, <3>2
    <3>3. CASE s # u
      BY <3>1, <3>3 DEF SenderKnows
    <3> QED
      BY <3>1, <3>2, <3>3
  <2> QED
    BY <2>1, <2>2
<1> QED
  BY <1>1, <1>2, <1>3, <1>4, <1>5 DEF Handles

LEMMA SenderStepsKeepHandles ==
  ASSUME Typed, Handles, NEW s \in Senders,
         \/ PollReady(s) \/ PollUnparked(s) \/ TrySendFull(s) \/ ParkCheck(s)
         \/ WakeReceiver(s) \/ DropSender(s) \/ CallCloseChannel(s) \/ PushMessage(s)
         \/ (TrySend(s) /\ bounded) \/ CloseChannel(s) \/ (DoSendNb(s) /\ ~bounded)
         \/ \E t \in Senders : Clone(s, t)
  PROVE  Handles'
<1> USE DEF TxGoto, SenderKnows
<1>0. /\ tx \in [Senders -> TxPC] /\ maybe_parked \in [Senders -> BOOLEAN]
      /\ sender_task \in [Senders -> [is_parked : BOOLEAN, task : BOOLEAN]]
  BY DEF Typed, TypeOK
<1>1. CASE PollReady(s)
  BY <1>0, <1>1, SenderKeepsHandles DEF PollReady
<1>2. CASE PollUnparked(s)
  <2>1. /\ UNCHANGED <<parked_queue, rx, state>> /\ tx[s] = "unparked"
        /\ tx' = [tx EXCEPT ![s] = "idle"]
    BY <1>2 DEF PollUnparked
  <2>2. \A v \in Senders : sender_task'[v].is_parked = sender_task[v].is_parked
    BY <1>0, <1>2 DEF PollUnparked
  <2>3. /\ \A v \in Senders \ {s} : maybe_parked'[v] = maybe_parked[v]
        /\ maybe_parked[s] /\ sender_task[s].is_parked => maybe_parked'[s]
    BY <1>0, <1>2 DEF PollUnparked
  <2> QED
    BY <1>0, <2>1, <2>2, <2>3, SenderKeepsHandles
<1>3. CASE TrySendFull(s)
  <2>1. \A v \in Senders : sender_task'[v].is_parked = sender_task[v].is_parked
    BY <1>0, <1>3 DEF TrySendFull
  <2>2. UNCHANGED <<parked_queue, rx, state, tx, maybe_parked>> /\ tx[s] = "idle"
    BY <1>3 DEF TrySendFull
  <2> QED
    BY <2>1, <2>2, SenderKeepsHandles
<1>4. CASE ParkCheck(s)
  <2>1. IsOpen(state) => maybe_parked'[s]
    BY <1>0, <1>4 DEF ParkCheck
  <2> QED
    BY <1>0, <1>4, <2>1, SenderKeepsHandles DEF ParkCheck
<1>5. CASE WakeReceiver(s)
  BY <1>0, <1>5, SenderKeepsHandles DEF WakeReceiver
<1>6. CASE DropSender(s)
  BY <1>0, <1>6, SenderKeepsHandles DEF DropSender
<1>7. CASE CallCloseChannel(s)
  BY <1>0, <1>7, SenderKeepsHandles DEF CallCloseChannel
<1>8. CASE PushMessage(s)
  BY <1>0, <1>8, SenderKeepsHandles DEF PushMessage
<1>9. CASE CloseChannel(s)
  <2>1. ~IsOpen(state')
    BY <1>9, ChannelCloses DEF Abstract!Close
  <2> QED
    BY <1>0, <1>9, <2>1, SenderKeepsHandles DEF CloseChannel
<1>10. CASE DoSendNb(s) /\ ~bounded
  <2>1. ~sender_task[s].is_parked
    <3>1. Waiting = {} /\ Handed = {}
      BY <1>10 DEF Typed, UnboundedNeverParks, Waiting, Elements, Handed
    <3> QED
      BY <3>1 DEF Handles, HandleIsHeld, Held
  <2> QED
    BY <1>0, <1>10, <2>1, SenderKeepsHandles DEF DoSendNb
<1>11. CASE TrySend(s) /\ bounded
  <2>1. /\ UNCHANGED <<parked_queue, rx, sender_task>> /\ tx[s] = "idle"
        /\ ~(maybe_parked[s] /\ sender_task[s].is_parked)
        /\ maybe_parked' = [maybe_parked EXCEPT ![s] = FALSE]
    BY <1>11 DEF TrySend
  <2>2. /\ IsOpen(state') => IsOpen(state)
        /\ \E label \in {"park", "push", "idle"} : tx' = [tx EXCEPT ![s] = label]
    <3>1. CASE IsOpen(state)
      BY <1>11, <3>1 DEF TrySend
    <3>2. CASE ~IsOpen(state)
      <4>1. UNCHANGED <<state, tx>>
        BY <1>11, <3>2 DEF TrySend
      <4>2. tx' = [tx EXCEPT ![s] = "idle"]
        BY <1>0, <2>1, <4>1
      <4> QED
        BY <4>1, <4>2
    <3> QED
      BY <3>1, <3>2
  <2> QED
    BY <1>0, <2>1, <2>2, SenderKeepsHandles
<1>12. ASSUME NEW t \in Senders, Clone(s, t) PROVE Handles'
  BY <1>0, <1>12, SenderKeepsHandles DEF Clone
<1> QED
  BY <1>1, <1>2, <1>3, <1>4, <1>5, <1>6, <1>7, <1>8, <1>9, <1>10, <1>11, <1>12

(* park puts a handle into the queue: it was not there.                    *)
LEMMA ParkPushKeepsHandles ==
  ASSUME Typed, Handles, NEW s \in Senders, ParkPush(s)
  PROVE  Handles'
<1>0. /\ tx \in [Senders -> TxPC] /\ parked_queue \in Seq(Senders)
      /\ sender_task \in [Senders -> [is_parked : BOOLEAN, task : BOOLEAN]]
  BY DEF Typed, TypeOK
<1>1. /\ tx[s] = "park" /\ tx' = [tx EXCEPT ![s] = "park_check"]
      /\ sender_task' = [sender_task EXCEPT ![s] = [is_parked |-> TRUE, task |-> FALSE]]
      /\ parked_queue' = Append(parked_queue, s)
      /\ UNCHANGED <<state, maybe_parked, rx>>
  BY DEF ParkPush, TxGoto
<1>2. Waiting' = Waiting \cup {s} /\ Handed' = Handed /\ Held' = Held \cup {s}
  BY <1>0, <1>1, ElementsAppend DEF Waiting, Handed, Held
<1>3. HandleIsHeld'
  BY <1>0, <1>1, <1>2 DEF Handles, HandleIsHeld
<1>4. \A u \in Held' : u \in Senders /\ tx'[u] # "unborn"
  BY <1>0, <1>1, <1>2 DEF Handles
<1>5. HandlesAreUnique'
  <2> SUFFICES ASSUME IsOpen(state)
               PROVE  /\ Distinct(parked_queue') /\ Handed' \cap Waiting' = {}
                      /\ \A u \in Held' : sender_task'[u].is_parked /\ SenderKnows(u)'
    BY <1>1 DEF HandlesAreUnique
  <2>1. s \notin Held
    BY <1>1 DEF Handles, HandlesAreUnique, SenderKnows
  <2>2. Distinct(parked_queue') /\ Handed' \cap Waiting' = {}
    BY <1>0, <1>1, <1>2, <2>1, ElementsAppend DEF Handles, HandlesAreUnique, Held, Waiting
  <2>3. ASSUME NEW u \in Held' PROVE sender_task'[u].is_parked /\ SenderKnows(u)'
    <3>1. CASE u = s
      BY <1>0, <1>1, <3>1 DEF SenderKnows
    <3>2. CASE u # s
      <4>1. u \in Senders /\ sender_task[u].is_parked /\ SenderKnows(u)
        BY <1>2, <3>2 DEF Handles, HandlesAreUnique
      <4> QED
        BY <1>0, <1>1, <3>2, <4>1 DEF SenderKnows
    <3> QED
      BY <3>1, <3>2
  <2> QED
    BY <2>2, <2>3
<1>6. \A u \in Senders : tx'[u] = "park" => ~maybe_parked'[u]
  BY <1>0, <1>1 DEF Handles
<1> QED
  BY <1>1, <1>3, <1>4, <1>5, <1>6 DEF Handles

(* The steps of the receiver, which takes handles out of the queue.        *)
LEMMA ReceiverKeepsHandles ==
  ASSUME Typed, Handles,
         \/ PopParked \/ NotifySender \/ PollNext \/ TryRecv \/ PopMessage \/ UnboundedPopMessage
         \/ DecNumMessages \/ LoadState \/ RegisterReceiver \/ DropRecheck \/ WakeTaken
         \/ \E mode \in {"close", "drop"} : CloseReceiver(mode) \/ UnboundedClose(mode),
         IsOpen(state') => IsOpen(state)
  PROVE  Handles'
<1>0. /\ rx \in Receivers /\ parked_queue \in Seq(Senders)
      /\ sender_task \in [Senders -> [is_parked : BOOLEAN, task : BOOLEAN]]
  BY DEF Typed, TypeOK
<1>1. UNCHANGED <<tx, maybe_parked>>
  BY DEF PopParked, NotifySender, PollNext, TryRecv, PopMessage, UnboundedPopMessage,
         DecNumMessages, LoadState, RegisterReceiver, DropRecheck, WakeTaken, CloseReceiver,
         UnboundedClose, RxUnchanged
<1>2. ASSUME Held' = Held, Handed' = Handed, UNCHANGED <<parked_queue, sender_task>>,
             rx'.pc \in {"drain", "drain_notify"} => ~IsOpen(state')
      PROVE  Handles'
  BY <1>1, <1>2 DEF Handles, HandleIsHeld, HandlesAreUnique, Waiting, SenderKnows
<1>3. ASSUME UNCHANGED <<parked_queue, sender_task>>,
             rx.pc \notin {"notify", "drain_notify"}, rx'.pc \notin {"notify", "drain_notify"},
             rx'.pc = "drain" => ~IsOpen(state')
      PROVE  Handles'
  BY <1>2, <1>3 DEF Held, Handed, Waiting
<1>4. CASE PollNext \/ TryRecv \/ RegisterReceiver \/ DropRecheck
  <2>1. rx' \in {RxAt("pop", "poll"), RxAt("pop", "once"), RxAt("gone", "none"), RxAt("pop", "drop")}
    BY <1>4 DEF PollNext, TryRecv, RegisterReceiver, DropRecheck
  <2>2. rx'.pc \in {"pop", "gone"}
    BY <2>1, RxAtTyped
  <2> QED
    BY <1>3, <1>4, <2>2 DEF PollNext, TryRecv, RegisterReceiver, DropRecheck
<1>5. CASE PopMessage \/ UnboundedPopMessage
  <2>1. rx'.pc \in {"load", "unpark", "dec"}
    BY <1>0, <1>5 DEF PopMessage, UnboundedPopMessage, Receivers
  <2> QED
    BY <1>3, <1>5, <2>1 DEF PopMessage, UnboundedPopMessage
<1>6. CASE DecNumMessages
  <2>1. rx'.pc \in {"pop", "idle"}
    BY <1>6, RxAtTyped DEF DecNumMessages
  <2> QED
    BY <1>3, <1>6, <2>1 DEF DecNumMessages
<1>7. CASE LoadState
  <2>1. rx'.pc \in {"gone", "ended", "register", "recheck", "idle"}
    BY <1>7, RxAtTyped DEF LoadState
  <2> QED
    BY <1>3, <1>7, <2>1 DEF LoadState
<1>8. CASE WakeTaken
  BY <1>2, <1>8 DEF WakeTaken, Held, Handed, Waiting, Handles
<1>9. ASSUME NEW mode \in {"close", "drop"}, CloseReceiver(mode) \/ UnboundedClose(mode)
      PROVE  Handles'
  <2>1. ~IsOpen(state')
    BY <1>9, ChannelCloses DEF Abstract!Close
  <2>2. rx' \in {RxAt("drain", "close"), RxAt("drain", "drop"), RxAt("pop", "drop"), RxAt("idle", "none")}
    BY <1>9 DEF CloseReceiver, UnboundedClose
  <2>3. rx'.pc \in {"idle", "pop", "drain"}
    BY <2>2, RxAtTyped
  <2> QED
    BY <1>3, <1>9, <2>1, <2>3 DEF CloseReceiver, UnboundedClose
<1>10. CASE PopParked /\ parked_queue = << >>
  <2>1. rx'.pc \in {"dec", "pop", "idle"}
    BY <1>0, <1>10, RxAtTyped DEF PopParked, Receivers
  <2> QED
    BY <1>3, <1>10, <2>1 DEF PopParked
<1>11. CASE PopParked /\ parked_queue # << >>
  <2>1. /\ parked_queue' = Tail(parked_queue) /\ UNCHANGED <<state, sender_task>>
        /\ \/ rx.pc = "unpark" /\ rx'.pc = "notify"
           \/ rx.pc = "drain" /\ rx'.pc = "drain_notify"
        /\ rx'.handle = Head(parked_queue)
    BY <1>0, <1>11 DEF PopParked, Receivers
  <2>2. Waiting = {Head(parked_queue)} \cup Waiting' /\ Handed = {} /\ Handed' = {Head(parked_queue)}
    BY <1>0, <1>11, <2>1, ElementsTail DEF Waiting, Handed
  <2>3. Held' = Held
    BY <2>2 DEF Held
  <2>4. IsOpen(state) => Distinct(parked_queue') /\ Handed' \cap Waiting' = {}
    BY <1>0, <1>11, <2>1, <2>2, ElementsTail DEF Handles, HandlesAreUnique, Waiting
  <2> QED
    BY <1>1, <2>1, <2>3, <2>4 DEF Handles, HandleIsHeld, HandlesAreUnique, SenderKnows
<1>12. CASE NotifySender
  <2>1. /\ \/ rx.pc = "notify" /\ rx'.pc = "dec"
           \/ rx.pc = "drain_notify" /\ rx'.pc = "drain"
        /\ sender_task' = [sender_task EXCEPT ![rx.handle] = NoTask]
        /\ UNCHANGED <<state, parked_queue>> /\ rx.handle \in Senders
    BY <1>0, <1>12 DEF NotifySender, Receivers
  <2>2. Handed = {rx.handle} /\ Handed' = {} /\ Waiting' = Waiting
    BY <2>1 DEF Handed, Waiting
  <2>3. Held' = Waiting /\ Held = Waiting \cup {rx.handle}
    BY <2>2 DEF Held
  <2>4. \A u \in Senders : u # rx.handle => sender_task'[u] = sender_task[u]
    BY <1>0, <2>1
  <2>5. ~sender_task'[rx.handle].is_parked
    BY <1>0, <2>1 DEF NoTask
  <2>6. HandleIsHeld'
    BY <2>3, <2>4, <2>5 DEF Handles, HandleIsHeld
  <2>7. HandlesAreUnique'
    BY <1>1, <2>1, <2>2, <2>3, <2>4 DEF Handles, HandlesAreUnique, SenderKnows
  <2>8. \A s \in Held' : s \in Senders /\ tx'[s] # "unborn"
    BY <1>1, <2>3 DEF Handles
  <2>9. rx'.pc \in {"drain", "drain_notify"} => ~IsOpen(state')
    BY <2>1 DEF Handles
  <2> QED
    BY <1>1, <2>6, <2>7, <2>8, <2>9 DEF Handles
<1> QED
  BY <1>4, <1>5, <1>6, <1>7, <1>8, <1>9, <1>10, <1>11, <1>12

(* A closed channel stays closed.                                          *)
LEMMA NeverReopens ==
  ASSUME Typed, Counted, MpscNext
  PROVE  IsOpen(state') => IsOpen(state)
<1>1. (\E s \in Senders : Abstract!Accept(s) \/ Abstract!Enqueue(s)) => IsOpen(state') = IsOpen(state)
  BY DEF Abstract!Accept, Abstract!Enqueue
<1>2. Abstract!Receive \/ Abstract!Discard \/ Abstract!End => IsOpen(state') = IsOpen(state)
  BY DEF Abstract!Receive, Abstract!Discard, Abstract!End
<1>3. Abstract!Close => ~IsOpen(state')
  BY DEF Abstract!Close
<1>4. UNCHANGED View => IsOpen(state') = IsOpen(state)
  BY DEF View
<1> QED
  BY <1>1, <1>2, <1>3, <1>4, StepsOfTheChannel

(* Every step, sorted by what it does to the two queues.                   *)
LEMMA StepsOfTheQueues ==
  ASSUME Typed, MpscNext
  PROVE  \/ \E s \in Senders :
              \/ PollReady(s) \/ PollUnparked(s) \/ TrySendFull(s) \/ ParkCheck(s)
              \/ WakeReceiver(s) \/ DropSender(s) \/ CallCloseChannel(s) \/ PushMessage(s)
              \/ (TrySend(s) /\ bounded) \/ CloseChannel(s) \/ (DoSendNb(s) /\ ~bounded)
              \/ \E t \in Senders : Clone(s, t)
         \/ \E s \in Senders : ParkPush(s) /\ bounded
         \/ PopParked /\ bounded
         \/ PopMessage /\ bounded
         \/ UnboundedPopMessage /\ ~bounded
         \/ NotifySender \/ PollNext \/ TryRecv \/ DecNumMessages \/ LoadState
         \/ RegisterReceiver \/ DropRecheck \/ WakeTaken
         \/ \E mode \in {"close", "drop"} :
              (CloseReceiver(mode) /\ bounded) \/ (UnboundedClose(mode) /\ ~bounded)
<1>1. CASE bounded
  BY <1>1 DEF MpscNext, Next, SenderStep, SenderCall, ReceiverStep, ReceiverCall
<1>2. CASE ~bounded
  BY <1>2 DEF MpscNext, UnboundedNext, UnboundedSenderStep, UnboundedSenderCall, UnboundedPush,
      UnboundedWake, UnboundedCloseChannel, UnboundedDropSender, UnboundedCallClose, UnboundedClone,
      UnboundedReceiverStep, UnboundedPollNext, UnboundedTryRecv, UnboundedDecNumMessages,
      UnboundedLoadState, UnboundedRegister, UnboundedDropRecheck
<1> QED
  BY <1>1, <1>2

LEMMA HandlesAreInductive == Typed /\ Counted /\ Handles /\ [MpscNext]_mpscVars => Handles'
<1> SUFFICES ASSUME Typed, Counted, Handles, [MpscNext]_mpscVars PROVE Handles'
  OBVIOUS
<1>1. CASE UNCHANGED mpscVars
  BY <1>1 DEF mpscVars, vars, Handles, HandleIsHeld, HandlesAreUnique, Held, Waiting, Handed, SenderKnows
<1>2. CASE MpscNext
  BY <1>2, NeverReopens, StepsOfTheQueues, SenderStepsKeepHandles, ParkPushKeepsHandles,
     ReceiverKeepsHandles
<1> QED
  BY <1>1, <1>2

------------------------------------------------------------------------------
(* Enough messages are to come for every parked sender                     *)

Parking == {s \in Senders : tx[s] = "park"}
Unparking == IF rx.pc = "unpark" THEN 1 ELSE 0
EnoughToCome ==
  Len(parked_queue) + Cardinality(Parking)
    <= Len(message_queue) + Cardinality(Counting) + Unparking

LEMMA Counts ==
  Typed /\ Counted =>
    /\ IsFiniteSet(Parking) /\ IsFiniteSet(Counting)
    /\ Cardinality(Parking) \in Nat /\ Cardinality(Counting) \in Nat
    /\ Cardinality(Parking) <= Cardinality(Counting)
    /\ Len(parked_queue) \in Nat /\ Len(message_queue) \in Nat
<1>1. Parking \subseteq Counting
  BY DEF Parking, Counting
<1>2. Counted => IsFiniteSet(Counting)
  BY DEF Counted
<1>3. IsFiniteSet(Counting) => /\ IsFiniteSet(Parking) /\ Cardinality(Parking) <= Cardinality(Counting)
                              /\ Cardinality(Parking) \in Nat /\ Cardinality(Counting) \in Nat
  BY <1>1, FS_Subset, FS_CardinalityType
<1>4. Typed => Len(parked_queue) \in Nat /\ Len(message_queue) \in Nat
  BY DEF Typed, TypeOK
<1> QED
  BY <1>2, <1>3, <1>4

LEMMA InitEnough == MpscInit => EnoughToCome
<1> SUFFICES ASSUME MpscInit PROVE EnoughToCome
  OBVIOUS
<1>1. Init
  BY DEF MpscInit, UnboundedInit
<1>2. Parking = {} /\ Counting = {} /\ parked_queue = << >> /\ message_queue = << >>
  BY <1>1 DEF Init, Parking, Counting
<1> QED
  BY <1>2, FS_EmptySet DEF EnoughToCome, Unparking

(* A sender that moves is parking afterwards or not: the others stay.      *)
LEMMA MoveParking ==
  ASSUME Typed, NEW u \in Senders, NEW label \in TxPC, TxGoto(u, label)
  PROVE  Parking' = IF label = "park" THEN Parking \cup {u} ELSE Parking \ {u}
<1>1. tx \in [Senders -> TxPC]
  BY DEF Typed, TypeOK
<1>2. \A v \in Senders : tx'[v] = IF v = u THEN label ELSE tx[v]
  BY <1>1 DEF TxGoto
<1> QED
  BY <1>2 DEF Parking

(* What a step does to the senders that are parking, next to the ones that *)
(* are counting.                                                           *)
LEMMA SenderParks ==
  ASSUME Typed, NEW s \in Senders,
         (TrySend(s) /\ IsOpen(state)) \/ DoSendNb(s)
  PROVE  /\ s \notin Parking /\ s \notin Counting /\ Counting' = Counting \cup {s}
         /\ UNCHANGED <<parked_queue, message_queue, rx>>
         /\ \/ Parking' = Parking /\ (park_self(NumMessages(state) + 1) => DoSendNb(s))
            \/ Parking' = Parking \cup {s}
<1>1. tx[s] = "idle" /\ UNCHANGED <<parked_queue, message_queue, rx>>
  BY DEF TrySend, DoSendNb
<1>2. s \notin Parking /\ s \notin Counting /\ Counting' = Counting \cup {s}
  BY <1>1, SenderAccepts DEF Parking, Counting, Abstract!Accept
<1>3. CASE TrySend(s) /\ IsOpen(state) /\ park_self(NumMessages(state) + 1)
  <2>1. TxGoto(s, "park")
    BY <1>3 DEF TrySend
  <2> QED
    BY <1>1, <1>2, <2>1, MoveParking DEF TxPC
<1>4. CASE (TrySend(s) /\ IsOpen(state) /\ ~park_self(NumMessages(state) + 1)) \/ DoSendNb(s)
  <2>1. TxGoto(s, "push")
    BY <1>4 DEF TrySend, DoSendNb
  <2>2. Parking' = Parking
    BY <1>2, <2>1, MoveParking DEF TxPC
  <2> QED
    BY <1>1, <1>2, <1>4, <2>2
<1> QED
  BY <1>3, <1>4

LEMMA OthersDoNotPark ==
  ASSUME Typed, NEW s \in Senders,
         \/ PollReady(s) \/ PollUnparked(s) \/ TrySendFull(s) \/ ParkCheck(s)
         \/ WakeReceiver(s) \/ DropSender(s) \/ CallCloseChannel(s) \/ PushMessage(s)
         \/ (TrySend(s) /\ ~IsOpen(state)) \/ CloseChannel(s)
         \/ \E t \in Senders : Clone(s, t)
  PROVE  Parking' = Parking /\ UNCHANGED <<parked_queue, rx>>
<1>1. UNCHANGED <<parked_queue, rx>>
  BY DEF PollReady, PollUnparked, TrySendFull, ParkCheck, WakeReceiver, DropSender,
         CallCloseChannel, PushMessage, TrySend, CloseChannel, Clone
<1>2. \/ UNCHANGED tx
      \/ \E u \in Senders, label \in TxPC \ {"park"} : tx[u] # "park" /\ TxGoto(u, label)
  <2>1. CASE PollReady(s) \/ PollUnparked(s) \/ TrySendFull(s) \/ ParkCheck(s) \/ CallCloseChannel(s)
    BY <2>1 DEF PollReady, PollUnparked, TrySendFull, ParkCheck, CallCloseChannel, TxPC
  <2>2. CASE (TrySend(s) /\ ~IsOpen(state)) \/ WakeReceiver(s) \/ DropSender(s)
    BY <2>2 DEF TrySend, WakeReceiver, DropSender, TxPC
  <2>3. CASE PushMessage(s) \/ CloseChannel(s)
    BY <2>3 DEF PushMessage, CloseChannel, TxPC
  <2>4. ASSUME NEW t \in Senders, Clone(s, t)
        PROVE  "idle" \in TxPC \ {"park"} /\ tx[t] # "park" /\ TxGoto(t, "idle")
    BY <2>4 DEF Clone, TxPC
  <2> QED
    BY <2>1, <2>2, <2>3, <2>4
<1>3. Parking' = Parking
  <2>1. CASE UNCHANGED tx
    BY <2>1 DEF Parking
  <2>2. ASSUME NEW u \in Senders, NEW label \in TxPC \ {"park"}, tx[u] # "park", TxGoto(u, label)
        PROVE  Parking' = Parking
    BY <2>2, MoveParking DEF Parking
  <2> QED
    BY <1>2, <2>1, <2>2
<1> QED
  BY <1>1, <1>3

LEMMA NextEnough ==
  ASSUME Typed, Typed', Counted, Counted', EnoughToCome, MpscNext
  PROVE  EnoughToCome'
<1> DEFINE p == Cardinality(Parking)
           c == Cardinality(Counting)
           lp == Len(parked_queue)
           lm == Len(message_queue)
<1>1. /\ IsFiniteSet(Parking) /\ IsFiniteSet(Counting) /\ p \in Nat /\ c \in Nat /\ p <= c
      /\ lp \in Nat /\ lm \in Nat /\ lp + p <= lm + c + Unparking /\ Unparking \in {0, 1}
  BY Counts DEF EnoughToCome, Unparking
<1>2. Unparking' \in {0, 1} /\ parked_queue \in Seq(Senders) /\ message_queue \in Seq(Messages)
  BY DEF Unparking, Typed, TypeOK
<1>3. ASSUME NEW s \in Senders, (TrySend(s) /\ IsOpen(state)) \/ DoSendNb(s)
      PROVE  EnoughToCome'
  <2>1. /\ s \notin Parking /\ s \notin Counting /\ Counting' = Counting \cup {s}
        /\ UNCHANGED <<parked_queue, message_queue, rx>>
        /\ Parking' = Parking \/ Parking' = Parking \cup {s}
    BY <1>3, SenderParks
  <2>2. Cardinality(Counting') = c + 1 /\ Cardinality(Parking') \in {p, p + 1}
    BY <1>1, <2>1, FS_AddElement
  <2>3. Unparking' = Unparking
    BY <2>1 DEF Unparking
  <2> QED
    BY <1>1, <2>1, <2>2, <2>3 DEF EnoughToCome
<1>4. ASSUME NEW s \in Senders, PushMessage(s) PROVE EnoughToCome'
  <2>1. s \in Counting /\ Counting' = Counting \ {s} /\ Parking' = Parking /\ UNCHANGED <<parked_queue, rx>>
    BY <1>4, SenderEnqueues, OthersDoNotPark DEF Abstract!Enqueue
  <2>2. Cardinality(Counting') = c - 1
    BY <1>1, <2>1, FS_RemoveElement
  <2>3. Len(message_queue') = lm + 1
    BY <1>2, <1>4 DEF PushMessage
  <2>4. Unparking' = Unparking
    BY <2>1 DEF Unparking
  <2> QED
    BY <1>1, <2>1, <2>2, <2>3, <2>4 DEF EnoughToCome
<1>5. ASSUME NEW s \in Senders, ParkPush(s) PROVE EnoughToCome'
  <2>1. UNCHANGED <<message_queue, rx>> /\ tx[s] = "park" /\ TxGoto(s, "park_check")
    BY <1>5 DEF ParkPush
  <2>2. s \in Parking /\ Parking' = Parking \ {s}
    BY <2>1, MoveParking DEF Parking, TxPC
  <2>3. Cardinality(Parking') = p - 1
    BY <1>1, <2>2, FS_RemoveElement
  <2>4. Len(parked_queue') = lp + 1
    BY <1>2, <1>5 DEF ParkPush
  <2>5. Counting' = Counting
    BY <1>5, SenderQuiet DEF View
  <2>6. Unparking' = Unparking
    BY <2>1 DEF Unparking
  <2> QED
    BY <1>1, <2>1, <2>3, <2>4, <2>5, <2>6 DEF EnoughToCome
<1>6. ASSUME NEW s \in Senders,
             \/ PollReady(s) \/ PollUnparked(s) \/ TrySendFull(s) \/ ParkCheck(s)
             \/ WakeReceiver(s) \/ DropSender(s) \/ CallCloseChannel(s)
             \/ (TrySend(s) /\ ~IsOpen(state)) \/ CloseChannel(s)
             \/ \E t \in Senders : Clone(s, t)
      PROVE  EnoughToCome'
  <2>1. Parking' = Parking /\ UNCHANGED <<parked_queue, rx>>
    BY <1>6, OthersDoNotPark
  <2>2. Counting' = Counting
    BY <1>6, SenderQuiet, ChannelCloses DEF View, Abstract!Close
  <2>3. UNCHANGED message_queue
    BY <1>6 DEF PollReady, PollUnparked, TrySendFull, ParkCheck, WakeReceiver, DropSender,
         CallCloseChannel, TrySend, CloseChannel, Clone
  <2>4. Unparking' = Unparking
    BY <2>1 DEF Unparking
  <2> QED
    BY <1>1, <2>1, <2>2, <2>3, <2>4 DEF EnoughToCome
<1>7. ASSUME UNCHANGED tx PROVE Parking' = Parking /\ Counting' = Counting
  BY <1>7 DEF Parking, Counting
<1>8. CASE PopMessage /\ bounded
  <2>1. UNCHANGED <<tx, parked_queue>> /\ rx.pc = "pop"
    BY <1>8 DEF PopMessage, RxUnchanged
  <2>2. \/ UNCHANGED message_queue
        \/ message_queue # << >> /\ message_queue' = Tail(message_queue) /\ rx'.pc = "unpark"
    BY <1>8 DEF PopMessage, Typed, TypeOK, Receivers
  <2>3. Unparking = 0 /\ (Unparking' = 1 \/ UNCHANGED message_queue)
    BY <2>1, <2>2 DEF Unparking
  <2>4. message_queue # << >> => Len(Tail(message_queue)) = lm - 1
    BY <1>2, HeadAndTail
  <2> QED
    BY <1>1, <1>2, <1>7, <2>1, <2>2, <2>3, <2>4 DEF EnoughToCome
<1>9. CASE PopParked
  <2>1. UNCHANGED <<tx, message_queue>>
    BY <1>9 DEF PopParked, RxUnchanged
  <2>2. CASE parked_queue = << >>
    <3>1. UNCHANGED parked_queue /\ lp = 0
      BY <1>9, <2>2 DEF PopParked
    <3> QED
      BY <1>1, <1>2, <1>7, <2>1, <3>1 DEF EnoughToCome
  <2>3. CASE parked_queue # << >>
    <3>1. parked_queue' = Tail(parked_queue) /\ Len(Tail(parked_queue)) = lp - 1
      BY <1>2, <1>9, <2>3, HeadAndTail DEF PopParked
    <3> QED
      BY <1>1, <1>2, <1>7, <2>1, <3>1 DEF EnoughToCome
  <2> QED
    BY <2>2, <2>3
<1>10. CASE ~bounded
  <2>1. Parking' = {} /\ parked_queue' = << >>
    BY <1>10 DEF MpscNext, Typed, UnboundedNeverParks, Parking
  <2>2. Cardinality(Parking') = 0 /\ Len(parked_queue') = 0
    BY <2>1, FS_EmptySet
  <2>3. Len(message_queue') \in Nat /\ Cardinality(Counting') \in Nat
    BY FS_CardinalityType DEF Typed, TypeOK, Counted
  <2> QED
    BY <1>2, <2>2, <2>3 DEF EnoughToCome
<1>11. ASSUME \/ NotifySender \/ PollNext \/ TryRecv \/ DecNumMessages \/ LoadState
              \/ RegisterReceiver \/ DropRecheck \/ WakeTaken
              \/ \E mode \in {"close", "drop"} : CloseReceiver(mode)
       PROVE  EnoughToCome'
  <2>1. UNCHANGED <<tx, parked_queue, message_queue>>
    BY <1>11 DEF NotifySender, PollNext, TryRecv, DecNumMessages, LoadState, RegisterReceiver,
                 DropRecheck, WakeTaken, CloseReceiver, RxUnchanged
  <2>2. rx.pc # "unpark" \/ UNCHANGED rx
    BY <1>11 DEF NotifySender, PollNext, TryRecv, DecNumMessages, LoadState, RegisterReceiver,
                 DropRecheck, WakeTaken, CloseReceiver
  <2>3. Unparking <= Unparking'
    BY <1>2, <2>2 DEF Unparking
  <2> QED
    BY <1>1, <1>2, <1>7, <2>1, <2>3 DEF EnoughToCome
<1> QED
  BY <1>3, <1>4, <1>5, <1>6, <1>8, <1>9, <1>10, <1>11, StepsOfTheQueues

LEMMA EnoughIsInductive == Typed /\ Counted /\ EnoughToCome /\ [MpscNext]_mpscVars => EnoughToCome'
<1> SUFFICES ASSUME Typed, Counted, EnoughToCome, [MpscNext]_mpscVars PROVE EnoughToCome'
  OBVIOUS
<1>1. CASE UNCHANGED mpscVars
  BY <1>1 DEF mpscVars, vars, EnoughToCome, Parking, Counting, Unparking
<1> QED
  BY <1>1, NextTyped, CountedIsInductive, NextEnough

(* The handle of every sender that considers itself parked is in the       *)
(* receiver's hand, or in the parked queue with enough messages to come    *)
(* for next_message to reach it: the comment of poll_unparked is right.    *)
THEOREM SendersAreUnparked == MpscSpec => []UnparkIsPending
<1>1. Typed /\ Counted /\ Handles /\ EnoughToCome => UnparkIsPending
  <2> SUFFICES ASSUME Typed, Counted, Handles, EnoughToCome, NEW s \in Senders,
                      sender_task[s].is_parked, s \notin Handed
               PROVE  \E i \in 1 .. Len(parked_queue) :
                        /\ parked_queue[i] = s
                        /\ i <= Len(message_queue) + Cardinality(Counting) + Unparking
    BY DEF UnparkIsPending, Handed, Unparking
  <2>1. s \in Waiting
    BY DEF Handles, HandleIsHeld, Held
  <2>2. PICK i \in 1 .. Len(parked_queue) : parked_queue[i] = s
    BY <2>1 DEF Waiting, Elements
  <2>3. i <= Len(message_queue) + Cardinality(Counting) + Unparking
    BY Counts DEF EnoughToCome, Unparking
  <2> QED
    BY <2>2, <2>3
<1> QED
  BY <1>1, InitTyped, InitCounted, InitHandles, InitEnough, NextTyped, CountedIsInductive,
     HandlesAreInductive, EnoughIsInductive, PTL DEF MpscSpec

(* Neither side is left with nothing on its way to it.                     *)
THEOREM BothSidesAreWoken == MpscSpec => []NoLostWakeUp
<1>1. NoLostReceiverWakeUp /\ UnparkIsPending => NoLostWakeUp
  BY DEF NoLostWakeUp
<1> QED
  BY <1>1, ReceiverIsWoken, SendersAreUnparked, PTL

------------------------------------------------------------------------------
(* The capacity of a bounded channel                                       *)

Born == {s \in Senders : tx[s] # "unborn"}
Charged == Parking \cup Waiting       \* each has used its slot beyond the buffer
Unparked == IF rx.pc \in {"notify", "dec"} THEN 1 ELSE 0

(* While the channel is open the messages beyond the buffer are charged to *)
(* senders that are parked, or are the one about to be subtracted.         *)
OpenBound ==
  bounded /\ IsOpen(state) => NumCounted <= Buffer + Cardinality(Charged) + Unparked

Bounded == IsFiniteSet(Born) /\ OpenBound /\ CapacityBound

LEMMA ChargedAreBorn ==
  ASSUME Typed, Handles, IsFiniteSet(Born)
  PROVE  /\ Cardinality(Born) \in Nat
         /\ IsFiniteSet(Charged) /\ Cardinality(Charged) \in Nat
         /\ Cardinality(Charged) <= Cardinality(Born)
<1>1. Charged \subseteq Born
  BY DEF Charged, Parking, Born, Handles, Held
<1> QED
  BY <1>1, FS_Subset, FS_CardinalityType

LEMMA InitBounded == MpscInit => Bounded
<1> SUFFICES ASSUME MpscInit PROVE Bounded
  OBVIOUS
<1>0. Typed /\ Counted /\ Handles
  BY InitTyped, InitCounted, InitHandles
<1>1. Init
  BY DEF MpscInit, UnboundedInit
<1>2. Born = {First}
  BY <1>1, ConstantsAssumption DEF Init, Born
<1>3. NumCounted = 0
  <2>1. 0 \in 0 .. MAX_CAPACITY
    BY ConstantsAssumption DEF MAX_CAPACITY
  <2> QED
    BY <1>1, <2>1, EncodeParts DEF Init, NumCounted
<1>4. IsFiniteSet(Born)
  BY <1>2, FS_Singleton
<1>5. /\ Cardinality(Born) \in Nat /\ Cardinality(Charged) \in Nat
      /\ Unparked \in Nat /\ InHand \in Nat /\ Buffer \in Nat
  BY <1>0, <1>4, ChargedAreBorn, ConstantsAssumption DEF Unparked, InHand
<1> QED
  BY <1>3, <1>4, <1>5 DEF Bounded, OpenBound, CapacityBound, NumCounted, Born

(* A sender is born by Clone, and stays.                                   *)
LEMMA BornGrows ==
  ASSUME Typed, MpscNext
  PROVE  Born' = Born \/ \E t \in Senders : Born' = Born \cup {t}
<1>1. tx \in [Senders -> TxPC]
  BY DEF Typed, TypeOK
<1>2. UNCHANGED tx \/ \E u \in Senders, label \in TxPC \ {"unborn"} : TxGoto(u, label)
  <2>1. ASSUME NEW s \in Senders, (TrySend(s) /\ IsOpen(state)) \/ DoSendNb(s) \/ ParkPush(s)
        PROVE  \E label \in TxPC \ {"unborn"} : TxGoto(s, label)
    BY <2>1 DEF TrySend, DoSendNb, ParkPush, TxPC
  <2>2. ASSUME NEW s \in Senders, TrySend(s) /\ ~IsOpen(state) PROVE UNCHANGED tx
    BY <2>2 DEF TrySend
  <2>3. ASSUME NEW s \in Senders, PollReady(s) \/ TrySendFull(s) \/ CallCloseChannel(s) \/ PollUnparked(s)
        PROVE  UNCHANGED tx \/ \E label \in TxPC \ {"unborn"} : TxGoto(s, label)
    BY <2>3 DEF PollReady, TrySendFull, CallCloseChannel, PollUnparked, TxPC
  <2>4. ASSUME NEW s \in Senders, ParkCheck(s) \/ PushMessage(s)
        PROVE  \E label \in TxPC \ {"unborn"} : TxGoto(s, label)
    BY <2>4 DEF ParkCheck, PushMessage, TxPC
  <2>5. ASSUME NEW s \in Senders, WakeReceiver(s) \/ DropSender(s) \/ CloseChannel(s)
        PROVE  \E label \in TxPC \ {"unborn"} : TxGoto(s, label)
    BY <2>5 DEF WakeReceiver, DropSender, CloseChannel, TxPC
  <2>6. ASSUME NEW s \in Senders, NEW t \in Senders, Clone(s, t)
        PROVE  "idle" \in TxPC \ {"unborn"} /\ TxGoto(t, "idle")
    BY <2>6 DEF Clone, TxPC
  <2>7. ASSUME \/ PopParked \/ PopMessage \/ UnboundedPopMessage \/ NotifySender \/ PollNext \/ TryRecv
               \/ DecNumMessages \/ LoadState \/ RegisterReceiver \/ DropRecheck \/ WakeTaken
               \/ \E mode \in {"close", "drop"} : CloseReceiver(mode) \/ UnboundedClose(mode)
        PROVE  UNCHANGED tx
    BY <2>7 DEF PopParked, NotifySender, PollNext, TryRecv, PopMessage, UnboundedPopMessage,
         DecNumMessages, LoadState, RegisterReceiver, DropRecheck, WakeTaken, CloseReceiver,
         UnboundedClose, RxUnchanged
  <2> QED
    BY <2>1, <2>2, <2>3, <2>4, <2>5, <2>6, <2>7, StepsOfTheQueues
<1>3. ASSUME NEW u \in Senders, NEW label \in TxPC \ {"unborn"}, TxGoto(u, label)
      PROVE  Born' = Born \cup {u}
  BY <1>1, <1>3 DEF Born, TxGoto
<1> QED
  BY <1>2, <1>3 DEF Born

LEMMA NextOpenBound ==
  ASSUME Typed, Typed', Counted, Handles, Handles', IsFiniteSet(Born), IsFiniteSet(Born'),
         OpenBound, MpscNext
  PROVE  OpenBound'
<1> SUFFICES ASSUME bounded, IsOpen(state')
             PROVE  NumCounted' <= Buffer + Cardinality(Charged') + Unparked'
  BY DEF OpenBound, MpscNext
<1> DEFINE c == Cardinality(Charged)
           d == Cardinality(Charged')
<1>0. IsOpen(state)
  BY NeverReopens
<1>1. /\ NumCounted \in Nat /\ NumCounted' \in Nat /\ Buffer \in Nat
      /\ IsFiniteSet(Charged) /\ c \in Nat /\ NumCounted <= Buffer + c + Unparked
      /\ Unparked \in {0, 1} /\ Unparked' \in {0, 1}
  BY <1>0, WordParts, ChargedAreBorn, ConstantsAssumption
  DEF NumCounted, OpenBound, Unparked, Typed, TypeOK
<1>2. IsFiniteSet(Charged') /\ d \in Nat
  <2>1. Charged' \subseteq Born'
    BY DEF Charged, Parking, Born, Handles, Held
  <2> QED
    BY <2>1, FS_Subset, FS_CardinalityType
<1>3. parked_queue \in Seq(Senders)
  BY DEF Typed, TypeOK
<1>4. ASSUME NEW s \in Senders, TrySend(s)
      PROVE  NumCounted' <= Buffer + d + Unparked'
  <2>1. NumCounted' = NumCounted + 1
    BY <1>0, <1>4, SenderAccepts
  <2>2. /\ s \notin Parking /\ UNCHANGED <<parked_queue, message_queue, rx>>
        /\ \/ Parking' = Parking /\ (park_self(NumCounted + 1) => DoSendNb(s))
           \/ Parking' = Parking \cup {s}
    BY <1>0, <1>4, SenderParks DEF NumCounted
  <2>3. s \notin Waiting
    BY <1>0, <1>4 DEF TrySend, Handles, HandlesAreUnique, SenderKnows, Held
  <2>4. CASE Parking' = Parking \cup {s}
    <3>1. s \notin Charged /\ Charged' = Charged \cup {s} /\ Unparked' = Unparked
      BY <2>2, <2>3, <2>4 DEF Charged, Waiting, Unparked
    <3>2. d = c + 1
      BY <1>1, <3>1, FS_AddElement
    <3> QED
      BY <1>1, <2>1, <3>1, <3>2
  <2>5. CASE ~park_self(NumCounted + 1)
    BY <1>1, <1>2, <2>1, <2>5 DEF park_self
  <2>6. ASSUME DoSendNb(s) PROVE tx'[s] = "push" /\ ~park_self(NumCounted + 1)
    <3>1. PICK label : tx' = [tx EXCEPT ![s] = label] /\ label = IF park_self(NumCounted + 1) THEN "park" ELSE "push"
      BY <1>0, <1>4 DEF TrySend, TxGoto, NumCounted
    <3> QED
      BY <2>6, <3>1 DEF DoSendNb, TxGoto, Typed, TypeOK
  <2> QED
    BY <2>2, <2>4, <2>5, <2>6
<1>5. ASSUME NumCounted' <= NumCounted, Charged' = Charged, Unparked <= Unparked'
      PROVE  NumCounted' <= Buffer + d + Unparked'
  BY <1>1, <1>5
<1>6. ASSUME NEW s \in Senders,
             \/ PollReady(s) \/ PollUnparked(s) \/ TrySendFull(s) \/ ParkCheck(s)
             \/ WakeReceiver(s) \/ DropSender(s) \/ CallCloseChannel(s) \/ PushMessage(s)
             \/ CloseChannel(s) \/ \E t \in Senders : Clone(s, t)
      PROVE  NumCounted' <= Buffer + d + Unparked'
  <2>1. Parking' = Parking /\ UNCHANGED <<parked_queue, rx>>
    BY <1>6, OthersDoNotPark
  <2>2. NumCounted' = NumCounted
    BY <1>6, SenderQuiet, SenderEnqueues, ChannelCloses DEF View
  <2>3. Charged' = Charged /\ Unparked' = Unparked
    BY <2>1 DEF Charged, Waiting, Unparked
  <2> QED
    BY <1>1, <1>5, <2>2, <2>3
<1>7. ASSUME NEW s \in Senders, ParkPush(s)
      PROVE  NumCounted' <= Buffer + d + Unparked'
  <2>1. /\ tx[s] = "park" /\ TxGoto(s, "park_check") /\ UNCHANGED rx
        /\ parked_queue' = Append(parked_queue, s)
    BY <1>7 DEF ParkPush
  <2>2. s \in Parking /\ Parking' = Parking \ {s}
    BY <2>1, MoveParking DEF Parking, TxPC
  <2>3. Waiting' = Waiting \cup {s}
    BY <1>3, <2>1, ElementsAppend DEF Waiting
  <2>4. Charged' = Charged /\ Unparked' = Unparked /\ NumCounted' = NumCounted
    BY <1>7, <2>1, <2>2, <2>3, SenderQuiet DEF Charged, Unparked, View
  <2> QED
    BY <1>1, <1>5, <2>4
<1>8. ASSUME UNCHANGED tx PROVE Parking' = Parking
  BY <1>8 DEF Parking
<1>9. ASSUME PopMessage
      PROVE  NumCounted' <= Buffer + d + Unparked'
  <2>1. UNCHANGED <<tx, parked_queue>> /\ rx.pc = "pop"
    BY <1>9 DEF PopMessage, RxUnchanged
  <2>2. Charged' = Charged /\ Unparked = 0
    BY <1>8, <2>1 DEF Charged, Waiting, Unparked
  <2>3. NumCounted' = NumCounted
    BY <1>9, ReceiverQuiet DEF View
  <2> QED
    BY <1>1, <1>5, <2>2, <2>3
<1>10. ASSUME PopParked
       PROVE  NumCounted' <= Buffer + d + Unparked'
  <2>1. UNCHANGED tx /\ rx.pc = "unpark" /\ Unparked = 0
    BY <1>0, <1>10 DEF PopParked, RxUnchanged, Unparked, Handles
  <2>2. NumCounted' = NumCounted
    BY <1>10, ReceiverQuiet DEF View
  <2>3. rx'.pc \in {"notify", "dec"}
    BY <1>10, <2>1 DEF PopParked, Typed, TypeOK, Receivers
  <2>4. CASE parked_queue = << >>
    <3>1. Charged' = Charged
      BY <1>8, <1>10, <2>1, <2>4 DEF PopParked, Charged, Waiting
    <3> QED
      BY <1>1, <1>5, <2>1, <2>2, <3>1
  <2>5. CASE parked_queue # << >>
    <3>1. parked_queue' = Tail(parked_queue)
      BY <1>10, <2>5 DEF PopParked
    <3>2. Charged = Charged' \cup {Head(parked_queue)}
      BY <1>3, <1>8, <2>1, <2>5, <3>1, ElementsTail DEF Charged, Waiting
    <3>3. c <= d + 1
      <4>1. Cardinality(Charged' \cup {Head(parked_queue)}) \in {d, d + 1}
        BY <1>2, FS_AddElement
      <4> QED
        BY <1>2, <3>2, <4>1
    <3>4. Unparked' = 1
      BY <2>3 DEF Unparked
    <3> QED
      BY <1>1, <1>2, <2>1, <2>2, <3>3, <3>4
  <2> QED
    BY <2>4, <2>5
<1>11. ASSUME \/ NotifySender \/ PollNext \/ TryRecv \/ LoadState
              \/ RegisterReceiver \/ DropRecheck \/ WakeTaken
       PROVE  NumCounted' <= Buffer + d + Unparked'
  <2>1. UNCHANGED <<tx, parked_queue, state>>
    BY <1>11 DEF NotifySender, PollNext, TryRecv, LoadState, RegisterReceiver,
                 DropRecheck, WakeTaken, RxUnchanged
  <2>2. \/ rx.pc \notin {"notify", "dec"} \/ UNCHANGED rx
        \/ rx.pc = "notify" /\ rx'.pc = "dec"
    BY <1>11 DEF NotifySender, PollNext, TryRecv, LoadState, RegisterReceiver,
                 DropRecheck, WakeTaken, Typed, TypeOK, Receivers
  <2>3. Charged' = Charged /\ NumCounted' = NumCounted /\ Unparked <= Unparked'
    BY <1>1, <1>8, <2>1, <2>2 DEF Charged, Waiting, NumCounted, Unparked
  <2> QED
    BY <1>1, <1>5, <2>3
<1>12. ASSUME DecNumMessages
       PROVE  NumCounted' <= Buffer + d + Unparked'
  <2>1. UNCHANGED <<tx, parked_queue>>
    BY <1>12 DEF DecNumMessages, RxUnchanged
  <2>2. Charged' = Charged /\ NumCounted' = NumCounted - 1
    BY <1>8, <1>12, <2>1, ReceiverTakes DEF Charged, Waiting
  <2> QED
    BY <1>1, <2>2
<1>13. ASSUME NEW mode \in {"close", "drop"}, CloseReceiver(mode) PROVE FALSE
  BY <1>13, ChannelCloses DEF Abstract!Close
<1> QED
  BY <1>4, <1>6, <1>7, <1>9, <1>10, <1>11, <1>12, <1>13, StepsOfTheQueues

(* Without a new message the count only goes down, with the message in     *)
(* hand.                                                                   *)
LEMMA ClosedOnlyDrains ==
  ASSUME Typed, Counted, MpscNext, ~IsOpen(state')
  PROVE  \/ NumCounted' = NumCounted - 1 /\ InHand = 1
         \/ NumCounted' <= NumCounted /\ InHand <= InHand'
<1>1. CASE DecNumMessages
  BY <1>1, ReceiverTakes DEF DecNumMessages, InHand
<1>2. CASE ~DecNumMessages
  <2>1. ASSUME rx.pc \in {"unpark", "notify", "dec"}
        PROVE  UNCHANGED rx \/ PopParked \/ NotifySender
    <3>1. ASSUME NEW s \in Senders, TrySend(s) \/ DoSendNb(s) \/ ParkPush(s) PROVE UNCHANGED rx
      BY <3>1 DEF TrySend, DoSendNb, ParkPush
    <3>2. ~(PollNext \/ TryRecv \/ PopMessage \/ UnboundedPopMessage \/ LoadState
            \/ RegisterReceiver \/ DropRecheck
            \/ \E mode \in {"close", "drop"} : CloseReceiver(mode) \/ UnboundedClose(mode))
      BY <2>1 DEF PollNext, TryRecv, PopMessage, UnboundedPopMessage, LoadState,
                  RegisterReceiver, DropRecheck, CloseReceiver, UnboundedClose
    <3>3. WakeTaken => UNCHANGED rx
      BY DEF WakeTaken
    <3> QED
      BY <1>2, <3>1, <3>2, <3>3, OthersDoNotPark, StepsOfTheQueues
  <2>2. ASSUME rx.pc \in {"unpark", "notify", "dec"}, PopParked \/ NotifySender
        PROVE  rx'.pc \in {"notify", "dec"}
    BY <2>2 DEF PopParked, NotifySender, Typed, TypeOK, Receivers
  <2>3. InHand <= InHand'
    BY <2>1, <2>2 DEF InHand
  <2>4. ASSUME NEW s \in Senders, Abstract!Accept(s) PROVE FALSE
    BY <2>4 DEF Abstract!Accept
  <2>5. NumCounted \in Nat /\ NumCounted' \in Int
    BY WordParts, NextTyped, StepsOfTheChannel DEF NumCounted, Typed, TypeOK, View
  <2>6. NumCounted' <= NumCounted
    BY <2>4, <2>5, StepsOfTheChannel DEF View
  <2> QED
    BY <2>3, <2>6
<1> QED
  BY <1>1, <1>2

LEMMA BoundedIsInductive ==
  Typed /\ Counted /\ Handles /\ Bounded /\ [MpscNext]_mpscVars => Bounded'
<1> SUFFICES ASSUME Typed, Counted, Handles, Bounded, [MpscNext]_mpscVars PROVE Bounded'
  OBVIOUS
<1>1. CASE UNCHANGED mpscVars
  BY <1>1 DEF mpscVars, vars, Bounded, OpenBound, CapacityBound, Born, Charged, Parking, Waiting,
              Unparked, InHand, NumCounted
<1>2. CASE MpscNext
  <2>0. Typed' /\ Counted' /\ Handles'
    BY NextTyped, CountedIsInductive, HandlesAreInductive
  <2>1. /\ IsFiniteSet(Born) /\ IsFiniteSet(Born') /\ Cardinality(Born) \in Nat
        /\ Cardinality(Born') \in Nat /\ Cardinality(Born) <= Cardinality(Born')
    <3>1. IsFiniteSet(Born)
      BY DEF Bounded
    <3>2. CASE Born' = Born
      BY <3>1, <3>2, FS_CardinalityType
    <3>3. ASSUME NEW t \in Senders, Born' = Born \cup {t}
          PROVE  IsFiniteSet(Born') /\ Cardinality(Born') \in {Cardinality(Born), Cardinality(Born) + 1}
      BY <3>1, <3>3, FS_AddElement
    <3>4. Cardinality(Born) \in Nat
      BY <3>1, FS_CardinalityType
    <3> QED
      BY <1>2, <3>1, <3>2, <3>3, <3>4, BornGrows
  <2>2. OpenBound'
    BY <1>2, <2>0, <2>1, NextOpenBound DEF Bounded
  <2>3. /\ NumCounted \in Nat /\ NumCounted' \in Nat /\ InHand \in Nat /\ InHand' \in Nat
        /\ Buffer \in Nat
    BY <2>0, WordParts, ConstantsAssumption DEF NumCounted, InHand, Typed, TypeOK
  <2>4. CASE bounded /\ IsOpen(state')
    <3>1. Charged' \subseteq Born'
      BY <2>0 DEF Charged, Parking, Born, Handles, Held
    <3>2. Cardinality(Charged') \in Nat /\ Cardinality(Charged') <= Cardinality(Born')
      BY <2>1, <3>1, FS_Subset, FS_CardinalityType
    <3>3. Unparked' <= InHand' /\ Unparked' \in {0, 1}
      BY DEF Unparked, InHand
    <3>4. NumCounted' <= Buffer + Cardinality(Charged') + Unparked'
      BY <1>2, <2>2, <2>4 DEF OpenBound, MpscNext
    <3>5. NumCounted' <= Buffer + Cardinality(Born') + InHand'
      BY <2>1, <2>3, <3>2, <3>3, <3>4
    <3> QED
      BY <2>1, <2>2, <3>5 DEF Bounded, CapacityBound, Born, NumCounted
  <2>5. CASE bounded /\ ~IsOpen(state')
    <3>1. NumCounted <= Buffer + Cardinality(Born) + InHand
      BY <2>5 DEF Bounded, CapacityBound, Born, NumCounted
    <3>2. PICK hand \in Nat : hand = InHand'
      BY <2>3
    <3>3. NumCounted' <= Buffer + Cardinality(Born') + hand
      <4>1. CASE NumCounted' = NumCounted - 1 /\ InHand = 1
        BY <2>1, <2>3, <3>1, <4>1
      <4>2. CASE NumCounted' <= NumCounted /\ InHand <= hand
        BY <2>1, <2>3, <3>1, <4>2
      <4> QED
        BY <1>2, <2>5, <3>2, <4>1, <4>2, ClosedOnlyDrains
    <3>4. NumCounted' <= Buffer + Cardinality(Born') + InHand'
      BY <3>2, <3>3
    <3> QED
      BY <2>1, <2>2, <3>4 DEF Bounded, CapacityBound, Born, NumCounted
  <2>6. CASE ~bounded
    BY <1>2, <2>1, <2>2, <2>6 DEF Bounded, CapacityBound, MpscNext
  <2> QED
    BY <2>4, <2>5, <2>6
<1> QED
  BY <1>1, <1>2

(* A bounded channel never counts more messages than its buffer, one for   *)
(* each sender that was created and the one in the receiver's hands: a     *)
(* sender parks itself after at most one message beyond the buffer, however *)
(* its check interleaves with the receiver's unparking.                    *)
THEOREM CapacityIsBounded == MpscSpec => []CapacityBound
<1>1. Bounded => CapacityBound
  BY DEF Bounded
<1> QED
  BY <1>1, InitTyped, InitCounted, InitHandles, InitBounded, NextTyped, CountedIsInductive,
     HandlesAreInductive, BoundedIsInductive, PTL DEF MpscSpec
==============================================================================
