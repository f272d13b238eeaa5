---------------------------- MODULE SinkAdapters ------------------------------
(***************************************************************************)
(* futures-util/src/sink: sinks made of other sinks, and the futures that  *)
(* send.  The task feeds the items of the script one by one (op "ready":   *)
(* poll_ready until Ready, then start_send), flushes after any of them,    *)
(* and closes.  Sinks below may answer Pending or an Err, which ends it.   *)
(* What out records of a Ready poll_flush or poll_close is how many items  *)
(* the adapter had accepted, and what had reached the sink.                *)
(***************************************************************************)
EXTENDS FutureAdapters

SinkOf(s) == 5 + s
NoneSent == [s \in 1 .. 2 |-> [ready |-> FALSE, got |-> << >>]]

EndWith(x, s) == self' = s /\ call' = [pc |-> "idle", res |-> "none"] /\ out' = Append(out, x)
Failed == EndWith(<<"err">>, self)

(* The methods of the sinks below.  start_send must follow a Ready         *)
(* poll_ready.                                                             *)
PollReady(s, OnReady, OnPending) ==
  \/ Pends(SinkOf(s)) /\ OnPending
  \/ /\ Answers(SinkOf(s)) /\ sink' = [sink EXCEPT ![s].ready = TRUE]
     /\ UNCHANGED <<left, done, late>>
     /\ OnReady
  \/ Answers(SinkOf(s)) /\ UNCHANGED sourceVars /\ Failed

StartSend(s, x, OnOk) ==
  \/ /\ sink' = [sink EXCEPT ![s] = [ready |-> FALSE, got |-> Append(@.got, x)]]
     /\ late' = (late \/ ~sink[s].ready)
     /\ UNCHANGED <<left, done, pends, armed>>
     /\ OnOk
  \/ UNCHANGED envVars /\ Failed

PollFlushOrClose(s, OnReady, OnPending) ==
  \/ Pends(SinkOf(s)) /\ OnPending
  \/ Answers(SinkOf(s)) /\ UNCHANGED sourceVars /\ OnReady
  \/ Answers(SinkOf(s)) /\ UNCHANGED sourceVars /\ Failed

------------------------------------------------------------------------------
(* The task                                                                *)
Op(n) == IF n < len[1] THEN "ready" ELSE "close"
Item == self.sent + 1
Sending == self.op = "ready"

(* poll_ready said Ready and start_send took the item.                     *)
Accepted(s) == \E op \in {"flush", Op(Item)} :
                 Return("some", [s EXCEPT !.sent = Item, !.op = op])
(* poll_flush or poll_close said Ready.                                    *)
FlushedOrClosed(got) ==
  LET record == <<"done", self.sent, got>>
  IN  IF self.op = "flush" THEN Yield(record, [self EXCEPT !.op = Op(self.sent)])
      ELSE EndWith(record, self)
Got == sink[1].got

------------------------------------------------------------------------------
(* Buffer: param is its capacity                                           *)
BufferNew == [op |-> Op(0), sent |-> 0, buf |-> << >>]
BufferHasRoom == Len(self.buf) < param
BufferReady == IF BufferHasRoom THEN Accepted([self EXCEPT !.buf = Append(@, Item)]) ELSE Pending

(* try_empty_buffer.  Its Pending does not matter to poll_ready while      *)
(* there is room.                                                          *)
TryEmptyBuffer ==
  \/ /\ call.pc = "poll" /\ (Sending => param > 0)
     /\ PollReady(1, Goto("empty", self), IF Sending THEN BufferReady ELSE Pending)
  \/ /\ call.pc = "empty"
     /\ IF self.buf # << >>
        THEN LET rest == [self EXCEPT !.buf = Tail(@)]
             IN  StartSend(1, Head(self.buf), IF rest.buf = << >> THEN Goto("empty", rest)
                                              ELSE Again(rest))
        ELSE NoPoll(IF Sending THEN BufferReady ELSE Goto("flush", self))

SinkBuffer ==
  /\ adapter = "SinkBuffer"
  /\ \/ TryEmptyBuffer
     \/ call.pc = "poll" /\ Sending /\ param = 0 /\ PollReady(1, Goto("send", self), Pending)
     \/ call.pc = "send" /\ StartSend(1, Item, Accepted(self))
     \/ call.pc = "flush" /\ PollFlushOrClose(1, FlushedOrClosed(Got), Pending)

(* With: an item becomes a future, and its output is sent by the next call *)
(* with the readiness that poll_ready had before.                          *)
WithNew == [op |-> Op(0), sent |-> 0, state |-> None]
With ==
  \/ /\ Polling("With")
     /\ IF IsSome(self.state)
        THEN PollFuture(IF Yes(Get(self.state)) THEN Goto("send", self) ELSE Failed, Pending)
        ELSE NoPoll(Goto("inner", self))
  \/ /\ At("With", "send")
     /\ StartSend(1, F(Get(self.state)), Goto("inner", [self EXCEPT !.state = None]))
  \/ /\ At("With", "inner")
     /\ IF Sending THEN PollReady(1, Accepted([self EXCEPT !.state = Some(Item)]), Pending)
        ELSE PollFlushOrClose(1, FlushedOrClosed(Got), Pending)

(* WithFlatMap: an item becomes a stream; buffer holds what the sink was   *)
(* not ready for.  try_empty_stream is the first three steps.              *)
WithFlatMapNew == [op |-> Op(0), sent |-> 0, stream |-> None, buffer |-> None]
StreamEmptied ==
  LET s == [self EXCEPT !.stream = None]
  IN  IF Sending THEN Accepted([s EXCEPT !.stream = Some(TryItems(Item))]) ELSE Goto("flush", s)
WithFlatMap ==
  \/ /\ Polling("WithFlatMap")
     /\ IF IsSome(self.buffer) THEN PollReady(1, Goto("send", self), Pending)
        ELSE NoPoll(Goto("stream", self))
  \/ /\ At("WithFlatMap", "send")
     /\ StartSend(1, Get(self.buffer), Goto("stream", [self EXCEPT !.buffer = None]))
  \/ /\ At("WithFlatMap", "stream")
     /\ IF self.stream = None THEN NoPoll(StreamEmptied)
        ELSE LET st == Get(self.stream)
             IN  PollFuture(CASE st = << >> -> StreamEmptied
                              [] st # << >> /\ Head(st)[1] = "err" -> Failed
                              [] OTHER -> Again([self EXCEPT !.stream = Some(Tail(st)),
                                                             !.buffer = Some(Head(st)[2])]),
                            Pending)
  \/ At("WithFlatMap", "flush") /\ PollFlushOrClose(1, FlushedOrClosed(Got), Pending)

(* Fanout: every item to both sinks; first is what the first one answered. *)
FanoutNew == [op |-> Op(0), sent |-> 0, first |-> FALSE]
SameGot == IF sink[1].got = sink[2].got THEN Got ELSE <<"differ">>
Fanout ==
  LET FirstSaid(b) == Goto("second", [self EXCEPT !.first = b])
  IN  \/ /\ Polling("Fanout")
         /\ IF Sending THEN PollReady(1, FirstSaid(TRUE), FirstSaid(FALSE))
            ELSE PollFlushOrClose(1, FirstSaid(TRUE), FirstSaid(FALSE))
      \/ /\ At("Fanout", "second")
         /\ IF Sending THEN PollReady(2, IF self.first THEN Goto("send", self) ELSE Pending, Pending)
            ELSE PollFlushOrClose(2, IF self.first THEN FlushedOrClosed(SameGot) ELSE Pending,
                                  Pending)
      \/ At("Fanout", "send") /\ StartSend(1, Item, Goto("send2", self))
      \/ At("Fanout", "send2") /\ StartSend(2, Item, Accepted(self))

SinkMapErrNew == [op |-> Op(0), sent |-> 0]
SinkMapErr ==
  \/ /\ Polling("SinkMapErr")
     /\ IF Sending THEN PollReady(1, Goto("send", self), Pending)
        ELSE PollFlushOrClose(1, FlushedOrClosed(Got), Pending)
  \/ At("SinkMapErr", "send") /\ StartSend(1, Item, Accepted(self))

EitherSinkNew == [op |-> Op(0), sent |-> 0, is |-> param]
EitherSink ==
  \/ /\ Polling("EitherSink")
     /\ IF Sending THEN PollReady(self.is, Goto("send", self), Pending)
        ELSE PollFlushOrClose(self.is, FlushedOrClosed(sink[self.is].got), Pending)
  \/ At("EitherSink", "send") /\ StartSend(self.is, Item, Accepted(self))

(* Unfold: the sink is a value and the future that makes the next one.     *)
SinkUnfoldNew == [op |-> Op(0), sent |-> 0, future |-> None, value |-> << >>]
SinkUnfold ==
  /\ Polling("SinkUnfold")
  /\ IF IsSome(self.future)
     THEN LET i == Get(self.future)
          IN  PollFuture(IF Fails(i) THEN Failed
                         ELSE Again([self EXCEPT !.future = None, !.value = Append(@, i)]),
                         Pending)
     ELSE NoPoll(IF Sending THEN Accepted([self EXCEPT !.future = Some(Item)])
                 ELSE FlushedOrClosed(self.value))

(* Flatten as a sink: a future of the sink.  flush and close do not wait   *)
(* for the future.  The try variant's future fails when param is 1.        *)
FlattenSinkNew == [op |-> Op(0), sent |-> 0, state |-> "First"]
HaveSink == Again([self EXCEPT !.state = "Second"])
FlattenedSink(a, OnFuture) ==
  \/ /\ Polling(a) /\ Sending
     /\ IF self.state = "First" THEN PollFuture(OnFuture, Pending)
        ELSE PollReady(1, Goto("send", self), Pending)
  \/ At(a, "send") /\ StartSend(1, Item, Accepted(self))
  \/ /\ Polling(a) /\ ~Sending
     /\ IF self.state = "First" THEN NoPoll(FlushedOrClosed(Got))
        ELSE PollFlushOrClose(1, FlushedOrClosed(Got), Pending)
FlattenSink == FlattenedSink("FlattenSink", HaveSink)
TryFlattenSink == FlattenedSink("TryFlattenSink", IF param = 1 THEN Failed ELSE HaveSink)

------------------------------------------------------------------------------
(* The futures that send                                                   *)
FeedNew == [item |-> Some(1)]
FeedItem(a, OnSent) ==
  \/ Polling(a) /\ IsSome(self.item) /\ PollReady(1, Goto("send", self), Pending)
  \/ At(a, "send") /\ StartSend(1, Get(self.item), OnSent)
Feed == \/ FeedItem("Feed", Goto("sent", [item |-> None]))
        \/ At("Feed", "sent") /\ NoPoll(Finish(Ok(Got), self))

(* Once the item is gone a further poll goes on with the flush.            *)
SendItem == \/ FeedItem("Send", Again([item |-> None]))
            \/ /\ Polling("Send") /\ ~IsSome(self.item)
               /\ PollFlushOrClose(1, Finish(Ok(Got), self), Pending)

SendAllNew == [buffered |-> None]
SendAll ==
  \/ /\ Polling("SendAll")
     /\ IF IsSome(self.buffered) THEN PollReady(1, Goto("send", self), Pending)
        ELSE PollFuse(1, LAMBDA i : IF kind[i] = "err" THEN Failed
                                    ELSE Again([buffered |-> Some(i)]),
                      Goto("flush", self), Goto("flush", self))
  \/ At("SendAll", "send") /\ StartSend(1, Get(self.buffered), Again([buffered |-> None]))
  \/ /\ At("SendAll", "flush")
     /\ PollFlushOrClose(1, IF done[1] THEN Finish(Ok(Got), self) ELSE Pending, Pending)
==============================================================================
