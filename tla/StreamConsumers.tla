--------------------------- MODULE StreamConsumers ----------------------------
(***************************************************************************)
(* futures-util/src/stream: the futures that consume a stream.  Their      *)
(* Ready ends the call like None, with the output in out.  Conventions as  *)
(* in StreamAdapters and TryStreamAdapters; `ran` holds the items whose    *)
(* future has finished, `sent` those the sink has taken.                   *)
(***************************************************************************)
EXTENDS TryStreamAdapters

AllNew == [fut |-> None, done |-> FALSE]
Decided == [self EXCEPT !.fut = None, !.done = TRUE]
All == /\ Polling("All")
       /\ FutureOrSource(LAMBDA i : IF Yes(i) THEN Again(NoFuture) ELSE Finish(FALSE, Decided),
                         MakeFuture, Finish(TRUE, Decided))
AllTerminated == self.done /\ ~IsSome(self.fut)

AnyNew == [fut |-> None, done |-> FALSE]
Any == /\ Polling("Any")
       /\ FutureOrSource(LAMBDA i : IF Yes(i) THEN Finish(TRUE, Decided) ELSE Again(NoFuture),
                         MakeFuture, Finish(FALSE, Decided))
AnyTerminated == self.done /\ ~IsSome(self.fut)

OrErrDecided(i) == IF kind[i] = "err" THEN Finish(Err(i), Decided) ELSE MakeFuture(i)

TryAllNew == [fut |-> None, done |-> FALSE]
TryAll == /\ Polling("TryAll")
          /\ FutureOrSource(
               LAMBDA i : IF Yes(i) THEN Again(NoFuture) ELSE Finish(Ok(FALSE), Decided),
               OrErrDecided, Finish(Ok(TRUE), Decided))
TryAllTerminated == self.done /\ ~IsSome(self.fut)

TryAnyNew == [fut |-> None, done |-> FALSE]
TryAny == /\ Polling("TryAny")
          /\ FutureOrSource(
               LAMBDA i : IF Yes(i) THEN Finish(Ok(TRUE), Decided) ELSE Again(NoFuture),
               OrErrDecided, Finish(Ok(FALSE), Decided))
TryAnyTerminated == self.done /\ ~IsSome(self.fut)

------------------------------------------------------------------------------
CollectNew == [collection |-> << >>]
Collect ==
  /\ Polling("Collect")
  /\ PollSource(1, LAMBDA i : Again([self EXCEPT !.collection = Append(@, i)]),
                   Finish(self.collection, CollectNew), Pending)
CollectTerminated == SourceTerminated(1)

TryCollectNew == [items |-> << >>]
TryCollect ==
  /\ Polling("TryCollect")
  /\ PollSource(1, LAMBDA i : IF kind[i] = "err" THEN Finish(Err(i), self)
                              ELSE Again([self EXCEPT !.items = Append(@, i)]),
                   Finish(Ok(self.items), TryCollectNew), Pending)
TryCollectTerminated == SourceTerminated(1)

(* The items are collections; the first is kept and the others extend it.  *)
ConcatNew == [accum |-> None]
Extended(i) == [accum |-> Some(IF IsSome(self.accum) THEN Get(self.accum) \o Items(i) ELSE Items(i))]
AccumOrDefault == IF IsSome(self.accum) THEN Get(self.accum) ELSE << >>
Concat == /\ Polling("Concat")
          /\ PollSource(1, LAMBDA i : Again(Extended(i)), Finish(AccumOrDefault, ConcatNew), Pending)
ConcatTerminated == ~IsSome(self.accum) /\ SourceTerminated(1)

TryConcatNew == [accum |-> None]
TryConcat ==
  /\ Polling("TryConcat")
  /\ PollSource(1, LAMBDA i : IF kind[i] = "err" THEN Finish(Err(i), self) ELSE Again(Extended(i)),
                   Finish(Ok(AccumOrDefault), TryConcatNew), Pending)

CountNew == [count |-> 0]
CountItems ==
  /\ Polling("Count")
  /\ PollSource(1, LAMBDA i : Again([self EXCEPT !.count = @ + 1]), Finish(self.count, self), Pending)
CountTerminated == SourceTerminated(1)

(* The items are pairs.                                                    *)
UnzipNew == [left |-> << >>, right |-> << >>]
Unzip ==
  /\ Polling("Unzip")
  /\ PollSource(1, LAMBDA i : Again([left |-> Append(self.left, i), right |-> Append(self.right, F(i))]),
                   Finish(<<self.left, self.right>>, UnzipNew), Pending)
UnzipTerminated == SourceTerminated(1)

(* StreamFuture: the next item, and the stream back.                       *)
IntoFutureNew == [stream |-> TRUE]
IntoFuture ==
  /\ Polling("IntoFuture")
  /\ PollSource(1, LAMBDA i : Finish(Some(i), [stream |-> FALSE]),
                   Finish(None, [stream |-> FALSE]), Pending)
IntoFutureTerminated == ~self.stream

------------------------------------------------------------------------------
(* The accumulator is inside the future while there is one.                *)
FoldNew == [fut |-> None, accum |-> Some(<< >>), inside |-> << >>]
Folding(i) == Again([fut |-> Some(i), accum |-> None, inside |-> Append(Get(self.accum), i)])
Folded == [fut |-> None, accum |-> Some(self.inside), inside |-> << >>]
Spent == [fut |-> None, accum |-> None, inside |-> << >>]
Fold == /\ Polling("Fold")
        /\ FutureOrSource(LAMBDA i : Again(Folded), Folding, Finish(Get(self.accum), Spent))
FoldTerminated == ~IsSome(self.accum) /\ ~IsSome(self.fut)

TryFoldNew == [fut |-> None, accum |-> Some(<< >>), inside |-> << >>]
TryFold ==
  /\ Polling("TryFold")
  /\ FutureOrSource(LAMBDA i : IF Fails(i) THEN Finish(Err(i), Spent) ELSE Again(Folded),
                    Folding, Finish(Ok(Get(self.accum)), Spent))
TryFoldTerminated == ~IsSome(self.accum) /\ ~IsSome(self.fut)

ForEachNew == [fut |-> None, ran |-> << >>]
RanOne(i) == Again([fut |-> None, ran |-> Append(self.ran, i)])
ForEach == /\ Polling("ForEach")
           /\ FutureOrSource(RanOne, MakeFuture, Finish(self.ran, self))
ForEachTerminated == ~IsSome(self.fut) /\ SourceTerminated(1)

TryForEachNew == [fut |-> None, ran |-> << >>]
TryForEach ==
  /\ Polling("TryForEach")
  /\ FutureOrSource(LAMBDA i : IF Fails(i) THEN Finish(Err(i), self) ELSE RanOne(i),
                    MakeFuture, Finish(Ok(self.ran), self))

------------------------------------------------------------------------------
(* The loop goes on as long as it makes progress: a Pending is returned    *)
(* only when both the stream, if there is room, and the futures gave it.   *)
ConcurrentNew == [stream |-> TRUE, futures |-> {}, progress |-> FALSE, ran |-> {}]
PullOne ==
  LET next == [self EXCEPT !.progress = FALSE]
  IN  IF self.stream /\ Room(Cardinality(self.futures))
      THEN PollSource(1, LAMBDA i : Goto("queue", [self EXCEPT !.futures = @ \cup {i},
                                                               !.progress = TRUE]),
                         Goto("queue", [next EXCEPT !.stream = FALSE]), Goto("queue", next))
      ELSE NoPoll(Goto("queue", next))

OneDone(i) == Again([self EXCEPT !.futures = @ \ {i}, !.ran = @ \cup {i}])
LoopOrPend == IF self.progress THEN Again(self) ELSE Pending

ForEachConcurrent ==
  \/ Polling("ForEachConcurrent") /\ PullOne
  \/ /\ At("ForEachConcurrent", "queue")
     /\ PollSet(self.futures, OneDone,
                IF self.stream THEN LoopOrPend ELSE Finish(self.ran, self), LoopOrPend)
ForEachConcurrentTerminated == ~self.stream /\ self.futures = {}

(* An Err drops the stream and the other futures.                          *)
TryForEachConcurrent ==
  \/ Polling("TryForEachConcurrent") /\ PullOne
  \/ /\ At("TryForEachConcurrent", "queue")
     /\ PollSet(self.futures,
                LAMBDA i : IF Fails(i)
                           THEN Finish(Err(<<i, self.ran>>),
                                       [self EXCEPT !.stream = FALSE, !.futures = {}])
                           ELSE OneDone(i),
                IF self.stream THEN LoopOrPend ELSE Finish(Ok(self.ran), self), LoopOrPend)
TryForEachConcurrentTerminated == ~self.stream /\ self.futures = {}

------------------------------------------------------------------------------
(* Forward and TryForward: one item is in hand while the sink is not       *)
(* ready.  poll_ready fails for a "no", start_send for a "fail", and       *)
(* poll_flush and poll_close when param is 1.                              *)
SinkId == 5
PollSink(OnReady) == \/ Pends(SinkId) /\ Pending
                     \/ Answers(SinkId) /\ UNCHANGED sourceVars /\ OnReady
ForwardNew == [sink |-> TRUE, item |-> None, sent |-> << >>]

ForwardSend ==
  LET i == Get(self.item)
      taken == [self EXCEPT !.item = None]
  IN  IF ~IsSome(self.item) THEN NoPoll(Goto("stream", self))
      ELSE PollSink(CASE kind[i] = "no" -> Finish(Err(self.sent), self)
                      [] Fails(i) -> Finish(Err(self.sent), taken)
                      [] OTHER -> Goto("stream", [taken EXCEPT !.sent = Append(@, i)]))
ForwardPoll(OnItem(_)) == PollFuse(1, OnItem, Goto("close", self), Goto("flush", self))
ForwardClose == PollSink(IF param = 1 THEN Finish(Err(self.sent), self)
                         ELSE Finish(Ok(self.sent), [self EXCEPT !.sink = FALSE]))
ForwardFlush == PollSink(IF param = 1 THEN Finish(Err(self.sent), self) ELSE Pending)
Buffer1(i) == Again([self EXCEPT !.item = Some(i)])

Forward == \/ Polling("Forward") /\ ForwardSend
           \/ At("Forward", "stream") /\ ForwardPoll(Buffer1)
           \/ At("Forward", "close") /\ ForwardClose
           \/ At("Forward", "flush") /\ ForwardFlush
ForwardTerminated == ~self.sink

TryForward ==
  \/ Polling("TryForward") /\ ForwardSend
  \/ /\ At("TryForward", "stream")
     /\ ForwardPoll(LAMBDA i : IF kind[i] = "err" THEN Finish(Err(self.sent), self) ELSE Buffer1(i))
  \/ At("TryForward", "close") /\ ForwardClose
  \/ At("TryForward", "flush") /\ ForwardFlush
TryForwardTerminated == ~self.sink
==============================================================================
