-------------------------- MODULE TryStreamAdapters ---------------------------
(***************************************************************************)
(* futures-util/src/stream/try_stream: the adapters over streams of        *)
(* Results.  An item of kind "err" is an Err of the stream itself, one of  *)
(* kind "fail" an Ok whose future answers Err.  Conventions as in          *)
(* StreamAdapters.                                                         *)
(***************************************************************************)
EXTENDS StreamBuffers

Ok(x) == <<"ok", x>>
Err(x) == <<"err", x>>
Fails(i) == kind[i] = "fail"

(* try_poll_next(cx)?: an Err is passed on at once.                        *)
OrErr(i, OnOk(_)) == IF kind[i] = "err" THEN Yield(Err(i), self) ELSE OnOk(i)
TrySource(OnOk(_), OnNone) == PollSource(1, LAMBDA i : OrErr(i, OnOk), OnNone, Pending)
FutureOrTrySource(OnReady(_), OnOk(_), OnNone) ==
  IF IsSome(self.fut) THEN PollFuture(OnReady(Get(self.fut)), Pending) ELSE TrySource(OnOk, OnNone)

NoFuture == [self EXCEPT !.fut = None]

------------------------------------------------------------------------------
AndThenNew == [fut |-> None]
AndThen ==
  /\ Polling("AndThen")
  /\ FutureOrTrySource(LAMBDA i : Yield(IF Fails(i) THEN Err(i) ELSE Ok(F(i)), NoFuture),
                       MakeFuture, End)
AndThenHint == Exactly(Len(left[1]) + Count(self.fut))
AndThenTerminated == ~IsSome(self.fut) /\ SourceTerminated(1)

(* Here a "fail" is an Err of the stream too, from which the closure's     *)
(* future does not recover.                                                *)
OrElseNew == [fut |-> None]
OrElse ==
  /\ Polling("OrElse")
  /\ FutureOrSource(LAMBDA i : Yield(IF Fails(i) THEN Err(i) ELSE Ok(F(i)), NoFuture),
                    LAMBDA i : IF kind[i] \in {"err", "fail"} THEN MakeFuture(i)
                               ELSE Yield(Ok(i), self),
                    End)
OrElseHint == Exactly(Len(left[1]) + Count(self.fut))
OrElseTerminated == ~IsSome(self.fut) /\ SourceTerminated(1)

TryFilterNew == [fut |-> None, item |-> None]
TryFilter ==
  /\ Polling("TryFilter")
  /\ FutureOrTrySource(
       LAMBDA i : IF Yes(i) THEN Yield(Ok(Get(self.item)), Cleared) ELSE Again(Cleared), Store, End)
TryFilterHint == Hint(0, Len(left[1]) + Count(self.fut))
TryFilterTerminated == ~IsSome(self.fut) /\ SourceTerminated(1)

TryFilterMapNew == [fut |-> None]
TryFilterMap ==
  /\ Polling("TryFilterMap")
  /\ FutureOrTrySource(
       LAMBDA i : CASE Fails(i) -> Yield(Err(i), NoFuture)
                    [] Yes(i) -> Yield(Ok(F(i)), NoFuture)
                    [] OTHER -> Again(NoFuture),
       MakeFuture, End)
TryFilterMapHint == Hint(0, Len(left[1]) + Count(self.fut))
TryFilterMapTerminated == ~IsSome(self.fut) /\ SourceTerminated(1)

(* When the predicate's future fails, pending_item keeps the item.         *)
TrySkipWhileNew == [fut |-> None, item |-> None, done_skipping |-> FALSE]
TrySkipWhile ==
  /\ Polling("TrySkipWhile")
  /\ IF self.done_skipping THEN TrySource(LAMBDA i : Yield(Ok(i), self), End)
     ELSE FutureOrTrySource(
            LAMBDA i : CASE Fails(i) -> Yield(Err(i), NoFuture)
                         [] Yes(i) -> Again(Cleared)
                         [] OTHER -> Yield(Ok(Get(self.item)),
                                           [Cleared EXCEPT !.done_skipping = TRUE]),
            Store, End)
TrySkipWhileHint == Hint(0, Len(left[1]) + Count(self.item))
TrySkipWhileTerminated == ~IsSome(self.item) /\ SourceTerminated(1)

TryTakeWhileNew == [fut |-> None, item |-> None, done_taking |-> FALSE]
TryTakeWhile ==
  /\ Polling("TryTakeWhile")
  /\ IF self.done_taking THEN NoPoll(End)
     ELSE FutureOrTrySource(
            LAMBDA i : CASE Fails(i) -> Yield(Err(i), NoFuture)
                         [] Yes(i) -> Yield(Ok(Get(self.item)), Cleared)
                         [] OTHER -> Return("none", [Cleared EXCEPT !.done_taking = TRUE]),
            Store, End)
TryTakeWhileHint == IF self.done_taking THEN Exactly(0)
                    ELSE Hint(0, Len(left[1]) + Count(self.item))
TryTakeWhileTerminated == self.done_taking \/ (~IsSome(self.item) /\ SourceTerminated(1))

------------------------------------------------------------------------------
(* The inner stream of a "fail" item ends with an Err.                     *)
TryItems(i) == CASE Yes(i) -> <<Ok(<<i, 1>>), Ok(<<i, 2>>)>>
                 [] Fails(i) -> <<Ok(<<i, 1>>), Err(<<i, 2>>)>>
                 [] OTHER -> << >>
TryFlattenNew == [next |-> None]
TryFlatten ==
  /\ Polling("TryFlatten")
  /\ IF IsSome(self.next)
     THEN LET items == Get(self.next)
          IN  PollFuture(IF items = << >> THEN Again([next |-> None])
                         ELSE Yield(Head(items), [next |-> Some(Tail(items))]),
                         Pending)
     ELSE TrySource(LAMBDA i : Again([next |-> Some(TryItems(i))]), End)
TryFlattenTerminated == ~IsSome(self.next) /\ SourceTerminated(1)

(* TryChunksError holds the items that came before the Err.                *)
TryChunksNew == [items |-> << >>]
TryChunks ==
  /\ Polling("TryChunks")
  /\ PollFuse(1, LAMBDA i : LET items == Append(self.items, i)
                            IN  CASE kind[i] = "err" -> Yield(Err(<<self.items, i>>), [items |-> << >>])
                                  [] Len(items) >= param -> Yield(Ok(items), [items |-> << >>])
                                  [] OTHER -> Again([items |-> items]),
                 IF self.items = << >> THEN End ELSE Yield(Ok(self.items), [items |-> << >>]),
                 Pending)
TryChunksHint == ChunksHint
TryChunksTerminated == done[1] /\ self.items = << >>

TryReadyChunksNew == [items |-> << >>]
TryReadyChunks ==
  /\ Polling("TryReadyChunks")
  /\ LET Flush(res) == IF self.items = << >> THEN Return(res, self)
                       ELSE Yield(Ok(self.items), [items |-> << >>])
     IN  PollFuse(1, LAMBDA i : LET items == Append(self.items, i)
                                IN  CASE kind[i] = "err" -> Yield(Err(<<self.items, i>>), [items |-> << >>])
                                      [] Len(items) >= param -> Yield(Ok(items), [items |-> << >>])
                                      [] OTHER -> Again([items |-> items]),
                     Flush("none"), Flush("pending"))
TryReadyChunksHint == Hint(Len(left[1]) \div param, Len(left[1]))
TryReadyChunksTerminated == done[1]

------------------------------------------------------------------------------
(* An Err of the stream overtakes the futures in progress.                 *)
Output(i) == IF Fails(i) THEN Err(i) ELSE Ok(i)

TryBuffered ==
  \/ /\ Polling("TryBuffered")
     /\ IF Room(OrderedLen)
        THEN PollFuse(1, LAMBDA i : OrErr(i, LAMBDA j : Again(PushBack(j))),
                         Goto("queue", self), Goto("queue", self))
        ELSE NoPoll(Goto("queue", self))
  \/ /\ At("TryBuffered", "queue")
     /\ PollOrdered(LAMBDA i, s : Yield(Output(i), s), Exhausted, Pending)

TryBufferUnordered ==
  \/ /\ Polling("TryBufferUnordered")
     /\ IF Room(Cardinality(self.prog))
        THEN PollFuse(1, LAMBDA i : OrErr(i, LAMBDA j : Again(Push(j))),
                         Goto("queue", self), Goto("queue", self))
        ELSE NoPoll(Goto("queue", self))
  \/ /\ At("TryBufferUnordered", "queue")
     /\ PollSet(self.prog, LAMBDA i : Yield(Output(i), [self EXCEPT !.prog = @ \ {i}]),
                Exhausted, Pending)

(* After an Err there is neither a state nor a future: the stream ends.    *)
TryUnfoldNew == [state |-> Some(0), fut |-> None]
TryUnfold ==
  /\ Polling("TryUnfold")
  /\ LET s == IF IsSome(self.state) THEN [state |-> None, fut |-> self.state] ELSE self
         n == Get(s.fut)
         empty == [state |-> None, fut |-> None]
     IN  IF ~IsSome(s.fut) THEN NoPoll(End)
         ELSE PollFuture(CASE n = len[1] -> Return("none", empty)
                           [] Fails(n + 1) -> Yield(Err(n + 1), empty)
                           [] OTHER -> Yield(Ok(n + 1), [state |-> Some(n + 1), fut |-> None]),
                         Return("pending", s))
==============================================================================
