---------------------------- MODULE StreamAdapters ----------------------------
(***************************************************************************)
(* futures-util/src/stream/stream: the adapters that turn a stream into a  *)
(* stream.  For each one: its fields when it is new, its poll_next, its    *)
(* size_hint and its is_terminated.  Fields have the names of the source,  *)
(* except that `fut` is the pending future, kept as the item it was made   *)
(* from, and `item` the pending item.                                      *)
(***************************************************************************)
EXTENDS StreamScript

Yes(i) == kind[i] = "yes"     \* the predicate, or Some of an Option
F(i) == <<"f", i>>            \* what a mapping closure makes of an item

Cleared == [self EXCEPT !.fut = None, !.item = None]
Store(i) == Again([self EXCEPT !.fut = Some(i), !.item = Some(i)])
MakeFuture(i) == Again([self EXCEPT !.fut = Some(i)])
YieldItem(i) == Yield(i, self)

------------------------------------------------------------------------------
MapNew == [stream |-> 1]
Map == /\ Polling("Map")
       /\ PollSource(1, LAMBDA i : Yield(F(i), self), End, Pending)
MapHint == SourceHint(1)
MapTerminated == SourceTerminated(1)

EnumerateNew == [count |-> 0]
Enumerate ==
  /\ Polling("Enumerate")
  /\ PollSource(1, LAMBDA i : Yield(<<self.count, i>>, [self EXCEPT !.count = @ + 1]), End, Pending)
EnumerateHint == SourceHint(1)
EnumerateTerminated == SourceTerminated(1)

FilterNew == [fut |-> None, item |-> None]
Filter ==
  /\ Polling("Filter")
  /\ FutureOrSource(
       LAMBDA i : IF Yes(i) THEN Yield(Get(self.item), Cleared) ELSE Again(Cleared), Store, End)
(* BUG: the pending item is not counted.                                   *)
FilterHintWithoutItem == Hint(0, Len(left[1]))
FilterHint == Hint(0, Len(left[1]) + Count(self.item))
FilterTerminated == ~IsSome(self.fut) /\ SourceTerminated(1)

FilterMapNew == [fut |-> None]
FilterMap ==
  /\ Polling("FilterMap")
  /\ FutureOrSource(
       LAMBDA i : LET s == [self EXCEPT !.fut = None]
                  IN  IF Yes(i) THEN Yield(F(i), s) ELSE Again(s),
       MakeFuture, End)
FilterMapHint == Hint(0, Len(left[1]) + Count(self.fut))
FilterMapTerminated == ~IsSome(self.fut) /\ SourceTerminated(1)

ThenNew == [fut |-> None]
Then ==
  /\ Polling("Then")
  /\ FutureOrSource(LAMBDA i : Yield(F(i), [self EXCEPT !.fut = None]), MakeFuture, End)
ThenHint == Exactly(Len(left[1]) + Count(self.fut))
ThenTerminated == ~IsSome(self.fut) /\ SourceTerminated(1)

------------------------------------------------------------------------------
(* UnfoldState: Future while `fut` is Some, Empty when `empty`, else the   *)
(* Value `state`.  The closure adds the item to the state, or gives None.  *)
ScanNew == [fut |-> None, state |-> 0, empty |-> FALSE]
Scan ==
  /\ Polling("Scan")
  /\ IF self.empty THEN NoPoll(End)
     ELSE FutureOrSource(
            LAMBDA i : IF Yes(i)
                       THEN Yield(self.state + i, [self EXCEPT !.fut = None, !.state = @ + i])
                       ELSE Return("none", [self EXCEPT !.fut = None, !.empty = TRUE]),
            MakeFuture, End)
ScanHint == IF self.empty THEN Exactly(0) ELSE SourceHint(1)
ScanTerminated == self.empty \/ (~IsSome(self.fut) /\ SourceTerminated(1))

TakeWhileNew == [fut |-> None, item |-> None, done_taking |-> FALSE]
TakeWhile ==
  /\ Polling("TakeWhile")
  /\ IF self.done_taking THEN NoPoll(End)
     ELSE FutureOrSource(
            LAMBDA i : IF Yes(i) THEN Yield(Get(self.item), Cleared)
                       ELSE Return("none", [Cleared EXCEPT !.done_taking = TRUE]),
            Store, End)
TakeWhileHint == IF self.done_taking THEN Exactly(0)
                 ELSE Hint(0, Len(left[1]) + Count(self.item))
TakeWhileTerminated == self.done_taking \/ (~IsSome(self.item) /\ SourceTerminated(1))

SkipWhileNew == [fut |-> None, item |-> None, done_skipping |-> FALSE]
SkipWhile ==
  /\ Polling("SkipWhile")
  /\ IF self.done_skipping THEN PollSource(1, YieldItem, End, Pending)
     ELSE FutureOrSource(
            LAMBDA i : IF Yes(i) THEN Again(Cleared)
                       ELSE Yield(Get(self.item), [Cleared EXCEPT !.done_skipping = TRUE]),
            Store, End)
SkipWhileHint == IF self.done_skipping THEN SourceHint(1)
                 ELSE Hint(0, Len(left[1]) + Count(self.item))
SkipWhileTerminated == ~IsSome(self.item) /\ SourceTerminated(1)

TakeNew == [remaining |-> param]
Take ==
  /\ Polling("Take")
  /\ IF self.remaining = 0 THEN NoPoll(End)
     ELSE PollSource(1, LAMBDA i : Yield(i, [self EXCEPT !.remaining = @ - 1]),
                        Return("none", [self EXCEPT !.remaining = 0]), Pending)
TakeHint == LET n == Len(left[1])
            IN  Exactly(IF n < self.remaining THEN n ELSE self.remaining)
TakeTerminated == self.remaining = 0 \/ SourceTerminated(1)

SkipNew == [remaining |-> param]
Skip ==
  /\ Polling("Skip")
  /\ PollSource(1, LAMBDA i : IF self.remaining > 0
                              THEN Again([self EXCEPT !.remaining = @ - 1])
                              ELSE Yield(i, self),
                   End, Pending)
SkipHint == LET n == Len(left[1]) - self.remaining
            IN  Exactly(IF n > 0 THEN n ELSE 0)
SkipTerminated == SourceTerminated(1)

------------------------------------------------------------------------------
(* The stopping future is `fut`; take_future() takes it out and sets free. *)
TakeUntilNew == [fut |-> Some(0), fut_result |-> None, free |-> FALSE]
TakeUntilStopped == ~self.free /\ ~IsSome(self.fut)
TakeUntil ==
  \/ /\ Polling("TakeUntil")
     /\ IF IsSome(self.fut)
        THEN PollFuture(Goto("stream", [self EXCEPT !.fut = None, !.fut_result = self.fut]),
                        Goto("stream", self))
        ELSE NoPoll(Goto("stream", self))
  \/ /\ At("TakeUntil", "stream")
     /\ IF TakeUntilStopped THEN NoPoll(End)
        ELSE PollSource(1, YieldItem, Return("none", [self EXCEPT !.fut = None]), Pending)
TakeUntilHint == IF TakeUntilStopped THEN Exactly(0) ELSE SourceHint(1)
TakeUntilTerminated == TakeUntilStopped

(* TakeUntil::take_future                                                  *)
TakeFuture ==
  /\ At("TakeUntil", "idle") /\ call.res # "none" /\ IsSome(self.fut)
  /\ self' = [self EXCEPT !.fut = None, !.free = TRUE]
  /\ armed' = armed \ {Fut}
  /\ UNCHANGED <<sourceVars, pends, call, out>>

Fuse == Polling("Fuse") /\ PollFuse(1, YieldItem, End, Pending)
FuseHint == IF done[1] THEN Exactly(0) ELSE SourceHint(1)
FuseTerminated == done[1]

CatchUnwindNew == [caught_unwind |-> FALSE]
(* A "no" item is one whose poll_next panics.                              *)
CatchUnwind ==
  /\ Polling("CatchUnwind")
  /\ IF self.caught_unwind THEN NoPoll(End)
     ELSE PollSource(1, LAMBDA i : IF Yes(i) THEN Yield(<<"ok", i>>, self)
                                   ELSE Yield(<<"err", i>>, [self EXCEPT !.caught_unwind = TRUE]),
                        End, Pending)
CatchUnwindHint == IF self.caught_unwind THEN Exactly(0) ELSE SourceHint(1)
CatchUnwindTerminated == self.caught_unwind \/ SourceTerminated(1)
==============================================================================
