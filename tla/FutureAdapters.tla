--------------------------- MODULE FutureAdapters -----------------------------
(***************************************************************************)
(* futures-util/src/future: the futures made of other futures.  The        *)
(* futures inside are the items 1 .. len[1] of the script; left[1] has     *)
(* those that have not answered Ready yet, and one that has must not be    *)
(* polled again.  kind says whether the output is an Ok ("yes") or an Err  *)
(* ("fail").  Conventions as in StreamConsumers; k is the position of a    *)
(* loop over several futures, 1 between two polls.                         *)
(***************************************************************************)
EXTENDS StreamConsumers

Unfinished == {left[1][k] : k \in DOMAIN left[1]}

(* Future::poll of the i-th future.                                        *)
FutId(i) == 10 + i
PollOf(i, OnReady, OnPending) ==
  \/ Pends(FutId(i)) /\ OnPending
  \/ /\ Answers(FutId(i))
     /\ left' = [left EXCEPT ![1] = SelectSeq(@, LAMBDA j : j # i)]
     /\ late' = (late \/ i \notin Unfinished)
     /\ UNCHANGED <<done, sink>>
     /\ OnReady

------------------------------------------------------------------------------
(* One future                                                              *)
FutureMapNew == [complete |-> FALSE]
FutureMap == Polling("FutureMap") /\ PollOf(1, Finish(F(1), [complete |-> TRUE]), Pending)
FutureMapTerminated == self.complete

(* A finished Fuse answers Pending, and nobody is going to wake for it.    *)
FutureFuseNew == [inner |-> TRUE]
FutureFuse == /\ Polling("FutureFuse")
              /\ IF self.inner THEN PollOf(1, Finish(1, [inner |-> FALSE]), Pending)
                 ELSE NoPoll(Pending)
FutureFuseTerminated == ~self.inner

(* A "no" is a panic in the future's poll.                                 *)
FutureCatchUnwind == /\ Polling("FutureCatchUnwind")
                     /\ PollOf(1, Finish(IF Yes(1) THEN Ok(1) ELSE Err(1), self), Pending)

(* Either: param says which of the two it is.                              *)
EitherNew == [is |-> param]
EitherFuture == Polling("EitherFuture") /\ PollOf(self.is, Finish(self.is, self), Pending)
EitherFutureTerminated == self.is \notin Unfinished
EitherStream == /\ Polling("EitherStream")
                /\ PollSource(self.is, LAMBDA i : Yield(i, self), End, Pending)
EitherStreamHint == SourceHint(self.is)
EitherStreamTerminated == SourceTerminated(self.is)

OptionFutureNew == [inner |-> Input(1)]
OptionFuture == /\ Polling("OptionFuture")
                /\ IF IsSome(self.inner) THEN PollOf(1, Finish(Some(1), self), Pending)
                   ELSE NoPoll(Finish(None, self))
OptionFutureTerminated == IsSome(self.inner) => 1 \notin Unfinished

FuturePollImmediateNew == [future |-> TRUE]
FuturePollImmediate ==
  /\ Polling("FuturePollImmediate")
  /\ PollOf(1, Finish(Some(1), [future |-> FALSE]), Finish(None, self))
FuturePollImmediateStream ==
  /\ Polling("FuturePollImmediateStream")
  /\ IF self.future THEN PollOf(1, Yield(<<"ready", 1>>, [future |-> FALSE]),
                                   Yield(<<"pending">>, self))
     ELSE NoPoll(End)
FuturePollImmediateTerminated == ~self.future

------------------------------------------------------------------------------
(* A future, then the future or stream that it makes                       *)
FlattenFirst == [state |-> "First"]
Second == [state |-> "Second"]
Empty == [state |-> "Empty"]
FlattenedTerminated == self = Empty

FutureFlatten ==
  /\ Polling("FutureFlatten")
  /\ IF self = FlattenFirst THEN PollOf(1, Again(Second), Pending)
     ELSE PollOf(2, Finish(2, Empty), Pending)

FutureTryFlatten ==
  /\ Polling("FutureTryFlatten")
  /\ IF self = FlattenFirst
     THEN PollOf(1, IF Fails(1) THEN Finish(Err(1), Empty) ELSE Again(Second), Pending)
     ELSE PollOf(2, Finish(Output(2), Empty), Pending)

TryFlattenErr ==
  /\ Polling("TryFlattenErr")
  /\ IF self = FlattenFirst
     THEN PollOf(1, IF Fails(1) THEN Again(Second) ELSE Finish(Ok(1), Empty), Pending)
     ELSE PollOf(2, Finish(Output(2), Empty), Pending)

FlattenStream ==
  /\ Polling("FlattenStream")
  /\ CASE self = FlattenFirst -> PollFuture(Again(Second), Pending)
       [] self = Second -> PollSource(1, LAMBDA i : Yield(i, self), Return("none", Empty), Pending)
       [] OTHER -> NoPoll(End)

(* The future fails when param is 1; the Err is the only item then.        *)
TryFlattenStream ==
  /\ Polling("TryFlattenStream")
  /\ CASE self = FlattenFirst ->
            PollFuture(IF param = 1 THEN Yield(Err(0), Empty) ELSE Again(Second), Pending)
       [] self = Second ->
            PollSource(1, LAMBDA i : Yield(Output(i), self), Return("none", Empty), Pending)
       [] OTHER -> NoPoll(End)

------------------------------------------------------------------------------
(* All of several futures, each in a MaybeDone: Future, Done or Gone.      *)
JoinNew == [elems |-> [i \in 1 .. len[1] |-> "Future"], k |-> 1, all_done |-> TRUE]
Gone == [self EXCEPT !.elems = [i \in DOMAIN @ |-> "Gone"]]
Emptied == [self EXCEPT !.elems = << >>]

MaybeDone(i) ==
  LET next == [self EXCEPT !.k = @ + 1]
  IN  IF self.elems[i] = "Future"
      THEN PollOf(i, Again([next EXCEPT !.elems[i] = "Done"]),
                     Again([next EXCEPT !.all_done = FALSE]))
      ELSE NoPoll(Again(next))

(* failed: what is left of the adapter after an Err.                       *)
TryMaybeDone(i, failed) ==
  LET next == [self EXCEPT !.k = @ + 1]
  IN  IF self.elems[i] = "Future"
      THEN PollOf(i, IF Fails(i) THEN Finish(Err(i), failed)
                     ELSE Again([next EXCEPT !.elems[i] = "Done"]),
                     Again([next EXCEPT !.all_done = FALSE]))
      ELSE NoPoll(Again(next))

(* take_output().unwrap() of each.                                         *)
TakeOutputs == [i \in DOMAIN self.elems |-> IF self.elems[i] = "Done" THEN i ELSE "panic"]

Polled == self.k > Len(self.elems)
IfAllDone(x, s) == IF self.all_done THEN Finish(x, s)
                   ELSE Return("pending", [self EXCEPT !.k = 1, !.all_done = TRUE])

Join == /\ Polling("Join")
        /\ IF Polled THEN NoPoll(IfAllDone(TakeOutputs, Gone)) ELSE MaybeDone(self.k)
JoinTerminated == \A i \in DOMAIN self.elems : self.elems[i] \in {"Done", "Gone"}

TryJoin ==
  /\ Polling("TryJoin")
  /\ IF Polled THEN NoPoll(IfAllDone(Ok(TakeOutputs), Gone))
     ELSE TryMaybeDone(self.k, [self EXCEPT !.elems[self.k] = "Gone"])

JoinAll == /\ Polling("JoinAll")
           /\ IF Polled THEN NoPoll(IfAllDone(TakeOutputs, Emptied)) ELSE MaybeDone(self.k)

TryJoinAll == /\ Polling("TryJoinAll")
              /\ IF Polled THEN NoPoll(IfAllDone(Ok(TakeOutputs), Emptied))
                 ELSE TryMaybeDone(self.k, Emptied)

(* More than SMALL futures: a FuturesOrdered, collected.                   *)
JoinAllBigNew == [prog |-> {<<i - 1, i>> : i \in 1 .. len[1]}, heap |-> {}, incoming |-> len[1],
                  outgoing |-> 0, terminated |-> FALSE, collection |-> << >>]
Joined(i, s) == Again([s EXCEPT !.collection = Append(@, i)])
InOrder(a) == At(a, "poll") \/ At(a, "queue")
JoinAllBig == /\ InOrder("JoinAllBig")
              /\ PollOrdered(Joined, Finish(self.collection, self), Pending)
TryJoinAllBig ==
  /\ InOrder("TryJoinAllBig")
  /\ PollOrdered(LAMBDA i, s : IF Fails(i) THEN Finish(Err(i), s) ELSE Joined(i, s),
                 Finish(Ok(self.collection), self), Pending)

------------------------------------------------------------------------------
(* One of several futures; the output has the others, to be polled on      *)
FutureSelectNew == [inner |-> TRUE]
FutureSelect ==
  \/ /\ Polling("FutureSelect")
     /\ PollOf(1, Finish(<<1, <<2>>>>, [inner |-> FALSE]), Goto("second", self))
  \/ /\ At("FutureSelect", "second")
     /\ PollOf(2, Finish(<<2, <<1>>>>, [inner |-> FALSE]), Pending)
FutureSelectTerminated == ~self.inner

(* inner is taken out for the poll and put back for a Pending.             *)
Tagged(i, rest) == IF Fails(i) THEN Err(<<i, rest>>) ELSE Ok(<<i, rest>>)
TrySelect ==
  \/ /\ Polling("TrySelect")
     /\ PollOf(1, Finish(Tagged(1, <<2>>), [inner |-> FALSE]), Goto("second", [inner |-> FALSE]))
  \/ /\ At("TrySelect", "second")
     /\ PollOf(2, Finish(Tagged(2, <<1>>), self), Return("pending", [inner |-> TRUE]))

ManyNew == [inner |-> Input(1), k |-> 1]
SwapRemove(s, k) == [j \in 1 .. Len(s) - 1 |-> IF j = k THEN s[Len(s)] ELSE s[j]]
RemoveIdx(s, k) == SubSeq(s, 1, k - 1) \o SubSeq(s, k + 1, Len(s))
Drained == [inner |-> << >>, k |-> 1]
AtEnd == self.k > Len(self.inner)
TryNextOne == Again([self EXCEPT !.k = @ + 1])
NoneReady == Return("pending", [self EXCEPT !.k = 1])

FutureSelectAll ==
  /\ Polling("FutureSelectAll")
  /\ IF AtEnd THEN NoPoll(NoneReady)
     ELSE LET i == self.inner[self.k]
          IN  PollOf(i, Finish(<<i, self.k - 1, SwapRemove(self.inner, self.k)>>, Drained),
                     TryNextOne)

(* After an Err the others are polled from the first one again.            *)
SelectOk ==
  /\ Polling("SelectOk")
  /\ IF AtEnd THEN NoPoll(NoneReady)
     ELSE LET i == self.inner[self.k]
              rest == RemoveIdx(self.inner, self.k)
          IN  PollOf(i, CASE ~Fails(i) -> Finish(Ok(<<i, rest>>), Drained)
                          [] rest = << >> -> Finish(Err(i), Drained)
                          [] OTHER -> Again([inner |-> rest, k |-> 1]),
                     TryNextOne)
==============================================================================
