------------------------------- MODULE Macros ---------------------------------
(***************************************************************************)
(* futures-macro: what the code generated by select!, select_biased!,      *)
(* join!, try_join! and stream_select! does when it is polled.             *)
(*                                                                         *)
(* The futures of a select! are fused, and given by name, as in a loop     *)
(* around the select! with a `complete` branch: one output of the adapter  *)
(* is the branch that one turn of the loop runs.  The order of the polls   *)
(* is chosen anew for each poll, before the first future is polled.        *)
(***************************************************************************)
EXTENDS FlattenUnordered

Advanced == [self EXCEPT !.k = @ + 1]
StartWith(order) == [self EXCEPT !.order = order, !.k = 1]
AllPolled == self.k > Len(self.order)
Turn == self.order[self.k]

(* async_await::shuffle: the generator can give any order.                 *)
Shuffle(n) == S!SetToSeqs(1 .. n)
InGivenOrder(n) == {[i \in 1 .. n |-> i]}

------------------------------------------------------------------------------
(* select! and select_biased!, with a `complete` branch, with a `default`  *)
(* branch too (param 1), or with neither (param 2)                         *)
SelectMacroNew == [order |-> << >>, k |-> 0, any |-> FALSE]

(* The variant of __PrivResult that the poll returns says which branch     *)
(* runs.                                                                   *)
RunBranch(branch) == Yield(branch, SelectMacroNew)

(* The closure of one future: None if it is terminated.                    *)
Poller(i) ==
  IF i \notin Unfinished THEN NoPoll(Again(Advanced))
  ELSE PollOf(i, RunBranch(<<"ready", i>>), Again([Advanced EXCEPT !.any = TRUE]))

(* Pending: with a default branch the poll is not awaited.                 *)
NoneReadyYet == IF param = 1 THEN RunBranch(<<"default">>) ELSE Return("pending", SelectMacroNew)

(* Poll::Ready(Complete), or the panic of a select! without that branch.   *)
NonePolled == /\ self' = SelectMacroNew
              /\ call' = [pc |-> "idle", res |-> "none"]
              /\ out' = IF param = 2 THEN Append(out, <<"panic">>) ELSE out

PollFn(orders) ==
  CASE self.k = 0 -> \E order \in orders : NoPoll(Again(StartWith(order)))
    [] AllPolled -> NoPoll(IF self.any THEN NoneReadyYet ELSE NonePolled)
    [] OTHER -> Poller(Turn)

SelectMacro == Polling("SelectMacro") /\ PollFn(Shuffle(len[1]))
SelectBiased == Polling("SelectBiased") /\ PollFn(InGivenOrder(len[1]))

------------------------------------------------------------------------------
(* join! and try_join!: each future is moved into a MaybeDone              *)
BindFutures == JoinNew

JoinMacro == /\ Polling("JoinMacro")
             /\ IF Polled THEN NoPoll(IfAllDone(TakeOutputs, Gone)) ELSE MaybeDone(self.k)

TryJoinMacro ==
  /\ Polling("TryJoinMacro")
  /\ IF Polled THEN NoPoll(IfAllDone(Ok(TakeOutputs), Gone))
     ELSE TryMaybeDone(self.k, [self EXCEPT !.elems[self.k] = "Gone"])

------------------------------------------------------------------------------
(* stream_select!: a stream that has ended is dropped, but only at the end *)
(* of a poll in which no other has an item.                                *)
StreamSelectNew == [streams |-> {1, 2}, ended |-> {}, order |-> << >>, k |-> 0, any |-> FALSE]
PollOver(streams) == [StreamSelectNew EXCEPT !.streams = streams]

StreamEnum(s) ==
  IF s \notin self.streams THEN NoPoll(Again(Advanced))
  ELSE PollSource(s, LAMBDA i : Yield(i, PollOver(self.streams)),
                     Again([Advanced EXCEPT !.ended = @ \cup {s}]),
                     Again([Advanced EXCEPT !.any = TRUE]))

StreamSelect ==
  /\ Polling("StreamSelect")
  /\ CASE self.k = 0 -> \E order \in Shuffle(2) : NoPoll(Again(StartWith(order)))
       [] AllPolled -> NoPoll(Return(IF self.any THEN "pending" ELSE "none",
                                     PollOver(self.streams \ self.ended)))
       [] OTHER -> StreamEnum(Turn)

StreamSelectHint == Exactly((IF 1 \in self.streams THEN Len(left[1]) ELSE 0)
                            + (IF 2 \in self.streams THEN Len(left[2]) ELSE 0))
==============================================================================
