---------------------------- MODULE StreamBuffers -----------------------------
(***************************************************************************)
(* futures-util/src/stream: the adapters that hold items back, run several *)
(* futures at once or draw from several streams, and the streams made from *)
(* futures.  Conventions as in StreamAdapters.                             *)
(***************************************************************************)
EXTENDS StreamAdapters

(* Peekable: next(), peek() (peek_mut() is the same code) and next_if().   *)
PeekableNew == [peeked |-> None]
Peekable ==
  /\ Polling("Peekable")
  /\ IF IsSome(self.peeked) THEN NoPoll(Yield(Get(self.peeked), [peeked |-> None]))
     ELSE PollFuse(1, YieldItem, End, Pending)

Peek ==
  /\ At("Peekable", "peek")
  /\ IF IsSome(self.peeked) THEN NoPoll(Return("some", self))
     ELSE PollFuse(1, LAMBDA i : Return("some", [peeked |-> Some(i)]), End, Pending)

(* BUG: an item that does not match is not put back.                       *)
NextIfLosesItem ==
  /\ At("Peekable", "next_if")
  /\ LET Test(i) == IF Yes(i) THEN Yield(i, [peeked |-> None]) ELSE Return("some", [peeked |-> None])
     IN  IF IsSome(self.peeked) THEN NoPoll(Test(Get(self.peeked)))
         ELSE PollFuse(1, Test, End, Pending)

NextIf ==
  /\ At("Peekable", "next_if")
  /\ LET Test(i) == IF Yes(i) THEN Yield(i, [peeked |-> None]) ELSE Return("some", [peeked |-> Some(i)])
     IN  IF IsSome(self.peeked) THEN NoPoll(Test(Get(self.peeked)))
         ELSE PollFuse(1, Test, End, Pending)

PeekableHint == Exactly(Len(left[1]) + Count(self.peeked))
PeekableTerminated == ~IsSome(self.peeked) /\ done[1]

------------------------------------------------------------------------------
ChunksNew == [items |-> << >>]
Chunks ==
  /\ Polling("Chunks")
  /\ PollFuse(1, LAMBDA i : LET items == Append(self.items, i)
                            IN  IF Len(items) >= param THEN Yield(items, [items |-> << >>])
                                ELSE Again([items |-> items]),
                 IF self.items = << >> THEN End ELSE Yield(self.items, [items |-> << >>]),
                 Pending)
ChunksHint == LET chunk_len == IF self.items = << >> THEN 0 ELSE 1
              IN  Hint(Len(left[1]) \div param + chunk_len, Len(left[1]) + chunk_len)
ChunksTerminated == done[1] /\ self.items = << >>

(* `items` is a local variable of poll_next: empty between calls.          *)
ReadyChunksNew == [items |-> << >>]
ReadyChunks ==
  /\ Polling("ReadyChunks")
  /\ LET Flush(res) == IF self.items = << >> THEN Return(res, self)
                       ELSE Yield(self.items, [items |-> << >>])
     IN  PollFuse(1, LAMBDA i : LET items == Append(self.items, i)
                                IN  IF Len(items) >= param THEN Yield(items, [items |-> << >>])
                                    ELSE Again([items |-> items]),
                     Flush("none"), Flush("pending"))
ReadyChunksHint == Hint(Len(left[1]) \div param, Len(left[1]))
ReadyChunksTerminated == done[1]

------------------------------------------------------------------------------
ZipNew == [queued1 |-> None, queued2 |-> None]
Zip ==
  \/ /\ Polling("Zip")
     /\ IF IsSome(self.queued1) THEN NoPoll(Goto("second", self))
        ELSE PollFuse(1, LAMBDA i : Goto("second", [self EXCEPT !.queued1 = Some(i)]),
                         Goto("second", self), Goto("second", self))
  \/ /\ At("Zip", "second")
     /\ IF IsSome(self.queued2) THEN NoPoll(Goto("decide", self))
        ELSE PollFuse(2, LAMBDA i : Goto("decide", [self EXCEPT !.queued2 = Some(i)]),
                         Goto("decide", self), Goto("decide", self))
  \/ /\ At("Zip", "decide")
     /\ NoPoll(IF IsSome(self.queued1) /\ IsSome(self.queued2)
               THEN Yield(<<Get(self.queued1), Get(self.queued2)>>, ZipNew)
               ELSE IF done[1] \/ done[2] THEN End ELSE Pending)
ZipHint == LET x == Len(left[1]) + Count(self.queued1)
               y == Len(left[2]) + Count(self.queued2)
           IN  Exactly(IF x < y THEN x ELSE y)
ZipTerminated == done[1] /\ done[2]

ChainNew == [first |-> TRUE]
Chain ==
  /\ Polling("Chain")
  /\ IF self.first THEN PollSource(1, YieldItem, Again([first |-> FALSE]), Pending)
     ELSE PollSource(2, YieldItem, End, Pending)
ChainHint == IF self.first THEN Exactly(Len(left[1]) + Len(left[2])) ELSE SourceHint(2)
ChainTerminated == ~self.first /\ SourceTerminated(2)

(* A stream of streams: item i is a stream of two items, or an empty one.  *)
Items(i) == IF Yes(i) THEN <<<<i, 1>>, <<i, 2>>>> ELSE << >>
FlattenNew == [next |-> None]
Flatten ==
  /\ Polling("Flatten")
  /\ IF IsSome(self.next)
     THEN LET items == Get(self.next)
          IN  PollFuture(IF items = << >> THEN Again([next |-> None])
                         ELSE Yield(Head(items), [next |-> Some(Tail(items))]),
                         Pending)
     ELSE PollSource(1, LAMBDA i : Again([next |-> Some(Items(i))]), End, Pending)
FlattenTerminated == ~IsSome(self.next) /\ SourceTerminated(1)

(* The stream starts again from a clone of the original.                   *)
Cycle ==
  \/ Polling("Cycle") /\ PollSource(1, YieldItem, Goto("restart", self), Pending)
  \/ /\ At("Cycle", "restart")
     /\ left' = [left EXCEPT ![1] = Input(1)] /\ done' = [done EXCEPT ![1] = FALSE]
     /\ UNCHANGED <<late, sink, pends, armed>>
     /\ Goto("again", self)
  \/ At("Cycle", "again") /\ PollSource(1, YieldItem, End, Pending)
CycleHint == IF len[1] = 0 THEN Exactly(0) ELSE Hint(Missing, Missing)
CycleTerminated == CycleHint = Exactly(0)

------------------------------------------------------------------------------
(* Up to `param` futures at once, or any number if it is 0.                *)
Room(n) == param = 0 \/ n < param

(* FuturesOrdered: futures with an index, and a heap of outputs that came  *)
(* too early.  terminated is FuturesUnordered::is_terminated.              *)
OrderedNew == [prog |-> {}, heap |-> {}, incoming |-> 0, outgoing |-> 0, terminated |-> FALSE]
OrderedLen == Cardinality(self.prog) + Cardinality(self.heap)
PushBack(i) == [self EXCEPT !.prog = @ \cup {<<self.incoming, i>>}, !.incoming = @ + 1,
                            !.terminated = FALSE]
Due(e) == e[1] = self.outgoing
PollOrdered(OnSome(_, _), OnNone, OnPending) ==
  IF \E e \in self.heap : Due(e)
  THEN LET e == CHOOSE e \in self.heap : Due(e)
       IN  NoPoll(OnSome(e[2], [self EXCEPT !.heap = @ \ {e}, !.outgoing = @ + 1]))
  ELSE PollSet(self.prog,
               LAMBDA e : LET s == [self EXCEPT !.prog = @ \ {e}]
                          IN  IF Due(e)
                              THEN OnSome(e[2], [s EXCEPT !.outgoing = @ + 1])
                              ELSE Goto("queue", [s EXCEPT !.heap = @ \cup {e}]),
               OnNone, OnPending)
PushFront(i) == [self EXCEPT !.prog = @ \cup {<<self.outgoing - 1, i>>}, !.outgoing = @ - 1,
                             !.terminated = FALSE]
OrderedTerminated == self.terminated /\ self.heap = {}

Exhausted == LET s == [self EXCEPT !.terminated = TRUE]
             IN  IF done[1] THEN Return("none", s) ELSE Return("pending", s)

Buffered ==
  \/ /\ Polling("Buffered")
     /\ IF Room(OrderedLen)
        THEN PollFuse(1, LAMBDA i : Again(PushBack(i)), Goto("queue", self), Goto("queue", self))
        ELSE NoPoll(Goto("queue", self))
  \/ /\ At("Buffered", "queue")
     /\ PollOrdered(Yield, Exhausted, Pending)
BufferedHint == Exactly(Len(left[1]) + OrderedLen)
BufferedTerminated == done[1] /\ OrderedTerminated

(* FuturesOrdered with a caller of its own, that pushes the items between  *)
(* two polls: to the front where the answer is "no".  want is what it      *)
(* expects, a deque behind what has come out.                              *)
FuturesOrderedNew == [prog |-> {}, heap |-> {}, incoming |-> 0, outgoing |-> 0, terminated |-> FALSE,
                      want |-> << >>]
FuturesOrdered == /\ adapter = "FuturesOrdered" /\ call.pc \in {"poll", "queue"}
                  /\ PollOrdered(Yield, Return("none", [self EXCEPT !.terminated = TRUE]), Pending)
FuturesOrderedHint == Exactly(OrderedLen)

(* The caller polls a set that it has changed.                             *)
Changed(s) == /\ adapter = "FuturesOrdered" /\ call.pc = "idle"
              /\ self' = s /\ call' = [call EXCEPT !.res = "new"]
              /\ UNCHANGED <<done, late, sink, out>>
PushNext == /\ left[1] # << >> /\ left' = [left EXCEPT ![1] = Tail(@)]
            /\ LET i == Head(left[1])
                   n == Len(out)
               IN  Changed(IF Yes(i) THEN [PushBack(i) EXCEPT !.want = Append(@, i)]
                           ELSE [PushFront(i) EXCEPT
                                   !.want = SubSeq(@, 1, n) \o <<i>> \o SubSeq(@, n + 1, Len(@))])
            /\ UNCHANGED <<pends, armed>>
Clear == /\ pends > 0 /\ pends' = pends - 1
         /\ armed' = armed \ {FutSet} /\ UNCHANGED left
         /\ Changed([FuturesOrderedNew EXCEPT !.want = out])

UnorderedNew == [prog |-> {}, terminated |-> FALSE]
Push(i) == [self EXCEPT !.prog = @ \cup {i}, !.terminated = FALSE]

BufferUnordered ==
  \/ /\ Polling("BufferUnordered")
     /\ IF Room(Cardinality(self.prog))
        THEN PollFuse(1, LAMBDA i : Again(Push(i)), Goto("queue", self), Goto("queue", self))
        ELSE NoPoll(Goto("queue", self))
  \/ /\ At("BufferUnordered", "queue")
     /\ PollSet(self.prog, LAMBDA i : Yield(i, [self EXCEPT !.prog = @ \ {i}]), Exhausted, Pending)
BufferUnorderedHint == Exactly(Len(left[1]) + Cardinality(self.prog))
BufferUnorderedTerminated == self.terminated /\ done[1]

------------------------------------------------------------------------------
(* select and select_with_strategy with the round-robin strategy: `side`   *)
(* is polled next, `finished` the sides that have ended.                   *)
SelectNew == [side |-> 1, finished |-> {}]
Other(side) == 3 - side
Finished(side) == [self EXCEPT !.finished = @ \cup {side}]
Select ==
  \/ /\ Polling("Select")
     /\ CASE self.finished = {} ->
               LET s == [self EXCEPT !.side = Other(@)]
               IN  PollSource(self.side, LAMBDA i : Yield(i, s),
                              Goto("other", [s EXCEPT !.finished = {self.side}]), Goto("other", s))
          [] self.finished \in {{1}, {2}} ->
               LET side == CHOOSE d \in {1, 2} : d \notin self.finished
               IN  PollSource(side, YieldItem, Return("none", Finished(side)), Pending)
          [] OTHER -> NoPoll(End)
  \/ /\ At("Select", "other")
     /\ PollSource(self.side, YieldItem,
                   IF self.finished # {} THEN Return("none", Finished(self.side))
                   ELSE Return("pending", Finished(self.side)),
                   Pending)
SelectTerminated == self.finished = {1, 2}

(* Each stream is a future of its next item, pushed again after each one.  *)
SelectAllNew == [streams |-> {1, 2}, terminated |-> FALSE]
SelectAll ==
  /\ Polling("SelectAll")
  /\ IF self.streams = {} THEN NoPoll(Return("none", [self EXCEPT !.terminated = TRUE]))
     ELSE \/ Pends(FutSet) /\ Pending
          \/ \E s \in self.streams :
               PollSource(s, YieldItem, Again([self EXCEPT !.streams = @ \ {s}]), FALSE)
SelectAllTerminated == self.terminated

PollImmediateNew == [stream |-> TRUE]
PollImmediate ==
  /\ Polling("PollImmediate")
  /\ IF ~self.stream THEN NoPoll(End)
     ELSE PollSource(1, LAMBDA i : Yield(<<"ready", i>>, self), Return("none", [stream |-> FALSE]),
                     Yield(<<"pending">>, self))
PollImmediateHint == IF self.stream THEN SourceHint(1) ELSE Exactly(0)
PollImmediateTerminated == ~self.stream

------------------------------------------------------------------------------
OnceNew == [fut |-> Some(1)]
Once == /\ Polling("Once")
        /\ IF IsSome(self.fut) THEN PollFuture(Yield(F(1), [fut |-> None]), Pending)
           ELSE NoPoll(End)
OnceHint == Exactly(Count(self.fut))
OnceTerminated == ~IsSome(self.fut)

(* The closure counts up to len[1].  It is called with the state when the  *)
(* stream is polled and there is no future.                                *)
UnfoldNew == [state |-> Some(0), fut |-> None]
Unfold ==
  /\ Polling("Unfold")
  /\ LET s == IF IsSome(self.state) THEN [state |-> None, fut |-> self.state] ELSE self
         n == Get(s.fut)
     IN  PollFuture(IF n < len[1] THEN Yield(n + 1, [state |-> Some(n + 1), fut |-> None])
                    ELSE Return("none", [state |-> None, fut |-> None]),
                    Return("pending", s))
UnfoldTerminated == ~IsSome(self.state) /\ ~IsSome(self.fut)
==============================================================================
