-------------------------- MODULE AdapterProperties ---------------------------
(***************************************************************************)
(* What an adapter promises: the list it yields, that it respects the      *)
(* streams and futures it polls, what size_hint and is_terminated say, and that it  *)
(* gets to the end.                                                        *)
(***************************************************************************)
EXTENDS Adapters

Apply(f(_), s) == [k \in DOMAIN s |-> f(s[k])]

(* The first items, as long as the predicate holds.                        *)
Leading(s, P(_)) ==
  LET stops == {k \in DOMAIN s : ~P(s[k])}
  IN  IF stops = {} THEN s ELSE SubSeq(s, 1, (CHOOSE k \in stops : \A j \in stops : k <= j) - 1)
Trailing(s, P(_)) == SubSeq(s, Len(Leading(s, P)) + 1, Len(s))
First(s, n) == SubSeq(s, 1, IF n < Len(s) THEN n ELSE Len(s))

Blocks(s, n) == [k \in 1 .. (Len(s) + n - 1) \div n |->
                   First(SubSeq(s, (k - 1) * n + 1, Len(s)), n)]

(* The items up to the first Err in full blocks, the rest of them with it, *)
(* and so on.                                                              *)
TryBlocks(s, n) ==
  LET Add(acc, i) ==
        CASE kind[i] = "err" -> [full |-> Append(acc.full, Err(<<acc.part, i>>)), part |-> << >>]
          [] Len(acc.part) + 1 = n ->
               [full |-> Append(acc.full, Ok(Append(acc.part, i))), part |-> << >>]
          [] OTHER -> [acc EXCEPT !.part = Append(@, i)]
      end == S!FoldLeft(Add, [full |-> << >>, part |-> << >>], s)
  IN  end.full \o (IF end.part = << >> THEN << >> ELSE <<Ok(end.part)>>)

NotNo(i) == kind[i] # "no"
IsErr(i) == kind[i] = "err"
Passed(i) == IF kind[i] \in {"err", "fail"} THEN Err(i) ELSE Ok(i)
PassedMapped(i) == IF kind[i] \in {"err", "fail"} THEN Err(i) ELSE Ok(F(i))

(* Results of consumers: Ok of x unless an item fails; what the first item *)
(* that decides says, or its Err.                                          *)
FirstBad == First(Trailing(Input(1), LAMBDA i : kind[i] \notin {"err", "fail"}), 1)
AllOrErr(x) == IF FirstBad = << >> THEN Ok(x) ELSE Err(FirstBad[1])
UpTo(Decides(_), x, otherwise) ==
  LET rest == Trailing(Input(1), LAMBDA i : ~Decides(i))
  IN  IF rest = << >> THEN Ok(otherwise) ELSE IF IsErr(rest[1]) THEN Err(rest[1]) ELSE Ok(x)

(* What the futures and streams over a closure make of an item.            *)
FnExpected(i) ==
  CASE adapter \in {"MapOk", "StreamMapOk"} -> IF Fails(i) THEN Err(i) ELSE Ok(<<"f", i>>)
    [] adapter \in {"MapErr", "StreamMapErr"} -> IF Fails(i) THEN Err(<<"g", i>>) ELSE Ok(i)
    [] adapter = "OkInto" -> IF Fails(i) THEN Err(i) ELSE Ok(<<"into", i>>)
    [] adapter \in {"ErrInto", "StreamErrInto"} -> IF Fails(i) THEN Err(<<"into", i>>) ELSE Ok(i)
    [] adapter = "MapOkOrElse" -> IF Fails(i) THEN <<"g", i>> ELSE <<"f", i>>
    [] adapter = "UnwrapOrElse" -> IF Fails(i) THEN <<"g", i>> ELSE i
    [] adapter = "MapInto" -> <<"into", Passed(i)>>
    [] adapter = "NeverError" -> Ok(Passed(i))
    [] OTHER -> Passed(i)

(* The closure of an inspect was called with each item that it is about.   *)
SeenCorrect ==
  LET passing == SelectSeq(First(Input(1), Len(out)),
                           LAMBDA i : CASE adapter \in {"FutureInspectOk", "StreamInspectOk"} -> ~Fails(i)
                                        [] adapter \in {"FutureInspectErr", "StreamInspectErr"} -> Fails(i)
                                        [] adapter \in {"FutureInspect", "StreamInspect"} -> TRUE
                                        [] OTHER -> FALSE)
  IN  self.seen = IF adapter \in {"FutureInspect", "StreamInspect"} THEN Apply(Passed, passing)
                  ELSE passing

(* The list that the adapter's documentation promises.                     *)
Expected ==
  LET in == Input(1)
      n == len[1]
  IN  CASE adapter \in {"Map", "Then"} -> Apply(F, in)
        [] adapter = "Enumerate" -> Apply(LAMBDA i : <<i - 1, i>>, in)
        [] adapter = "Filter" -> SelectSeq(in, Yes)
        [] adapter = "FilterMap" -> Apply(F, SelectSeq(in, Yes))
        [] adapter = "Scan" -> Apply(LAMBDA i : (i * (i + 1)) \div 2, Leading(in, Yes))
        [] adapter = "TakeWhile" -> Leading(in, Yes)
        [] adapter = "SkipWhile" -> Trailing(in, Yes)
        [] adapter = "Take" -> First(in, param)
        [] adapter = "Skip" -> SubSeq(in, param + 1, n)
        [] adapter = "CatchUnwind" ->
             Apply(Ok, Leading(in, Yes)) \o Apply(Err, First(Trailing(in, Yes), 1))
        [] adapter = "Chunks" -> Blocks(in, param)
        [] adapter = "Zip" -> [k \in 1 .. (IF n < len[2] THEN n ELSE len[2]) |-> <<k, n + k>>]
        [] adapter \in {"Chain", "Select", "SelectAll", "StreamSelect"} -> in \o Input(2)
        [] adapter \in {"Flatten", "FlattenUnordered"} -> S!FlattenSeq(Apply(Items, in))
        [] adapter = "Cycle" ->
             [k \in 1 .. (IF n = 0 THEN 0 ELSE Missing) |-> ((k - 1) % n) + 1]
        [] adapter = "PollImmediate" -> Apply(LAMBDA i : <<"ready", i>>, in)
        [] adapter = "Once" -> <<F(1)>>
        [] adapter = "AndThen" -> Apply(PassedMapped, in)
        [] adapter = "OrElse" -> Apply(LAMBDA i : CASE Yes(i) -> Ok(i) [] IsErr(i) -> Ok(F(i))
                                                    [] OTHER -> Err(i), in)
        [] adapter = "TryFilter" -> Apply(Passed, SelectSeq(in, NotNo))
        [] adapter = "TryFilterMap" -> Apply(PassedMapped, SelectSeq(in, NotNo))
        [] adapter = "TryTakeWhile" -> Apply(Passed, Leading(in, NotNo))
        [] adapter = "TrySkipWhile" ->
             Apply(Passed, SelectSeq(Leading(in, NotNo), LAMBDA i : ~Yes(i)))
               \o Apply(LAMBDA i : IF IsErr(i) THEN Err(i) ELSE Ok(i), Trailing(in, NotNo))
        [] adapter \in {"TryFlatten", "TryFlattenUnordered"} ->
             S!FlattenSeq(Apply(LAMBDA i : IF IsErr(i) THEN <<Err(i)>> ELSE TryItems(i), in))
        [] adapter = "TryChunks" -> TryBlocks(in, param)
        [] adapter \in {"TryBuffered", "TryBufferUnordered"} -> Apply(Passed, in)
        [] adapter = "TryUnfold" ->
             Apply(Ok, Leading(in, Yes)) \o Apply(Err, First(Trailing(in, Yes), 1))
        [] adapter = "All" -> <<\A i \in 1 .. n : Yes(i)>>
        [] adapter = "Any" -> <<\E i \in 1 .. n : Yes(i)>>
        [] adapter = "TryAll" -> <<UpTo(LAMBDA i : ~Yes(i), FALSE, TRUE)>>
        [] adapter = "TryAny" -> <<UpTo(NotNo, TRUE, FALSE)>>
        [] adapter \in {"Collect", "Fold", "ForEach"} -> <<in>>
        [] adapter \in {"TryCollect", "TryFold", "TryForEach"} -> <<AllOrErr(in)>>
        [] adapter = "Concat" -> <<S!FlattenSeq(Apply(Items, in))>>
        [] adapter = "TryConcat" -> <<AllOrErr(S!FlattenSeq(Apply(Items, in)))>>
        [] adapter = "Count" -> <<n>>
        [] adapter = "Unzip" -> <<<<in, Apply(F, in)>>>>
        [] adapter = "IntoFuture" -> <<First(in, 1)>>
        [] adapter = "ForEachConcurrent" -> <<1 .. n>>
        [] adapter = "FutureMap" -> <<F(1)>>
        [] adapter = "FutureCatchUnwind" -> <<IF Yes(1) THEN Ok(1) ELSE Err(1)>>
        [] adapter = "OptionFuture" -> <<in>>
        [] adapter = "FuturePollImmediateStream" -> <<<<"ready", 1>>>>
        [] adapter = "FutureFlatten" -> <<2>>
        [] adapter = "FutureTryFlatten" -> <<IF Fails(1) THEN Err(1) ELSE Passed(2)>>
        [] adapter = "TryFlattenErr" -> <<IF Fails(1) THEN Passed(2) ELSE Ok(1)>>
        [] adapter = "TryFlattenStream" -> IF param = 1 THEN <<Err(0)>> ELSE Apply(Passed, in)
        [] adapter \in {"Join", "JoinAll", "JoinAllBig", "JoinMacro"} -> <<in>>
        [] adapter = "TryJoinAllBig" -> <<AllOrErr(in)>>
        [] adapter = "With" -> Apply(F, in)
        [] adapter \in FnFutures \cup FnStreams -> Apply(FnExpected, in)
        [] adapter = "FuturesOrdered" -> self.want
        [] adapter = "EitherFuture" -> <<param>>
        [] adapter \in {"EitherStream", "EitherReader"} -> Input(param)
        [] adapter = "IoChain" -> in \o Input(2)
        [] adapter = "IoTake" -> First(in, param)
        [] adapter = "IntoAsyncRead" ->
             S!FlattenSeq(Apply(Items, Leading(in, LAMBDA i : ~IsErr(i))))
               \o Apply(Err, First(Trailing(in, LAMBDA i : ~IsErr(i)), 1))
        [] adapter = "IntoSink" -> S!FlattenSeq(Apply(Items, in))
        [] adapter = "WithFlatMap" ->
             Apply(LAMBDA r : r[2], SelectSeq(S!FlattenSeq(Apply(TryItems, in)),
                                              LAMBDA r : r[1] = "ok"))
        [] OTHER -> in

(* Nothing more may come: the stream has returned None, or says it will.   *)
(* (An OptionFuture without a future says so before its first poll.)       *)
Complete == Idle /\ (call.res = "none" \/ (IsTerminated /\ adapter # "OptionFuture"))

Matches(list, expected) == IF Complete THEN list = expected ELSE S!IsPrefix(list, expected)
Part(P(_)) == SelectSeq(out, P)

(* The items inside the chunks of ready_chunks and try_ready_chunks.       *)
Unchunked ==
  IF adapter = "ReadyChunks" THEN S!FlattenSeq(out)
  ELSE S!FlattenSeq(Apply(LAMBDA c : IF c[1] = "ok" THEN c[2] ELSE Append(c[2][1], c[2][2]), out))
ChunksFit ==
  \A k \in DOMAIN out :
    CASE adapter = "ReadyChunks" -> Len(out[k]) \in 1 .. param
      [] out[k][1] = "ok" -> Len(out[k][2]) \in 1 .. param /\ \A i \in S!ToSet(out[k][2]) : Yes(i)
      [] OTHER -> Len(out[k][2][1]) < param /\ IsErr(out[k][2][2])

(* What reaches the sink, or what ran, and whether the result tells.       *)
ForwardCorrect ==
  \A k \in DOMAIN out :
    LET whole == Leading(Input(1), Yes)
    IN  IF out[k][1] = "ok" THEN param = 0 /\ out[k][2] = Input(1) /\ whole = Input(1)
        ELSE IF param = 0 THEN out[k][2] = whole /\ whole # Input(1)
        ELSE S!IsPrefix(out[k][2], whole)
ConcurrentCorrect ==
  \A k \in DOMAIN out :
    IF out[k][1] = "ok" THEN out[k][2] = 1 .. len[1] /\ \A i \in 1 .. len[1] : Yes(i)
    ELSE Fails(out[k][2][1]) /\ \A i \in out[k][2][2] : Yes(i)

(* try_join: all outputs, or the Err of a future that failed.              *)
TryJoinCorrect(x) == IF x[1] = "ok" THEN x = Ok(Input(1)) /\ FirstBad = << >> ELSE Fails(x[2])

(* select: an output, and with it exactly the futures that have not        *)
(* finished, which the caller may poll on.                                 *)
HandedBack(i, rest) ==
  i \notin Unfinished /\ S!ToSet(rest) = Unfinished /\ Len(rest) = Cardinality(Unfinished)
SelectCorrect(x) ==
  CASE adapter = "FutureSelect" -> HandedBack(x[1], x[2])
    [] adapter = "FutureSelectAll" -> HandedBack(x[1], x[3]) /\ x[2] = x[1] - 1
    [] adapter = "TrySelect" -> HandedBack(x[2][1], x[2][2]) /\ x[1] = Passed(x[2][1])[1]
    [] x[1] = "ok" -> HandedBack(x[2][1], x[2][2]) /\ Yes(x[2][1])
    [] OTHER -> Unfinished = {} /\ \A i \in 1 .. len[1] : Fails(i)

(* A loop over select!: the branch of every future that has finished has   *)
(* run, once; the loop is left, or panics, when all have.                  *)
SelectMacroCorrect ==
  LET ready == Part(LAMBDA x : x[1] = "ready")
  IN  /\ S!IsInjective(ready)
      /\ S!ToSet(ready) = {<<"ready", i>> : i \in 1 .. len[1] \ Unfinished}
      /\ Complete => Unfinished = {}
      /\ <<"panic">> \in S!ToSet(out) => Unfinished = {}

(* poll_immediate: None exactly if the future has not finished.            *)
ImmediateCorrect(x) == x = IF 1 \in Unfinished THEN None ELSE Some(1)

(* A sink: what reaches a sink below is a beginning of what is to be sent, *)
(* and after a flush or close that did not fail, all of what the adapter   *)
(* has accepted until then.                                                *)
FirstSent(n) == CASE adapter \in {"WithFlatMap", "IntoSink"} -> SelectSeq(Expected, LAMBDA x : x[1] <= n)
                  [] OTHER -> SubSeq(Expected, 1, n)
SinkCorrect ==
  /\ \A s \in 1 .. 2 : S!IsPrefix(sink[s].got, Expected)
  /\ \A k \in DOMAIN out : out[k] = <<"err">> \/ out[k][3] = FirstSent(out[k][2])
  /\ Complete => out[Len(out)] = <<"err">> \/ out[Len(out)][2] = len[1]
SenderCorrect ==
  /\ S!IsPrefix(Got, Leading(Input(1), Yes))
  /\ Complete => out = <<<<"err">>>> \/ (Got = Input(1) /\ out = <<Ok(Got)>>)

(* BufReader: the caller reads on from where it is, the bytes that were    *)
(* buffered included, or from where a seek went.  One that failed goes     *)
(* nowhere.                                                                *)
SeekCorrect ==
  IF self.sought = None THEN Matches(out, Input(1))
  ELSE LET k == Get(self.sought)
           to == IF k.whence = "start" THEN k.offset ELSE k.at + k.offset
       IN  /\ Matches(out, First(Input(1), k.at) \o SubSeq(Input(1), to + 1, len[1]))
           /\ k.res \in {None, Some(to)}

(* The futures that read: no byte is lost, not even by an Err; b is what   *)
(* the caller's buffer has got.  A String stays UTF-8, and if it was not   *)
(* dropped it has what was read, or nothing new if that is not UTF-8.      *)
NothingLost(b) == b \o left[1] = Before \o Input(1)
TextKept(b) == Utf8(b) /\ (NothingLost(b) \/ ~Utf8(First(Input(1), len[1] - Len(left[1]))))
ReadCorrect(x) ==
  LET all == Before \o Input(1)
      line == Before \o UpToDelim(Input(1))
  IN  CASE adapter = "ReadExact" -> /\ x[2] \o left[1] = Input(1)
                                    /\ x[1] = "ok" => Len(x[2]) = param
        [] adapter = "FillBuf" -> /\ left[1] = Input(1) /\ S!IsPrefix(x[2], Input(1))
                                  /\ x[1] = "ok" /\ x[2] = << >> => Input(1) = << >>
        [] adapter = "ReadToEnd" -> IF x[1] = "ok" THEN x = <<"ok", len[1], all>> ELSE NothingLost(x[2])
        [] adapter = "ReadUntil" ->
             IF x[1] = "ok" THEN x = <<"ok", Len(line) - 1, line>> ELSE NothingLost(x[2])
        [] adapter = "ReadToString" ->
             IF x[1] = "ok" THEN x = <<"ok", len[1], all>> /\ Utf8(all) ELSE TextKept(x[2])
        [] x[1] = "ok" -> x = <<"ok", Len(line) - 1, line>> /\ Utf8(line)
        [] x[1] = "dropped" -> x[2] = Before
        [] OTHER -> TextKept(x[2])

(* The lines before the first Err: the input cut at the newlines.          *)
AllLines ==
  LET Add(acc, i) == IF kind[i] = "no" THEN [full |-> Append(acc.full, Ok(Pop(acc.part, "cr"))),
                                                 part |-> << >>]
                     ELSE [acc EXCEPT !.part = Append(@, i)]
      end == S!FoldLeft(Add, [full |-> << >>, part |-> << >>], Input(1))
  IN  end.full \o (IF end.part = << >> THEN << >> ELSE <<Ok(end.part)>>)
LinesCorrect ==
  LET good == Leading(out, LAMBDA x : x # <<"err">>)
  IN  S!IsPrefix(good, AllLines) /\ (Complete /\ good = out => out = AllLines)

(* The futures that write and copy: what has been written and what the     *)
(* caller still has, or the reader, or the BufReader of copy, are all the  *)
(* bytes.  Ok means all were written, and an Aborted that abort was called.*)
WriteCorrect(x) ==
  IF x[1] = "ok" THEN Got = Input(1) /\ x[2] = len[1]
  ELSE Got \o x[2] = Input(1) /\ (x[1] = "aborted" => self.aborted)

(* BufWriter and LineWriter: what was written and what is buffered are     *)
(* just the bytes that the caller was told are written, whatever failed on *)
(* the way; a flush or a close leaves nothing behind; the buffer never     *)
(* outgrows its capacity, which write_to_buffer_unchecked relies on.       *)
WriterCorrect ==
  /\ Got \o From(self.buf, self.written) = First(Input(1), self.sent) \/ ~Idle
  /\ Len(self.buf) <= param
  /\ \A k \in DOMAIN out : out[k][3] = First(Input(1), out[k][2])
  /\ Complete => out[Len(out)][2] = len[1]

(* try_flatten_unordered: the items of each inner stream and its Err, and  *)
(* an Err of the base stream.                                              *)
TryFlattened ==
  \A i \in 1 .. len[1] :
    Matches(Part(LAMBDA r : r[2][1] = i), IF IsErr(i) THEN <<BaseErr(i)>> ELSE TryItems(i))

(* The one output satisfies P.                                             *)
OneOutput(P(_)) == /\ Complete => out # << >>
                   /\ \A k \in DOMAIN out : P(out[k])

(* The adapter yields what its documentation says: the whole list once it  *)
(* has returned None or claims to be terminated, a beginning of it before, *)
(* whatever was Pending on the way.  select and select_all keep the order  *)
(* of each stream, try_buffered that of the items and that of the errors,  *)
(* the unordered buffers yield everything once, and the ready chunks are   *)
(* the items in order, cut anywhere.  forward has sent every item before   *)
(* the first failure, and reports it.  try_join gives an Err of one that   *)
(* failed, and the selects hand back just the futures that go on.  Sinks   *)
(* pass everything on, in order, by the time a flush or close is Ready.    *)
(* Readers and writers lose and invent no byte, whatever was cut short or  *)
(* failed; flatten_unordered leaves no stream behind whose waker was       *)
(* called during a poll; a loop over select! runs every branch once.       *)
OutputCorrect ==
  CASE adapter \in {"BufferUnordered", "TryBufferUnordered"} ->
         LET got == S!ToSet(out)
             all == S!ToSet(Expected)
         IN  Len(out) = Cardinality(got) /\ got \subseteq all /\ (Complete => got = all)
    [] adapter = "FlattenUnordered" ->
         \A i \in 1 .. len[1] : Matches(Part(LAMBDA x : x[1] = i), Items(i))
    [] adapter = "TryFlattenUnordered" -> TryFlattened
    [] adapter \in {"Select", "SelectAll", "StreamSelect"} ->
         /\ Matches(Part(LAMBDA i : i <= len[1]), Input(1))
         /\ Matches(Part(LAMBDA i : i > len[1]), Input(2))
    [] adapter = "TryBuffered" ->
         /\ Matches(Part(LAMBDA r : IsErr(r[2])), Apply(Err, SelectSeq(Input(1), IsErr)))
         /\ Matches(Part(LAMBDA r : ~IsErr(r[2])),
                    Apply(Passed, SelectSeq(Input(1), LAMBDA i : ~IsErr(i))))
    [] adapter \in {"ReadyChunks", "TryReadyChunks"} -> Matches(Unchunked, Input(1)) /\ ChunksFit
    [] adapter = "TakeUntil" -> IF IsSome(self.fut_result) THEN S!IsPrefix(out, Input(1))
                                ELSE Matches(out, Input(1))
    [] adapter \in Forwards -> ForwardCorrect
    [] adapter = "TryForEachConcurrent" -> ConcurrentCorrect
    [] adapter \in {"TryJoin", "TryJoinAll", "TryJoinMacro"} -> OneOutput(TryJoinCorrect)
    [] adapter \in {"FutureSelect", "TrySelect"} \cup NonEmpty -> OneOutput(SelectCorrect)
    [] adapter \in SelectMacros -> SelectMacroCorrect
    [] adapter \in FnFutures \cup FnStreams -> Matches(out, Expected) /\ SeenCorrect
    [] adapter \in Sinks \cup {"InterleaveSink", "EitherSink"} -> SinkCorrect
    [] adapter \in Senders -> SenderCorrect
    [] adapter = "BufReader" -> SeekCorrect
    [] adapter \in ReadFutures -> OneOutput(ReadCorrect)
    [] adapter = "Lines" -> LinesCorrect
    [] adapter \in WriteFutures -> OneOutput(WriteCorrect)
    [] adapter \in Writers -> WriterCorrect
    [] adapter = "FuturePollImmediate" -> OneOutput(ImmediateCorrect)
    [] adapter \in {"PollImmediate", "FuturePollImmediateStream"} ->
         Matches(Part(LAMBDA r : r[1] = "ready"), Expected)
    [] OTHER -> Matches(out, Expected)

(* No adapter polls a stream that is not fused again after its None, which *)
(* Stream::poll_next allows to panic or block ("Poll::Ready(None) means    *)
(* that the stream has terminated, and poll_next should not be invoked     *)
(* again"), nor a future after its Ready, and none calls start_send        *)
(* without a Ready of poll_ready ("Each call to this function must be      *)
(* preceded by a successful call to poll_ready").  Nor does the state that *)
(* flatten_unordered shares with its wakers ever let a waker and poll_next *)
(* work on the same thing at once: `late` is also set when poll_next       *)
(* starts, or a waker clears its bits, in the other's turn.  The exception *)
(* is stream_select!, which forgets that a stream has ended when a stream  *)
(* polled after it in the same poll has an item (StreamContract).          *)
NoLatePoll == late => adapter = "StreamSelect"

------------------------------------------------------------------------------
(* How many items may still come: as long as the future of take_until is   *)
(* there it may end the stream, and each Pending is an item to             *)
(* poll_immediate.                                                         *)
Remaining ==
  LET n == Len(left[1])
      due == Len(Expected) - Len(out)
  IN  CASE adapter = "Cycle" -> {Len(Expected)}
        [] adapter = "ReadyChunks" -> {(n + param - 1) \div param, n}
        [] adapter = "TryReadyChunks" -> {Len(TryBlocks(left[1], param)), n}
        [] adapter = "TakeUntil" -> IF IsSome(self.fut_result) THEN {0}
                                    ELSE IF IsSome(self.fut) THEN 0 .. due ELSE {due}
        [] adapter = "PollImmediate" ->
             LET ready == Len(Expected) - Len(Part(LAMBDA r : r[1] = "ready"))
             IN  IF self.stream THEN ready .. ready + pends ELSE {ready}
        [] OTHER -> {due}

HasHint == adapter \notin Consumers \cup Futures \cup FnFutures \cup Sinks \cup Senders \cup Io
                            \cup (TestWrappers \ {"InterleaveStream"})
                            \cup (Eithers \ {"EitherStream"})
LowerHolds == \A n \in Remaining : SizeHint.lo <= n
UpperHolds == \A n \in Remaining : n <= SizeHint.hi

(* The lower bounds that are too high: scan, catch_unwind and take_until   *)
(* pass on the stream's own while a closure's None, a panic or the         *)
(* stopping future is still to cut the stream short.                       *)
CutShort ==
  \/ adapter = "Scan" /\ ~self.empty /\ \E i \in DOMAIN kind : ~Yes(i)
  \/ adapter = "CatchUnwind" /\ ~self.caught_unwind /\ \E i \in DOMAIN kind : ~Yes(i)
  \/ adapter = "TakeUntil" /\ IsSome(self.fut)

(* The upper bounds that are too low: scan does not count the item whose   *)
(* future is pending, poll_immediate not the items that stand for Pending. *)
Uncounted ==
  \/ adapter = "Scan" /\ IsSome(self.fut)
  \/ adapter = "PollImmediate" /\ self.stream

(* Between two polls size_hint bounds the items that still come, with what *)
(* the adapter holds back counted, if the stream's own size_hint does:     *)
(* both bounds, except the one that CutShort or Uncounted names.           *)
HintsHold == Idle /\ HasHint => (LowerHolds \/ CutShort) /\ (UpperHolds \/ Uncounted)

(* Neither FusedStream nor FusedFuture.                                    *)
NotFused == {"TryBuffered", "TryBufferUnordered", "TryUnfold", "TryConcat", "TryForEach",
             "FutureCatchUnwind", "FuturePollImmediateStream", "TryJoin", "TrySelect", "StreamSelect",
             "InterleaveSink", "InterleaveReader", "Limited", "EitherSink", "EitherReader"}
              \cup SelectMacros \cup JoinMacros \cup ManyFutures \cup NonEmpty \cup Sinks
              \cup Senders \cup Io

(* Futures that say after a Ready that they may be polled again:           *)
(* try_collect and the forwards after an Err, poll_immediate after a None. *)
FutureGoesOn ==
  \/ adapter \in Forwards \cup {"TryCollect"} /\ out[1][1] = "err"
  \/ adapter = "FuturePollImmediate" /\ out = <<None>>

(* Streams that say so after a None: zip while one of the two goes on,     *)
(* take_until when its future was taken out, and try_take_while and        *)
(* try_skip_while when a predicate has failed.                             *)
StreamGoesOn ==
  \/ adapter = "Zip" /\ done # [s \in 1 .. 2 |-> TRUE]
  \/ adapter = "TakeUntil" /\ self.free
  \/ adapter \in {"TryTakeWhile", "TrySkipWhile"} /\ \E i \in DOMAIN kind : Fails(i)

SaysEnd == Idle /\ call.res = "none" /\ adapter \notin NotFused

(* After None a stream is terminated, and a future after Ready, except the *)
(* ones that StreamGoesOn and FutureGoesOn name.                           *)
EndIsTerminated == SaysEnd => IsTerminated \/ FutureGoesOn \/ StreamGoesOn

(* What size_hint() and is_terminated() say between two polls is true, but *)
(* for one bound of scan, catch_unwind, take_until and poll_immediate and  *)
(* the is_terminated of the four streams and three futures named above.    *)
QueriesHold == HintsHold /\ EndIsTerminated

(* What the traits say of every stream.  It does not hold: the exceptions  *)
(* of NoLatePoll and QueriesHold are the streams that break it.  size_hint *)
(* bounds what still comes ("the implementation should provide a correct   *)
(* estimation, because otherwise it would be a violation of the trait's    *)
(* protocol", Stream::size_hint); a stream is terminated after its None    *)
(* ("debug_assert!(self.stream.is_terminated())", SelectNextSome); and no  *)
(* stream is polled after its None ("poll_next should not be invoked       *)
(* again", Stream::poll_next).                                             *)
StreamContract ==
  /\ Idle /\ HasHint => LowerHolds /\ UpperHolds
  /\ SaysEnd => IsTerminated \/ FutureGoesOn
  /\ ~late

(* A task that polls whenever it is woken gets to the end of the stream:   *)
(* an adapter returns Pending only when something it polled has promised   *)
(* to wake the task.                                                       *)
Completes == <>Ended
==============================================================================
