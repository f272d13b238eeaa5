------------------------------- MODULE Adapters -------------------------------
(***************************************************************************)
(* A task that drives one stream adapter, one future made of a stream or   *)
(* of futures, one sink made of a sink, one reader or writer made of       *)
(* another, the code that one of the macros generates, or one of the       *)
(* wrappers for tests: it polls until None, or until the future is Ready,  *)
(* again after a Pending when it is woken (now and then without having     *)
(* been woken), and makes the other calls some adapters have.  The         *)
(* behaviours cover every adapter, every script of answers, and every      *)
(* place where something answers Pending.                                  *)
(***************************************************************************)
EXTENDS TestHelpers

CONSTANTS MaxLen,    \* bound: items of a stream
          MaxCycle   \* bound: items that are taken out of Cycle

ASSUME BoundsAssumption == MaxPends \in Nat /\ MaxLen \in Nat /\ MaxCycle \in Nat

vars == <<scriptVars, envVars, notified, self, call, out>>

Predicates == {"Filter", "FilterMap", "Scan", "TakeWhile", "SkipWhile", "CatchUnwind",
               "Peekable", "Flatten"}
Plain == {"Map", "Enumerate", "Then", "TakeUntil", "Fuse", "Cycle", "PollImmediate", "Unfold"}
Counted == {"Take", "Skip", "Buffered", "BufferUnordered"}
Chunked == {"Chunks", "ReadyChunks"}
TwoStreams == {"Zip", "Chain", "Select", "SelectAll", "StreamSelect"}
TryPredicates == {"TryFilterMap", "TrySkipWhile", "TryTakeWhile", "TryFlatten"}
TryBuffers == {"TryBuffered", "TryBufferUnordered"}
TryChunked == {"TryChunks", "TryReadyChunks"}

PlainConsumers == {"Collect", "Count", "Unzip", "IntoFuture", "Fold", "ForEach"}
Deciders == {"All", "Any", "Concat"}
TryDeciders == {"TryAll", "TryAny", "TryConcat"}
FailingConsumers == {"TryFold", "TryForEach", "TryForEachConcurrent"}
Forwards == {"Forward", "TryForward"}
Consumers == PlainConsumers \cup Deciders \cup TryDeciders \cup FailingConsumers \cup Forwards
               \cup {"TryCollect", "ForEachConcurrent"}

OneFuture == {"FutureMap", "FutureFuse", "FutureCatchUnwind", "FuturePollImmediate",
              "FuturePollImmediateStream"}
TwoFutures == {"FutureFlatten", "Join", "FutureSelect"}
TwoTryFutures == {"FutureTryFlatten", "TryFlattenErr", "TryJoin", "TrySelect"}
ManyFutures == {"JoinAll", "JoinAllBig", "TryJoinAll", "TryJoinAllBig"}
NonEmpty == {"FutureSelectAll", "SelectOk"}
FlattenedStreams == {"FlattenStream", "TryFlattenStream"}
SelectMacros == {"SelectMacro", "SelectBiased"}
JoinMacros == {"JoinMacro", "TryJoinMacro"}
Futures == SelectMacros \cup JoinMacros \cup OneFuture \cup TwoFutures \cup TwoTryFutures
             \cup ManyFutures \cup NonEmpty \cup FlattenedStreams \cup {"OptionFuture"}

PlainSinks == {"SinkBuffer", "Fanout", "SinkMapErr", "FlattenSink", "TryFlattenSink"}
Sinks == PlainSinks \cup {"With", "WithFlatMap", "SinkUnfold", "IntoSink"}
Senders == {"Feed", "Send", "SendAll"}

ByteReaders == {"BufReader", "IoChain", "IoTake", "IntoAsyncRead"}
ReadFutures == {"ReadExact", "ReadToEnd", "ReadToString", "ReadUntil", "ReadLine", "FillBuf"}
WriteFutures == {"WriteAll", "WriteAllVectored", "CopyBuf", "Copy", "CopyBufAbortable"}
Writers == {"BufWriter", "LineWriter"}
Io == ByteReaders \cup ReadFutures \cup WriteFutures \cup Writers \cup {"Lines"}

TestWrappers == {"InterleaveFuture", "InterleaveStream", "InterleaveSink", "InterleaveReader",
                 "PendingOnce", "Limited"}

Eithers == {"EitherFuture", "EitherStream", "EitherSink", "EitherReader"}

Unordered == {"FlattenUnordered", "TryFlattenUnordered"}

AllAdapters == Unordered \cup Predicates \cup Plain \cup Counted \cup Chunked \cup TwoStreams
                 \cup {"Once"} \cup TryPredicates \cup TryBuffers \cup TryChunked
                 \cup {"AndThen", "OrElse", "TryFilter", "TryUnfold"} \cup Consumers \cup Futures
                 \cup Sinks \cup Senders \cup Io
                 \cup FnFutures \cup FnStreams \cup TestWrappers \cup Eithers
                 \cup {"FuturesOrdered"}

(* The scripts of an adapter: its number, the lengths of its streams and   *)
(* the answers that matter to it.                                          *)
Params(a) == CASE a \in Counted \cup TryBuffers \cup {"ForEachConcurrent", "TryForEachConcurrent",
                                                    "SinkBuffer", "IoTake", "ReadExact",
                                                    "BufWriter"}
                               \cup SelectMacros ->
                      0 .. 2
               [] a \in Forwards \cup Unordered
                          \cup {"TryFlattenStream", "TryFlattenSink", "CopyBufAbortable"} -> 0 .. 1
               [] a \in Chunked \cup TryChunked \cup Eithers
                          \cup {"BufReader", "LineWriter", "Limited"} -> 1 .. 2
               [] OTHER -> {0}

Lengths(a) == {l \in (0 .. MaxLen) \X (0 .. MaxLen) :
                 /\ a \notin TwoStreams \cup {"IoChain", "EitherStream", "EitherReader"} => l[2] = 0
                 /\ a \in Unordered \cup SelectMacros \cup JoinMacros \cup FnStreams \cup Eithers
                           \cup {"IoChain", "StreamSelect"} =>
                      l[1] <= 2 /\ l[2] <= 2
                 /\ a \in OneFuture \cup FnFutures
                           \cup {"Once", "Feed", "Send", "InterleaveFuture", "PendingOnce"} => l[1] = 1
                 /\ a \in TwoFutures \cup TwoTryFutures \cup {"EitherFuture"} => l[1] = 2
                 /\ a \in NonEmpty => l[1] > 0
                 /\ a = "OptionFuture" => l[1] <= 1}

Answered(a) == CASE a \in Predicates \cup Deciders \cup {"FutureCatchUnwind", "With", "ReadUntil",
                                                              "LineWriter", "IntoSink",
                                                              "FlattenUnordered", "FuturesOrdered"} ->
                      {"yes", "no"}
                 [] a = "ReadToString" -> {"yes", "bad"}
                 [] a = "ReadLine" -> {"yes", "no", "bad"}
                 [] a = "Lines" -> {"yes", "no", "cr", "bad"}
                 [] a \in TryPredicates \cup {"TryForward"} -> {"yes", "no", "err", "fail"}
                 [] a \in {"AndThen", "OrElse", "TryFlattenUnordered"} \cup TryBuffers ->
                      {"yes", "err", "fail"}
                 [] a \in TryChunked \cup {"TryCollect", "SendAll"} -> {"yes", "err"}
                 [] a \in TryDeciders \cup {"TryFilter", "IntoAsyncRead"} -> {"yes", "no", "err"}
                 [] a \in FailingConsumers \cup TwoTryFutures \cup FnFutures \cup FnStreams
                            \cup {"TryUnfold", "TryJoinAll", "TryJoinAllBig", "SelectOk",
                                  "TryFlattenStream", "SinkUnfold", "TryJoinMacro"} -> {"yes", "fail"}
                 [] a \in {"Forward", "WithFlatMap"} -> {"yes", "no", "fail"}
                 [] OTHER -> {"yes"}

New == CASE adapter = "Enumerate" -> EnumerateNew
         [] adapter = "Filter" -> FilterNew
         [] adapter = "FilterMap" -> FilterMapNew
         [] adapter = "Then" -> ThenNew
         [] adapter = "Scan" -> ScanNew
         [] adapter = "TakeWhile" -> TakeWhileNew
         [] adapter = "SkipWhile" -> SkipWhileNew
         [] adapter = "Take" -> TakeNew
         [] adapter = "Skip" -> SkipNew
         [] adapter = "TakeUntil" -> TakeUntilNew
         [] adapter = "CatchUnwind" -> CatchUnwindNew
         [] adapter = "Peekable" -> PeekableNew
         [] adapter = "Chunks" -> ChunksNew
         [] adapter = "ReadyChunks" -> ReadyChunksNew
         [] adapter = "Zip" -> ZipNew
         [] adapter = "Chain" -> ChainNew
         [] adapter = "Flatten" -> FlattenNew
         [] adapter \in {"Buffered", "TryBuffered"} -> OrderedNew
         [] adapter \in {"BufferUnordered", "TryBufferUnordered"} -> UnorderedNew
         [] adapter = "Select" -> SelectNew
         [] adapter = "SelectAll" -> SelectAllNew
         [] adapter = "PollImmediate" -> PollImmediateNew
         [] adapter = "Once" -> OnceNew
         [] adapter = "Unfold" -> UnfoldNew
         [] adapter = "AndThen" -> AndThenNew
         [] adapter = "OrElse" -> OrElseNew
         [] adapter = "TryFilter" -> TryFilterNew
         [] adapter = "TryFilterMap" -> TryFilterMapNew
         [] adapter = "TrySkipWhile" -> TrySkipWhileNew
         [] adapter = "TryTakeWhile" -> TryTakeWhileNew
         [] adapter = "TryFlatten" -> TryFlattenNew
         [] adapter = "TryChunks" -> TryChunksNew
         [] adapter = "TryReadyChunks" -> TryReadyChunksNew
         [] adapter = "TryUnfold" -> TryUnfoldNew
         [] adapter = "All" -> AllNew
         [] adapter = "Any" -> AnyNew
         [] adapter = "TryAll" -> TryAllNew
         [] adapter = "TryAny" -> TryAnyNew
         [] adapter = "Collect" -> CollectNew
         [] adapter = "TryCollect" -> TryCollectNew
         [] adapter = "Concat" -> ConcatNew
         [] adapter = "TryConcat" -> TryConcatNew
         [] adapter = "Count" -> CountNew
         [] adapter = "Unzip" -> UnzipNew
         [] adapter = "IntoFuture" -> IntoFutureNew
         [] adapter = "Fold" -> FoldNew
         [] adapter = "TryFold" -> TryFoldNew
         [] adapter = "ForEach" -> ForEachNew
         [] adapter = "TryForEach" -> TryForEachNew
         [] adapter \in {"ForEachConcurrent", "TryForEachConcurrent"} -> ConcurrentNew
         [] adapter \in Forwards -> ForwardNew
         [] adapter = "FutureMap" -> FutureMapNew
         [] adapter = "FutureFuse" -> FutureFuseNew
         [] adapter = "OptionFuture" -> OptionFutureNew
         [] adapter \in {"FuturePollImmediate", "FuturePollImmediateStream"} -> FuturePollImmediateNew
         [] adapter \in {"FutureFlatten", "FutureTryFlatten", "TryFlattenErr"}
                          \cup FlattenedStreams -> FlattenFirst
         [] adapter \in {"Join", "TryJoin", "JoinAll", "TryJoinAll"} -> JoinNew
         [] adapter \in {"JoinAllBig", "TryJoinAllBig"} -> JoinAllBigNew
         [] adapter \in {"FutureSelect", "TrySelect"} -> FutureSelectNew
         [] adapter \in NonEmpty -> ManyNew
         [] adapter = "SinkBuffer" -> BufferNew
         [] adapter = "With" -> WithNew
         [] adapter = "WithFlatMap" -> WithFlatMapNew
         [] adapter = "Fanout" -> FanoutNew
         [] adapter = "SinkMapErr" -> SinkMapErrNew
         [] adapter = "SinkUnfold" -> SinkUnfoldNew
         [] adapter \in {"FlattenSink", "TryFlattenSink"} -> FlattenSinkNew
         [] adapter \in {"Feed", "Send"} -> FeedNew
         [] adapter = "SendAll" -> SendAllNew
         [] adapter = "BufReader" -> BufReaderNew
         [] adapter = "IoChain" -> IoChainNew
         [] adapter = "IoTake" -> IoTakeNew
         [] adapter = "IntoAsyncRead" -> IntoAsyncReadNew
         [] adapter = "ReadExact" -> ReadExactNew
         [] adapter = "ReadUntil" -> ReadUntilNew
         [] adapter = "ReadLine" -> ReadLineNew
         [] adapter = "Lines" -> LinesNew
         [] adapter = "FillBuf" -> FillBufNew
         [] adapter = "WriteAll" -> WriteAllNew
         [] adapter = "WriteAllVectored" -> WriteAllVectoredNew
         [] adapter = "CopyBuf" -> CopyBufNew
         [] adapter = "Copy" -> CopyNew
         [] adapter = "CopyBufAbortable" -> CopyBufAbortableNew
         [] adapter = "IntoSink" -> IntoSinkNew
         [] adapter \in {"ReadToEnd", "ReadToString"} -> ReadToEndNew
         [] adapter \in Writers -> BufWriterNew
         [] adapter \in Unordered -> FlattenUnorderedNew
         [] adapter \in SelectMacros -> SelectMacroNew
         [] adapter \in JoinMacros -> BindFutures
         [] adapter = "StreamSelect" -> StreamSelectNew
         [] adapter \in FnFutures \cup FnStreams -> FnNew
         [] adapter = "InterleaveSink" -> InterleaveSinkNew
         [] adapter \in {"InterleaveFuture", "InterleaveStream", "InterleaveReader"} -> InterleaveNew
         [] adapter = "PendingOnce" -> PendingOnceNew
         [] adapter = "EitherSink" -> EitherSinkNew
         [] adapter = "FuturesOrdered" -> FuturesOrderedNew
         [] adapter \in Eithers \ {"EitherSink"} -> EitherNew
         [] OTHER -> MapNew     \* no fields of its own

Init ==
  /\ adapter \in AllAdapters
  /\ param \in Params(adapter)
  /\ len \in Lengths(adapter)
  /\ kind \in [1 .. len[1] + len[2] -> Answered(adapter)]
  /\ left = [s \in 1 .. 2 |-> Input(s)]
  /\ done = [s \in 1 .. 2 |-> FALSE]
  /\ late = FALSE
  /\ sink = NoneSent
  /\ pends = MaxPends
  /\ armed = {}
  /\ notified = FALSE
  /\ self = New
  /\ call = [pc |-> "idle", res |-> "new"]
  /\ out = << >>

------------------------------------------------------------------------------
Idle == call.pc = "idle"
Enough == adapter = "Cycle" /\ Len(out) = MaxCycle
Ended == Idle /\ (call.res = "none" \/ Enough)

(* Adapters over Fuse, or with a flag for their end, may be polled after   *)
(* their None.                                                             *)
Repollable == adapter \in {"Fuse", "Take", "Peekable", "Chunks", "ReadyChunks", "Zip", "Buffered",
                           "BufferUnordered", "Select", "SelectAll", "PollImmediate", "Once",
                           "TryChunks", "TryReadyChunks", "TryBuffered", "TryBufferUnordered",
                           "FutureFuse", "FuturePollImmediateStream", "FlattenStream",
                           "TryFlattenStream", "IntoAsyncRead"} \cup Unordered \cup SelectMacros

(* A call of the task.  The ones it need not make are counted like a       *)
(* Pending answer, so that there are not too many of them.                 *)
Call(pc) == /\ call' = [call EXCEPT !.pc = pc]
            /\ notified' = FALSE
            /\ UNCHANGED <<scriptVars, sourceVars, armed, self, out>>

Extra == pends > 0 /\ pends' = pends - 1

PollNext == /\ Idle /\ ~Enough
            /\ call.res \in {"new", "some"} \/ (call.res = "pending" /\ notified)
            /\ Call("poll") /\ UNCHANGED pends

PollNextUncalledFor == /\ Idle
                       /\ (call.res = "pending" /\ ~notified) \/ (call.res = "none" /\ Repollable)
                       /\ Call("poll") /\ Extra

CallPeekable(pc) == /\ adapter = "Peekable" /\ Idle /\ call.res # "none"
                    /\ Call(pc) /\ Extra

CallTakeFuture == TakeFuture /\ UNCHANGED <<scriptVars, notified>>

(* A ReadLine is dropped before it is Ready.                               *)
CallDropReadLine == DropReadLine /\ UNCHANGED <<scriptVars, envVars, notified>>

(* Futures are pushed, or the set of them is cleared.                      *)
CallPush == (PushNext \/ Clear) /\ UNCHANGED <<scriptVars, notified>>

(* Another thread calls abort().                                           *)
CallAbort == (AbortStore \/ AbortWake) /\ UNCHANGED <<scriptVars, envVars, call, out>>

(* What answered Pending wakes the task, except the stuck reader and       *)
(* writer of a copy that has to be aborted.                                *)
Stuck == adapter = "CopyBufAbortable" /\ param = 1
Wake == \E what \in armed : /\ ~Stuck /\ ~Flattens /\ armed' = armed \ {what}
                            /\ notified' = TRUE
                            /\ UNCHANGED <<scriptVars, sourceVars, pends, self, call, out>>

Adapter == Map \/ Enumerate \/ Filter \/ FilterMap \/ Then \/ Scan \/ TakeWhile \/ SkipWhile
           \/ Take \/ Skip \/ TakeUntil \/ Fuse \/ CatchUnwind

Buffer == Peekable \/ Peek \/ NextIf \/ Chunks \/ ReadyChunks \/ Zip \/ Chain \/ Flatten \/ Cycle
          \/ Buffered \/ FuturesOrdered \/ BufferUnordered \/ Select \/ SelectAll \/ PollImmediate
          \/ Once \/ Unfold

TryAdapter == AndThen \/ OrElse \/ TryFilter \/ TryFilterMap \/ TrySkipWhile \/ TryTakeWhile
              \/ TryFlatten \/ TryChunks \/ TryReadyChunks \/ TryBuffered \/ TryBufferUnordered
              \/ TryUnfold

Consumer == All \/ Any \/ TryAll \/ TryAny \/ Collect \/ TryCollect \/ Concat \/ TryConcat
            \/ CountItems \/ Unzip \/ IntoFuture \/ Fold \/ TryFold \/ ForEach \/ TryForEach
            \/ ForEachConcurrent \/ TryForEachConcurrent \/ Forward \/ TryForward

FutureAdapter == FutureMap \/ FutureFuse \/ FutureCatchUnwind \/ OptionFuture
                 \/ FuturePollImmediate \/ FuturePollImmediateStream \/ FutureFlatten
                 \/ FutureTryFlatten \/ TryFlattenErr \/ FlattenStream \/ TryFlattenStream
                 \/ Join \/ TryJoin \/ JoinAll \/ TryJoinAll \/ JoinAllBig \/ TryJoinAllBig
                 \/ FutureSelect \/ TrySelect \/ FutureSelectAll \/ SelectOk

SinkAdapter == SinkBuffer \/ With \/ WithFlatMap \/ Fanout \/ SinkMapErr \/ SinkUnfold
               \/ FlattenSink \/ TryFlattenSink \/ Feed \/ SendItem \/ SendAll

IoAdapter == BufReader \/ IoChain \/ IoTake \/ IntoAsyncRead \/ ReadExact \/ ReadToEnd
             \/ ReadToString \/ ReadUntil \/ ReadLine \/ Lines \/ FillBuf \/ WriteAll
             \/ WriteAllVectored \/ CopyBuf \/ Copy \/ CopyBufAbortable \/ BufWriter \/ LineWriter
             \/ IntoSink

MacroStep == SelectMacro \/ SelectBiased \/ JoinMacro \/ TryJoinMacro \/ StreamSelect

TestWrapper == InterleaveFuture \/ InterleaveStream \/ InterleaveSink \/ InterleaveReader
               \/ PendingOnce \/ Limited

EitherStep == EitherFuture \/ EitherStream \/ EitherSink \/ EitherReader

CallWaker == WakeByRef /\ UNCHANGED scriptVars

PollStep == /\ \/ Adapter \/ Buffer \/ TryAdapter \/ Consumer \/ FutureAdapter \/ SinkAdapter
               \/ IoAdapter \/ EitherStep \/ MacroStep \/ FnFuture \/ FnStream
            /\ UNCHANGED notified
Step == (PollStep \/ TestWrapper \/ FlattenUnordered \/ TryFlattenUnordered) /\ UNCHANGED scriptVars

Next == \/ PollNext \/ PollNextUncalledFor \/ CallPeekable("peek") \/ CallPeekable("next_if")
        \/ CallTakeFuture \/ CallDropReadLine \/ CallPush \/ CallAbort \/ CallWaker \/ Wake \/ Step

(* poll_next returns, whoever owes a wake-up delivers it, the task polls   *)
(* when it is woken, and a copy is aborted in the end.                     *)
Spec == /\ Init /\ [][Next]_vars
        /\ WF_vars(Step) /\ WF_vars(PollNext) /\ WF_vars(Wake) /\ WF_vars(CallAbort)
        /\ WF_vars(CallWaker)

------------------------------------------------------------------------------
SizeHint == CASE adapter = "Map" -> MapHint
              [] adapter = "Enumerate" -> EnumerateHint
              [] adapter = "Filter" -> FilterHint
              [] adapter = "FilterMap" -> FilterMapHint
              [] adapter = "Then" -> ThenHint
              [] adapter = "Scan" -> ScanHint
              [] adapter = "TakeWhile" -> TakeWhileHint
              [] adapter = "SkipWhile" -> SkipWhileHint
              [] adapter = "Take" -> TakeHint
              [] adapter = "Skip" -> SkipHint
              [] adapter = "TakeUntil" -> TakeUntilHint
              [] adapter = "Fuse" -> FuseHint
              [] adapter = "CatchUnwind" -> CatchUnwindHint
              [] adapter = "Peekable" -> PeekableHint
              [] adapter = "Chunks" -> ChunksHint
              [] adapter = "ReadyChunks" -> ReadyChunksHint
              [] adapter = "Zip" -> ZipHint
              [] adapter = "Chain" -> ChainHint
              [] adapter = "Cycle" -> CycleHint
              [] adapter = "Buffered" -> BufferedHint
              [] adapter = "BufferUnordered" -> BufferUnorderedHint
              [] adapter = "PollImmediate" -> PollImmediateHint
              [] adapter = "Once" -> OnceHint
              [] adapter = "AndThen" -> AndThenHint
              [] adapter = "OrElse" -> OrElseHint
              [] adapter = "TryFilter" -> TryFilterHint
              [] adapter = "TryFilterMap" -> TryFilterMapHint
              [] adapter = "TrySkipWhile" -> TrySkipWhileHint
              [] adapter = "TryTakeWhile" -> TryTakeWhileHint
              [] adapter = "TryChunks" -> TryChunksHint
              [] adapter = "TryReadyChunks" -> TryReadyChunksHint
              [] adapter = "StreamSelect" -> StreamSelectHint
              [] adapter \in FnStreams -> FnHint
              [] adapter = "InterleaveStream" -> InterleaveStreamHint
              [] adapter = "EitherStream" -> EitherStreamHint
              [] adapter = "FuturesOrdered" -> FuturesOrderedHint
              [] OTHER -> NoHint

(* is_terminated of FusedStream and of FusedFuture; FALSE where the trait  *)
(* is not implemented.                                                     *)
IsTerminated == CASE adapter = "Map" -> MapTerminated
                  [] adapter = "Enumerate" -> EnumerateTerminated
                  [] adapter = "Filter" -> FilterTerminated
                  [] adapter = "FilterMap" -> FilterMapTerminated
                  [] adapter = "Then" -> ThenTerminated
                  [] adapter = "Scan" -> ScanTerminated
                  [] adapter = "TakeWhile" -> TakeWhileTerminated
                  [] adapter = "SkipWhile" -> SkipWhileTerminated
                  [] adapter = "Take" -> TakeTerminated
                  [] adapter = "Skip" -> SkipTerminated
                  [] adapter = "TakeUntil" -> TakeUntilTerminated
                  [] adapter = "Fuse" -> FuseTerminated
                  [] adapter = "CatchUnwind" -> CatchUnwindTerminated
                  [] adapter = "Peekable" -> PeekableTerminated
                  [] adapter = "Chunks" -> ChunksTerminated
                  [] adapter = "ReadyChunks" -> ReadyChunksTerminated
                  [] adapter = "Zip" -> ZipTerminated
                  [] adapter = "Chain" -> ChainTerminated
                  [] adapter = "Flatten" -> FlattenTerminated
                  [] adapter = "Cycle" -> CycleTerminated
                  [] adapter = "Buffered" -> BufferedTerminated
                  [] adapter = "BufferUnordered" -> BufferUnorderedTerminated
                  [] adapter = "Select" -> SelectTerminated
                  [] adapter = "SelectAll" -> SelectAllTerminated
                  [] adapter = "PollImmediate" -> PollImmediateTerminated
                  [] adapter = "Once" -> OnceTerminated
                  [] adapter = "Unfold" -> UnfoldTerminated
                  [] adapter = "AndThen" -> AndThenTerminated
                  [] adapter = "OrElse" -> OrElseTerminated
                  [] adapter = "TryFilter" -> TryFilterTerminated
                  [] adapter = "TryFilterMap" -> TryFilterMapTerminated
                  [] adapter = "TrySkipWhile" -> TrySkipWhileTerminated
                  [] adapter = "TryTakeWhile" -> TryTakeWhileTerminated
                  [] adapter = "TryFlatten" -> TryFlattenTerminated
                  [] adapter = "TryChunks" -> TryChunksTerminated
                  [] adapter = "TryReadyChunks" -> TryReadyChunksTerminated
                  [] adapter = "All" -> AllTerminated
                  [] adapter = "Any" -> AnyTerminated
                  [] adapter = "TryAll" -> TryAllTerminated
                  [] adapter = "TryAny" -> TryAnyTerminated
                  [] adapter = "Collect" -> CollectTerminated
                  [] adapter = "TryCollect" -> TryCollectTerminated
                  [] adapter = "Concat" -> ConcatTerminated
                  [] adapter = "Count" -> CountTerminated
                  [] adapter = "Unzip" -> UnzipTerminated
                  [] adapter = "IntoFuture" -> IntoFutureTerminated
                  [] adapter = "Fold" -> FoldTerminated
                  [] adapter = "TryFold" -> TryFoldTerminated
                  [] adapter = "ForEach" -> ForEachTerminated
                  [] adapter = "ForEachConcurrent" -> ForEachConcurrentTerminated
                  [] adapter = "TryForEachConcurrent" -> TryForEachConcurrentTerminated
                  [] adapter = "Forward" -> ForwardTerminated
                  [] adapter = "TryForward" -> TryForwardTerminated
                  [] adapter = "FutureMap" -> FutureMapTerminated
                  [] adapter = "FutureFuse" -> FutureFuseTerminated
                  [] adapter = "OptionFuture" -> OptionFutureTerminated
                  [] adapter = "FuturePollImmediate" -> FuturePollImmediateTerminated
                  [] adapter \in {"FutureFlatten", "FutureTryFlatten", "TryFlattenErr"}
                                   \cup FlattenedStreams -> FlattenedTerminated
                  [] adapter = "Join" -> JoinTerminated
                  [] adapter = "FutureSelect" -> FutureSelectTerminated
                  [] adapter \in Unordered -> FlattenUnorderedTerminated
                  [] adapter \in FnFutures \cup FnStreams -> FnTerminated
                  [] adapter = "InterleaveFuture" -> InterleaveFutureTerminated
                  [] adapter = "InterleaveStream" -> InterleaveStreamTerminated
                  [] adapter = "PendingOnce" -> PendingOnceTerminated
                  [] adapter = "EitherFuture" -> EitherFutureTerminated
                  [] adapter = "EitherStream" -> EitherStreamTerminated
                  [] adapter = "FuturesOrdered" -> OrderedTerminated
                  [] OTHER -> FALSE
==============================================================================
