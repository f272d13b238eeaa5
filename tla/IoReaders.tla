------------------------------ MODULE IoReaders -------------------------------
(***************************************************************************)
(* futures-util/src/io, the readers: BufReader, Chain, Take, the reader    *)
(* made of a stream, and the futures that read.  The bytes of a reader are *)
(* the items of the script; kind says which are newlines ("no"), carriage  *)
(* returns ("cr") or not UTF-8 ("bad").  A read gives any number of the    *)
(* bytes that are left and fit, none at the end, Pending or an Err.  An    *)
(* Err is counted like a Pending, and the caller may go on after it.       *)
(***************************************************************************)
EXTENDS SinkAdapters

S == INSTANCE SequencesExt

Least(a, b) == IF a <= b THEN a ELSE b
Start(b, n) == SubSeq(b, 1, Least(n, Len(b)))     \* &b[..n]
From(b, n) == SubSeq(b, n + 1, Len(b))            \* &b[n..]

Errs(what) == /\ pends > 0 /\ pends' = pends - 1
              /\ armed' = armed \ {what}
              /\ UNCHANGED sourceVars

(* BufRead::consume, and what a read takes.                                *)
Consume(s, n) == left' = [left EXCEPT ![s] = From(@, n)] /\ UNCHANGED <<done, late, sink>>

(* AsyncRead::poll_read of the reader below, into n bytes.                 *)
PollRead(s, n, OnRead(_), OnErr, OnPending) ==
  \/ Pends(s) /\ OnPending
  \/ Errs(s) /\ OnErr
  \/ \E k \in 0 .. Least(n, Len(left[s])) :
       /\ k = 0 <=> (n = 0 \/ left[s] = << >>)
       /\ Answers(s) /\ Consume(s, k)
       /\ OnRead(Start(left[s], k))

(* AsyncBufRead::poll_fill_buf of the reader below.  OnBuf also says what  *)
(* is consumed.                                                            *)
PollFillBuf(s, OnBuf(_), OnErr, OnPending) ==
  \/ Pends(s) /\ OnPending
  \/ Errs(s) /\ OnErr
  \/ \E k \in 0 .. Len(left[s]) :
       /\ k = 0 <=> left[s] = << >>
       /\ Answers(s)
       /\ OnBuf(Start(left[s], k))

(* The caller of a reader gets bytes, or the end, or an Err.               *)
Deliver(b, s) == /\ self' = s /\ out' = out \o b
                 /\ call' = [pc |-> "idle", res |-> IF b = << >> THEN "none" ELSE "some"]
ReadFailed(s) == Return("some", s)

(* A future that fails has an Err and x, what is in the caller's buffer.   *)
FailedWith(x) == EndWith(<<"err", x>>, self)

------------------------------------------------------------------------------
(* BufReader: param is the length of the buffer; buf is what was read into *)
(* it (cap is its length), and pos how much of that is consumed.           *)
BufReaderNew == [buf |-> << >>, pos |-> 0, seek |-> "none", offset |-> 0, sought |-> None]

Discard(s) == [s EXCEPT !.buf = << >>, !.pos = 0]
Filled(s, b) == [s EXCEPT !.buf = b, !.pos = 0]

(* The caller takes n bytes of the buffer of s, which has been filled.     *)
BufReaderTake(s, n) ==
  LET rem == From(s.buf, s.pos)
  IN  Deliver(Start(rem, n), [s EXCEPT !.pos = Least(@ + n, Len(s.buf))])

(* poll_fill_buf and consume, or the end of poll_read.                     *)
BufReaderFill(n) ==
  IF self.pos >= Len(self.buf)
  THEN PollRead(1, param, LAMBDA b : BufReaderTake(Filled(self, b), n), ReadFailed(self), Pending)
  ELSE NoPoll(BufReaderTake(self, n))

BufReaderPollRead(n) ==
  IF self.pos = Len(self.buf) /\ n >= param
  THEN PollRead(1, n, LAMBDA b : Deliver(b, Discard(self)), ReadFailed(Discard(self)), Pending)
  ELSE BufReaderFill(n)

(* AsyncSeek of the reader below, whose position follows from what is left *)
(* of it.  Before the first byte there is an Err.                          *)
Position == len[1] - Len(left[1])
PollSeek(p, OnOk, OnErr) ==
  \/ Pends(1) /\ Pending
  \/ Errs(1) /\ OnErr
  \/ p < 0 /\ Answers(1) /\ UNCHANGED sourceVars /\ OnErr
  \/ /\ p >= 0 /\ Answers(1)
     /\ left' = [left EXCEPT ![1] = From(Input(1), p)] /\ UNCHANGED <<done, late, sink>>
     /\ OnOk

(* How a seek ends: sought is how many bytes the caller had read, what it  *)
(* asked for, and the position that poll_seek returned, if it did.         *)
I64Min == -2                     \* in the place of i64::MIN
Sought(res, s) ==
  Return("some", [s EXCEPT !.seek = "done",
                           !.sought = Some([at |-> Len(out), whence |-> s.seek,
                                            offset |-> s.offset, res |-> res])])
SeekFailed(s) == ReadFailed([s EXCEPT !.seek = "done"])

(* poll_seek: Current counts from what the caller has consumed.            *)
Remainder == Len(self.buf) - self.pos
SeekResult(p) == Sought(IF self.seek = "relative" THEN None ELSE Some(p), Discard(self))
BufReaderSeek ==
  LET to == Position + self.offset
  IN  CASE self.seek = "start" -> PollSeek(self.offset, SeekResult(self.offset), SeekFailed(self))
        [] self.seek # "start" /\ self.offset - Remainder >= I64Min ->
             PollSeek(to - Remainder, SeekResult(to - Remainder), SeekFailed(self))
        [] OTHER -> PollSeek(Position - Remainder, Again(Discard(self)), SeekFailed(self))

(* SeekRelative: the first poll may stay inside the buffer.                *)
SeekInBuffer ==
  LET pos == self.pos + self.offset
  IN  NoPoll(IF pos >= 0 /\ pos <= Len(self.buf) THEN Sought(None, [self EXCEPT !.pos = pos])
             ELSE Again(self))

(* The seeks the caller asks for stay inside the input, or go one before   *)
(* it.  One is enough.                                                     *)
StartSeek ==
  \E whence \in {"relative", "current", "start"}, n \in I64Min .. 2 :
    LET at == Position - Remainder
        s == [self EXCEPT !.seek = whence, !.offset = n]
    IN  /\ self.seek = "none"
        /\ IF whence = "start" THEN n \in 0 .. len[1] ELSE at + n \in -1 .. len[1]
        /\ NoPoll(Goto(IF whence = "relative" THEN "relative" ELSE "poll", s))

BufReader ==
  \/ /\ Polling("BufReader") /\ self.seek \in {"none", "done"}
     /\ \/ \E n \in 1 .. 2 : BufReaderPollRead(n) \/ BufReaderFill(n)
        \/ StartSeek
  \/ Polling("BufReader") /\ self.seek \notin {"none", "done"} /\ BufReaderSeek
  \/ At("BufReader", "relative") /\ SeekInBuffer

------------------------------------------------------------------------------
(* Chain.  A read of no bytes does not end the first reader; the caller    *)
(* makes one of those.                                                     *)
IoChainNew == [done_first |-> FALSE, n |-> 0, zero |-> FALSE]

EndsFirst(s, b, n) == s = 1 /\ b = << >> /\ n > 0
ChainRead(s, n) ==
  PollRead(s, n,
           LAMBDA b : CASE EndsFirst(s, b, n) -> Goto("read", [self EXCEPT !.done_first = TRUE, !.n = n])
                        [] ~EndsFirst(s, b, n) /\ n = 0 -> Return("some", [self EXCEPT !.zero = TRUE])
                        [] OTHER -> Deliver(b, self),
           ReadFailed(self), Pending)
ChainFillBuf(s) ==
  PollFillBuf(s,
              LAMBDA b : IF EndsFirst(s, b, 1)
                         THEN Consume(s, 0) /\ Goto("fill", [self EXCEPT !.done_first = TRUE])
                         ELSE \E n \in Least(1, Len(b)) .. Len(b) :
                                Consume(s, n) /\ Deliver(Start(b, n), self),
              ReadFailed(self), Pending)
IoChain ==
  LET reader == IF self.done_first THEN 2 ELSE 1
  IN  \/ /\ Polling("IoChain")
         /\ \/ \E n \in (IF self.zero THEN 1 ELSE 0) .. 2 : ChainRead(reader, n)
            \/ ChainFillBuf(reader)
      \/ At("IoChain", "read") /\ ChainRead(2, self.n)
      \/ At("IoChain", "fill") /\ ChainFillBuf(2)

(* Take: param is the limit.  A caller may consume too much.               *)
IoTakeNew == [limit |-> param]
IoTake ==
  LET Took(b) == Deliver(b, [limit |-> self.limit - Len(b)])
  IN  /\ Polling("IoTake")
      /\ IF self.limit = 0 THEN NoPoll(End)
         ELSE \/ \E n \in 1 .. 2 : PollRead(1, Least(n, self.limit), Took, ReadFailed(self), Pending)
              \/ PollFillBuf(1, LAMBDA b : \E n \in Least(1, Len(b)) .. Len(b) :
                                   LET amt == Least(n, self.limit)
                                   IN  Consume(1, amt) /\ Took(Start(b, amt)),
                             ReadFailed(self), Pending)

(* Either: poll_read, or poll_fill_buf and consume.                        *)
EitherPollRead(n) == PollRead(self.is, n, LAMBDA b : Deliver(b, self), ReadFailed(self), Pending)
EitherFillBuf ==
  PollFillBuf(self.is, LAMBDA b : \E n \in Least(1, Len(b)) .. Len(b) :
                         Consume(self.is, n) /\ Deliver(Start(b, n), self),
              ReadFailed(self), Pending)
EitherReader == Polling("EitherReader") /\ ((\E n \in 1 .. 2 : EitherPollRead(n)) \/ EitherFillBuf)

(* IntoAsyncRead: a stream of chunks, some of them empty.                  *)
IntoAsyncReadNew == [state |-> "PendingChunk", chunk |-> << >>]
ChunkTake(n) ==
  LET rest == From(self.chunk, n)
  IN  Deliver(Start(self.chunk, n),
              [state |-> IF rest = << >> THEN "PendingChunk" ELSE "Ready", chunk |-> rest])
Eof == [state |-> "Eof", chunk |-> << >>]
IntoAsyncRead ==
  /\ Polling("IntoAsyncRead")
  /\ CASE self.state = "Ready" -> \E n \in 1 .. 2 : NoPoll(ChunkTake(n))
       [] self.state = "Eof" -> NoPoll(End)
       [] OTHER -> PollSource(1, LAMBDA i : CASE kind[i] = "err" -> Yield(Err(i), Eof)
                                              [] Yes(i) -> Again([state |-> "Ready", chunk |-> Items(i)])
                                              [] OTHER -> Again(self),
                              Return("none", Eof), Pending)

------------------------------------------------------------------------------
(* The futures.  The caller's buffer or String holds one byte before them. *)
Before == <<0>>

(* ReadExact: param bytes.                                                 *)
ReadExactNew == [buf |-> param, got |-> << >>]
ReadExact ==
  /\ Polling("ReadExact")
  /\ IF self.buf = 0 THEN NoPoll(Finish(Ok(self.got), self))
     ELSE PollRead(1, self.buf,
                   LAMBDA b : IF b = << >> THEN FailedWith(self.got)
                              ELSE Again([buf |-> self.buf - Len(b), got |-> self.got \o b]),
                   FailedWith(self.got), Pending)

(* read_to_end_internal: room is what the reader may fill beyond len; the  *)
(* Guard cuts the vector back to len however the poll ends.                *)
Guard(s) == [s EXCEPT !.buf = Start(@, s.len)]
ReadToEndNew == [buf |-> Before, len |-> Len(Before)]
Extend == \E n \in 1 .. 2 : NoPoll(Again([self EXCEPT !.buf = @ \o [k \in 1 .. n |-> 0]]))
ReadToEndLoop(OnOk(_), OnErr(_)) ==
  IF self.len = Len(self.buf) THEN Extend
  ELSE PollRead(1, Len(self.buf) - self.len,
                LAMBDA b : IF b = << >> THEN OnOk(Guard(self))
                           ELSE Again([buf |-> Start(self.buf, self.len) \o b
                                                 \o From(self.buf, self.len + Len(b)),
                                       len |-> self.len + Len(b)]),
                OnErr(Guard(self)), Return("pending", Guard(self)))
ReadToEnd ==
  /\ Polling("ReadToEnd")
  /\ ReadToEndLoop(LAMBDA s : Finish(<<"ok", s.len - Len(Before), s.buf>>, s),
                   LAMBDA s : Finish(<<"err", s.buf>>, s))

(* ReadToString: the String is empty while its bytes are read into.  It is *)
(* given back unless they are not UTF-8.                                   *)
Utf8(b) == \A k \in DOMAIN b : b[k] = 0 \/ kind[b[k]] # "bad"
ReadToString ==
  LET String(s) == IF Utf8(s.buf) THEN s.buf ELSE << >>
  IN  /\ Polling("ReadToString")
      /\ ReadToEndLoop(LAMBDA s : Finish(IF Utf8(s.buf) THEN <<"ok", s.len - Len(Before), s.buf>>
                                         ELSE <<"err", String(s)>>, s),
                       LAMBDA s : Finish(<<"err", String(s)>>, s))

(* read_until_internal: up to the delimiter.                               *)
UpToDelim(b) ==
  LET at == {k \in DOMAIN b : kind[b[k]] = "no"}
  IN  IF at = {} THEN b ELSE Start(b, CHOOSE k \in at : \A j \in at : k <= j)
HasDelim(b) == \E k \in DOMAIN b : kind[b[k]] = "no"

ReadUntilLoop(OnOk(_), OnErr(_)) ==
  PollFillBuf(1, LAMBDA b : LET used == UpToDelim(b)
                                s == [self EXCEPT !.bytes = @ \o used, !.read = @ + Len(used)]
                            IN  /\ Consume(1, Len(used))
                                /\ IF HasDelim(b) \/ used = << >> THEN OnOk(s) ELSE Again(s),
              OnErr(self), Pending)

ReadUntilNew == [bytes |-> Before, read |-> 0]
ReadUntil ==
  /\ Polling("ReadUntil")
  /\ ReadUntilLoop(LAMBDA s : Finish(<<"ok", s.read, s.bytes>>, s), LAMBDA s : FailedWith(s.bytes))

(* read_line_internal: what is not UTF-8 is removed; buf and bytes change  *)
(* places.                                                                 *)
NewBytes(s) == From(s.bytes, Len(s.bytes) - s.read)
OldBytes(s) == Start(s.bytes, Len(s.bytes) - s.read)
RemoveInvalid(s) == IF Utf8(NewBytes(s)) THEN s ELSE [s EXCEPT !.bytes = OldBytes(s)]
Swapped(s) == LET t == RemoveInvalid(s)
              IN  [t EXCEPT !.buf = t.bytes, !.bytes = s.buf, !.read = 0]
ReadLineLoop(OnOk(_, _), OnErr(_)) ==
  ReadUntilLoop(LAMBDA s : IF Utf8(NewBytes(s)) THEN OnOk(s.read, Swapped(s)) ELSE OnErr(Swapped(s)),
                LAMBDA s : OnErr(Swapped(s)))

ReadLineNew == [buf |-> << >>, bytes |-> Before, read |-> 0]
ReadLine ==
  /\ Polling("ReadLine")
  /\ ReadLineLoop(LAMBDA n, s : Finish(<<"ok", n, s.buf>>, s), LAMBDA s : Finish(<<"err", s.buf>>, s))

(* Drop of a ReadLine that has not finished.                               *)
DropReadLine == /\ adapter = "ReadLine" /\ call = [pc |-> "idle", res |-> "pending"]
                /\ Finish(<<"dropped", OldBytes(self)>>, self)

(* Lines: the newline, and a carriage return before it, are cut off.       *)
LinesNew == [buf |-> << >>, bytes |-> << >>, read |-> 0]
EndsIn(b, k) == b # << >> /\ kind[b[Len(b)]] = k
Pop(b, k) == IF EndsIn(b, k) THEN Start(b, Len(b) - 1) ELSE b
Line(b) == IF EndsIn(b, "no") THEN Pop(Pop(b, "no"), "cr") ELSE b
Lines ==
  /\ Polling("Lines")
  /\ ReadLineLoop(LAMBDA n, s : IF n = 0 /\ s.buf = << >> THEN Return("none", s)
                                ELSE Yield(Ok(Line(s.buf)), [s EXCEPT !.buf = << >>]),
                  LAMBDA s : Yield(<<"err">>, s))

FillBufNew == [reader |-> TRUE]
FillBuf ==
  /\ Polling("FillBuf") /\ self.reader
  /\ LET gone == [reader |-> FALSE]
     IN  PollFillBuf(1, LAMBDA b : Consume(1, 0) /\ Finish(Ok(b), gone),
                     Finish(<<"err", << >>>>, gone), Pending)
==============================================================================
