------------------------------ MODULE IoWriters -------------------------------
(***************************************************************************)
(* futures-util/src/io, the writers: BufWriter, LineWriter, the sink made  *)
(* of a writer, and the futures that write or copy.  What reached the      *)
(* writer below is sink[1].got.  A write takes any number of the bytes it  *)
(* is given; taking none is counted like a Pending.                        *)
(***************************************************************************)
EXTENDS IoReaders

(* AsyncWrite::poll_write of the writer below.                             *)
PollWrite(b, OnWritten(_), OnErr, OnPending) ==
  LET Wrote(k) == /\ sink' = [sink EXCEPT ![1].got = @ \o Start(b, k)]
                  /\ UNCHANGED <<left, done, late>>
                  /\ OnWritten(k)
  IN  \/ Pends(SinkOf(1)) /\ OnPending
      \/ Errs(SinkOf(1)) /\ OnErr
      \/ Errs(SinkOf(1)) /\ b # << >> /\ OnWritten(0)
      \/ b = << >> /\ Answers(SinkOf(1)) /\ Wrote(0)
      \/ \E k \in 1 .. Len(b) : Answers(SinkOf(1)) /\ Wrote(k)

(* poll_flush or poll_close of the writer below.                           *)
PollFlushed(OnReady, OnErr, OnPending) ==
  \/ Pends(SinkOf(1)) /\ OnPending
  \/ Errs(SinkOf(1)) /\ OnErr
  \/ Answers(SinkOf(1)) /\ UNCHANGED sourceVars /\ OnReady

------------------------------------------------------------------------------
(* The futures: what has not been written is still in the caller's hands.  *)
WriteAllNew == [buf |-> Input(1)]
WriteAll ==
  /\ Polling("WriteAll")
  /\ IF self.buf = << >> THEN NoPoll(Finish(Ok(Len(Got)), self))
     ELSE PollWrite(self.buf, LAMBDA n : IF n = 0 THEN FailedWith(self.buf)
                                         ELSE Again([buf |-> From(self.buf, n)]),
                    FailedWith(self.buf), Pending)

(* WriteAllVectored: the slices are the first byte, nothing, and the rest. *)
(* advance_slices drops the slices that are written and empty ones.        *)
AdvanceSlices(bufs, n) ==
  LET size(j) == Len(S!FlattenSeq(SubSeq(bufs, 1, j)))
      gone == CHOOSE j \in 0 .. Len(bufs) : /\ size(j) <= n
                                            /\ \A i \in j + 1 .. Len(bufs) : size(i) > n
  IN  IF gone = Len(bufs) THEN << >>
      ELSE <<From(bufs[gone + 1], n - size(gone))>> \o SubSeq(bufs, gone + 2, Len(bufs))
WriteAllVectoredNew ==
  [bufs |-> AdvanceSlices(<<Start(Input(1), 1), << >>, From(Input(1), 1)>>, 0)]
WriteAllVectored ==
  LET rest == S!FlattenSeq(self.bufs)
  IN  /\ Polling("WriteAllVectored")
      /\ IF self.bufs = << >> THEN NoPoll(Finish(Ok(Len(Got)), self))
         ELSE PollWrite(rest, LAMBDA n : IF n = 0 THEN FailedWith(rest)
                                         ELSE Again([bufs |-> AdvanceSlices(self.bufs, n)]),
                        FailedWith(rest), Pending)

(* CopyBuf: the bytes that fill_buf shows are consumed when they are       *)
(* written.                                                                *)
CopyBufNew == [amt |-> 0, buffer |-> << >>]
Shown(b) == Consume(1, 0) /\ Goto(IF b = << >> THEN "flush" ELSE "write", [self EXCEPT !.buffer = b])
CopyFailed == FailedWith(left[1])
CopyLoop(OnPending) ==
  \/ call.pc = "poll" /\ PollFillBuf(1, Shown, CopyFailed, OnPending)
  \/ /\ call.pc = "write"
     /\ PollWrite(self.buffer,
                  LAMBDA i : IF i = 0 THEN CopyFailed
                             ELSE Goto("consume", [self EXCEPT !.amt = @ + i, !.buffer = Start(@, i)]),
                  CopyFailed, OnPending)
  \/ call.pc = "flush" /\ PollFlushed(Finish(Ok(self.amt), self), CopyFailed, OnPending)
Consumed == /\ call.pc = "consume"
            /\ Consume(1, Len(self.buffer)) /\ UNCHANGED <<pends, armed>>
CopyBuf == adapter = "CopyBuf" /\ (CopyLoop(Pending) \/ (Consumed /\ Again(self)))

(* Copy: a CopyBuf over a BufReader with a buffer of two bytes, which has  *)
(* taken them from the reader already.                                     *)
DefaultBufSize == 2
CopyNew == [amt |-> 0, buffer |-> << >>]
Copy ==
  /\ adapter = "Copy"
  /\ \/ call.pc = "poll" /\ self.buffer = << >>
        /\ PollRead(1, DefaultBufSize,
                    LAMBDA b : Goto(IF b = << >> THEN "flush" ELSE "write", [self EXCEPT !.buffer = b]),
                    FailedWith(left[1]), Pending)
     \/ call.pc = "poll" /\ self.buffer # << >> /\ NoPoll(Goto("write", self))
     \/ /\ call.pc = "write"
        /\ PollWrite(self.buffer,
                     LAMBDA i : IF i = 0 THEN FailedWith(self.buffer \o left[1])
                                ELSE Again([amt |-> self.amt + i, buffer |-> From(self.buffer, i)]),
                     FailedWith(self.buffer \o left[1]), Pending)
     \/ call.pc = "flush" /\ PollFlushed(Finish(Ok(self.amt), self), FailedWith(<< >>), Pending)

(* CopyBufAbortable: a Pending registers the task with the AbortHandle and *)
(* looks at the flag once more.  Between the store of abort() and its wake *)
(* the copy may do anything.  If param is 1 the reader and the writer      *)
(* never wake the task.                                                    *)
CopyBufAbortableNew ==
  [amt |-> 0, buffer |-> << >>, aborted |-> FALSE, woken |-> FALSE, registered |-> FALSE]
AbortedResult == Finish(<<"aborted", left[1]>>, self)

Recheck == NoPoll(IF self.aborted THEN AbortedResult ELSE Pending)
CopyBufAbortable ==
  /\ adapter = "CopyBufAbortable"
  /\ \/ call.pc = "poll" /\ NoPoll(IF self.aborted THEN AbortedResult ELSE Goto("copy", self))
     \/ call.pc = "copy" /\ PollFillBuf(1, Shown, CopyFailed, Goto("register", self))
     \/ call.pc # "poll" /\ CopyLoop(Goto("register", self))
     \/ Consumed /\ Again(self)
     \/ call.pc = "register" /\ NoPoll(Goto("recheck", [self EXCEPT !.registered = TRUE]))
     \/ call.pc = "recheck" /\ Recheck

(* AbortHandle::abort in another thread, as in Abortable.                  *)
AbortStore == /\ adapter = "CopyBufAbortable" /\ ~self.aborted
              /\ self' = [self EXCEPT !.aborted = TRUE] /\ UNCHANGED notified
AbortWake == /\ adapter = "CopyBufAbortable" /\ self.aborted /\ ~self.woken
             /\ self' = [self EXCEPT !.woken = TRUE, !.registered = FALSE]
             /\ notified' = (notified \/ self.registered)

------------------------------------------------------------------------------
(* BufWriter: param is the capacity.  The caller writes the script's bytes *)
(* any number at a time, flushes when something has been written since,    *)
(* closes at the end, and goes on after an Err.  sent is what it has been  *)
(* told is written.                                                        *)
BufWriterNew == [buf |-> << >>, written |-> 0, sent |-> 0, flushed |-> 0, op |-> "none", data |-> << >>]

Unsent == From(Input(1), self.sent)
Told(n, s) == Return("some", [s EXCEPT !.sent = @ + n])
WriteFailed(s) == Return("some", s)

(* flush_buf: what is written leaves the buffer when the loop ends, but    *)
(* stays while it is Pending.                                              *)
AfterFlush(s) == [s EXCEPT !.buf = From(@, s.written), !.written = 0]
FlushBuf(next) ==
  IF self.written < Len(self.buf)
  THEN PollWrite(From(self.buf, self.written),
                 LAMBDA n : IF n = 0 THEN WriteFailed(AfterFlush(self))
                            ELSE Goto(call.pc, [self EXCEPT !.written = @ + n]),
                 WriteFailed(AfterFlush(self)), Pending)
  ELSE NoPoll(Goto(next, AfterFlush(self)))

(* The last part of poll_write, without and with the buffer.               *)
WriteThrough == PollWrite(self.data, LAMBDA n : Told(n, self), WriteFailed(self), Pending)
BufWriterWrite == IF Len(self.data) >= param THEN WriteThrough
                  ELSE NoPoll(Told(Len(self.data), [self EXCEPT !.buf = @ \o self.data]))
BufWriterPollWrite(s) == Goto(IF Len(s.buf) + Len(s.data) > param THEN "make room" ELSE "write", s)

(* poll_flush and poll_close: flush_buf, then the writer.                  *)
FlushDone == LET s == [self EXCEPT !.flushed = self.sent]
                 record == <<"done", self.sent, Got>>
             IN  IF self.op = "flush" THEN Yield(record, s) ELSE EndWith(record, s)

(* What the caller asks for: a write, vectored or not, a flush or a close. *)
Chosen(Write(_)) ==
  \/ \E n \in 1 .. Len(Unsent) :
       Write([self EXCEPT !.op = "write", !.data = Start(Unsent, n)])
  \/ \E op \in {"flush", "close"} :
       /\ IF op = "flush" THEN self.flushed < self.sent ELSE Unsent = << >>
       /\ Goto("flush_buf", [self EXCEPT !.op = op])
Flushing ==
  \/ call.pc = "flush_buf" /\ FlushBuf("flush")
  \/ call.pc = "flush" /\ PollFlushed(FlushDone, WriteFailed(self), Pending)

BufWriter ==
  /\ adapter = "BufWriter"
  /\ \/ call.pc = "poll" /\ NoPoll(Chosen(BufWriterPollWrite))
     \/ call.pc = "make room" /\ FlushBuf("write")
     \/ call.pc = "write" /\ BufWriterWrite
     \/ Flushing

------------------------------------------------------------------------------
(* LineWriter: lines go through, what follows the last newline is kept.    *)
LastDelim(b) == IF HasDelim(b) THEN CHOOSE k \in DOMAIN b : /\ kind[b[k]] = "no"
                                                            /\ ~HasDelim(From(b, k))
                ELSE 0
CompletedLine == EndsIn(self.buf, "no")
LineWriterPollWrite(s) ==
  IF HasDelim(s.data) THEN Goto("flush lines", s)
  ELSE IF CompletedLine THEN Goto("end line", s) ELSE BufWriterPollWrite(s)

(* write_to_buf: as much as there is room for.                             *)
ToBuf(b) == Start(b, param - Len(self.buf))
KeepTail(flushed, tail) == Told(flushed + Len(ToBuf(tail)), [self EXCEPT !.buf = @ \o ToBuf(tail)])

(* What is left for the buffer after the writer took `flushed` bytes.      *)
LineTail(flushed) ==
  LET newline == LastDelim(self.data)
      rest == From(self.data, flushed)
      area == Start(rest, param)
  IN  CASE flushed >= newline -> rest
        [] flushed < newline /\ newline - flushed <= param -> SubSeq(self.data, flushed + 1, newline)
        [] OTHER -> IF HasDelim(area) THEN Start(area, LastDelim(area)) ELSE area

WriteLines ==
  PollWrite(Start(self.data, LastDelim(self.data)),
            LAMBDA n : IF n = 0 THEN WriteFailed(self) ELSE KeepTail(n, LineTail(n)),
            WriteFailed(self), Pending)

(* poll_write_vectored: the slices up to the last one with a newline go    *)
(* through, and the others are kept only if all of those were written.     *)
(* Here the slices are the first cut bytes and the rest.                   *)
WriteLinesVectored ==
  \E cut \in 1 .. Len(self.data) :
    LET lines == IF HasDelim(From(self.data, cut)) THEN self.data ELSE Start(self.data, cut)
        tail == From(self.data, Len(lines))
    IN  /\ HasDelim(lines)
        /\ PollWrite(lines,
                     LAMBDA n : CASE n = 0 -> WriteFailed(self)
                                  [] n > 0 /\ n < Len(lines) -> Told(n, self)
                                  [] OTHER -> KeepTail(n, tail),
                     WriteFailed(self), Pending)

LineWriter ==
  /\ adapter = "LineWriter"
  /\ \/ call.pc = "poll" /\ NoPoll(Chosen(LineWriterPollWrite))
     \/ call.pc = "end line" /\ FlushBuf("plain")
     \/ call.pc = "plain" /\ NoPoll(BufWriterPollWrite(self))
     \/ call.pc = "make room" /\ FlushBuf("write")
     \/ call.pc = "write" /\ BufWriterWrite
     \/ call.pc = "flush lines" /\ FlushBuf("flush inner")
     \/ call.pc = "flush inner" /\ PollFlushed(Goto("lines", self), WriteFailed(self), Pending)
     \/ call.pc = "lines" /\ (WriteLines \/ WriteLinesVectored)
     \/ Flushing

------------------------------------------------------------------------------
(* IntoSink: an item is a block of bytes, perhaps of none, written from    *)
(* offset on.                                                              *)
IntoSinkNew == [op |-> Op(0), sent |-> 0, buffer |-> None, offset |-> 0]
BlockWritten == Goto("flushed", [self EXCEPT !.buffer = None, !.offset = 0])
IntoSink ==
  /\ adapter = "IntoSink"
  /\ \/ /\ call.pc = "poll"
        /\ IF self.buffer = None THEN NoPoll(Goto("flushed", self))
           ELSE LET bytes == Items(Get(self.buffer))
                IN  PollWrite(From(bytes, self.offset),
                              LAMBDA n : IF self.offset + n = Len(bytes) THEN BlockWritten
                                         ELSE Again([self EXCEPT !.offset = @ + n]),
                              Failed, Pending)
     \/ call.pc = "flushed" /\ Sending /\ NoPoll(Accepted([self EXCEPT !.buffer = Some(Item)]))
     \/ call.pc = "flushed" /\ ~Sending /\ PollFlushed(FlushedOrClosed(Got), Failed, Pending)

==============================================================================
