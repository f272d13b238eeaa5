----------------------------- MODULE TestHelpers ------------------------------
(***************************************************************************)
(* futures-test, the wrappers that its tests put around a future, stream,  *)
(* sink or reader: InterleavePending (a Pending before each Ready),        *)
(* PendingOnce (one before the first poll), and Limited (short reads).     *)
(* The wrapper wakes the task itself for the Pending it makes up.          *)
(***************************************************************************)
EXTENDS ResultFns

(* The inner poll, once a Pending has been made up.                        *)
Through(poll) == poll /\ UNCHANGED notified
MadeUp(s) == UNCHANGED envVars /\ notified' = TRUE /\ Return("pending", s)

------------------------------------------------------------------------------
InterleaveNew == [pended |-> FALSE]
Fresh == [self EXCEPT !.pended = FALSE]
MakeUpPending == ~self.pended /\ MadeUp([self EXCEPT !.pended = TRUE])

InterleaveFuture ==
  /\ Polling("InterleaveFuture")
  /\ \/ MakeUpPending
     \/ self.pended /\ Through(PollOf(1, Finish(1, Fresh), Pending))
InterleaveFutureTerminated == 1 \notin Unfinished

InterleaveStream ==
  /\ Polling("InterleaveStream")
  /\ \/ MakeUpPending
     \/ /\ self.pended
        /\ Through(PollSource(1, LAMBDA i : Yield(i, Fresh), Return("none", Fresh), Pending))
InterleaveStreamHint == SourceHint(1)
InterleaveStreamTerminated == SourceTerminated(1)

(* start_send goes straight through.                                       *)
InterleaveSinkNew == [op |-> Op(0), sent |-> 0, pended |-> FALSE]
InterleaveSink ==
  \/ /\ Polling("InterleaveSink")
     /\ \/ MakeUpPending
        \/ /\ self.pended
           /\ Through(IF Sending THEN PollReady(1, Goto("send", Fresh), Pending)
                      ELSE PollFlushOrClose(1, Goto("flushed", Fresh), Pending))
  \/ At("InterleaveSink", "send") /\ Through(StartSend(1, Item, Accepted(self)))
  \/ At("InterleaveSink", "flushed") /\ Through(NoPoll(FlushedOrClosed(Got)))

(* poll_read, or poll_fill_buf and consume.                                *)
InterleaveReader ==
  /\ Polling("InterleaveReader")
  /\ \/ MakeUpPending
     \/ /\ self.pended
        /\ Through(\E n \in 1 .. 2 :
                      PollRead(1, n, LAMBDA b : Deliver(b, Fresh), ReadFailed(Fresh), Pending))

------------------------------------------------------------------------------
PendingOnceNew == [polled_before |-> FALSE]
PendingOnce ==
  /\ Polling("PendingOnce")
  /\ IF self.polled_before THEN Through(PollOf(1, Finish(1, self), Pending))
     ELSE MadeUp([polled_before |-> TRUE])
PendingOnceTerminated == self.polled_before /\ 1 \notin Unfinished

(* param is the limit; the caller has room for one byte or two.            *)
Limited ==
  /\ Polling("Limited")
  /\ \E n \in 1 .. 2 :
       Through(PollRead(1, Least(param, n), LAMBDA b : Deliver(b, self), ReadFailed(self), Pending))
==============================================================================
