--------------------------- MODULE FlattenUnordered ---------------------------
(***************************************************************************)
(* flatten_unordered and try_flatten_unordered.  A word of flags, changed  *)
(* by the poll and by the two wakers that the base stream and the inner    *)
(* streams are polled with, says what has to be polled next and who may    *)
(* touch the task's waker.  The wakers are called by other threads, at any *)
(* time; each of their atomic steps is an action.                          *)
(*                                                                         *)
(* An inner stream is its item with what is left of it; param is the       *)
(* limit, 0 for none.                                                      *)
(***************************************************************************)
EXTENDS IoWriters

NeedStream == "stream"
NeedInner == "inner"
Need == {NeedStream, NeedInner}

(* The base stream and the set of inner streams, and what their wakers ask *)
(* for.                                                                    *)
Wrapped == {1, FutSet}
NeedToPoll(w) == IF w = 1 THEN NeedStream ELSE NeedInner

(* state is the shared word; wake is where the call of each waker is.      *)
FlattenUnorderedNew ==
  [state |-> {NeedStream}, inner |-> {}, is_stream_done |-> FALSE,
   value |-> {}, next |-> {}, item |-> None, wake |-> [w \in Wrapped |-> "idle"]]

IsExceededLimit(s) == param > 0 /\ Cardinality(s.inner) >= param

(* BUG: polling starts while a waker holds the lock.                       *)
StartsPollingAlways(s) == TRUE

(* start_polling spins while a waker holds WAKING.  Then replace_waker     *)
(* writes the cells that a call of wake in progress reads.                 *)
MayStartPolling(s) == "WAKING" \notin s.state
StartPolling ==
  /\ MayStartPolling(self)
  /\ late' = (late \/ \E w \in Wrapped : self.wake[w] = "waking")
  /\ UNCHANGED <<left, done, sink, pends, armed>>
  /\ Goto(IF NeedStream \in self.state THEN "base" ELSE "inner",
          [self EXCEPT !.state = {"POLLING"}, !.value = self.state, !.next = {}, !.item = None])

(* FlowController::next_step: an Err of the base stream is returned at     *)
(* once.  Inner streams are polled after it in the next poll.              *)
AddInner(i, items) ==
  Goto("base", [self EXCEPT !.inner = @ \cup {<<i, items>>}, !.value = @ \cup {NeedInner}])
BaseErr(i) == Err(<<i, 0>>)
FlowReturn(i) ==
  Goto("inner", [self EXCEPT !.next = @ \cup {NeedStream} \cup (self.value \cap {NeedInner}),
                             !.value = @ \ {NeedInner}, !.item = Some(BaseErr(i))])

IsTry == adapter = "TryFlattenUnordered"
NextStep(i) == IF IsTry /\ kind[i] = "err" THEN FlowReturn(i)
               ELSE AddInner(i, IF IsTry THEN TryItems(i) ELSE Items(i))

PollBase ==
  IF IsExceededLimit(self) \/ self.is_stream_done
  THEN NoPoll(Goto("inner", [self EXCEPT !.next = IF self.is_stream_done THEN @
                                                  ELSE @ \cup {NeedStream}]))
  ELSE PollSource(1, NextStep, Goto("base", [self EXCEPT !.is_stream_done = TRUE]),
                  Goto("inner", self))

(* An inner stream that has ended leaves the set; one with an item comes   *)
(* back into it.                                                           *)
PollInner ==
  LET Stepped(st) ==
        LET s == [self EXCEPT !.next = @ \cup {NeedInner}, !.inner = @ \ {st}]
        IN  Goto("stop", IF st[2] = << >> THEN s
                         ELSE [s EXCEPT !.inner = @ \cup {<<st[1], Tail(st[2])>>},
                                        !.item = Some(Head(st[2]))])
  IN  IF NeedInner \in self.value
      THEN PollSet(self.inner, Stepped, Goto("stop", self), Goto("stop", self))
      ELSE NoPoll(Goto("stop", self))

(* BUG: what was woken during the poll is forgotten.                       *)
NoneWoken(s) == {}

(* stop_polling, and the wake-up of the task itself if the poll has to go  *)
(* on, or if a waker was called meanwhile.                                 *)
WokenMeanwhile(s) == s.state \cap Need
StopPolling ==
  LET again == (NeedStream \in self.next /\ ~IsExceededLimit(self)) \/ NeedInner \in self.next
      value == WokenMeanwhile(self)
      woken == again \/ value # {}
      s == [self EXCEPT !.state = self.next \cup value \cup (IF woken THEN {"WOKEN"} ELSE {}),
                        !.item = None]
      ready == IsSome(self.item) \/ (self.is_stream_done /\ self.inner = {})
  IN  /\ UNCHANGED envVars
      /\ notified' = (notified \/ (~ready /\ woken))
      /\ CASE IsSome(self.item) -> Yield(Get(self.item), s)
           [] ready /\ ~IsSome(self.item) -> Return("none", s)
           [] OTHER -> Return("pending", s)

Flattening(a) ==
  /\ adapter = a
  /\ \/ call.pc = "poll" /\ StartPolling /\ UNCHANGED notified
     \/ call.pc = "base" /\ PollBase /\ UNCHANGED notified
     \/ call.pc = "inner" /\ PollInner /\ UNCHANGED notified
     \/ call.pc = "stop" /\ StopPolling
FlattenUnordered == Flattening("FlattenUnordered")
TryFlattenUnordered == Flattening("TryFlattenUnordered")

------------------------------------------------------------------------------
(* WrappedWaker::wake_by_ref, in the thread of a stream that has to wake.  *)
(* start_waking: the call goes on only if the stream is neither polled nor *)
(* woken, and no other waker is at it.                                     *)
AtWake(w, pc) == self.wake[w] = pc
GotoWake(w, pc, s) == self' = [s EXCEPT !.wake[w] = pc]
StartWaking(w) ==
  LET busy == self.state \cap {"WOKEN", "POLLING", "WAKING"} # {}
      state == self.state \cup {NeedToPoll(w)}
                 \cup (IF self.state \cap {"WOKEN", "POLLING"} = {} THEN {"WAKING"} ELSE {})
  IN  /\ AtWake(w, "idle") /\ w \in armed /\ armed' = armed \ {w}
      /\ GotoWake(w, IF busy THEN "idle" ELSE "waking", [self EXCEPT !.state = state])
      /\ UNCHANGED <<late, notified>>

(* stop_waking and its debug_assert, once the waker is cloned out of its   *)
(* cell.                                                                   *)
StopWaking(w) ==
  /\ AtWake(w, "waking")
  /\ GotoWake(w, "wake", [self EXCEPT !.state = (@ \ {"WAKING"}) \cup {"WOKEN"}])
  /\ late' = (late \/ self.state \cap {"WOKEN", "POLLING", "WAKING"} # {"WAKING"})
  /\ UNCHANGED <<armed, notified>>
WakeInnerWaker(w) ==
  AtWake(w, "wake") /\ GotoWake(w, "idle", self) /\ notified' = TRUE /\ UNCHANGED <<late, armed>>

Flattens == adapter \in {"FlattenUnordered", "TryFlattenUnordered"}
WakeByRef == /\ Flattens
             /\ \E w \in Wrapped : StartWaking(w) \/ StopWaking(w) \/ WakeInnerWaker(w)
             /\ UNCHANGED <<left, done, sink, pends, call, out>>

FlattenUnorderedTerminated == SourceTerminated(1) /\ self.inner = {}
==============================================================================
