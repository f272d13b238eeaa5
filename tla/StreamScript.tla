----------------------------- MODULE StreamScript -----------------------------
(***************************************************************************)
(* What surrounds an adapter: the streams, futures and sinks it polls, and *)
(* the task that polls it.  The items of the first stream are 1 .. len[1], *)
(* those of the second go on from there; kind says of each what a          *)
(* predicate, or the future that a closure makes of it, answers.  Whatever *)
(* is polled may answer Pending, which obliges it to wake the task later.  *)
(*                                                                         *)
(* An adapter's poll is a loop; one action is one poll of something inside *)
(* it.  Options are sequences of length 0 or 1.                            *)
(***************************************************************************)
EXTENDS Integers, Sequences, FiniteSets

CONSTANTS MaxPends   \* bound: Pending answers in one behaviour

VARIABLES adapter,   \* the adapter under test
          param,     \* its number: n of take and skip, the capacity of a buffer
          len,       \* items of the two streams
          kind,      \* what closures and their futures answer, per item
          left,      \* items that each stream has still to yield
          done,      \* has the stream returned None?
          late,      \* was a stream polled after its None, or a sink sent to before Ready?
          sink,      \* the two sinks: has poll_ready said Ready, and what they got
          pends,     \* Pending answers left
          armed,     \* what answered Pending last and will wake the task
          notified,  \* has the task been woken since it last polled?
          self,      \* the adapter's fields
          call,      \* where the poll is, and how the last one ended
          out        \* what the adapter has yielded

scriptVars == <<adapter, param, len, kind>>
sourceVars == <<left, done, late, sink>>
envVars == <<sourceVars, pends, armed>>

None == << >>
Some(x) == <<x>>
IsSome(opt) == opt # None
Get(opt) == opt[1]

(* What can be polled: the two streams, the future in hand, a set of them. *)
Fut == 3
FutSet == 4

Input(s) == [i \in 1 .. len[s] |-> IF s = 1 THEN i ELSE len[1] + i]

------------------------------------------------------------------------------
(* How one step of a poll ends: the loop goes on, or the poll returns      *)
Goto(pc, s) == self' = s /\ call' = [call EXCEPT !.pc = pc] /\ UNCHANGED out
Again(s) == Goto("poll", s)
Return(res, s) == self' = s /\ call' = [pc |-> "idle", res |-> res] /\ UNCHANGED out
Yield(x, s) == self' = s /\ call' = [pc |-> "idle", res |-> "some"] /\ out' = Append(out, x)

(* Ready of a future: its one output, and nothing more.                    *)
Finish(x, s) == self' = s /\ call' = [pc |-> "idle", res |-> "none"] /\ out' = <<x>>

(* Poll::Pending, of `ready!` or by a branch of its own.                   *)
Pending == Return("pending", self)
End == Return("none", self)

------------------------------------------------------------------------------
(* What a poll of something inside answers                                 *)
Pends(what) == /\ pends > 0 /\ pends' = pends - 1
               /\ armed' = armed \cup {what}
               /\ UNCHANGED sourceVars

Answers(what) == armed' = armed \ {what} /\ UNCHANGED pends

(* Nothing is polled in this step.                                         *)
NoPoll(step) == UNCHANGED envVars /\ step

(* Stream::poll_next of a stream that is not fused.                        *)
PollSource(s, OnSome(_), OnNone, OnPending) ==
  \/ Pends(s) /\ OnPending
  \/ /\ left[s] # << >>
     /\ Answers(s) /\ left' = [left EXCEPT ![s] = Tail(@)]
     /\ UNCHANGED <<done, late, sink>>
     /\ OnSome(Head(left[s]))
  \/ /\ left[s] = << >>
     /\ Answers(s) /\ done' = [done EXCEPT ![s] = TRUE] /\ late' = (late \/ done[s])
     /\ UNCHANGED <<left, sink>>
     /\ OnNone

(* Fuse::poll_next: `done` is set with the stream's None.                  *)
FuseDone(s) == done[s]
PollFuse(s, OnSome(_), OnNone, OnPending) ==
  IF FuseDone(s) THEN NoPoll(OnNone) ELSE PollSource(s, OnSome, OnNone, OnPending)

(* Future::poll of the future in hand.                                     *)
PollFuture(OnReady, OnPending) ==
  \/ Pends(Fut) /\ OnPending
  \/ Answers(Fut) /\ UNCHANGED sourceVars /\ OnReady

(* FuturesUnordered::poll_next of a set of futures: any of them.           *)
PollSet(set, OnSome(_), OnNone, OnPending) ==
  IF set = {} THEN NoPoll(OnNone)
  ELSE \/ Pends(FutSet) /\ OnPending
       \/ \E i \in set : Answers(FutSet) /\ UNCHANGED sourceVars /\ OnSome(i)

(* The loop of most adapters: poll the future in hand if there is one, the *)
(* stream if not.                                                          *)
FutureOrSource(OnReady(_), OnSome(_), OnNone) ==
  IF IsSome(self.fut) THEN PollFuture(OnReady(Get(self.fut)), Pending)
  ELSE PollSource(1, OnSome, OnNone, Pending)

At(a, pc) == adapter = a /\ call.pc = pc
Polling(a) == At(a, "poll")

------------------------------------------------------------------------------
(* size_hint: a lower and an upper bound, which may be missing.  The       *)
(* streams of the script know how many items they have left.               *)
Missing == 1000
Hint(lo, hi) == [lo |-> lo, hi |-> hi]
Exactly(n) == Hint(n, n)
NoHint == Hint(0, Missing)       \* the default of the trait
SourceHint(s) == Exactly(Len(left[s]))
Count(opt) == Len(opt)           \* usize::from(opt.is_some())

(* is_terminated of a FusedStream upstream.                                *)
SourceTerminated(s) == done[s]
==============================================================================
