------------------------------- MODULE Channel -------------------------------
(***************************************************************************)
(* What a channel of futures-channel/src/mpsc promises.  A message that is *)
(* accepted while the channel is open will be enqueued, a little later,    *)
(* and comes out in that order.  The stream ends only when the channel is  *)
(* closed and every message accepted has come out, and a receiver that is  *)
(* dropped throws all of them away before it is gone.                      *)
(***************************************************************************)
EXTENDS Naturals, Sequences

CONSTANT Senders

VARIABLES open,        \* may messages be accepted?
          accepted,    \* how many messages of each sender were
          inFlight,    \* senders whose last message is accepted and not enqueued
          queue,       \* messages [from, seq], the oldest first
          received,    \* the last message of each sender that came out
          receiver     \* "receiving", "dropping", "ended" or "gone"

channelVars == <<open, accepted, inFlight, queue, received, receiver>>

Init == /\ open = TRUE
        /\ accepted = [s \in Senders |-> 0]
        /\ inFlight = {}
        /\ queue = << >>
        /\ received = [s \in Senders |-> 0]
        /\ receiver = "receiving"

Accept(s) == /\ open /\ s \notin inFlight
             /\ accepted' = [accepted EXCEPT ![s] = @ + 1]
             /\ inFlight' = inFlight \cup {s}
             /\ UNCHANGED <<open, queue, received, receiver>>

Enqueue(s) == /\ s \in inFlight
              /\ queue' = Append(queue, [from |-> s, seq |-> accepted[s]])
              /\ inFlight' = inFlight \ {s}
              /\ UNCHANGED <<open, accepted, received, receiver>>

Receive == /\ receiver = "receiving" /\ queue # << >>
           /\ received' = [received EXCEPT ![Head(queue).from] = Head(queue).seq]
           /\ queue' = Tail(queue)
           /\ UNCHANGED <<open, accepted, inFlight, receiver>>

Discard == /\ receiver = "dropping" /\ queue # << >>
           /\ queue' = Tail(queue)
           /\ UNCHANGED <<open, accepted, inFlight, received, receiver>>

Close == /\ open' = FALSE
         /\ \/ UNCHANGED receiver
            \/ receiver = "receiving" /\ receiver' = "dropping"
         /\ UNCHANGED <<accepted, inFlight, queue, received>>

End == /\ receiver \in {"receiving", "dropping"}
       /\ ~open /\ inFlight = {} /\ queue = << >>
       /\ receiver' = IF receiver = "receiving" THEN "ended" ELSE "gone"
       /\ UNCHANGED <<open, accepted, inFlight, queue, received>>

Next == \/ \E s \in Senders : Accept(s) \/ Enqueue(s)
        \/ Receive \/ Discard \/ Close \/ End

Spec == Init /\ [][Next]_channelVars
==============================================================================
