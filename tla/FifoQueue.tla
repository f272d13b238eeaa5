------------------------------ MODULE FifoQueue ------------------------------
(***************************************************************************)
(* What mpsc's internal queue promises: any producer appends, the one      *)
(* consumer takes from the front in that order.  A pop may give up with    *)
(* Inconsistent, but only while there is something to pop; it reports      *)
(* Empty only when there is nothing.                                       *)
(***************************************************************************)
EXTENDS Sequences

CONSTANTS Values, Empty, Inconsistent

VARIABLES queue,    \* the values in the queue
          result    \* what the last pop returned

Init == queue = << >> /\ result = Empty

Push(v) == /\ queue' = Append(queue, v)
           /\ UNCHANGED result

PopData == /\ queue # << >>
           /\ result' = Head(queue)
           /\ queue' = Tail(queue)

PopEmpty == /\ queue = << >>
            /\ result' = Empty
            /\ UNCHANGED queue

PopInconsistent == /\ queue # << >>
                   /\ result' = Inconsistent
                   /\ UNCHANGED queue

Drop == queue' = << >> /\ UNCHANGED result

Next == \/ \E v \in Values : Push(v)
        \/ PopData \/ PopEmpty \/ PopInconsistent
        \/ Drop

Spec == Init /\ [][Next]_<<queue, result>>
==============================================================================
