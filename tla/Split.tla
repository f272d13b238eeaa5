-------------------------------- MODULE Split --------------------------------
(***************************************************************************)
(* futures-util/src/stream/stream/split.rs and io/split.rs: an object that *)
(* is both a stream and a sink, or can be read and written, is put into a  *)
(* BiLock, and each half polls it under the lock.  The steps of the lock   *)
(* are those of BiLock; a call makes them, polls the object, and returns   *)
(* after the guard is dropped.  SplitSink keeps an item in its slot until  *)
(* it has the lock; a WriteHalf has no slot, and otherwise does the same.  *)
(*                                                                         *)
(* Each half has a task, which may poll without being woken, may give up a *)
(* poll that waits for the lock, and may drop its half.  The items are     *)
(* numbered.  The object is external: it answers as it likes, and calls    *)
(* the waker of a half that it left Pending.                               *)
(***************************************************************************)
EXTENDS BiLock, Naturals, Sequences

CONSTANTS Reader, Writer,
          MaxItems,    \* bound: items in either direction
          MaxPends     \* bound: Pending answers of the object

ASSUME SplitAssumption == /\ Pollers = {Reader, Writer} /\ Reader # Writer
                          /\ MaxItems \in Nat /\ MaxPends \in Nat

VARIABLES call,        \* what each task has called: "none" between calls
          res,         \* what the object answered it, "none" before
          waiting,     \* tasks whose last call returned Pending from the object
          done,        \* tasks that have got the end or an error
          slot,        \* SplitSink::slot, 0 for None
          ready,       \* has poll_ready returned Ok, for one start_send?
          given,       \* items that the writer has sent
          sunk,        \* items that the object accepted
          flushed,     \* how many of them it has flushed
          promised,    \* how many a poll_flush or poll_close has returned Ok for
          unread,      \* items that the stream has still to come
          armed,       \* tasks whose waker the object has to call
          pends

sinkVars == <<slot, ready, given, sunk, flushed, promised>>
taskVars == <<call, res, waiting, done>>
objectVars == <<unread, armed, pends>>
splitVars == <<vars, sinkVars, taskVars, objectVars>>

SplitInit == /\ Init
             /\ call = [p \in Pollers |-> "none"]
             /\ res = [p \in Pollers |-> "none"]
             /\ waiting = {} /\ done = {}
             /\ slot = 0 /\ ready = FALSE
             /\ given = 0 /\ sunk = << >> /\ flushed = 0 /\ promised = 0
             /\ unread = MaxItems
             /\ armed = {} /\ pends = MaxPends

Answer(p, answer) == res' = [res EXCEPT ![p] = answer]

------------------------------------------------------------------------------
(* Calls.  A half that waits for the lock may be polled again, for         *)
(* something else too.                                                     *)
Call(p, c) ==
  /\ p \notin done
  /\ PollLock(p)
  /\ call' = [call EXCEPT ![p] = c]
  /\ waiting' = waiting \ {p}
  /\ UNCHANGED <<res, done, sinkVars, objectVars>>

(* SplitStream::poll_next, ReadHalf::poll_read.                            *)
PollNext == res[Reader] = "none" /\ Call(Reader, "next")

(* SplitSink::poll_ready has nothing to do when the slot is empty.         *)
PollReadyEmpty ==
  /\ pc[Writer] = "idle" /\ res[Writer] = "none" /\ Writer \notin done
  /\ slot = 0 /\ given < MaxItems /\ ~ready
  /\ ready' = TRUE
  /\ UNCHANGED <<vars, taskVars, objectVars, slot, given, sunk, flushed, promised>>
PollReady == res[Writer] = "none" /\ slot # 0 /\ given < MaxItems /\ Call(Writer, "ready")

(* SplitSink::start_send.                                                  *)
StartSend ==
  /\ pc[Writer] = "idle" /\ res[Writer] = "none" /\ ready
  /\ ready' = FALSE
  /\ given' = given + 1
  /\ slot' = given'
  /\ UNCHANGED <<vars, taskVars, objectVars, sunk, flushed, promised>>

PollFlush == res[Writer] = "none" /\ promised < given /\ Call(Writer, "flush")
PollClose == res[Writer] = "none" /\ given = MaxItems /\ Call(Writer, "close")

------------------------------------------------------------------------------
(* The object is polled with the lock held.                                *)

InObject(p) == pc[p] = "held" /\ res[p] = "none"

ObjectPends(p) ==
  /\ InObject(p) /\ pends > 0
  /\ pends' = pends - 1
  /\ armed' = armed \cup {p}
  /\ Answer(p, "pending")
  /\ UNCHANGED <<vars, call, waiting, done, sinkVars, unread>>

(* poll_next fails, or poll_ready, start_send (which then has the item),   *)
(* poll_flush or poll_close.                                               *)
ObjectFails(p) ==
  /\ InObject(p)
  /\ Answer(p, "err")
  /\ slot' \in {slot} \cup IF p = Writer THEN {0} ELSE {}
  /\ UNCHANGED <<vars, call, waiting, done, ready, given, sunk, flushed, promised, objectVars>>

ObjectYields ==
  /\ InObject(Reader)
  /\ Answer(Reader, IF unread = 0 THEN "end" ELSE "ok")
  /\ unread' = IF unread = 0 THEN 0 ELSE unread - 1
  /\ UNCHANGED <<vars, call, waiting, done, sinkVars, armed, pends>>

(* BUG: the item stays in the slot.                                        *)
SlotNotTaken == slot
(* slot.take()                                                             *)
SlotTaken == 0

(* poll_flush_slot, with the object ready.  poll_ready is then done;       *)
(* poll_flush and poll_close go on.                                        *)
FlushSlot ==
  /\ InObject(Writer) /\ slot # 0
  /\ sunk' = Append(sunk, slot)
  /\ slot' = SlotTaken
  /\ IF call[Writer] = "ready" THEN Answer(Writer, "ok") ELSE UNCHANGED res
  /\ UNCHANGED <<vars, call, waiting, done, objectVars, ready, given, flushed, promised>>
FlushObject ==
  /\ InObject(Writer) /\ slot = 0 /\ call[Writer] \in {"flush", "close"}
  /\ flushed' = Len(sunk)
  /\ Answer(Writer, "ok")
  /\ UNCHANGED <<vars, call, waiting, done, objectVars, slot, ready, given, sunk, promised>>

------------------------------------------------------------------------------
(* The guard is dropped when the object has answered; then the call is     *)
(* over.  poll_ready returns Ok only when it finds the slot empty.         *)

(* BUG: a Pending answer is returned with the lock held.                   *)
LeakGuard(p) ==
  /\ res[p] # "none" /\ pc[p] = "held"
  /\ IF res[p] = "pending" THEN Goto(p, "idle") /\ UNCHANGED <<state, wakee, notified>>
     ELSE Unlock(p)
  /\ UNCHANGED <<taskVars, sinkVars, objectVars>>

DropGuard(p) == res[p] # "none" /\ Unlock(p) /\ UNCHANGED <<taskVars, sinkVars, objectVars>>

Return(p) ==
  /\ pc[p] = "idle" /\ res[p] # "none"
  /\ call' = [call EXCEPT ![p] = "none"]
  /\ Answer(p, "none")
  /\ waiting' = IF res[p] = "pending" THEN waiting \cup {p} ELSE waiting
  /\ done' = IF res[p] \in {"err", "end"} \/ (res[p] = "ok" /\ call[p] = "close")
             THEN done \cup {p} ELSE done
  /\ ready' = (ready \/ (res[p] = "ok" /\ call[p] = "ready"))
  /\ promised' = IF res[p] = "ok" /\ call[p] \in {"flush", "close"} THEN given ELSE promised
  /\ UNCHANGED <<vars, objectVars, slot, given, sunk, flushed>>

(* The task gives up, and will do something else.                          *)
GiveUp(p) ==
  /\ Cancel(p)
  /\ call' = [call EXCEPT ![p] = "none"]
  /\ UNCHANGED <<res, waiting, done, sinkVars, objectVars>>

(* A half is dropped, or both are, by reunite().                           *)
DropPart(p) == res[p] = "none" /\ DropHalf(p) /\ UNCHANGED <<taskVars, sinkVars, objectVars>>

ObjectWakes(p) ==
  /\ p \in armed
  /\ armed' = armed \ {p}
  /\ notified' = notified \cup {p}
  /\ UNCHANGED <<state, pc, wakee, taskVars, sinkVars, unread, pends>>

LockStep(p) == Continue(p) /\ UNCHANGED <<taskVars, sinkVars, objectVars>>

------------------------------------------------------------------------------
Calls(p) == IF p = Reader THEN PollNext
            ELSE PollReadyEmpty \/ PollReady \/ StartSend \/ PollFlush \/ PollClose
Goes(p) == \/ LockStep(p) \/ ObjectPends(p) \/ ObjectFails(p) \/ DropGuard(p) \/ Return(p)
           \/ (p = Reader /\ ObjectYields)
           \/ (p = Writer /\ (FlushSlot \/ FlushObject))

SplitNext == \E p \in Pollers : Calls(p) \/ Goes(p) \/ GiveUp(p) \/ DropPart(p) \/ ObjectWakes(p)

(* A call under way goes on, the object wakes, and a task that was woken,  *)
(* or is not waiting for anything, makes its next call.                    *)
Runs(p) == (p \in notified \/ (pc[p] = "idle" /\ p \notin waiting)) /\ Calls(p)
SplitSpec == /\ SplitInit /\ [][SplitNext]_splitVars
             /\ \A p \in Pollers : /\ WF_splitVars(Goes(p)) /\ WF_splitVars(ObjectWakes(p))
                                   /\ WF_splitVars(Runs(p))

------------------------------------------------------------------------------
(* An item waits in the slot for the lock while other calls come and go:   *)
(* items get to the object once and in order, and a poll_flush or          *)
(* poll_close that returns Ok has flushed every item sent before it.       *)
SplitDelivers ==
  /\ \A i \in 1 .. Len(sunk) : sunk[i] = i
  /\ slot # 0 => slot = Len(sunk) + 1
  /\ promised <= flushed

(* The two halves never wait for each other for ever: each gets to its end *)
(* (or is dropped), although either may find the lock taken at any poll.   *)
HalvesFinish == \A p \in Pollers : <>(p \in done \/ pc[p] = "dropped")
==============================================================================
