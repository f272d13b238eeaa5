----------------------------- MODULE RemoteHandle -----------------------------
(***************************************************************************)
(* futures-util/src/future/future/remote_handle.rs: a future that runs on  *)
(* an executor, Remote, and the handle to its output, RemoteHandle, over   *)
(* the two halves of a oneshot channel.  The behaviours are those of any   *)
(* owner of the two halves (remote = "none") and those of the pair.  The   *)
(* message is the future's output or its panic, which the handle resumes.  *)
(***************************************************************************)
EXTENDS Oneshot

VARIABLES remote,         \* where the Remote is, or "none"
          keep_running    \* the flag both share

remoteVars == <<remote, keep_running>>
allVars == <<vars, remoteVars>>

(* remote_handle(): the executor is about to poll the Remote.              *)
RemoteInit ==
  /\ keep_running = FALSE
  /\ \/ remote = "none" /\ Init
     \/ remote = "idle" /\ NewChannel /\ notified = {Rx, Tx}

------------------------------------------------------------------------------
(* Remote::poll: poll_canceled, keep_running, the future, send.            *)

RemotePoll == /\ remote = "idle" /\ PollCanceled
              /\ remote' = "check" /\ UNCHANGED keep_running

(* BUG: keep_running is not looked at.                                     *)
RemoteCheckAlways ==
  /\ remote = "check" /\ tx = "idle"
  /\ remote' = IF Tx \notin pending THEN "cancelled" ELSE "future"
  /\ UNCHANGED <<vars, keep_running>>

(* poll_canceled was Ready if it did not leave its task pending.           *)
RemoteCheck ==
  /\ remote = "check" /\ tx = "idle"
  /\ remote' = IF Tx \notin pending /\ ~keep_running THEN "cancelled" ELSE "future"
  /\ UNCHANGED <<vars, keep_running>>

RemotePolled ==
  /\ remote = "future"
  /\ \/ remote' = "idle" /\ UNCHANGED vars       \* Pending
     \/ remote' = "sent" /\ SendLoad             \* its output, or a panic
  /\ UNCHANGED keep_running

(* The executor drops the Remote that is Ready; or one that is not.        *)
RemoteDrop ==
  /\ remote \in {"idle", "cancelled"} /\ tx = "idle"
  /\ DropTxComplete
  /\ remote' = IF remote = "idle" THEN "dropped" ELSE remote
  /\ UNCHANGED keep_running

(* What the future is waiting for wakes the task.                          *)
FutureWakes ==
  /\ remote \in {"idle", "check", "future"}
  /\ notified' = notified \cup {Tx}
  /\ UNCHANGED <<complete, held, slots, txVars, rxVars, pending, remoteVars>>

------------------------------------------------------------------------------
(* RemoteHandle: poll, drop, and forget, which ends with the drop.         *)

HandlePoll == ~keep_running /\ PollRx /\ UNCHANGED remoteVars

Forget == /\ remote # "none" /\ rx = "idle" /\ ~keep_running
          /\ keep_running' = TRUE
          /\ UNCHANGED <<vars, remote>>

HandleDrop == remote # "none" /\ DropRxComplete /\ UNCHANGED remoteVars

------------------------------------------------------------------------------
ChannelStep == (TxStep \/ RxStep) /\ UNCHANGED remoteVars
PlainCall == remote = "none" /\ (TxCall \/ RxCall) /\ UNCHANGED remoteVars
RemoteStep == RemoteCheck \/ RemotePolled \/ (remote = "cancelled" /\ RemoteDrop)

RemoteNext == \/ ChannelStep \/ PlainCall \/ RemoteStep \/ HandlePoll
              \/ RemotePoll \/ FutureWakes \/ (remote = "idle" /\ RemoteDrop)
              \/ Forget \/ HandleDrop

(* As in Oneshot.  The executor polls the Remote when it is woken and      *)
(* drops it when it is Ready, and forget() returns.  Nothing makes the     *)
(* future finish.                                                          *)
RemoteSpec == /\ RemoteInit /\ [][RemoteNext]_allVars
              /\ WF_allVars(TxStep /\ UNCHANGED remoteVars)
              /\ WF_allVars(RxStep /\ UNCHANGED remoteVars)
              /\ SF_allVars(Rx \in notified /\ HandlePoll)
              /\ WF_allVars(RemoteStep) /\ WF_allVars(Tx \in notified /\ RemotePoll)
              /\ WF_allVars(keep_running /\ HandleDrop)

------------------------------------------------------------------------------
(* A Remote gives up only if its handle was dropped and not forgotten      *)
(* ("Drops this handle without canceling the underlying future", forget),  *)
(* even if the drop comes between poll_canceled and the load of            *)
(* keep_running; and a handle finds the sender dropped, and panics, only   *)
(* if the executor has dropped a Remote that was not Ready.                *)
RemoteCorrect ==
  /\ remote = "cancelled" => dropping /\ ~keep_running
  /\ remote # "none" /\ recv_res = "canceled" => remote = "dropped"

(* "When you drop this, the remote future will be woken up to be dropped   *)
(* by the executor": a Remote whose handle is gone and was not forgotten   *)
(* is dropped in the end, even if its future never finishes.               *)
DroppedHandleCancels == (remote # "none" /\ rx = "gone" /\ ~keep_running) ~> (tx = "gone")

(* Whoever waits for the other half gets an answer once it is gone: the    *)
(* receiver or handle a message or Canceled, the Remote its cancellation.  *)
HalvesHearOfTheEnd == ReceiverCompletes /\ DroppedHandleCancels
==============================================================================
