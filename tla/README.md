# TLA+ models of futures-rs

This directory holds TLA+ models of the concurrent core of futures-rs, of its
executors, and of its stream, future, sink and IO combinators, the TLC
configurations that check them on small instances, and TLAPS proofs of the main
properties of the core for every instance. Paths below are relative to the repository.

- Check one model: `tlc -config Mutex.cfg MCMutex`. `X.cfg` goes with `MCX`, except
  `Adapters.cfg` and `Contract.cfg` with `AdapterProperties`, `OneshotFused.cfg` with `Oneshot`,
  `Oneshot.cfg` with `RemoteHandle`, `Mpsc.cfg` with `UnboundedMpsc`, and `Split.cfg` and
  `ThreadPool.cfg`, which name their sets themselves, with `Split` and `ThreadPool`.
- Check one module's proofs: `tlapm AtomicWakerProofs.tla`

`PROJECT.json` lists the components, the runs, for every property a mutation of
the model that must violate it, the source lines behind every definition, the
hazards that the properties are for, and the theorems.

## 1. The system

futures-rs is a library. Nothing in it runs by itself: an executor polls
futures, a future that cannot go on leaves a *waker* somewhere and returns
`Pending`, and whoever can make it go on calls that waker. Nearly every bug that
matters here is one of four: a wake-up lost between a check and a registration;
two threads in a cell that only one may touch; a message or a node that is lost,
handed out twice or freed too early; an assertion or an `unreachable!` that an
unlucky interleaving reaches.

### Inventory

| component | state | operations | interacts with | what makes it correct |
|---|---|---|---|---|
| `AtomicWaker` (futures-core) | a 2-bit word, a cell with a waker | `register`, `wake`, `take`, any thread | is the waker slot of mpsc, `Abortable`, `FuturesUnordered` | the cell is never raced; a wake after a registration reaches that waker |
| `Abortable` / `AbortHandle` | an `aborted` flag, an `AtomicWaker` | `try_poll`, `abort` | wraps any future or stream | `abort` is never lost between the two checks of `try_poll` |
| `BiLock` | one word: 0, 1, or a boxed waker | `poll_lock`, `unlock`, drop | the split halves of streams and IO objects | exclusion, no panic, the parked half is woken |
| mpsc queue | linked list, `head` (atomic), `tail` | `push` (any thread), `pop`, `pop_spin`, drop | the message and the parked-sender queue of mpsc | FIFO, no use after free, no leak |
| bounded mpsc | a word (open bit, message count), two queues, a flag and waker per sender | `poll_ready`, `start_send`/`try_send`, `clone`, `disconnect`, `close_channel`, drop; `poll_next`, `try_recv`, `close`, drop | queue, `AtomicWaker` | exact count, capacity, end of stream is final, no side sleeps for ever |
| unbounded mpsc | the same without parking | `unbounded_send`, ... | queue, `AtomicWaker` | the same without capacity |
| oneshot | `complete` flag, three try-locks: data and both wakers | `send`, `poll_canceled`, drop; `poll`, `try_recv`, `close`, `is_terminated`, drop | `futures-channel/src/lock.rs` | both sides agree on the outcome, the message is not lost, no side sleeps |
| `RemoteHandle`, `Remote` | a oneshot channel, a `keep_running` flag | poll and drop of both, `forget` | oneshot, an executor | a dropped handle stops the future, a forgotten one does not; the handle gets the output or the panic |
| `Mutex` (futures-util) | a word (LOCKED, HAS_WAITERS), a slab of waiters | `try_lock`, the lock futures (poll, drop), guards (drop) | std `Mutex` around the slab | exclusion, slab and futures match, a cancelled future hands its wake-up on |
| `ThreadPool`, `UnparkMutex` | a queue, a handle count, a status and a cell per task | `spawn`, clone and drop of handles, the worker loop, `wake` | std channel | one poll at a time, each wake-up leads to a poll, workers stop after the last task |
| `FuturesUnordered` | intrusive list of all tasks, intrusive ready queue, Arc counts | `push`, `poll_next`, `wake`, drop | `AtomicWaker`, user futures | reference counts exact, both lists consistent, no lost wake-up |
| `LocalPool`, `block_on`, `enter` | a `FuturesUnordered`, the incoming list, a parked flag | `run*`, `spawn_local` | `FuturesUnordered`, thread parking | nothing ready is left when it parks |
| `Shared` | a state word, a slab of wakers, the future or its output | poll and drop of clones | user future | the inner future is polled by one clone at a time, its wake-ups reach a clone that polls, all resolve |
| `FuturesOrdered`, `buffered` | a `FuturesUnordered`, an index heap | `push_back/front`, `clear`, `poll_next` | `FuturesUnordered` | outputs come in the order of the pushes |
| stream adapters | the pending item or future, counters, a done flag | `poll_next`, `size_hint`, `is_terminated` | the stream they wrap | the output is the list that the combinator names; Pending only on a Pending below |
| `flatten_unordered` | a word of flags, two wakers, the inner streams | `poll_next`, the wakers' `wake` | `FuturesUnordered`, the task's waker | every item once, no wake-up lost between the poll and the wakers |
| futures that consume a stream | an accumulator, the future in hand, a sink's item | `poll`, `is_terminated` | the stream, a closure's future, a sink | the one output is what the list gives; nothing polled after its end |
| future adapters | which stage they are in | `poll` | the futures they wrap | the answer, and each inner future polled until Ready and no more |
| sink adapters | a buffered item | `poll_ready`, `start_send`, `poll_flush`, `poll_close` | the sink they wrap | `start_send` only after a Ready `poll_ready`; order kept |
| io adapters | a buffer and its positions | `poll_read`, `poll_fill_buf`, `poll_write`, `poll_flush`, `poll_close`, ... | the IO object | bytes in order, each once, across partial reads, partial writes and errors |
| split | two halves over a `BiLock`, the sink's slot | as the object's | `BiLock` | each half sees exclusive access, no item lost or doubled, neither half waits for ever |
| macros (futures-macro) | the futures in hand, the order of the polls | `select!`, `select_biased!`, `join!`, `try_join!`, `stream_select!` | user futures and streams | the branch run is one that is Ready; nothing polled after its end |
| futures-test wrappers | has a Pending been made up? | poll of `interleave_pending`, `pending_once`, `limited` | what they wrap | they change only the timing |
| futures-task, core traits | none | vtables, trait definitions, forwarding | | |

What is hard to test is listed line by line under `hazards` in `PROJECT.json`.

## 2. Modules

    WakerCell  <--refined by--  AtomicWaker  <- Abortable
       ^ used as a contract by  Mpsc, FuturesUnordered
    FifoQueue  <--refined by--  MpscQueue
       ^ the form of both queues in  Mpsc
    Channel    <--refined by--  Mpsc <- UnboundedMpsc
    BiLock <- Split      Oneshot <- RemoteHandle      LocalPool <- Shared
    Mutex, ThreadPool, FuturesUnordered stand alone

    StreamScript <- StreamAdapters <- StreamBuffers <- TryStreamAdapters
      <- StreamConsumers <- FutureAdapters <- SinkAdapters <- IoReaders <- IoWriters
      <- FlattenUnordered <- Macros <- ResultFns <- TestHelpers
      <- Adapters <- AdapterProperties

(`A <- B`: B EXTENDS A. A component on the right runs over the *steps* of the one on
the left, not over a summary of it.)

A module `X` has the state, the actions, `Next`, `Spec`, `FairSpec` (where there
is liveness) and the properties of one component; `MCX`, where it is needed, gives TLC its sets;
`XProofs` has its theorems, `AtomicWakerProofs` those of `Abortable` too and `QueueAndOneshotProofs`
those of `MpscQueue`, `Oneshot` and `RemoteHandle`. An operator whose comment begins with "BUG:" stands
before the definition that it gets wrong; no specification uses it. Put in the place of that definition it must
violate the property that `PROJECT.json` names with it.

**Granularity.** One action is one access to memory that other threads use (an
atomic operation, a lock region, an access to an `UnsafeCell`), together with
the thread-local code around it. `pc`, `tx`, `rx`, `owner` and the like say
where in a call a thread is; the values are the names of the steps. What
`&mut self` makes exclusive is not split. Interleavings are sequentially
consistent: the effects of weaker orderings (`Relaxed`, `Acquire`, `Release`) are
not modelled, so nothing here says that an ordering could not be too weak.

**Tasks.** The environment of a component is any task that keeps the contract
of `Future`: it may poll at any time, also spuriously, may drop what it holds
when no call is under way, and when woken it polls in the end. `notified` is the
set of tasks whose waker has been called since their last poll.

### Correspondence with the code

- **WakerCell** (abstract): `registered` (the task in the slot), `owed` (taken by
  a wake and about to be notified), `notified`. `Register`, `Take`, `Deliver`. This
  is what callers of `AtomicWaker` rely on.
- **AtomicWaker**: `state` is the word with `REGISTERING = 1`, `WAKING = 2`;
  `waker` is the `UnsafeCell`. `RegisterCas`, `RegisterStore`, `RegisterRelease`,
  `RegisterTake`, `RegisterSwap` are the successive accesses of `register()`;
  `TakeFetchOr`, `TakeCell`, `TakeSwap` those of `take()`; `Deliver` is the call of
  the waker taken out.
- **Abortable** (over AtomicWaker): a task's two checks of `aborted` with the poll of the
  inner future and `register` between them, and `abort()`, a store and `wake`; the
  steps of `register` and `wake` are those of AtomicWaker. `Tasks` with more than one
  member are clones of one `Abortable`, which share `AbortInner`; `displaced` is a history
  of the clones whose waker another one pushed out.
- **BiLock**: `state` is the `AtomicPtr` (null, 1, or the poller whose boxed waker it
  holds), `wakee` the box that an unlocker took out of it. `PollLock`, `Swap` and `Park` are
  `poll_lock`; `Unlock` and `Wake` are `unlock`.
- **Split** (over BiLock): the calls of `SplitStream` and `SplitSink` (or `ReadHalf` and
  `WriteHalf`), each `poll_lock`, the poll of the object under the guard, and the drop
  of the guard; `slot` is `SplitSink::slot`. The object is external: it pends, fails, ends.
- **MpscQueue**: nodes are addresses with `next` and `value`; a freed address may be
  allocated again. `push` is two steps, the swap of `head` and the store of the
  link; `pop` frees the old tail. **FifoQueue** (abstract) is a sequence in the order of the
  swaps, in which a suffix may be invisible to the consumer.
- **Mpsc**: `state` is the real packed word, with an open bit at `OPEN_MASK`.
  Sender: `unparked` (poll_unparked), counting a message, `park`, `push`, `wake`,
  the `close`/`wake` pair of the last sender. Receiver: `pop`, `unpark`, `dec`,
  `load`, `register`, `recheck`, and the draining of both queues by close and drop.
- **UnboundedMpsc**: the same word, queue and waker without parking (`DoSendNb` and its
  receiver); `bounded` says which of the two channels a behaviour is about.
  **Channel** (abstract) is what both promise: what is accepted while the channel is
  open is enqueued, comes out in that order, and the stream ends only when
  it is closed and empty.
- **Oneshot**: `complete`, and the three `Lock`s of `lock.rs` as booleans, which are
  only ever try-locked. All of `send` (with its second look after storing the
  value), `poll_canceled`, `drop_tx`, `recv`, `try_recv`, `close`,
  `is_terminated`, `drop_rx`, step by step.
- **RemoteHandle** (over Oneshot): `RemotePoll`, `RemoteCheck` and what follows are
  `Remote::poll`: `poll_canceled`, the load of `keep_running`, the future, `send`. The
  handle's poll, drop and `forget` are the receiver's calls with the store of the flag before them.
  With `remote = "none"` the halves are owned by anybody.
- **Mutex**: the two bits `locked` and `has_waiters`, the slab `waiters`, `wait_key` of
  each lock future. `Poll` (first try), `insert`, `retry`, `remove`; `Unlock` and
  its wake; `DropFuture`, which hands a wake-up on.
- **ThreadPool**: `status` and `inner` of each `UnparkMutex`; `queue`;
  `cnt`, with the two clones of the pool that every task holds; workers that poll,
  store, compare-and-swap, poll again, or die in a panic; callers of `wake()`.
- **FuturesUnordered**: the list of all tasks (`head_all`, `next_all`, `prev_all`,
  `len_all`), the ready-to-run queue (`head`, `tail`, `next_ready`), `queued`,
  `woken`, the Arc count `strong` of each task and of the queue. `push` and `wake`
  come from several threads; `poll_next` with its yields and its `Bomb` (a panic in
  a future), `release_task`, and the drop of the set and, later, of the queue, are
  the owner's.
- **LocalPool**: `unparked` is the flag of `ThreadNotify`, `token` the token of
  `thread::park`, `entered` the flag of `enter`; `op` is which of `block_on`, `run`,
  `run_until`, `try_run_one`, `run_until_stalled` a thread has called, `exec` where it is.
  The pool's `FuturesUnordered` has its contract: `pool` and the `queued` part of it.
- **Shared** (over LocalPool): the futures of the executors are the clones. `state`
  is the word (IDLE, POLLING, COMPLETE, POISONED), `slab` what is stored under each clone's key, `lock` the
  mutex around it; each access in `poll`, in `Notifier::wake_by_ref` and in drop is a step.
- **StreamScript** is what an adapter meets: up to two streams (`left`, `done`), two sinks (`sink`),
  the answers of closures and of the futures they make (`kind`), and Pending,
  which anything polled may answer and which obliges it to wake the task (`armed`).
  One action is one poll of something inside, so a poll of the adapter is several
  actions, and every place in its loop where a Pending can come is reached.
  **StreamAdapters** has the adapters of one stream without a buffer (map to
  catch_unwind), **StreamBuffers** those with a buffer or two streams (peekable,
  chunks, zip, chain, flatten, buffered, select, select_all, ...), **TryStreamAdapters**
  the `try_` variants, **StreamConsumers** the futures (collect, fold, any,
  for_each_concurrent, forward, ...), **FutureAdapters** the futures made of futures
  (map, flatten, join, join_all in its two forms, select, select_ok, ... and `try_`
  variants; `left[1]` are the futures not finished), **SinkAdapters** the sinks made of sinks
  (buffer, with, with_flat_map, fanout, ...; here the task feeds, flushes and closes) and
  feed, send, send_all; `FuturesOrdered` itself (with `push_front` and `clear` by a caller
  between polls) and `Either` are among them. **IoReaders** and **IoWriters** have the
  readers (BufReader, chain, take, lines, read_until, read_exact, copy, ...) and the writers
  (BufWriter, LineWriter, write_all, IntoSink, ...): the bytes are the items of the script, and a read or a
  write moves any number of them that fits. **FlattenUnordered** has, beside the poll, the two wakers
  that other threads call, step by step. **Macros** is the code that the macros
  generate, **ResultFns** the functions of `fns.rs` and the `map_ok` family made of them,
  **TestHelpers** the wrappers of futures-test. `self` is the adapter's struct, `XNew` its
  constructor, `X` its poll, `XHint` and `XTerminated` its `size_hint` and `is_terminated`.
  **Adapters** is the task: it chooses one adapter and one script in `Init` and polls.
  **AdapterProperties** has the reference list of every adapter (`Expected`) and the
  properties. `FuturesUnordered` appears here by its contract.

## 3. Runs

| run | instance | what it shows |
|---|---|---|
| `abortable` | 2 clones, 2 handles, the real AtomicWaker | the cell is not raced and the debug assertions and the `unwrap` hold (`CellIsSound`), the code implements `WakerCell`, and a register that meets a wake in progress wakes its own task (`ImplementsWakerCell`), no `abort()` is lost between the two checks (`AbortReachesTask`), and an aborted task completes (`AbortCompletes`), both but for displaced clones |
| `split` | 2 halves, 2 items each way, 2 Pendings | one half at a time polls the object and no panic of `bilock.rs` is reached (`LockIsSound`), no wake-up is lost (`ParkedIsReachable`), items arrive once and in order, and a flush that is Ok has flushed them (`SplitDelivers`), both halves finish (`HalvesFinish`) |
| `mpsc_queue` | 2 producers, 4 addresses, 2 values | no freed node is touched, the asserts of `pop` hold, drop frees all (`NodesAreSound`), the list is a FIFO (`ImplementsFifo`), `pop_spin` returns (`PopReturns`) |
| `mpsc` | 2 senders, 2 messages in all, `Buffer` = 0, bounded and unbounded, `poll_ready` and `try_send` mixed | `CountIsExact`, `CapacityBound`, `NoLostWakeUp` (of the receiver, and of a parked sender), `ImplementsChannel` (nothing is lost or reordered, the end is final, drops drain both queues), `PendingSenderIsNotified`, `EndIsReached` |
| `oneshot` | the channel, and a Remote with its handle over it, up to the receiver's first Ready | both sides agree and the message is not lost (`MessageAccounted`), `NoLostWakeUp`, a Remote gives up only for a handle dropped and not forgotten (`RemoteCorrect`), each half gets to hear of the other's end (`HalvesHearOfTheEnd`) |
| `oneshot_fused` | the channel, with `is_terminated` called after Ready | **violation** of `ResultsAgree`: the finding below |
| `mutex` | 3 tasks, 3 slab keys | `MutualExclusion`, `SlabMatchesFutures`, `SomeoneWillLock`, `WaitersProgress` |
| `thread_pool` | 2 workers, 2 tasks, 2 wakers' threads, 3 wakes, 2 handles | `OnePlace`, `CloseIsLast`, `WokenIsPolled`, `WorkersStop` |
| `futures_unordered` | 2 futures, 2 threads, 2 wakes | `MemorySafe`, `SetConsistent`, `NoLostWakeUp` |
| `shared` | 3 clones on 2 threads, one under `block_on` and two in a `LocalPool` run in each of its ways; 2 Pendings, panics or drops | one clone polls the inner future (`PolledByOne`), its wake-up is kept for a clone that will poll (`WakeUpKept`), no executor parks through a wake-up (`NoWakeMissed`), every clone resolves (`AllResolve`) but for the cases under Observations |
| `adapters` | every adapter, with up to 2 streams, readers or sinks of up to 3 items, or 3 futures, every combination of answers, 3 Pendings, errors or extra calls | the output is the reference list, whatever was Pending, a select hands back exactly the unfinished futures, and a flush that is Ready has passed on all that was accepted (`OutputCorrect`); no stream is polled after its None, no future after its Ready, and no sink gets an item without a Ready `poll_ready` (`NoLatePoll`); `size_hint` brackets what is still to come and None is followed by `is_terminated` (`QueriesHold`, but for the cases under Findings); the task is woken until the end is reached (`Completes`) |
| `stream_contract` | the same adapters and scripts | **violation** of `StreamContract`: what the traits say of every stream, without the exceptions of `NoLatePoll` and `QueriesHold`; the findings below |

**Why the bounds are enough to be interesting.** The two clones
and two handles of `abortable` put two registers and two wakes in one another's
windows. Two items and two Pendings in `split` let an item wait in the slot while the other
half holds the lock, and an earlier one be flushed meanwhile. Four addresses in `mpsc_queue` let both producers be between swap and link
behind a full node, and let a freed address be reused at once. With `Buffer` = 0
every message parks its sender, so two messages reach both senders parked at once (one each) or one
parked a second time (both), a close while one is parking, and both kinds of
drain. A parked queue with both and a third message behind is left to `MpscProofs`, for the safety properties. `OPEN_MASK` = 8 leaves room for every count reachable, and an underflow
would borrow from the open bit as it does in the code. Three tasks in `mutex`
are a holder, a waiter that is woken (and may be dropped), and one behind it.
Oneshot is not scaled down at all. Three clones in `shared` are one that polls, one turned
away, and one that is dropped. `MaxWakes` bounds the calls of `wake()`, each of
which can fall anywhere; two or three of them already wake one task before,
during and after one poll. Three items let an adapter that
keeps one pending accept, refuse and fail on the ones around it, and three Pendings
let the stream, a future and the stream again answer it in one pass; n of take and skip and the
capacity of buffers go from 0 to 2 (0 is no limit where the code says so), so a
buffer is empty, partly full and full. `MaxCycle` cuts `cycle`, which has no end, after 4 items, past its first
round. `CHECK_DEADLOCK FALSE` stands only where a system
may really come to rest: all halves dropped, or the bounds used up.

**Fairness.** A call that a thread has begun goes on (weak fairness of the steps
inside calls): threads are scheduled by the OS and no step of these calls blocks.
A waker that was taken out is called (the code's next statement). A guard is
dropped in the end, a future's poll returns or panics, and a notified task polls again (in `Mutex`: or
drops its future): that is the contract of `Future` and of executors. Where the
owner has other calls that it could repeat for ever instead of polling (`close`,
`try_recv`), the fairness of the poll of a *notified* task is strong. In
`adapters`, a poll returns (`Step`), whatever answered Pending wakes the task
(`Wake`), the wakers of `flatten_unordered` go on once they are called (`CallWaker`), and the task
polls until the end (`PollNext`); polls that nobody asked for are not
fair. In `abortable` the abort that is needed is not fair: only what follows it is. In
`oneshot` the executor polls a woken Remote and drops it when it is Ready, and `forget`
returns; nothing makes the future finish. In `split` the object calls the waker of a half that it
left Pending, and a woken task calls again until its end. In `shared` the threads go on, and
an inner future that answered Pending calls its waker. Otherwise nothing is fair: nobody needs to send, push, wake, drop or abort.

### Findings

`oneshot_fused`: `recv` answers `Canceled` when it cannot take the data lock,
relying on the sender to notice `complete` and take its message back. If the
receiver's owner then calls `is_terminated()` (as `select!` does), that call
may hold the data lock just when the sender tries to take the message back,
and `send` returns `Ok`.

`stream_contract`: `StreamContract` states, of every adapter, that `size_hint` bounds what still
comes (futures-core/src/stream.rs:101, "the implementation should provide a correct estimation,
because otherwise it would be a violation of the trait's protocol"), that a stream is terminated
after its None (select_next_some.rs:41, `debug_assert!(self.stream.is_terminated())`), and that no
stream is polled after its None (futures-core/src/stream.rs:60, "should not be invoked
again"). TLC stops at the lower bound of `scan`; `tlc -continue` lists the others. `QueriesHold` and `NoLatePoll`
except exactly these cases, and only the bound named.

| stream | what breaks the contract |
|---|---|
| `scan` (scan.rs:103) | lower bound: that of the stream, although the closure may end it at any item; the comment on the line says that a lower bound cannot be known. Upper bound: the item whose future is pending is not counted, so with the last one in hand the bounds are `(0, Some(0))` and one item comes |
| `take_until` (take_until.rs:148) | lower bound, while the future that may end it is there |
| `catch_unwind` (catch_unwind.rs:56) | lower bound, although a panic ends it |
| `poll_immediate` (poll_immediate.rs:46) | upper bound: the items that stand for a Pending are not counted |
| `zip` (zip.rs:70) | not terminated after None while the other stream goes on |
| `take_until` (take_until.rs:158) | not terminated after None when the future was taken out |
| `try_take_while`, `try_skip_while` (try_take_while.rs:118, try_skip_while.rs:109) | not terminated after None when a predicate failed: the pending item is kept |
| `stream_select!` (futures-macro/src/stream_select.rs:67) | a stream that ended is dropped only if the same poll found no item in another one, so it may be polled after its None. The documentation's example fuses its streams |

### Observations

Met while modelling; each is a premise of a property above.

- `abortable`: `Abortable` derives `Clone`, and all clones share one `AtomicWaker`,
  which remembers one task, so `abort()` wakes only the clone that registered last. The
  properties and the theorem except the clones so displaced, and TLC shows that they must.
- `shared`: if the clone that was polling the inner future when its wake-up came is dropped
  before it polls again, clones that were turned away meanwhile are not woken
  (`abandoned`). A panic of the inner future stores POISONED and wakes nobody, so sleeping
  clones sleep on, and the waker of the clone that panicked stays in the slab. `AllResolve` excepts both.
- `split`: a `SplitSink` dropped with an item in its slot drops the item.
- `adapters`, io: after an Err in the middle of a line, `Lines` puts the bytes read before it at the
  start of a later line; `IntoSink` polls again for ever if the writer accepts 0 bytes, where
  `write_all` gives WriteZero; `read_to_string` loses what its String held if the bytes are not UTF-8 or if it is
  dropped. A `BufReader` of capacity 0 reports the end of the file, and
  `seek_relative(i64::MIN)` negates a number that has no negative (buf_reader.rs:98); the script has neither.
- `adapters`, `is_terminated`: besides the streams under Findings it is FALSE for the futures
  `try_collect` and `forward` after an Err, and `poll_immediate` after a
  Ready(None), which may be polled again. And it is TRUE for an `OptionFuture` without a future before its
  first poll, so `select!` never takes its None. `QueriesHold` and `StreamContract` make
  these exceptions, and those of adapters that do not implement the trait.
- `split`: the model of BiLock, like the code, panics when *one* half is polled by two
  tasks through a shared reference (`poll_lock` takes `&self`). The run has one poller per half, and
  the theorems assume the same by `TwoOwners`.
- `mpsc`: the documented capacity, `buffer + num-senders`, counts living
  senders only. A clone starts unparked, so senders that are cloned, send once and are
  dropped leave their messages behind; `CapacityBound` therefore counts every sender ever created.
  It also allows one more message while the receiver holds one, since
  `next_message` unparks a sender before it subtracts.
- `mpsc`: `try_send` after a Pending `poll_ready` calls `poll_unparked(None)`,
  which overwrites the waker that `poll_ready` stored, so that task is not notified of the
  capacity. The run mixes both calls; `PendingSenderIsNotified` excuses the sender that called `try_send` until
  its next Pending `poll_ready`, and no one else.
- `adapters`, `try_join_all`: the documentation says that "an error will be returned
  immediately". With more than 30 futures (`SMALL`) it collects a `FuturesOrdered`, so an
  error waits until every earlier future has finished; the reference list of `TryJoinAllBig`
  is the first error in order, that of `TryJoinAll` the error of any future.

## 4. Proofs

Each `*Proofs` module states an inductive invariant `IInv`, shows that `Init`
establishes it and each action preserves it, and derives the theorems. The
constants are arbitrary sets but for the assumptions named below.

- **AtomicWakerProofs** (assumes only `NoWaker \notin Wakers`). `IInv` is the types,
  `Ownership` (which program counters own which bits of the word) and `Custody`
  (which waker is in the cell, and when it may be missing). Exclusion alone is
  not inductive: that the failed release in `register` finds *both* bits set
  needs that a `take` inside it has returned empty-handed. Theorems: `TypeCorrect`,
  `CellNeverRaced`, `AssertsNeverFail`, `CellSound` (both), the action property `RegisterNeverLost`, and
  `RefinesWakerCell`: the refinement, with that action property.
  Over the same steps and with the same invariant, for any disjoint sets of clones and handles of
  an `Abortable` (`CallersAssumption`), `AbortNeverLost`: an abort that has returned leaves every task aware or about to be
  woken, unless another clone displaced it. The strengthening says that a task between
  its checks, or asleep, is registered or owed a wake-up, or displaced.
- **BiLockProofs** (two pollers: `TwoOwners`). `Exclusion`, `NeverPanics`, `Sound` (both),
  `NoLostWakeUp`. `IInv` ties the word to the guard (null iff there is none), says
  that a waker in the word is not the holder's and that nobody is about to park on top of it, and that every
  parked poller can still be reached. For `Split`, with any number of items and Pendings, the same invariant
  goes through every call of the halves (`SplitLockSound`, `SplitLosesNoWakeUp`), and `SplitInv` says
  which results a half can have at each step of the lock, that the object has every item given, in order, but the one in the
  slot or one that an error took away, and that a flush about to return Ok has left nothing unflushed:
  `SplitIsFaithful`.
- **QueueAndOneshotProofs**, the mpsc queue (any nodes, producers and values, with the special values
  distinct). The list is described without induction by a ghost order of the
  nodes; from it `MemorySafe`, `AssertsNeverFail`, `DropFreesAll`, `NodesSound` (all three), and the
  refinement `RefinesFifo`.
- **QueueAndOneshotProofs**, the oneshot channel and `RemoteHandle` (their module is the instance `One`, with variables
  of its own; `OneshotInv` and `ResultsOK` are the invariants). The model has no sets to scale, so on the run's instance TLC visits all
  of its states; what the proof adds is the argument, and what may be called after Ready.
  `LocksOK`: which program counters hold which try-lock. `MessageOK`: where the message is at each step of `send`.
  `RxArmed`, `TxArmed`: a half that is Pending has its waker in its slot until the other takes it out to wake it: `OneshotWakeUpsKept`,
  whatever is called after Ready. `RemoteOK`: the Remote and its sender are in step, and only a drop of the handle
  completes the channel before the Remote does: `RemoteIsCorrect`. `ResultsOK`: a receiver that has its answer and holds the
  lock of the data has left no message there, so a sender that finds it locked was heard:
  `OneshotMessageAccounted`, for every owner that does not call `is_terminated` after Ready. That is the one
  hypothesis, and the finding on `oneshot_fused` is that it cannot be dropped.
- **MutexProofs** (any tasks, `Keys \subseteq Nat`). `TypeCorrect`, `OneGuard`,
  `SlabConsistent`, `NoLostWakeUp`. The strengthening adds that a pending future
  has a key and that a waiter marked Woken is notified or polling.

- **MpscProofs** (any senders, any buffer below `MAX_BUFFER`, any width of the word; the
  receiver's task is not a sender's). Both channels at once. `CountCorrect`: the count is
  not inductive without the messages that are counted and not yet pushed (`Counting`), the one in the receiver's
  hands and the mode in which each side is (`ModesMatch`). With it the counted messages map to the ones
  that `Channel` has accepted, and every step to a step of `Channel` or a stutter: `RefinesChannel`.
  `ReceiverIsWoken` needs `ReceiverIsArmed`: past `register` the receiver has its waker in the cell, or it is owed a
  call, or a sender is between push and wake. `SendersAreUnparked` rests on `Handles` (a parked sender's
  handle is in the queue or in the receiver's hand, once, and its sender knows) and `EnoughToCome`: at least
  as many messages are pushed or about to be as handles are in the queue or about to be, which is what the comment of `poll_unparked`
  claims. `BothSidesAreWoken` is both. `CapacityIsBounded` needs the stronger
  `OpenBound`: while the channel is open the count is at most the buffer, plus one for each sender that is in the
  parked queue or about to be, plus the one just unparked.
- **ThreadPoolProofs** (any callers, any tasks, finitely many workers, each of which
  gets one Close). `Alone(t)` says of each task where it is, and ties `status`, `inner`, the worker that polls it
  and the caller that is about to queue it; `Steady`, that a waker that finds the status WAITING finds the task in its cell:
  `TasksAreInOnePlace`. `Counted` ties `cnt` to the handles, the living tasks and the tasks with a waker;
  `PoolIsClosedLast` follows because Close is sent when `cnt` gets to 0, which stays 0.
- **SharedProofs** (any clones, threads and mains with `FutsAssumption` and `SpawnAssumption`: a future
  spawns on its own thread, as a `LocalSpawner` is not Send; nothing descends from itself; and
  each thread has at most one future under `block_on` or `run_until`). `SharedInv` has six parts beside the types. `Ordered`: the
  state word says which thread is where in `Shared::poll`; this gives `OnePolls`. `Placed` and `CallsFit`: a live
  clone is a main, in a pool, incoming, or still to be spawned by a live one, and an executor polls only its own.
  `Sleeping`: an executor that waits has no incoming task, and each queued one is about to set the flag; this gives the action
  property `WakeUpsReachExecutors`. `Attended`: while the inner future is unfinished each clone that was spawned has its waker
  in the slab, or is notified, or is about to record it. `Signalled`: after a call of the Notifier the clone that
  was polling is notified, and if there was none, so is every clone whose waker was in the slab. `WakeUpIsKept` takes
  from `Signalled` the clone that was polling; if there was none, it takes a live clone whose parent is not
  live, which exists because spawning is well-founded, and follows it through `Attended` and `Sleeping` to its thread.
- **FuturesUnorderedProofs** (any tasks and threads, any number of wakes; the only assumption is that the null pointer and the
  stub are no tasks). `IInv` is the types and ten parts.
  - *The queue.* `QueueNodes` is the least set with `tail` that is closed under the links, those included that an enqueue has still to
    write. `Chain` says that these nodes are one chain from `tail` to `head`, each with one successor and at most one
    predecessor, and the lemmas on chains say how the set changes when a node is put behind the last or the first is taken off. `LinksPending`: each missing
    link is one thread's to write; `StubPlace`: the stub is not in the queue when `dequeue` puts it there.
  - *Places and flags.* `PlacesOK`: a task is in the queue, with one thread that enqueues it, or with the owner, never
    in two places. `FlagsOK`: `queued` is set exactly then (and while it is released), so a `wake` that swaps it from
    false is alone.
  - *The list of all tasks.* `Doubly` says that `next_all` and `prev_all` are inverse on the linked tasks, and that going
    back from any task one leaves every set of tasks, which takes the place of an induction along the list. While pushes are under way the list is in pieces:
    `TopsOK` says that they begin at `head_all` and at what each push has read there, and `BaseOK`, that one
    piece is the linked list, whose first task knows its length.
  - *References.* `FuturesOK`: a task has its future when it is linked, being pushed or in hand. `RefsOK`: the count is one for that, or one for a
    place in the queue, and one for a waker; the queue's own is the owner and the calls of `wake` under way.
  - *Wake-ups.* `DueOK`: a woken task is on its way. `ArmedOK`: past `register` the parent is in the cell, owed
    a call or notified. `SleepOK`: a set that is Pending next to a queued task has a thread between its enqueue and its wake.

  From these `TypeCorrect`, `MemoryIsSafe`, `SetIsConsistent`, `EnqueueAssertHolds` (the assertion of `enqueue`) and `WakeUpsAreKept`. None of the three that the run checks is inductive alone:
  the counts need to know where each task is, which needs the shape of the queue across missing
  links, and the parent's wake-up needs both.

What the proofs changed in the models. In `FuturesUnordered` the nodes of the queue were computed by following the links with a
recursion; they are now the least closed set of nodes (`Reachable`), which is the same set. In `Shared`, a poll spawned its children again
after they had finished or had been dropped; a clone is now spawned once. In `LocalPool` the assumptions on
who spawns whom, which the instance had met, were not stated, and two `CASE`s had arms
that overlap; they are `IF`s now, in the order of the code. In `Mpsc` the receiver was not assumed to be distinct from the senders.

**Only model-checked.** All liveness (`AbortCompletes`, `HalvesFinish`, `PopReturns`,
`PendingSenderIsNotified`, `EndIsReached`, `HalvesHearOfTheEnd`, `WaitersProgress`,
`WokenIsPolled`, `WorkersStop`, `AllResolve`, `Completes`), which is beyond this
prover. The adapters' `OutputCorrect`, `NoLatePoll` and
`QueriesHold`: what an adapter computes is a recursive function of its
script, and induction over data is beyond this prover too.

## 5. Not modelled

Reasons are given with each component in `PROJECT.json`. In short:

- nowhere: weak memory; allocation failure; `Debug`, identity and hashing of handles;
- futures-task (vtables over raw pointers) and the core traits (definitions and forwarding):
  no control flow of their own, and their contracts are the environment of the models;
- macros: parsing and hygiene, and `pin_mut!`, `poll!`, `pending!`, `#[test]`;
- futures-test: the assertions about moves, `track_closed`, panicking wakers and spawners;
- adapters: the sources of one line (iter, repeat, empty, pending), sinks and futures that are one call of what
  they wrap (drain, err_into, flush, close, read, write, seek), `Cursor` and `AllowStdIo` (no Pending),
  and a stream adapter's forwarding of `Sink`;
- `FuturesUnordered`: the consuming and the reading iterators; in `flatten_unordered`, the
  panic path of `PollStateBomb`;
- `Mutex`: mapped guards, which change nothing of the mutex (the owned ones have the same code as the borrowed).

## 6. Plan

Done, in this order: AtomicWaker and its contract; its users in order of how much
depends on them (the channels, `Mutex`, `BiLock`, `Abortable`); the executors'
`UnparkMutex`; `FuturesUnordered`; the adapters of streams, futures and sinks; `Shared` over
`LocalPool`; `Split` over BiLock, `Abortable` over AtomicWaker and `RemoteHandle` over
Oneshot, each over the concrete steps; the unbounded channel and the refinement of `Channel`;
`flatten_unordered`; the io adapters; the macros and the wrappers of futures-test;
`FuturesOrdered`.

Then the theorems: the primitives first, the channels and their refinement, `ThreadPool`, `Split`,
`Shared` over `LocalPool`, `FuturesUnordered`, the oneshot channel and `RemoteHandle`. Every safety
property of a concurrent component that a run checks is now a theorem as well.

Left: the iterators of `FuturesUnordered`, the forwarding of `Sink` through stream adapters, and, should a
prover with induction be at hand, the adapters' `OutputCorrect`.
