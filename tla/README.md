# repics: a TLA+ verification of its monitor machinery

repics is a Python extension in Rust that gives Python an EPICS client and
server for two protocols, Channel Access (CA) and pvAccess (PVA), each with a
blocking and an asyncio front end. The protocol work is done by two Rust
libraries (`epics_ca_rs`, `epics_pva_rs`) on a tokio runtime; what repics itself
adds is the machinery between that runtime's tasks and Python's threads and
event loops: queues, wake-ups, dispatchers, locks held over waits, cancellation
and the lifecycle of subscriptions, PVs and servers. That machinery is what is
modelled here. Paths below are relative to the repository.

1. [Inventory](#1-inventory)
2. [Plan](#2-plan)
3. [The modules and the code](#3-the-modules-and-the-code)
4. [Runs](#4-runs)
5. [Proofs](#5-proofs)
6. [What the code does differently from what it says](#6-what-the-code-does-differently-from-what-it-says)
7. [What is not modelled](#7-what-is-not-modelled)

## 1. Inventory

| component | state it keeps | operations | hard behaviour | what makes it correct |
|---|---|---|---|---|
| **PVA monitor hub** `src/pva/hub.rs` | map of subscriptions to their queue (`items`, `signalled`) and handle; an unbounded channel of ready ids | subscribe, wire callbacks, recv_batch, close_subscription, close | callbacks on runtime workers against a drain; flag set under one lock, id sent after it; close while open() runs | no item waits unannounced; an id is announced once; squashing loses neither a changed mark nor an order; no task survives its entry |
| **CA monitor hub** `src/hub.rs` | map of control channels; one bounded queue; per task the phase, `connected`, the timer, the handle | subscribe, run_subscription, pause, resume, close_subscription, recv_batch, close | one `select!` over timer, connect, events, commands, handle; broadcast that drops; blocked sends | well-formed stream of items; the state told is the channel's; commands at any time count; close always ends the task |
| **Drain and CaSubscription** `src/ca.rs` | a slot behind an async lock, a cancellation token, a stashed item | recv, recv_batch, pause, resume, close, time-outs | a parked recv keeps the lock everyone else needs; a future dropped half-way | nothing lost or repeated; nothing after close; close wakes the parked |
| **Dispatchers and Python subscriptions** `python/repics/_monitor.py` | `Dispatcher.subs`, its lock, the drain thread or task; `SubscriptionBase.state`, `id`, `dropped_callbacks` | add, remove, plan, dispatch, close, shutdown | one drain for all subscriptions; close from any thread, from the callback, from the hub's End | collapsing is sound and counted; no callback after close; one subscription's failure is its own |
| **Channel cache** `python/repics/_context.py` | per name an `_Entry` with its subscriber count | channel, add_subscriber, note_connected, purge | concurrent closes of one subscription; a constructor that fails after it counted | the count is the number of live subscriptions |
| **asyncio bridge** `src/runtime.rs` | in-flight count, per call a completion and a cancellation relay | into_py_future, hand_to_asyncio, wait_idle, block_on, bounded, join_all | cancellation racing the outcome; spawned tasks it does not reach; interpreter exit with completions in flight | every awaited call is completed once or cancelled; wait_idle sees every blocking thread |
| **PVA server** `src/pva/server.rs`, `python/repics/pva/server/` | operations, work queues and their handler threads; a PV's open/closed state, value, subscribers; providers | open, post, close, put/rpc delivery, channel notifications, start/stop | subscribe racing close; handler threads racing shutdown | each operation is answered once; a closed PV leaves no subscriber behind; `close(sync=True)` returns |
| **CA server** `src/ca_server.rs`, `python/repics/ca/server/` | PV entries and the database they are adopted by; hooks; work queue | open, post, close, add, remove, adopt, stop | a std mutex kept over a blocking wait while Python threads want it; queues stopped with puts in them | entries stay what the PV says across add, open, start and stop; a put callback gets one verdict |
| **CaContext and CaChannel** `src/ca.rs` | per name a channel of the client; access rights cache | get, put, info, wait_connected, events | connect then operate; reads that go stale between the two | an operation acts on a connected channel or raises |
| **PVA client context** `src/pva/client.rs`, `python/repics/pva/` | two-phase put operations | get, put, put_many with retry, rpc | a retry after an unknown outcome; a batch that fails half-way | a put is committed at most once, or the caller is told |
| **PVA values** `src/pva/value.rs` | a structure, its changed marks, views on parts of it | assignment, mark, changed, changedSet, comparison | marks of a view are marks of the root | a frame carries exactly the changed leaves |
| **PV objects** `python/repics/pv.py` | cached value, callbacks, connection state | get, put, connect, disconnect, callbacks | cache filled by the dispatcher while callers read | get returns what the monitor delivered last while it is connected |
| **Normative types, value conversion** `pva/nt.py`, `src/value.rs`, `_value.py`, `_dbr.py` | none | wrap, unwrap, augment | none | round trips |
| **Errors, module set-up** `src/error.rs`, `src/lib.rs` | none | mapping | none | |
| **Client and server libraries** (dependencies) | channels, circuits, monitors | | broadcast lag, disconnects, answers that are late | external, modelled from their use |

How they interact, for a Channel Access subscription:

```
 client library  --events, updates-->  run_subscription task   (src/hub.rs)
                                            |  bounded queue
                                            v
 owner threads --close/pause/resume-->  MonitorHub.recv_batch
       |                                    |  batch
       v                                    v
 SubscriptionBase.close  <---------  Dispatcher (thread or loop task)  --> callbacks
```

A pvAccess subscription replaces the first two by wire callbacks that fill the
queue of one `Monitor` and the ready channel that carries only ids. A
`CaSubscription` is the pull interface next to all this: no hub, a `Drain` over
the client's monitor handle.

Hard in all of them is that the two sides live in different worlds (runtime
workers on one side, Python threads or one event loop on the other), so each
hand-over is a queue plus a flag, a lock or a token, and close may arrive
between any two steps. `PROJECT.json` lists each such place as a hazard.

## 2. Plan

In the order of importance for a user's data:

| module | about | composes / refines | status |
|---|---|---|---|
| `PvaMonitorHub` | PVA hub: queues, signal, squash, open/close | implements `MonitorStream` | done, seven theorems |
| `MonitorStream` | abstract: a stream of events, of which a reader sees an ordered, squashed image | | done, its implementation proved |
| `Dispatcher` | Python dispatch, close, subscriber count | its hub is abstract | done, three theorems |
| `CaMonitorTask` | CA hub and the run_subscription tasks | | done, three theorems |
| `CaSubscription` | Drain and the pull interface | | done, three theorems |
| `PvaServerOps` | operations, work queues, handler loops, connection edges, `close(sync=True)` | | done, two theorems |
| `PvaSharedPV` | value, marks, subscribers and PUTs of one pvAccess PV | | done, three theorems |
| `CaServedPV` | entries through open, post, close, adopt, stop; mutex and GIL | | done, two theorems |
| `CaWriteQueue` | client PUTs through hook, work queue, drain loop and handler; put verdicts | | done, one theorem |
| `AsyncBridge` | futures across the runtime and the event loop, gathered tasks, cancellation, exit | | done, four theorems |
| `ValueMarks` | the marks of a structure as operators on sets of fields | used by `PvaPut` | done, proved with `PvaPut` |
| `PvaPut` | a caller's Value, the two phase put over a list, its retry | `ValueMarks` | done, four theorems |

Every safety property of the passing runs is proved, with the hypotheses section 5 names. A module for `PV`
(`python/repics/pv.py`) over the dispatcher's hooks would be the next one to
model. All modules are written for proof: no RECURSIVE operator, one action per
stretch of code, named invariants.

## 3. The modules and the code

`PROJECT.json` maps each definition to its lines; this is how to read them.

In all modules values, messages and events are numbered by arrival or reduced
to their kind: what matters to the properties is which one, in which order, and
what became of it. History variables (marked so in the declarations) record
what a property speaks of and steer nothing. Environment actions (the client
library, owners' calls) are bounded by counters in their guards: `MaxEvents`,
`MaxItems`, `MaxChanges`, `MaxCtrl`. After that the modelled system may stop, as
the real one may (nobody has to subscribe, post or close), so the runs do not
check for deadlock; what must go on is stated as liveness.

### `PvaMonitorHub` — `src/pva/hub.rs`

One record per monitor of the map: `queue[m]` and `signalled[m]` are the code's
`Queue`, `ready` its channel, `receiving` whether the receiver exists. The n-th
event a wire reports is the number n; a queued item holds `last`, the newest
event it stands for, and `covers`, those merged into it (the union of changed
sets is their union of marks).

* `subscribe` is `Register`, then the client's open (`WireStarts` and
  `OpenReturns`, or `OpenFails`), then the closing `signal`: `SignalOpen` under
  the lock and `SendOpen` after it. The wire may report between any two.
* A callback is `Report` (push and flag under the queue's lock) and `SendPost`
  (send after the unlock).
* `recv_batch` is `Pull`, one `Take` per id under the map's lock, and `Return`.
  Any number of drainers may call it.
* `close` empties the map (`CloseMonitors`) and closes the drain (`CloseDrain`)
  in two steps, a subscribe may come between.

### `Dispatcher` — `python/repics/_monitor.py`, `_context.py`, `ca/__init__.py`, `ca/asyncio.py`

Both flavours in one module: `Flavour = "thread"` lets owners step between any
two steps of the drain, `"loop"` only while the drain awaits (`OwnersRun`), and
the drain only between two awaits of the owners (`DrainRuns`): all Python code
of that flavour runs on the loop's thread.

* The constructor is six steps (`GetChannel` … `SetId`), because the drain of
  the thread flavour may already deliver before `self.id` is assigned;
  `HubRefuses` is the one that ends with hub.subscribe's exception.
* `close` is `CloseMark` (the state flips within one bytecode stretch),
  `CountDown`, `CloseRemove`. The drain's own closes, after a raising callback
  or an End, use the same `Flip` and `RemoveSub`, and `EndRaises` when the id is
  not there yet.
* `Planned` is plan(): `PlanItem` is one round of its loop, over the batch.
* `_event` is cut where a thread may be switched out and an owner's close come
  between: for a connection the check of the state (`EventChecked`),
  note_connected (`NoteConnected`), the assignment of OPEN (`SetOpen`) and the
  hook; for an End the check, `EndMark` and `EndRemove`; for a value the check
  (`EventDelivered`) and, in the thread flavour, the callback's start (`Deliver`).
  In the loop flavour nothing of an owner runs between them. `reopened` is a
  history of the closes that `SetOpen` overwrote.
* A callback returns, raises what `_deliver` catches (`CallbackRaises`), or what
  it does not, a CancelledError for one (`CallbackEscapes`): then, as after a hook
  that raises, the drain dies (`Die`).
* `shutdown` clears the map, marks each subscription, closes the hub.

The hub behind it is abstract: `Arrive` queues any item that may follow the
earlier ones of that subscription, which is what `CaMonitorTask` checks of the
real one (`ItemOrder`).

### `CaMonitorTask` — `src/hub.rs`

One task per subscription; a step is a stretch between two awaits, which puts
the items it sends into `out`, and `Send` moves them one at a time into the
bounded queue, so a task can be stuck at any of them. The phases are the code's
three with the places where it can be suspended named: probing, waiting
(connect), subscribing, opening, forwarding. `TakeEvent`, `TakeLagged` and
`TakeClosed` are the arms of `forward_event!`, `TakeCommand` and `TakeClose` those
of the control channel, in both phases. The channel, its broadcast of events
(`Broadcast` drops the oldest) and its monitor handle are external.

`LateAnswer` allows `wait_connected` to have answered for a connection that is
gone when the task looks.

### `CaSubscription` — `src/ca.rs`

The slot's tokio Mutex is `waiters` (first come, first served, as tokio
documents) and `holder`. A pull keeps it while parked. `TimesOut` drops a call's
future wherever it waits; `recv_batch` takes the run of values at the front and
`Stash`es the item behind it that it had to poll (`IsRun` says how long the run
is, `Items` what a stash holds besides the end of the stream). The client's handle is
external: a paused one keeps the newest update and lets errors through.

### `MonitorStream` — what a pvAccess monitor promises

Only the events a server reports, in a log, and what the drain has got of them.
`Return` hands out any further items that tile the log; `Open`, `Report` and
`Close` are the rest. `PvaMonitorHub` implements it with `subs` as the open
monitors and `delivered` as what was returned (`ImplementsStream`): queues,
signals, the ready channel and batches are its own business.

### `PvaServerOps` — `src/pva/server.rs`, `python/repics/pva/server/`

An operation is a record: who holds it (`st`), whether its reply slot is still
there (`tx`) and what the client was told (`ans`). `PutStarts` and `RpcStarts`
are the two source methods, refused or queued; `Receive` the drain loop's recv;
`OpHandlerEnds` what a handler does with it (returns, raises, keeps it, or
returns a coroutine in the asyncio flavour), `OpReleased` the end of a kept one
or of a coroutine, `Done` an answer at any time before. `Drop` is what Rust's
drop of the last reference tells the client. Both flavours run in one module;
`Layouts` are the ways PVs share the worker pool's queues.

A channel's open and close (`ChannelOpens`, `ChannelCloses`) follow the tables
`entries` and `attached` of one name: a close is charged to the oldest
attachment, whichever PV the channel was created against. The first and the last
send an edge through the same queue; the worker's hook for it sets or clears
`_disconnected`, which `CloseSync` waits on. `Stop` ends a loop, `FreeQueue`
drops a queue nobody holds, with what is in it. notify_channel_open looks the
name up, pushes the attachment and attaches the PV under three short locks;
`ChannelOpens` is one step: a removal between the first two is the channel of a
PV removed a moment later (`attached` keeps the PV, not the name), and what
detaching a PV whose channel was pushed and not yet counted does is the
library's.

### `PvaSharedPV` — `PvEntry` and `PvState` of `src/pva/server.rs`

The library's PV (`lib`), the entry's own record of its type, marks and
subscribers, and each subscriber's ring. `open`, `post` and `current` are one
step each: they do their work under the state lock. `close` is three
(`CloseState` under the lock, `CloseLib` and `CloseSubs` after it), and posts,
subscribes and PUTs run in between. `Offer` appends to a ring or folds into its
tail. `PutStarts` merges a client's PUT with the value of that moment,
`PutPosted` posts the merged value when the handler gets to it. `wrote` is a
history of what was last given for each field: by an open, by a post for the
fields it marks, by a PUT for the fields its client marked.

### `CaServedPV` — `src/ca_server.rs`

A thread's call is entered with the GIL (`Enter`), locks the entry's mutex
(`Locked`), and either returns at once (`Instant`), or goes `Outside` to the
library with the mutex kept and the GIL given away, or drops the mutex first
(`Detach`, as `open` and `post` of a serving entry do). `InstallCell`,
`RemoveCell`, `SetCell` and `GetCell` are the library's side and the way back.
`CaServer.new` adopts its entries one by one (`StartServer`, `Adopt`,
`InstallCell`), fails on a name that exists or an entry that serves (`Clash`,
`Adopt`), and leaves those adopted before as they are.

### `CaWriteQueue` — `src/ca_server.rs`, `python/repics/ca/server/`

A client's PUT is a record: who holds its operation (`st`), whether the client
asked for a put callback (`asks`), whether `done()` took the Reply out (`done`) and
the verdicts sent (`told`). `ClientPut` is the write hook, which refuses an alarm
acknowledgement and fails on a queue whose receiver is gone. `Receive` is
the drain loop's recv and what `deliver` fails at once (a collected PV, a
handler without put), `HandlerReturns` and `HandlerRaises` (with fail_op) the
handler's end, where the operation is kept by its coroutine or anybody else or
by nobody, `Released` the end of a kept one, `Done` an answer at any time. `Drop` is
what the drop of an unanswered operation tells the client. `Stop` is the queue's
stop(), also by the finalizer of a collected PV (`Collect`); the loop ends when it
sees it (`DrainEnds`) or with asyncio.run (`LoopEnds`), and a queue is freed with what
is in it when neither its loop nor a PV keeps it (`FreeQueue`). Both flavours run
in one module, as in `PvaServerOps`; `bare` are the PVs whose handler has no put, any
of them. `DrainStep` is what one queue's loop does, of which fairness says that it
goes on. Its specification is named `WriteSpec`, so that
its proofs can stand next to those of `CaServedPV`.

### `AsyncBridge` — `src/runtime.rs`

A call of a coroutine method ends at its first poll (`Inline`) or is handed over.
Then its Rust side goes through the runtime task (`Completes`, `Dropped`: the
biased select), the blocking thread (`Checks`, `Attaches`, `Posts`) and its
asyncio side through the loop (`Settles`, `Cancels`, `Relays`). `owed` is
`IN_FLIGHT`. A call on several channels gathers tasks that join_all spawned: `child`
is one of them, which goes on when the call is cancelled (`Dropped`) and takes the
interpreter to convert its value (`ChildAttaches`). `Closes` is a loop that ends first, `Exit`, `WaitIdle` and
`Finalizes` the interpreter's exit as `_shutdown_all` runs it.

### `ValueMarks` and `PvaPut` — `src/pva/value.rs`, `src/pva/client.rs`, `python/repics/pva/`

`ValueMarks` has a type as a tree numbered in pre-order, marks as a set of these
numbers and the operations as operators: `MarkField`, `MarkSpan` (a view's bits:
from its own on, as many as `TotalBits` counts `Below` it), `Changed`,
`ChangedSet`, `MarkedLeaves` (both by `Collect`, the code's walk over the
members), and `Assign`, which stops at the first object a field refuses and
leaves what came before assigned and marked. A structure has at least one member
here; one without any would be a leaf.

`PvaPut` is one call of `Context.put`: first the caller builds its Value with those
operators, then the rounds of `_put_many`: `Begun` for each entry (the answer to
begin, and the assignment to the value it brought), `Commit` of those that can
go on or `Abort` of the whole batch, `Executes` and `Answered` at each server,
`Settle` with its verdicts and, until the timeout (`Expires`), the entries that
lost their circuit once more; without a timeout (`deadline` FALSE) always.
`Filled` is `Wrapping.assign`: an entry of `bare` is a bare array, which
`NTNDArray.assign` makes a whole structure of before it assigns (`Wrapped`), the
other helpers assign what they are given. `OthersPut` are other clients. `ran` is a
history of the executions and losses of each put.

## 4. Runs

| run | instance | what it shows |
|---|---|---|
| `PvaMonitorHub` | 1 monitor, limit 2, 7 events, 1 drainer, fair | `StreamIntact`: returned, taken and queued items tile the events in order whatever was squashed; `SquashBound`: values beyond the limit are queued only behind connection events; `NoLostWakeup`; `WakeOnce`; `NoOrphanWire`; `EventuallyDelivered`; `ImplementsStream` |
| `Dispatcher_thread` | 2 subscriptions, one all_updates, 4 items, raising callbacks, refused constructors | `CollapseSound`: plan drops only values a newer one of the same run replaces, and counts them; `CountAccounted`: the count of a channel is that of its open subscriptions, off by the refused constructors and the overwritten closes, and by nothing else |
| `Dispatcher_loop` | 2 subscriptions, 3 items, every optional behaviour, fair | `NoCallbackAfterClose`; `EventuallyApplied` |
| `CaMonitorTask_order` | 1 task with every option, 3 changes, 2 commands | `ItemOrder`: the stream of one subscription is well formed and its queue bounded; `PauseKept`: the last pause or resume holds |
| `CaMonitorTask_live` | 1 task, event buffer of 1, 3 changes, 1 command, fair | `StateTold`; `EventuallyEnds`; `EventuallyFollows` |
| `CaClient` | `CaSubscription`: 2 callers, one impatient, all calls, 3 items; `AsyncBridge`: 2 calls that gather, one of them endless; fair | `NothingLost`: items are handed out once and in order; `ClosedForGood`: none taken after a close completed; `CloseWakes`: a close ends every call; `OwedCounted`: the count is that of the calls on the blocking threads; `ExitClean`: an exit that found nothing owed leaves at most the tasks of cancelled gatherings; `SettledOnce`; `CancelReleases`; `OutcomeDelivered` |
| `PvaServerOps` | 2 PVs on one or two queues, 2 channels, 1 operation, 5 moves, both flavours, fair | `NeverDangling`: an open operation has one place its answer can come from; `EdgeTruth`: the last-disconnect event is set exactly when nothing is attached; `OpAnswered`; `CloseSyncReturns` |
| `PvaSharedPV` | 1 PV, 2 types of 2 fields, a marked and a plain subscriber with rings of 1, 1 PUT, 3 posts | `OpenAgrees`: the entry's state, its marks and the library's value agree outside a close; `SeedOrRing`: seed and ring together give the current value; `LastWriteStands`: each field has the value last given for it, though a PUT is merged early and posted late |
| `CaServer` | `CaServedPV`: 2 entries under two names or one, 2 threads, 2 databases, 3 cells, 6 calls; `CaWriteQueue`: 2 PVs on one or two queues, any of them without a put handler, 2 PUTs, both flavours; fair | `OneHome`: a value lives in the entry or in one served cell; `ValueKept`: no call that waited loses it; `OneVerdict`: a put callback is told at most one verdict, and until then its operation is in one place one can come from; `PutAnswered`: it is told it, unless left in a stopped queue |
| `CaServer_gil` | the same `CaServedPV` | violates `WaitsWithoutGil` |
| `PvaPut` | a type of 5 fields in two levels, 2 entries, 1 mark | `MarksAgree`: what changed, what changedSet lists and what is sent are one set, and no change escapes it; `VerdictsTrue`: a verdict per name, true of the server; `UnmarkSpares`; `PutSendsNamed` |
| `PvaPut_ends` | a type of 4 fields, 2 entries, 1 mark, fair | `PutEnds`: with a timeout a put ends, whatever circuits are lost |

`CaClient` and `CaServer` check two components each that share no variable (an
awaited call of `AsyncBridge` is any call, and puts touch no entry): each is
explored while the other rests in its initial state. Their interleavings would
multiply the states and show nothing that the two do not show alone.

Each module has a `TypeOK`, a conjunct of one of the invariants above or of the
inductive invariant of its proof module, and proved there (section 5).

Each property of a passing run has a mutant, a plausible bug in one definition
(`X_…` next to `X` in the modules), under which the run finds it violated.

**Bounds.** The bounds leave room for the shortest history of each hazard and
one event more.

* `PvaMonitorHub`: seven events with limit 2 are a connection, values up to the
  limit, a squash, a reconnection with a value behind it and a squash there.
  Monitors share only the ready channel; what two of them, or two drainers, do
  to it is what the theorems say for any number (`WakeupsNotLost`, `OneWake`,
  `QueuesBounded`).
* `Dispatcher`: four items are a connection and the values around an item that
  ends a run; two subscriptions are the least with which one can be overtaken.
  `PlanKeepsPromise` says what they show for batches of any length.
* `CaMonitorTask`: three changes of a channel are up, down, up, or a lagging
  broadcast; a queue of one slot makes every second send wait. One task is
  enough because tasks share only the queue, and a queue kept full by another
  task is, to this one, a drain that is slow.
* `CaSubscription`: two callers are a parked recv and the close or the pull behind
  it; three items are a run, the item that ends it and one behind. The theorems
  say the rest for any number of callers.
* `PvaServerOps`: five moves are two PVs opened and added, one removed or closed
  between; two channels are a first that is not the last. One operation is
  enough because operations share only queues, and what a queue does to one
  that waits behind another is to keep it queued.
* `PvaSharedPV`: with rings of one every second post squashes; three posts are an
  opening, a squash and a post around the close, or a reopening with another type.
* `CaServedPV`: six calls are two opens, two servers, a close and a reopening;
  three cells are two entries served and one served again.
* `CaWriteQueue`: two PUTs are one being handled and one queued behind it, or one to
  a PV without a handler, through the same queue or another.
* `AsyncBridge`: the calls share only the count and the exit; two are the least
  with which one is owed while another is not. One gathered task stands for all of
  a call: more of them only go on longer.
* `PvaPut`: a structure in a structure has every kind of boundary of a span (the
  root, a parent, a last member, a leaf behind). One mark of the caller's Value
  stands next to what assignments mark. Rounds are not bounded: no state counts
  them.

Users' and clients' moves are bounded by counters in the guards (`MaxMoves`,
`MaxPosts`, `MaxCalls` and those of section 3); after that the
system may stop, so no run checks for deadlock.

**Fairness.** Weak fairness only, on steps of code that runs once started. The
runtime polls a task that can go on; the dispatcher calls recv_batch in a loop;
constructors, callbacks and hooks return; the client's open and subscribe
answer; a tokio Mutex hands itself to its first waiter. `select!` picks among
its ready branches at random, so in `CaMonitorTask` fairness is on the task's
step, not on each branch: the environment is bounded, so a branch that stays
ready is taken. In `PvaServerOps` the drain loops run, handlers return and whoever
kept an operation lets it go, and the library disconnects the channels of a
closed PV. In `AsyncBridge` runtime and loop run what is ready, `wait_idle`
returns as its timeout makes it, and futures outside `Endless` complete. In
`CaWriteQueue` the drain loops run, handlers return, kept operations are let go
and a queue nobody keeps is freed. In `PvaPut` conversions end and time passes (`Expires`),
as a clock does; begins and commits end by themselves only when the call has a
timeout, by which the client bounds each of them. `PvaSharedPV` and
`CaServedPV` are checked for safety only. Nothing forces the environment to
subscribe, post, close, connect or answer a caller.

## 5. Proofs

The safety properties that the passing runs check on small instances hold for
every value of the constants. Each proof module names its assumptions, those of
the component's module, and where a theorem needs more the hypothesis stands in
its statement and is explained here.

| module | theorems | assumed beyond shapes and bounds |
|---|---|---|
| `PvaMonitorHub_proofs` | `TypeCorrect`, `WakeupsNotLost`, `NoTaskOrphaned`, `OneWake`, `QueuesBounded`; `StreamsIntact`, `HubKeepsPromise` | nothing; one drain for the last two |
| `CaSubscription_proofs` | `TypeCorrect`, `ItemsKept`, `StaysClosed`; of the bridge `BridgeTypes`, `CountExact`, `SettlesOnce`, `ExitIsClean` | nothing; finitely many awaited calls for the bridge's |
| `PvaSharedPV_proofs` | `EntryAgrees`, `EveryPostSeen`, `WritesStand` | `Closed` is no type and no value |
| `CaServedPV_proofs` | `ValueAtHome`, `ValuesKept`; of `CaWriteQueue` `VerdictOnce` | finitely many entries |
| `PvaServerOps_proofs` | `AnswersOwed`, `DisconnectTruth` | finitely many channels |
| `CaMonitorTask_proofs` | `ItemsInOrder`, `PausesKept`; `StateIsTold` | nothing; `~LateAnswer` for the last |
| `Dispatcher_proofs` | `PlanKeepsPromise`; `CountIsAccounted`; `ClosedIsNotCalled` | finitely many subscriptions; no purge; the asyncio flavour |
| `PvaPut_proofs` | `MarksTellTheChanges`, `UnmarkIsLocal`, `PutVerdicts`, `PutIsExact` | fields are numbered in pre-order (`ValueAssumption`) |

Shapes are that a limit is a positive number, an option's set a subset, and the
names that stand for nothing (`None`, `NoPV`) no names of anything else.
Finiteness is needed where the code counts: a cardinality is a number only of a
finite set. The inductive invariants called `IInv` below, and `PutInv`, were first checked
by TLC on the instances of section 4.

### `PvaMonitorHub_proofs`

For any sets of monitors and drainers, any limits ≥ 1 and any bound on events
(`HubAssumption`, nothing else; the last two theorems for one drain):

* `TypeCorrect`: `Spec => []TypeOK`. Inductive as it stands. The lemmas
  `ElemsAppend`, `ElemsTail` and `TailOfOne` say what appending and taking do to
  the elements of a sequence, `PushType` that push keeps the shape of a queue.
* `WakeupsNotLost`: `Spec => []NoLostWakeup`. Not inductive: whether an id is on
  its way after `Take` depends on where the drain is and whether its hand holds
  anything, and whether an unsignalled queue may hold an item on whether the
  opener has yet to signal. `WakeInv` adds `HandShape` (a drain between calls
  holds no id, one that took all its ids is returning) and `Fresh` (what a
  monitor that was never opened, or whose wire has not started, cannot have
  done). `WakeStep` has one step per action.
* `NoTaskOrphaned`: `Spec => []NoOrphanWire`, by `OwnInv`, which relates the
  opener, the wire, the map and the handle: a handle in the map belongs to an
  entry in the map, and a wire exists only from its open on.
* `OneWake`: `Spec => []WakeOnce`. `CopyInv` says it as a relation of the places
  (the callback, the opener, the channel, the hands of the drains) instead of a
  set of them, and adds what makes it inductive: a copy anywhere implies a
  raised flag (`Flagged`). `SignalKeepsOne` and `SendKeepsOne` are the two halves
  of every signal, `DistinctAppend` and `DistinctTail` what sending and taking do
  to a sequence of distinct ids, `CopiesCoincide` the way back to the set.
* `QueuesBounded`: `Spec => []SquashBound`. `PushBounded` is the step that
  matters: a value behind a full queue replaces the last item unless that one is
  a connection event, so a queue outgrows its limit by no more values than it
  holds connection events. `ValuesAppend` and `ValuesSquash` count them.
* `StreamsIntact`: `Spec => []StreamIntact`, for one drain. `StreamInv` states
  that returned, taken and queued items, one after another, tile the log up to its
  end; `LogInv` what the newest event says of the wire, without which nothing
  tells that the first item is there. `TileAppend` and `TileSquash` are the two
  ways push extends a tiling, `Regroup` says that moving items from a queue to
  the hand and on to the caller leaves the whole as it is. With two drains on one
  hub each returns its share in its own time, and the order between them is
  nobody's promise; the code has one, its dispatcher.
* `HubKeepsPromise`: `Spec => ImplementsStream`, for one drain. `PromiseStep` maps
  `Register`, `Report`, `Return` and the two ways to close onto the actions of
  `MonitorStream`, every other step onto a stutter. That what `Return` hands out
  are further items that tile the log is `StreamsIntact` at work.

### `CaSubscription_proofs`, with the bridge its calls return through

For any callers, any of them with time-outs, any
calls, and any bounds (`SubscriptionAssumption`: a batch takes at least one item,
and no caller is named `None`):

* `TypeCorrect`: `Spec => []TypeOK`. Its `LockOK` is inductive only with the two
  conjuncts that a caller stands in the lock's queue once, and exactly while it
  is locking: without them a time-out could take the wrong entry out, and a
  hand-over could wake a caller that left. `Removed` says what taking an entry
  out of a queue leaves; `ReleaseLock`, `JoinLock`, `TakeLock` and `DropCall` are
  the four ways a step touches the lock.
* `ItemsKept`: `Spec => []NothingLost`. Inductive relative to `ItemsOK`. The
  three pieces are one sequence, `Whole`: the handle appends to it
  (`ConcatAppend`, `NumbersGrow`), and each way to take items cuts it elsewhere
  and leaves it as it is (`TakeOneKept`, `TakeRunKept`).
* `StaysClosed`: `Spec => ClosedForGood`, by `EmptiedInv`: once a close has
  completed the slot is empty, so a pull that gets the lock finds nothing.

`recv_async` and its like are awaited through `AsyncBridge`, which the module
extends too (its specification is named `BridgeSpec`, so that the two can stand
side by side): for any finite set of awaited calls, of which any may be endless
(`BridgeAssumption`), from one invariant, `BridgeInv`:

* `BridgeTypes` and `CountExact`: `BridgeSpec => []BridgeTypeOK` and
  `[]OwedCounted`. The count
  is a cardinality; `CountsUp`, `CountsDown` and `CountStays` are the three ways a
  step can touch the set it counts.
* `SettlesOnce`: `BridgeSpec => SettledOnce`. It needs `Places`: what each place a call
  can be in (on the blocking thread, posted, settled) says of its outcome.
* `ExitIsClean`: `BridgeSpec => []ExitClean`, by `IdleHolds`: nothing owed when
  `wait_idle` looked stays so for the calls made before (`NothingOwed`). Of a call
  that owes nothing and was not cancelled the gathered tasks are over, which is
  what a call that completes has waited for (`Places`). Those of a cancelled one
  may be left, and attach to an interpreter that ended (section 6).

### `PvaSharedPV_proofs`

For any types, fields, numbers, subscribers, ring sizes, PUTs and number of
posts. The model compares a value with `Closed`, so `Closed` must be neither a
value nor a type.

* `EntryAgrees`: `Spec => []OpenAgrees`; `EveryPostSeen`: `Spec => []SeedOrRing`;
  `WritesStand`: `Spec => []LastWriteStands`. `IInv` adds to the first two what holds in
  the middle of a close: the entry has no type, and every subscriber still listed
  came after the state was cleared (`raced`), so only the library's PV speaks to
  it. It also keeps the base value a PV was opened with, from which the marks are
  the difference, and that an unused stream has an empty ring.
* `AssignFields`, `OfferField`, `ReadField` and `CatchesUpFields` say field by field
  what assigning, squashing into a ring, and reading from one do. A squash in a
  ring loses nothing because the newer value of a field that either update marks
  is the one kept, for rings of any size.
* `WritesStand` adds `Stands`: a PUT that waits for its handler keeps in its value what
  its client gave for the fields it marked (`AsAsked`), whatever the PV is meanwhile.
  The rest of its value is of the moment it was merged, and would undo other posts
  if `Store` assigned it (`StoreStands`, `PutStands`).

### `CaServedPV_proofs`

For any entries, names, threads, databases, cells, values and calls; and for
`CaWriteQueue`, which the module extends too, any PVs, queues, layouts and PUTs.

* `ValueAtHome`: `Spec => []OneHome`; `ValuesKept`: `Spec => []ValueKept`. A step of a call that waited acts on what it
  saw before, so `IInv` says what each kind of call relies on while it waits
  (`ReliesOn`): the cell it sets exists and serves no other entry, the
  entry it installs or removes is the one whose mutex it holds, and is as it left
  it. `Homes` and `Tenants` are the two directions between serving entries and the
  databases, outside of the calls that are between the two; `OneCell` that no two
  entries share a cell.
* `CallMoves` is the frame shared by all steps of a call, `SetStep`,
  `RemoveStep`, `InstallStep` and `DetachStep` what the answer of the library makes
  of the entry.
* `VerdictOnce`: `WriteSpec => []OneVerdict`. `Fair` says of a PUT's record that it has been
  told one verdict if `done()` or the drop came, and none before; `Lines`, `Waits` and
  `Loops` that a queued operation is in its PV's queue once and a held one with
  that queue's loop, and conversely; `Gone` that a freed queue is empty. `Sends`,
  `Receives`, `Handles`, `Answers` and `Frees` are the steps that move one.

### `PvaServerOps_proofs`

For any PVs, queues, operations, layouts of PVs over queues and number of moves,
both flavours, with and without `stop()`, and any finite set of channels.

* `AnswersOwed`: `Spec => []NeverDangling`. `Carried` says that a queued operation is
  in its PV's queue exactly once and a held one with that queue's loop, `Placed`
  the converse, and that an unanswered operation has its sender. `OneQueue` and
  `OneLoop` make the place unique.
* `DisconnectTruth`: `Spec => []EdgeTruth`. The property speaks of a PV whose edges are
  handled; `Told` says it for every other moment: the last edge in the queue
  tells whether channels are attached; with none queued the one being handled
  does; with none at all the event does. It needs `Charges` (a PV's count is
  the number of attachments charged to it, and there are as many attachments as
  open channels) and `Routes` (the edges of a live PV go through one queue).

### `CaMonitorTask_proofs`

For any tasks, options, queue and broadcast capacities, and bounds.

* `ItemsInOrder`: `Spec => []ItemOrder`. `StreamOK` speaks of `Stream`, what was sent and
  what the task has begun to send (`sent \o out`), and ties it to the task's own
  `connected`; without that nothing keeps a Connected from following a Connected.
* `PausesKept`: `Spec => []PauseKept`. `SteerOK`: the last command not received is the
  last one given, and with none the task, or its handle, is in the state asked for.
* `StateIsTold`: `Spec => []StateTold` if `~LateAnswer`. `NewsOK` does for events what
  `SteerOK` does for commands, and excepts a task that lags until it has asked
  again. With a late answer the property is false of the code (section 6).

### `Dispatcher_proofs`

For any finite set of subscriptions, any kinds of items, any number of items and
so batches of any length, in both flavours and with any of the optional
behaviours, but where stated.

* `PlanKeepsPromise`: `Spec => []CollapseSound`. Items are numbered by arrival;
  `InLine` says that what plan() has seen, the batch and the queue are consecutive
  numbers, and `Told` relates for each open subscription what it has seen, what
  is planned and what is lost: the sequence rises, `dropped_callbacks` is the number of
  lost items, and each lost item is a value that a later one overtook with only
  values between.
* plan() is a loop over the batch. `PlanPromise` states what it makes of any batch,
  by induction over its rounds: `Climb` is induction over the naturals with a set in the place of
  the predicate (from `NatLessThanWellFounded`), `RoundsExist` and
  `PlannedByRounds` tie the model's recursive function to its rounds, and
  `RoundStep` is one round, where an item opens, overtakes or is behind an item
  that ends the run (`ItemCases`).
* Both exceptions of `CollapseSound` are earned: `Whole` leaves out a subscription
  that `SetOpen` reopened, which is out of the map and loses its items though it is
  not closed, and everything once shutdown() has begun.
* `CountIsAccounted`: `Spec => []CountAccounted` if the channel caches are not purged; a
  purge forgets the counts (section 6). `Tally` is the right side; each step leaves
  it, counts one up or down with the cache's count, or moves one between its
  terms (`TallyStep`): a flip makes a live subscription an uncounted close,
  `SetOpen` over a closed one a live subscription that was counted down. `Closings`
  and `Tokens` say who may still count a subscription down.
* `ClosedIsNotCalled`: `NoCallbackAfterClose` for `Flavour = "loop"`, by `OneThread`: no
  event is handled in the middle of an owner's call. With threads it is false
  (section 6).

### `PvaPut_proofs`

For types of any size and shape, any entries, contents, dicts, contention and
bounds.

* The tree. The code knows a view by its first bit and a number of bits; what
  it means is a field and everything below it. `SpanIsBelow` says they are the
  same: in pre-order the number before one below f is below f or f itself
  (`OneBefore`), so what is below f is an interval (`Between`, `LastBelow`) of
  as many numbers as there are fields in it. `Comparable`: of two fields above a leaf,
  one is below the other. `Climb` is again induction over the naturals with a
  set for the predicate; `PathsExist` and `WalkExists` build the functions
  whose recursion defines `PathUp` and `Collect`, from the root up and from
  the last field down.
* The walk. `CollectLeaves`: what `collect_marked` finds from a view on, with
  or without a mark above it, is the leaves of the view that are marked, or
  below a mark, or below what it inherited, by induction from the last field to
  the root. With `SentIs`, `ChangedIs` and `ChangedSetIs` this is all of
  `MarksTellTheChanges`: `Spec => []MarksAgree` that is about one state.
* The rest of it, that no change escapes the marks, is `Escapes`, and rests on
  `AssignIs`: an assignment marks every leaf it changes, wherever it stops.
  `Built` says so of each step of the caller. A leaf that a step leaves without a
  mark starts over in `base`, and `ChangedLeaf` makes that the code's own test.
* `UnmarkIsLocal`: `Spec => UnmarkSpares`, by `UnmarkedElsewhere`: what an unmark
  clears is below the view, so above no leaf outside it.
* `PutVerdicts`: `Spec => []VerdictsTrue` needs `Tally` (a put that may still be
  executed has not been since its circuit was last lost, one that is executed or
  acknowledged has) and `Settled` (an entry that is
  no longer pending has its verdict, under throw `ok`).
* `PutIsExact`: `Spec => PutSendsNamed` by `Sending`: an open op of a Value has the
  Value as the caller left it, and what is sent is what was named. `FilledIs` is
  where the unmarking in `Wrapping.assign` counts: after it nothing but the
  leaves of the dict is marked, and leaves mark nothing but themselves
  (`SentLeaves`). Of a bare array every leaf is (`HelpedIs`), which `Named` grants.

### Model-checked only

* Liveness (`EventuallyDelivered`, `EventuallyApplied`, `EventuallyEnds`,
  `EventuallyFollows`, `CloseWakes`, `OpAnswered`, `CloseSyncReturns`,
  `CancelReleases`, `OutcomeDelivered`, `PutAnswered`, `PutEnds`) rests on fairness and ENABLED,
  which the prover does not handle.

## 6. What the code does differently from what it says

Shown by a violation run (`findings` in `PROJECT.json` has the quotes):

* **A thread can wait for an entry's mutex with the GIL** (`CaServer_gil`): `open`,
  `close` and `adopt` keep the mutex over `block_on`, which gives the GIL away; a
  thread that takes the GIL and calls into the same entry blocks with it, and
  the first cannot come back. `docs/index.md` says that every method releases the
  GIL while it waits.

Seen while modelling, in the models, and excepted where a property would
otherwise be false:

* A callback can start after close() returned, in the thread flavour: the drain
  passes the closed check, an owner's close runs and returns, the callback starts
  (`_monitor.py:161` and `:337`). `NoCallbackAfterClose` is checked of the asyncio flavour,
  which excludes it.
* A close can be overwritten, in the thread flavour: between `_event`'s check and
  its assignment of OPEN (`_monitor.py:291` and `:301`) an owner's close runs; the
  subscription is out of the map and counted down, but open, and the next close
  counts it down again. `reopened` counts these: `CollapseSound` excepts them,
  `CountAccounted` says by how much the count is off.
* A refused subscription stays counted: `hub.subscribe` raises after
  `add_subscriber(name, 1)` (`_monitor.py:276`), the other term of `CountAccounted`.
* A raising callback can end the drain, in the thread flavour: a callback, or an
  End, that is handled before the constructor assigned `self.id` raises an
  AttributeError out of the loop of the shared thread (`EndRaises`).
* A dead drain is taken for a running one: `started` looks whether a task (or
  thread) was made, not whether it lives. A cancelled callback, or a connection
  hook that raises (`_monitor.py:302`), ends it for all subscriptions there are and
  will be. `EventuallyApplied` speaks of a drain that lives.
* Tasks outlive the idle wait: join_all spawns its futures, so what a cancelled
  call gathers goes on, uncounted, and attaches to the interpreter that `wait_idle`
  let go (`runtime.rs:285`, `ca.rs:714`). `ExitClean` excepts them.
* A stopped queue keeps its operations: `stop()` ends the drain loop; what is
  queued then or later stays unanswered while a PV holds the queue, though the
  comments at `ca_server.rs:213` and `server.rs:256` have it fail. `PutAnswered` and
  `OpAnswered` except these.
* A bare array writes the whole structure: `NTNDArray.assign` assigns every field
  of the wrapped value and so marks it (`nt.py:589`), where `docs/pva-client.md:78`
  speaks of the `value` field. `PutSendsNamed` names all of them for a bare array.
* With `values_max_count` the element count is read once, and a channel that is
  down at that moment counts as large and is never monitored (`hub.rs:193`);
  `EventuallyFollows` is checked without a limit.
* resume() waits for the recv() it should release, both need the slot's lock
  (`ca.rs:164`).
* `purge_channel_caches` forgets the counts of live subscriptions; `CountAccounted` is
  checked without it. A collapsed value is delivered in the slot of the one it
  overtook, so ahead of another subscription's earlier item. The PVA queue limit
  is exceeded by one value per queued connection event (`SquashBound` is the
  bound that holds). A `ConnectTimeout` may follow a `Connected`, and an answer of
  `wait_connected` older than the events already received reports a connection
  that is gone (`LateAnswer`; `StateTold` is checked without it).
* A channel close is charged to the oldest attachment of its name: with a PV
  removed while it has channels and another served under the name, the counts of
  the two mix, and `close(sync=True)` of either may wait (`Charged`). In the
  asyncio flavour it can return before the coroutine of the last-disconnect hook
  has ended.
* Entries stay Serving after their server stopped, and those adopted by a
  `CaServer.new` that failed half-way too: a second server refuses them as
  already served (`ca_server.rs:366`).
* A post, or an open of a served PV, that looked its cell up before a close sets it
  after that, and returns: the value is in a cell nobody serves (`ca_server.rs:316`).
  `ValueKept` does not count it as given.
* A put list is aborted by one Value with nothing marked, or one assignment that
  fails, with an exception also under throw=False (`client.rs:361` against the
  docstring of `put`). A put whose reply was lost is executed
  twice, and without a timeout again for every circuit lost.
* A cancelled `recv_async` discards the item its Rust future had already taken
  (the biased select lets a finished future win, the settled future does not
  take the outcome).
* `Value.__setitem__` keeps the root's lock while it converts the object, so
  assigning a view of the same Value locks it again (`value.rs:605`), and
  out-of-range integers wrap without an error (`value.rs:1187`); neither is in a
  model.

## 7. What is not modelled

* `Decoder`'s completion of partial frames. pause/resume of the PVA hub hand over
  to the client library.
* `max_items` and time-outs of the hubs' recv_batch: they shorten a batch or
  return an empty one, and change nothing else.
* The pvAccess `SubscriptionBase` (`pva/_monitor.py`) drives the same
  `Dispatcher` with `all_updates`.
* CaContext and CaChannel operations, and get, info and rpc of the pvAccess
  client: one call of the client library each, whose outcome the library decides;
  nothing is kept between calls. The asyncio put is the same loop over awaits.
* `PvaServer` and `CaServer` configuration, ports and listing; several providers
  with priorities; pvRequest; the contents of replies.
* The lock of a Value, type specifications, and the conversion between Python
  objects and scalars or arrays; normative types but for what `NTNDArray.assign`
  marks, DBR conversion, error mapping:
  pure functions of data whose content no property here depends on.
* PV objects (`pv.py`): a cache and callbacks on top of the dispatcher.
* Runtime set-up, module set-up, `bounded` as such (a timeout of any wait is a
  step of the modules it matters in).
* Free-threaded Python: the build is abi3 for 3.10 and later, the GIL is
  assumed where `Dispatcher` makes a stretch of bytecode one step, and where
  `PvaSharedPV` lets open, close and current exclude one another.
