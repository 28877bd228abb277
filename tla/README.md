# A specification of Emyu

Emyu is a framework for business logic in the model-view-update style. An application is a
root model whose state is changed by messages only; a host task takes the messages one by
one, lets the model update itself, runs the command the update returns and announces the
signals it wrote. The foreign language sees *updaters*, which send messages, and *getters*,
which hand out signals to read and to subscribe to.

This directory specifies the concurrent core in TLA+, checks it with TLC on small instances
and proves its main properties with TLAPS for every value of the constants.

- [Inventory](#inventory)
- [Modules](#modules)
- [Runs](#runs)
- [Fairness](#fairness)
- [Proofs](#proofs)
- [What the code does otherwise than it says](#what-the-code-does-otherwise-than-it-says)
- [What is not modelled](#what-is-not-modelled)
- [Plan](#plan)

## Inventory

Paths are below `src/base/src` unless they say otherwise.

| Component | State | Operations | Interacts with |
|---|---|---|---|
| `Signal` (`base.rs` 203-348) | the value behind a lock, the dirty flag, the list of subscribers behind a mutex, one status queue per subscriber | `new`, `clone`, `reader`, `writer`, `subscribe`, `read`, `update`, `set`, `recv_status`, `__flush`, `drop` | written by models and by whoever holds a getter's signal; flushed by the host |
| `Updater` and `Getter` (`dispatcher.rs`) | a `Sender` of the host's channel and a message mapper; a handle of the model | `send`, `try_send`, `zoom`, `clone`; `get`, `zoom` | the host's `Receiver`; the model's lock |
| Host loop (`host.rs` 18-145) | the model, the world, interceptors, the queue of signals to flush, an updater, the `Receiver` | `run`, `run_once`, `handle_message`, `updater`, `getter` | all of the others |
| `HostBuilder` (`host.rs` 147-236) | what was set so far | setters, `build` | makes the host |
| `ModelBase` (`base.rs` 82-170) | the model behind a lock | `read`, `write`, `update`, `get`, `zoom` | host, readers, commands |
| `Command` (`command.rs`) | a function from a context to a stream, or none | `done`, `perform`, `batch`, `then`, `chain`, `collect`, `oneshot`, `channel`, ... | spawned by the host, sends back to it |
| `World` (`host/world.rs`) | states by type, each behind a lock | `get`, `get_mut`, the `try_` and `_async` forms, `state`, `try_state`, `State::read`, `State::write` | commands, on the executor's threads |
| Spawner (`host/spawner.rs`), `AppHandle` (`handle.rs`) | none of their own | `spawn_detached`; `new`, `updater`, `getter` | the executor |
| `join_signals!` (`macros.rs` 76-98) | the joining task | one task per use | signals |
| Model macro (`src/macros`) | none (compile time) | classifies methods, checks and routes their arguments, names and generates the message, `update`, updater, getter | what `Host` calls |
| Maybe types (`maybe.rs`) | none | `Arc`/`Rc`, std, spin or `RefCell` locks | every lock above |
| `futures::channel::mpsc` (external) | queue, parked senders, open flag | `poll_ready`, `start_send`, `try_send`, `poll_next`, `close` | updaters, subscribers |

What is hard in each, and what makes it right:

- **Signal.** A write is two steps (value, then flag) and a flush is many (flag, lock, one
  send per subscriber, `retain`); full queues drop statuses, and drops of handles send on the
  same queues from other threads. *Right* means that nobody who listens is removed, and that
  nobody waits with an old value while no news is underway.
- **Updaters and channel.** Sends wait, are cancelled half-way, and race the host's end.
  *Right* means one order per updater, nothing taken twice, results that tell the truth,
  a bounded queue, and sends that end.
- **Host loop.** The update runs under the write guard while others read; commands feed the
  queue that the host itself empties; a panic ends the host but not the model. *Right* means
  that no half update is ever read, that what an update wrote is announced before the next
  message and arrives, and that accepted messages are handled.
- **Builder.** A builder must be able to build what it promises.
- **World.** Accesses nest, are kept across an await, and panic half-way, over three kinds of
  locks. *Right* means that nobody is given what a panic left half-written, and that only tasks
  that wait for one another, or for a suspended one, wait for ever.
- **Commands.** Combinators must keep the order and number of outputs, however they are nested.
- **`join_signals!`** reads, subscribes and writes in an order that may miss a change.
- **The macro** decides from a method's shape what becomes of it, and takes updaters and getters
  through the same code with the sides exchanged. *Right* means that what was written at a place
  arrives where it belongs, and that a call runs its own method whatever the names.

Every hazard is listed with its line in `PROJECT.json`.

## Modules

```
BoundedChannel      operators of futures::channel::mpsc
  Signal            one signal, its threads and subscribers        MCSignal
      | implements
  Watch             what those who watch a signal are promised
  Dispatcher        updaters, channel, host's end
      | implements
  Mailbox           one order of messages, each taken once
      | is used by
  Host              the loop, the model's lock, signals, commands  MCHost
      | implements
  Mvu               what an application sees of it
HostBuilder         the builder
Command             what commands do when called and polled        MCCommand
World               the states that commands share, and their locks
ModelMacro          methods, arguments, names and generated code   MCModelMacro

BoundedChannelProofs, SignalProofs, DispatcherProofs, HostProofs, HostTypeProofs,
WorldProofs, ModelMacroProofs, CommandProofs
```

### BoundedChannel (external)

`mpsc::channel(b)` as the code uses it: a record of the queue `msgs`, the senders `parked`
(they sent beyond `b` and wait for room) and `open`. A sender that is not parked may always
send one message, even into a full buffer, and is parked afterwards if it went beyond it;
receiving a message releases the first parked sender; a dropped receiver closes the queue,
empties it and releases everyone. The crate's own steps within one call are atomic here.

### Signal

`value` counts the writes, so that "which write has a subscriber seen" can be asked;
what is written does not matter. `dirty`, `subscribers`, `chan` and `lock` are the fields of
`SignalRepr`; `todo` is the rest of the loop over the list. `held[t]` counts the handles of a
thread: `Signal`, `SignalReader` and `SignalWriter` all are the same counted handle and all
run `<Signal as Drop>::drop`. One action per step that others can get between:

| code | actions |
|---|---|
| `SignalWriter::update` | `WriteData`, `StoreDirty` |
| `__flush` | `FlushSwap`, `FlushLock`, `FlushSend` per subscriber, `FlushRetain` |
| `drop` | `DropLock`, `DropSend` per subscriber, `DropUnlock` |
| a subscriber's drop | the same for its reader, then `CloseRx` for its receiver |
| `subscribe`, `read`, `recv_status` | `Subscribe`, `Read`, `Recv` |
| `clone`, `reader`, `writer`, `get` | `CloneHandle` |

A flush that finds the flag unset does nothing and is a stuttering step. Subscribers are taken
from the list in any order, of which the code's order is one. Only the host flushes.

`Watch` is what that comes to for subscribers, without lock, flag, list and queues: every write is
`owed` to everyone who listens until they are told or leave, and a watcher that was told looks and
finds the latest value. Being told too often is allowed, being forgotten is not. `Signal` implements
it with

```
WatchOf == INSTANCE Watch WITH Watchers <- Subs, listening <- Listening,
    value <- [s \in Subs |-> value], owed <- [s \in Subs |-> Owed(s)], told <- [s \in Subs |-> Told(s)]
```

where a subscriber is owed a status while the flag is set or about to be, or a flush has taken the
flag and not reached it, and was told while its queue is not empty or it is on its way to read.

### Mailbox and Dispatcher

`Mailbox` is what senders and host promise each other: one sequence `accepted`, of which the
host has taken a prefix, and which at the host's death is cut to what was taken.

`Dispatcher` is the channel with its updaters. `SinkExt::send` is a future of two steps, `Feed`
(or `FeedClosed`) and `Flushed`, and `CancelSend` drops it before either. `Die` drops the host
with its `Receiver` and its own `Updater`. `handled`, `lost`, `acked` and `failed` are history
variables that only properties read. It implements `Mailbox` with

    accepted <- handled \o ch.msgs,  taken <- Len(handled),  alive <- alive

### Host

The loop of `handle_message` step by step over a `Mailbox`: `Recv`, `Intercept` per
interceptor, `BeginUpdate` (takes the write guard), `WriteSignal` per signal written,
`EndUpdate` (drops the guard), `Accumulate`, `SpawnCommand`, `FlushSignal` per queued signal,
`FlushDone`. The task ends in `UpdatePanics`, in `SpawnPanics` (tokio's spawner panics outside of a
runtime, and a user's may), or in `HostEnds` (an interceptor panics, or the future of `Host::run` is
dropped). A command is a task that may read the
model and sends a number of messages back. Others send, read the model, write a signal they
got from a getter, or drop handles of signals. A signal is coarser here than in `Signal`: its
version, the version at the last flush, the flag, and whether its subscriber has a status to
read; a write with its flag is one step, a flush is one step. That is sound for what `Host`
asks because `Signal` implements `Watch`: to a subscriber a write is one step, and so is being told,
and the steps of flag, lock and list between them change nothing. `Host` tells the subscriber of a
signal in its flush.

What an update writes and whether it returns a command is free. `Poisoning` says whether the
locks are std's.

### Mvu

What the architecture promises an application, without the queue of signals and with few states of
the loop: messages change the model one at a time, in order, at once and under no reader; then the
message's command is started, and then every signal that it changed is announced, before the next
message is taken. A command that cannot be started is the one exception: the host dies there with
all that is owed, of which nothing is announced then. `Host` implements it with

    accepted <- Len(accepted),  Signals <- Range(Getters),  Readers <- Readers \cup Messages,
    pending <- pc \in {"intercept", "update"},  starting <- pc \in {"accumulate", "spawn"},
    owed <- Owed,  readable <- ~poisoned

where `Owed` are the signals with a getter whose last write by an update is newer than their last
flush, once that update has returned. All of an update happens at its `EndUpdate`. Of an update that
panics `Mvu` says only that it is the host's last and may leave the model unreadable; that nobody
reads what it left is `NoTornRead`.

### World

Commands are tasks on `threads` threads. A task asks for a state (`Ask`), waits, and is given a guard
(`Acquire`), which a closure, the closure or the future of an `_async` access, or the task itself
(`State::read`, `State::write`) keeps: `Return`, `Finish` and `DropGuard` let go of it. Accesses nest.
A task that awaits leaves its thread (`Yield`) and comes back (`Resume`). A closure or the task may
panic (`Panic`): `Unwind` drops all guards, leaves any of the states being written half-written, and
poisons std's locks; being given a poisoned lock is `UnwrapPanics`. A state that was not added gives
`None` or a panic (`AskAbsent`).

The three builds differ: std's guards are not `Send`, so that no task that must be `Send` keeps one
across an await; spin's locks neither poison nor let writers first; `RefCell` has one thread and
panics (`BorrowPanics`) instead of waiting. The build is chosen at `Init`, and whether std's lock lets
a waiting writer go before new readers, which differs by platform. The `TypeId` map is the set
`Added`, which nothing changes after `build`.

### HostBuilder

One action per setter, and `Build` with its two `expect`s.

### Command

A command that is not none is a pair of sequences of events: what happens when its function is
called, and what happens when the stream that it returns is polled to its end. Events are a
call of a user's function, a yield and an item. The basic commands and the combinators are
operators on such pairs, each written as the code composes streams (`flat_map`, `chain`,
`select_all`, `unfold`); `batch` yields every interleaving. `Expand` puts what becomes of each
event one after the other, and an item of a command that `then` made counts as the work of the
command whose item it was made from (`OnBehalfOf`). The state machine builds commands
with up to `MaxSize` combinators and keeps, in `promised`, the outputs that the documentation of
each combinator makes of what its parts produce. A stream, a future or `done` produces what it is given; a
`oneshot` or a `channel` the result of its function and then what is fed to the sender, which is what its
code does and more than its documentation says ([below](#what-the-code-does-otherwise-than-it-says)).
`Host` needs of a command only how many items it has.

### ModelMacro

A method is its name, receiver, arguments (none, names, or other patterns too), return type, body and
`#[emyu(..)]` arguments, of which an attribute is known by the place it was written at. `Parse` takes the
methods one by one: `FnKind::analyze` classifies them by shape (`IsNew`, `IsUpdater`, `IsGetter`), and what
the validate functions refuse (`NewArgsValid`, `UpdaterArgsValid`, `GetterArgsValid`) is an error, as are an
argument that is not a name, arguments of the macro that do not parse (`ArgsParse`) and those that
`ModelArgs::parse` refuses (`Generate`).

What is then generated are operators on what was parsed: the names (`MessageName`, `MessageEnum`,
`UpdaterStruct`, `GetterStruct`); the attributes of each generated item, composed from `MetaConfig`'s
chains and what `frb` adds; and the wiring, that is which variant an updater's function sends, which
method the arm of that variant calls, which block that method holds, which field a getter's handler
clones and which fields are accumulated. `Compiles` says when rustc takes the result.

## Runs

| run | instance | shows |
|---|---|---|
| `signal` | 2 threads, 2 subscribers, 3 writes, 2 handles per thread; 1.8 million states | `LiveSubscribersAttached`: nobody who still listens is removed from the list. `NoLostUpdate`: a waiting subscriber with an old value has news underway. `ImplementsWatch` |
| `dispatcher` | 3 updaters, one of them the host's own, buffers 0 and 1, 3 sends each; 0.7 million states | `FifoPerUpdater`, `AckedAccepted`, `FailedNeverAccepted`, `BackpressureBound`, `ImplementsMailbox`; `EverySendEnds`: every send ends, though only by its one guaranteed slot or the host's death |
| `host` | 2 signals with getters, 1 interceptor, 1 reader, 2 messages, 1 outside write; 0.6 million states | `NoTornRead`, `AnnouncedBeforeNext`, `ImplementsMvu`: with a host that ends while it waits or panics in an interceptor, in update or in the spawner |
| `host_live` | the same with 1 signal | `UpdatesReachSubscribers`, `AcceptedIsHandled`, `CommandsEnd` |
| `world` | 2 tasks, 2 states and one that was not added, 1 or 2 threads, 2 steps per task, each of the 3 locks; 0.15 million states | `NoHalfWritten`, `InTheWay`: who can block whom; `AccessEnds`: every access ends unless tasks wait in a circle or all threads wait for suspended ones |
| `command` | 3 combinators over streams of up to 2 of 2 values; 25 thousand commands | `OutputsAsPromised`, `MonadicThen` |
| `macro` | impl blocks of up to 2 methods, with each place of attributes, and names that clash or are exchanged; 0.2 million states | `AttributesArrive`: what is written on the model, its message enum, an updater or a getter arrives once on all that it is for and nowhere else, or is refused; at `new` likewise, except that what is misplaced is dropped in silence. `CallsReachTheirMethod`: a call runs its own method |
| `signal_destroyed`, `host_stop`, `builder`, `command_chain`, `macro_command` | smallest | see [below](#what-the-code-does-otherwise-than-it-says) |

The bounds, by their constants:

- `MaxWrites = 3` in `Signal`: a status queue holds two statuses, so three writes overflow it
  and leave one write after the overflow. Two threads are the host and one other; a writer, a
  flush and a drop on the other thread, and two subscribers' drops, all overlap.
  `MaxHandles = 2` lets a handle be dropped while its thread keeps another.
- `Buffers = {0, 1}` and three senders: with 1 a message fits and further senders are parked, with
  0, the boundary, every message parks its sender. With `MaxSends = 3` an
  updater that is still parked from its first send waits with the second and sends again after.
- `MaxMessages = 2` in `Host`: a message that is handled while another, which may be its own
  command's, waits; a second update after the flush of the first. `MaxWrites = 1`: one write outside
  of update, which may fall between any two steps.
- `MaxSteps = 2` in `World`: one access nested in another, or kept across an await. Two tasks and two
  states make circles by nesting in opposite orders and by asking twice; with one thread a waiting
  task leaves none for a suspended one. A third step per task is out of time's reach for liveness.
- `MaxSize = 3` in `Command`: associativity and nested batches and collects need two or three
  combinators. The streams have none, one and two items, with and without `Nothing`.
- `MaxMethods = 2` in `ModelMacro`: a clash of names needs two methods; attributes are routed method by
  method.

Symmetry is used for the subscribers of `Signal`, where only safety is checked. Deadlock is not
checked because all of these systems may stop: handles get dropped, the host dies, messages run out.

## Fairness

- `Dispatcher!Fairness`: a send that can go on goes on, and the host takes what is queued. This
  is the executor polling tasks that were woken, and `update` returning. Nobody has to start or
  cancel a send, to drop an updater, or to die.
- `Host!Fairness`: the same for the steps of `handle_message` and of command tasks. A reader of
  the model releases its guard in the end: the code does not force this, but every reader in
  the repository reads through a temporary, and a guard kept for ever stops the host for ever.
  `BeginUpdate` is strongly fair: readers come and go, and std's `RwLock` lets no new reader
  pass a waiting writer. (spin's lock does not promise this, and a `RefCell` panics instead.)
  Subscribers look when they are told. Reading the model from a command is never forced.

- `World!Fairness`: a task that can go on goes on, one condition for each. The executor polls tasks that
  were woken, closures return, and a lock that is free is given to a task that waits for it. Nobody has to ask, to
  await or to panic; `MaxSteps` bounds how often a task does, so that none keeps a lock from another
  for ever by asking for it again.

Accepting a message is one step in `Host`, because `EverySendEnds` shows for the channel that
nobody waits for room for ever.

## Proofs

| theorem | says |
|---|---|
| `SignalTypeOK`, `SignalLiveSubscribersAttached`, `SignalNoLostUpdate` | the invariants of `Signal` for any threads, subscribers and bounds |
| `SignalImplementsWatch` | `Signal` implements `Watch` |
| `DispatcherFifoPerUpdater`, `DispatcherAckedAccepted`, `DispatcherFailedNeverAccepted`, `DispatcherBackpressureBound` | the invariants of `Dispatcher` for any finite set of updaters, buffer and number of sends |
| `DispatcherImplementsMailbox` | `Dispatcher` implements `Mailbox` |
| `HostTypeOK`, `HostNoTornRead` (assuming `Poisoning`), `HostAnnouncedBeforeNext` | the invariants of `Host` for any signals, readers, interceptors and commands |
| `HostImplementsMvu` | `Host` implements `Mvu`, with or without poisoning |
| `WorldNoHalfWritten`, `WorldInTheWay` | the invariants of `World` for any finite set of tasks, any states, threads and nesting |
| `MacroTypeOK`, `MacroCallsReachTheirMethod`, `MacroAttributesArrive` | the type invariant of `ModelMacro`, the way of calls and the way of attributes, for any methods, arguments and names |
| `CommandOutputsAsPromised`, `CommandMonadicThen` | the properties of `Command` for any values and streams, and any number of combinators |

Only the named assumptions on the constants are used. The type invariants of `Dispatcher` and `World`,
which can only be wrong if the models are, are not checked by a run; they are proved, because the other
proofs need them. `BoundedChannelProofs` holds the facts about
the channel's operators that both components cite.

**Signal.** `NoLostUpdate` is not inductive: that a subscriber is told depends on its being in
the list when a flush takes it (`LiveSubscribersAttached`), which depends on nobody else
iterating over or trimming the list meanwhile (`LockOwner`), and on a full queue being
non-empty (`QueuesOK`: as many senders are parked as messages exceed the buffer, and a parked
sender's message is in the queue). A subscriber whose status was dropped by a full queue has
that queue to read. `HandleOwned` keeps the handle counts natural numbers.

The refinement is by cases on the step. `WriteData` is `Write`, `Subscribe` is `Join`, `Read` is `Look`,
a subscriber that begins to drop its reader is `Leave`, and each turn of a loop over the list is `Tell`
if the subscriber is live. All other steps go unnoticed: the flag takes the place of the writer that
was about to set it, the flush the place of the flag, and the list that is iterated over holds
everyone who is owed a status (`LiveSubscribersAttached`). That a drop's loop takes nothing from a
flush's needs `LockOwner`.

**Dispatcher.** All three properties need `OnlyFinished`: whatever reached the queue or was refused
is a send that was started, and never the one that its updater is about to feed. So a message that is
fed is newer than all of its updater's (`FifoPerUpdater`) and was not refused before
(`FailedNeverAccepted`). `AckedAccepted` needs that a message being flushed is known
(`FlushingKnown`), and dying needs `ChannelOfHost`: the channel is open exactly while the host lives. The
refinement is by cases on the step: `Feed` is `Accept`, `Recv` is `Take`, `Die` is `Die`, all
other steps stutter. `BackpressureBound` counts: as many senders are parked as messages exceed the
buffer, nobody is parked twice because only one that is not parked may send (`ParkedOnce`), and a
sequence without repetition is no longer than the set that it is taken from.

**Host.** `UpdateAlone`: an update that did not finish is running or has panicked, and while one
runs or after one has poisoned the lock nobody holds a guard. `UnflushedDirty`: a signal that
was written by update since its last flush is dirty. `Pending`: from `Accumulate` on, every
getter's signal is announced or queued to be flushed. The last needs the second, because a
flush of a clean signal does nothing.

The refinement adds that the host has taken no more than was accepted (`HostAlive`): `Recv` is `Take`,
`EndUpdate` is `Apply` of the signals now owed, `FlushSignal` is `Announce` if its signal was owed, and
`SpawnCommand` is `Start`. A host that dies owes nothing where `Pending` says that all is announced and
inside an update; where the spawner panics, between update and flush, it may owe all that the update
wrote, and there `Mvu` allows it. The bounds of `TypeOK` need a sum over the tasks: what the running commands have yet
to send, what the command just returned will send, what was accepted and the `budget` never exceed
`MaxMessages` (`WithinBudget`). The sum is the size of a set of pairs (`Unsent`), so that
the facts about finite sets do the counting, and a command is spawned once because messages are numbered
in order (`Unspawned`). A signal's version is bounded by the messages taken and the outside writes,
where the message in hand counts for what it may still write (`SignalsOK`).

**World.** `HalfIsPoisoned`: with std's locks what is half-written is poisoned and nobody is inside
a poisoned lock. A panic keeps it only if guards that write are alone (`Exclusive`). `InTheWay` needs
that whoever has a guard is not done and, with std's locks, is on a thread (`GuardsOnThread`), and
that a `RefCell` build has one thread (`OneThread`), on which there is no second task.

**ModelMacro.** In code that compiles no two updaters share a name or a message, so that the variant
that an updater sends has one arm, and the method that this arm calls one block.

`AttributesArrive` counts: `Times` is the size of a set of positions, so what is pasted from several
sequences is counted part by part. That each part comes from the right method needs `Placed`: the places
written at belong to one method each, and the methods kept are of one kind each.

**Command.** The operators recurse over sequences (`FlattenSeq`), and no rule for such induction can be
cited; but a set that has 0 and every successor has all numbers, because its complement would have a
least element (`NatSets`), and a set that has the empty sequence and whatever is appended to one in
it has all sequences (`SeqSets`). From these follow the laws of `Bind`, what a function makes of each
element, one after the other: it distributes over concatenation (`BindConcat`), it is associative
(`BindBind`) and has a unit (`BindUnit`). `then`, the values of events, and the events that are left out
are all `Bind`s, so that `ThenProduces` and `MonadLaws` are instances. For `batch`, an
interleaving ends in the last event of one of its parts (`MergeLast`), so the values of an
interleaving of events are an interleaving of their values (`MergeProduces`). The invariant, `Made`,
says that a command calls before it is polled and that what it is polled for is events of the values
produced.

**Only model-checked:** every liveness property (`EverySendEnds`, `UpdatesReachSubscribers`,
`AcceptedIsHandled`, `CommandsEnd`, `AccessEnds`): the prover has no rule for fairness.

## What the code does otherwise than it says

- `signal_destroyed`: `DestroyedMeansDestroyed` fails. `Destroyed` is sent whenever *any* handle
  is dropped, be it a temporary writer (`self.name.writer().set(name)` in the repository's
  README) or another subscriber's reader, and the signal lives on.
- `host_stop`: `StopsWhenUnused` fails. `run_once` breaks when the `Receiver` ends, but the
  `Host` owns a `Sender` in its `updater` field, so the receiver never ends while the loop runs.
- `builder`: `BuildsWithModel` fails. `build` expects a spawner that no setter sets.
- `command_chain`: `PerformedOnceFinished` fails. A chained command is to be performed once the
  current one finishes, but its function is called when the chain starts; only the polling of its
  stream waits. A chained `oneshot` or `channel` has done its work by then.
- `macro_command`: `CommandsCanBeReturned` fails. The macro accepts an updater that returns a
  command and generates code for it that does not compile, so commands only come from models that
  implement `Model` by hand.

Besides, `oneshot` is documented to produce "the value fed to the oneshot::Sender" (`command.rs`, 281)
and `channel` "the values fed to the mpsc::Sender" (302), but both produce the result of the function
they are given first (`command.rs`, 293 and 314) and only then what is fed. Whoever sends the only
message they mean to send through the sender must still return one. No run refutes those sentences:
`Command` takes the code's side, so that `OutputsAsPromised` holds of what the code does and says
nothing for the documentation of these two. Reading the macro against its documentation (`src/macros/src/model/attr/raw/model.rs`) shows more; `ModelMacro`
has the first three, the others concern what it leaves out:

- A getter's message is named after its function in PascalCase (`Location`), not `GetLocationMessage`
  (lines 149-152), and can so have the name of one of the user's types.
- `message = "MyCoolMessage"` (line 16) is refused: the field is a `MessageConfig`, and `MessageDef`, which
  would take the string, is not used.
- A `new` may be given names for messages and attributes for messages, functions and inner values, which
  are silently dropped, where an updater, a getter or the model with a misplaced attribute is refused; and of
  two declarations of `new` the first is dropped with all its attributes. `AttributesArrive` says so: the
  misplaced ones are pasted nowhere, and only the last `new` counts.
- The documented `ctx: &mut UpdateContext<..>` (line 98) is a field of the message like any other argument.
- Attributes of an argument are generated as `#[#[..]]` (`generator.rs`, 231), which is no syntax.
- A bare `meta(base)` makes the macro panic (`raw.rs`, 24) instead of reporting an error.
- With `frb` a declared `new` gets `sync` twice (`attr.rs`, 225, and `parser.rs`, 309).
- A bare `dispatcher` gives structs that are not `Clone`, which `WrappedUpdater` and `WrappedGetter` require.

## What is not modelled

- `Spawner`, `AppHandle`, the facade crate: they pass futures and handles on. What they ask of the
  executor is in the fairness conditions.
- `wrap_app_handle_for_frb!`: glue for a foreign interface, naming items that no longer exist.
- `join_signals!` names `$crate::GlobalSpawner`, which does not exist, so that no use of it compiles.
- Of the model macro: visibilities, types, the fields of messages, what attributes say, and the
  bounds on the generated structs.
- Panics inside the closure given to `SignalWriter::update`. The lock is the same as in `Host` and
  `World`, where panics are modelled; `Signal` assumes that the closure returns.
- In `Host`, a task that holds two guards of the model, or keeps one while its send waits for room: it stops the
  host, which the code does not prevent.
- The order of subscribers in the list, the content of messages and values.

## Plan

What is left, in order of worth:

1. Panics in `SignalWriter::update`, with std's locks and with spin's, where a half-written value
   stays unannounced.
2. `JoinSignals`: the joining task as it is written (read, subscribe, select, write) against
   concurrent writers and flushes over two signals, for the day its spawner exists.
3. `World` with three steps per task for safety alone, and a pool of more than two threads.
