# UnrealLink: models and proofs of the protocol and its users

UnrealLink connects Rider to a running Unreal editor. A plugin in the editor (RiderLink, C++) and
the back end of Rider (.NET) share a *reactive model*: properties, signals and calls that exist at
both ends of a socket. The plugin brings its own implementation of that protocol, the RD library
(`src/src/cpp/RiderLink/Source/RD`), and everything the two programs do together passes through it.
This directory holds TLA+ models of that library and of what both programs build on it, the
configurations that check them with TLC, and proofs checked with TLAPS.

Paths below: `wire/`, `protocol/`, `base/`, `ext/`, `task/`, `impl/` are under
`src/src/cpp/RiderLink/Source/RD/src/rd_framework_cpp/src/main/`; `reactive/` and `lifetime/` under
`.../RD/src/rd_core_cpp/src/main/`; `Rider*/` under `src/src/cpp/RiderLink/Source/`. `PROJECT.json`
has the exact lines behind every definition, every hazard at its line with the properties that cover
it, and for every property a plausible bug that it finds.

- [Inventory](#inventory): the parts of the system
- [Modules](#modules): which module models what, and how
- [Runs](#runs): what TLC checks, with which bounds
- [Fairness](#fairness)
- [Proofs](#proofs)
- [Disagreements found](#disagreements-found)
- [Not modelled](#not-modelled)
- [Plan](#plan)

## Inventory

### How a change travels

    entity (property, map, call) --> ExtWire --> SocketWire::Base::send
      --> ByteBufferAsyncProcessor --> socket  ===  socket --> receiverProc
      --> PkgInputStream --> read_and_dispatch_message --> MessageBroker --> entity

Every arrow is a call, except: the async thread of `ByteBufferAsyncProcessor` takes what callers put;
the broker queues messages to the default scheduler; `ExtWire` holds messages until its counterpart is
there. Lifetimes cut all of it short: a subscription, a binding or a wire ends when its lifetime is
terminated, by any thread. On top of it the editor has three threads that matter, the wire's, the
scheduler's (one thread) and the game's, and Rider its front end, its back end and the tools it starts.

| Component | State | Operations | What is hard | What makes it correct |
|---|---|---|---|---|
| `ByteBufferAsyncProcessor` (`wire/`) | `data`, `queue`, `pending_queue`, three numbers, `interrupt_balance`, three locks | `put`, `start`, `pause`, `resume`, `acknowledge`, `stop`, the thread | four kinds of threads; a test under one lock used under another | no package lost, doubled or renumbered; order on every socket |
| `SocketWire::Base`, transmission | `max_received_seqn`, the socket | `send0`, `read_package`, `send_ack` | a connection breaks anywhere; retransmission and acknowledgement cross | nothing confirmed is lost, nothing is passed on twice, all arrives at last |
| `SocketWire::Base`, messages | `sz`, `id_`, `message` | `send`, `PkgInputStream::read`, dispatch | state kept across connections; lengths in two units; handlers that throw on the wire's thread | a recipient gets the block sent to it |
| `SocketWire`, connecting and closing | sockets, the heartbeat's future, `connected` | loops of `Client` and `Server`, `set_socket_provider`, the closing action | four threads, the send buffer's lock, and handlers that throw | closing ends the thread wherever it is, unless a lock is held over a `Send` that never returns |
| Heartbeat | timestamps of both ends | `ping`, `read_header` | two threads; timestamps outlive connections | a live peer is not given up |
| Flow control | `socket_send_lock`, `queue_lock`, the socket's buffers | `process`, `send0`, `send_ack`, `acknowledge` | blocking while holding a lock that sending, or handling, an acknowledgement needs | it jams only when both directions are full |
| `MessageBroker` (`protocol/`) | subscriptions, early messages | `dispatch`, the queued action, `advise_on` | the wire thread against the scheduler; unlocked steps | order, no loss |
| `RdProperty`, `RdMap`, `RdList`, `RdSet` | values, versions, pending acknowledgements | local and remote changes | changes that cross | the ends agree, or say that they do not |
| `RdCall`, `RdEndpoint`, `WiredRdTask` (`task/`) | tasks, `sync_task_id`, results | `start`, `sync`, cancellation, completion | late answers, time-outs, several threads | one answer to a call; calls do not disturb one another |
| `RdExtBase`, `ExtWire` (`ext/`) | the handshake, `connected`, `sendQ` | bind, unbind, `send` | who is bound first; a flush against a send | nothing waits for ever; order; nothing too early |
| `Signal` (`reactive/`) | two vectors of `Event`s | `advise`, `fire`, the end of a listener | handlers that fire, subscribe or throw | every live listener is called, none destroyed while it runs |
| `Lifetime` (`lifetime/`) | `terminated`, `actions`, nesting | `add_action`, `bracket`, `attach_nested`, `terminate` | several threads; parent and child | each accepted action runs once, in reverse order |
| `RiderLink` module | the model of each connection, its lock | connection handler, `QueueAction`, `FireAsyncAction` | connections that end while they are being set up | the model lives exactly while its connection does |
| `RiderGameControl`, play actions | state of play, packed settings, requests | requests and replies, delegates of the engine | three threads, both ends change settings | both show the same; buttons come back |
| `RiderLC`, live coding builds | what a tick sees, the build | trigger, tick, build request | a sampled property; connections replaced | a completed build was compiled |
| `PythonExecutor`, `rider_progress` | the running script, flags, the watchdog | run, cancel, time out, clean up | an exception raised asynchronously in another thread | an abort hits the script it is meant for; all are answered |
| Plugin installer | folders, descriptions, backups | install, delete, restore | failure or cancellation half-way; backups that cannot be deleted; two at once | all or nothing |
| Project refresher, `CmdUtils` | the lock of the build tools | a chain of tools | a tool that hangs | everything ends |

## Modules

| Module | Models | Extends / uses |
|---|---|---|
| `SendWindow` | what the processor promises: three counters (abstract) | |
| `ByteBufferAsyncProcessor` | `wire/ByteBufferAsyncProcessor.cpp` and the calls into it | refines `SendWindow` |
| `SocketWireLink` | one direction of a wire over breaking connections | composes with the processor, refines its specification |
| `MessageStream` | messages cut into packages and put together | uses of the link what `SocketWireLink` shows |
| `WireLife` | the thread of a client or a server, the heartbeat's and the send buffer's threads, the closing action | |
| `Heartbeat` | the pings of two wires | |
| `WireFlow` | two wires whose sends block | |
| `MessageBroker` | `protocol/MessageBroker.cpp` | |
| `WireEnds` | two ends and what is on the way to each | |
| `RdProperty`, `RdMap`, `RdList`, `RdSet` | an entity at both ends | extend `WireEnds` |
| `RdCall`, `RdEndpoint` | `task/` at either end of a call | |
| `ExtWire` | `ext/RdExtBase.cpp`, `ext/ExtWire.cpp` at both ends | |
| `Signal` | `reactive/base/SignalX.h` with the lifetimes of listeners | |
| `Lifetime` | `lifetime/LifetimeImpl.{h,cpp}` | |
| `RiderLinkModule` | connections and the model of the editor (`RiderLink/Private/RiderLink.cpp`) | |
| `PlayControl` | play, its settings and its buttons at both ends | extends `RiderLinkModule` |
| `LiveCoding` | builds by live coding between two programs | |
| `PythonExecutor` | scripts, their budgets and their cancellation | |
| `PluginTransaction` | what an installation promises (abstract) | |
| `UbtLock` | the lock of the build tools | |
| `PluginInstaller` | `UnrealPluginInstaller.cs` | extends `UbtLock`, refines `PluginTransaction` |
| `ProjectsRefresher` | `UnrealProjectsRefresher.cs` | extends `UbtLock` |
| `*_proofs` | theorems: `SocketWireLink_proofs` about the processor and the link, `Wires_proofs` about heartbeats and messages in packages, `Foundations_proofs` about lifetimes and signals, `Delivery_proofs` about the broker and the ext, `RdEntities_proofs` about property, set, list, map and both ends of a call, `Installer_proofs`, `Requests_proofs` about scripts and builds, `PlayControl_proofs` about play and its connections | extend their modules and TLAPS |
| `MC*` | the instances TLC checks | extend one or several modules |

In each module a definition marked as broken is a plausible bug in the operator below it; no
specification uses it. It documents which mistake a property would catch, and `PROJECT.json` pairs them.

Properties named `...UnlessX` say nothing once X has happened, where X is a behaviour of the code that
breaks them; a history variable records it at the step where it happens, and no earlier.

### The wire

*ByteBufferAsyncProcessor.* State: the members of the class with their names; a package is represented by
the number it will get, so that "renumbered" can be said. `asyncPc` is where `ThreadProc` is, `wirePc` where
the wire thread is; `joining` are the threads in `terminate0`. One action per section that holds a lock:
`Put` (with the split into chunks), `AsyncTake`, `AsyncBegin`, `AsyncSend`, `ResumeBegin`, `ReprocessBegin`,
`Resend`, `AcknowledgeNew`, `AcknowledgeCleanup`, `PauseBegin`, `Terminate0`, `Join` and others. Between
`AsyncTake`, which looks at `interrupt_balance`, and `AsyncBegin` anything may happen: there the code has
released its lock. `overtaken` records that a package was sent from inside that gap while the wire thread
was between replacing the socket and resending.

*SocketWireLink* adds the connection (`none`, `up`, `broken`), packages and acknowledgements in flight, and
the receiving end's `max_received_seqn`. A connection delivers a prefix of what was written; writing to a
broken one may succeed or fail; both ends notice at their own time. `received` and `again` record what the
peer passed on. Its process lives on, as does ours.

*MessageStream.* Lengths count units: a size field and an id take one each, and the `true` that `read_package`
returns for a dropped duplicate makes one unit readable (in the code: one byte). A package is a sequence of
units. `Send` appends the pieces of the next message to `packages`, connection or not; a message is intact if its
recipient and body are the ones sent. A connection ends where a read fails (`Disconnect`), where the handler of a synchronous
message throws (`DispatchThrows`), and where a length below zero is asked for (`BeginBody`); none of them resets `sz` and `id_`.
`stray`, `interrupted` and `threw` are the three ways to displace the reader.

*WireLife.* `thread`, `closer`, `beat` and `buffer` are where the four threads are. The closing action may come at any
point: while the thread opens a socket, between its check and the first `Receive`, while it receives or waits.
Handlers of `connected` may throw: `unwinding` is a thread that waits for a heartbeat nothing ends any more.
A server's thread goes on with a socket the check has closed, as in the code. Replacing `socket`, done without
the lock, is one step. The send buffer is there for its two locks: `LockHeld` are the places where the wire's thread has `lock` (it waits for `process`, or
resends, with it), `processing` and `resending` those that have `queue_lock` and may be inside a `Send` that blocks. The closing action takes
`lock` twice (`StopBuffer`, `BufferStopped`) before it closes the socket.

*Heartbeat.* Both ends count pings; `Increment` is a step of its own, as it is after the send. A connection may
be replaced, with either program restarted or not. `late` records that this connection is not in time.

*WireFlow.* `process` keeps `queue_lock` over a `round` of packages; a package is sent piece by piece under `socket_send_lock`, an
acknowledgement is one piece. Only packages are acknowledged; who has read an acknowledgement needs `queue_lock` before it reads on. `Jammed` is the deadlock
the code has: both directions full, and each reader waits for a lock that a blocked `Send` keeps. One end that sends packages and one that only acknowledges
are enough for it.

### Entities and what they rest on

*MessageBroker.* `dispatch` is atomic (it holds the lock). The action it queues is split where it takes or
leaves the lock: look-up, handler, test for an empty queue, removal of the entry, flush. `racedIds` are ids
dispatched to between the unlocked test and the removal. `crashed` is a null dereference or an iterator of
an erased entry; nothing happens afterwards.

*RdProperty, RdMap, RdList, RdSet.* Both ends, with a queue to each. A property's set carries a version that only
the master counts up; the master rejects what carries an older one. A map's master keeps the versions it
waits for, by key; an entry of a removed key holds a pointer to memory that is gone, so it may or may not be
found. A list counts changes at both ends and reports a number that is not the next; a set has nothing.

*RdCall.* `delivering` is what each thread is about to do with an answer: it tests that the task is empty, sets the
result, tells the listeners, each a step. A task may be destroyed at any moment; what is done to it afterwards
is recorded in `touched`. *RdEndpoint*: the handler answers at once or later, on any thread; the endpoint attaches
the cancellation and then its listener, two steps between which the task may be completed. A result is bound with a lifetime that it owns itself: when a later
step of that fails, the caller has a fault and the value lives on (`stranded`).

*ExtWire.* Per end: how far the default scheduler is with binding or unbinding, `connected`, `sendQ`, its lock,
whether the listener of `connected` still has to flush, what each sending thread is about to do, and what waits
for the default scheduler.

*Signal.* `fireCalls` is the stack of calls of `fire`, each with its iterators as indices. `Effects` says what a
handler may do besides returning. What the standard library leaves undefined (a moved-from slot called, a
vector reallocated under an iterator, an `Event` destroyed while it runs) is a fault, after which nothing is
said. `effects` records what handlers have done, so that each property names the effect known to break it.

*Lifetime.* Each thread has a stack of calls. `terminate` sets the flag, takes the actions under the lock, and runs
them without it from the last to the first. A nested lifetime removes itself from its parent without a lock.
Two threads in one map at once are a fault.

### The editor and Rider

*RiderLinkModule.* The wire's thread begins and ends connections and queues tasks. The scheduler's thread makes the
model of a connection in three steps, between which the connection may end; it replaces the model only under
the write lock. Any thread may send through the model under the read lock, as logging does.

*PlayControl.* A task of the scheduler carries what the code's lambda captured. Buttons send numbered requests; the
game thread executes them in its frame and replies. A change of the game's state is reported by a task. Settings
are packed into an integer as `PackToMode` does it, with its overlaps. `change` is how far the scheduler's and the game's thread are with a change of the settings, which they share, as they do
`playMode`, with no lock: a mode of Rider's is written field by field (`WriteField`), and whoever changed the settings, or the first sync, retrieves and packs them, compares with `playMode`, assigns it and tells of it, each a
step. To retrieve all the fields is one step, as no other thread writes while `crossed` is false; the list of delegates itself is not modelled. What is done through a destroyed control, or compared with a member that no
one has set yet, has either outcome. `rider` is front and back end together: what
the back end does is pass on. `missed`, `crossed` and `unanswered` are the three histories.

*LiveCoding.* `triggerHotReload` travels to the game thread; a tick samples `compiling`; what it tells travels to
Rider, whose build waits for a change to "not compiling". `noticed` are the compiles a tick has met. A connection is
lost, or given up when a second port file is written.

*PythonExecutor.* `game` is where `RunScript` is, `cancelling` how far the client's cancellation is on the wire's thread,
`lock`, `watching` and `armed` are `rider_progress`. Time is that a budget may be up at any moment. The exception waits in
`pending` until the game thread executes bytecode, whatever that is. `names` and `snapshot` are what scripts leave in the
interpreter and what `_restore` goes by.

*PluginInstaller.* `disk` is what each folder holds, `desc` what the back end believes. A run backs up, deletes what was not
chosen, and builds, copies and extracts for one project after another; each step may fail, throw something else, or find
itself cancelled. Two runs share the temporary prefix, which `End` deletes as a whole (`Dispose`); that may throw and leave any part of it (`undeleted`). A run into the game
may have no project to go to. `disturbed` are runs another run or `DeletePlugin` has met. `PluginTransaction` is what it implements: an installation that has begun commits to exactly the chosen folders or gives every folder that had a
plugin its own back, and only between two may the user delete. *ProjectsRefresher*: four tools one after the other, each under `UbtLock`; UnrealVersionSelector
may hang and is given a time.

## Runs

Passing runs. "States" are distinct states found by TLC. Modules that do not interact share an instance: its initial states pick
one of them, and each module's steps are enabled only in its own behaviours, so that their states add up and do not multiply.

| Run | Bounds | States | Shows |
|---|---|---|---|
| `processor` | 3 packages, up to 2 per put; any number of connections and pauses | 59 540 | `StreamIntact`: the three queues hold every package once, in order, under its number; `InOrderUnlessOvertaken`; `ImplementsWindow` |
| `link` | 2 packages, any number of connections | 185 089 | `LinkCorrect` (what is acknowledged was received; nothing is passed on twice but after a repeated first package), `EventuallyReceived`, `ImplementsProcessor`: the link uses the processor as its module allows |
| `wires` | stream: 3 messages, two longer than a package, 3 connections; life: 3 sockets; heartbeat: 5 pings each, 2 connections; flow: up to 4 packages each of 2 pieces, 1 piece in a buffer | 597 872 | `IntactUnlessDisturbed`, `NoFalseAlarm`, `EventuallyJoinedUnlessThrownOrHeld`, `FlowsUnlessJammed` |
| `ext` | one thread sends twice; one end is bound twice more | 410 989 | `NothingLeftBehind`, `DeliveryCorrect` (order per thread; lost only what was sent to an unbound ext), `EventuallyDelivered` |
| `entities` | property: 4 sets of 3 values; map: 2 keys, 2 changes each end; list: 2 changes each end; set: 3; calls: 2 at either end; broker: 3 messages, 3 kinds of schedulers; signal: 3 listeners, 2 fires, one inside the other; lifetime: 2 threads, 2 lifetimes, 2 actions | 499 676 | `Converged`, `MasterNotUndone`, `MapConvergedUnlessUnguarded`, `ConflictIffCrossed`, `SetConvergedUnlessCollided`, `CallsKeptApart`, `ResultStaysUnlessRaced`, `AnsweredOnceUnlessOvertaken`, `EventuallyAnsweredUnlessEnded`, `BrokerCorrect`, `EventuallySettled`, `SignalCorrect`, `LifetimeCorrect`, `EventuallyRuns` |
| `rider` | one installation among 2 projects or none and the engine, finding anything; 2 installations, or one and a refresh, around one project whose plugin may be old | 189 042 | `TidyWhenIdle` (lock free, no backup left but what could not be deleted, no description without a plugin, all true unless a run failed), `ImplementsTransaction`, `EventuallyEnded` |
| `requests` | scripts: one single script with a budget and one batch of none or two; builds: 2 connections, 2 builds, 2 uses of the button | 497 394 | `AbortsHitTheirScript`, `RestoreKeepsOlderNames`, `EventuallyAnswered`, `CompletedOnceCompiledUnlessCrossed`, `EventuallyCompletedUnlessMissed` |
| `play` | game: 2 connections, 3 things done by users and the game; settings: two changes from either end over one connection, or one over two, 2 settings | 651 077 | `AliveIffConnected`, `ReplacedOnlyWhenDead`, `StateReflectedUnlessMissed`, `ModeAgreedUnlessCrossed`, `EventuallyEnabledUnlessDropped` |

Runs that find a violation: `stream_recipient`, `broker_flush`, `python_cancel`, `play_state`, see
[below](#disagreements-found).

Why these bounds are enough to be of use:

- *processor, link.* Two packages are the fewest for which one is acknowledged while the other is sent again, and for which the
  window can be resent in a wrong order. Connections, pauses and failures are not bounded. The safety of both is proved for
  any number of packages.
- *wires.* A message that spans packages is followed by one that begins in the middle of a package, and three connections allow an
  interruption, a duplicate, a handler that throws, and two of them. Five pings exceed the delay of three. Three sockets: one that ends, one the closing action meets, one that would come after.
  Buffers smaller than a package let a send block inside it; with four packages and one piece in a buffer the acknowledgements of one round fill the way back while `process` still sends it.
- *ext.* The two messages may wait, cross the flush, or be sent directly, before and after the counterpart is bound again.
- *entities.* Each end can change twice while the other's changes are on the way. Two calls: one that times out and one after it. Three
  messages fill both queues of an entry while a third arrives. Two fires suffice for every slot left by the first to be met by the
  second. Two threads terminate parent and child in any order while the other adds.
- *rider.* With two projects and the engine one folder fails after others were changed; with two runs, or a run and a refresh, each can
  meet the other while it waits for the lock, or come after it and find what it left.
- *requests.* The second request is what a late abort or cancellation of the first would hit; a batch has a script left after one is
  aborted. Two builds and two connections: a build that is told of the end of the other's compile, or of an earlier connection's.
- *play.* Two connections: the end of the first is handled after the begin of the second. Three things: two that cross and one
  during them. Two changes of the settings cross, from one end or both, or one meets the change of connections. One setting has more clients than the packing has bits for. The safety is proved
  for any number of all of these.

`CHECK_DEADLOCK FALSE` is set in every run but `processor` and `link`: their bounded behaviours end when the counted things
are used up, and a wire may be closed, an end unbound, a signal or a broker at fault.

## Fairness

- `processor`, `link`: the threads go on with what they are doing. Weak fairness for steps inside a lock section, strong fairness for
  steps that need a lock which others take again and again (`std::mutex` is taken to be starvation-free) and for a notified wait. Nobody
  has to put, stop, or find a connection. In `link` the peer reads, a broken connection is noticed (the read on it fails), and new
  connections are found again and again: `Client` retries and `Server` accepts. `EventuallyReceived` assumes a connection that finally lasts.
- `wires`: an open that is pending is answered (it has a time-out), what waits on a socket that is closed or has no peer goes on; nothing makes a peer leave, read, or stop sending. The
  closing action gets a lock that is free again and again (strong fairness), and `receiverProc` comes to the end of a cut socket although acknowledgements read from it take it elsewhere first (there are finitely many; strong fairness).
  In the flow both threads of an end go on when they can. `receiverProc` goes on reading. Messages and heartbeats need no fairness.
- `ext`: binding and unbinding that have begun go on, messages are handled, a send that has begun ends. `EventuallyDelivered` assumes exts that
  finally stay bound.
- `entities`: the thread of the default scheduler runs its queue, the endpoint goes on with a call it has received, the thread that completed a task calls its listeners,
  and threads go on with what they do to a lifetime. Nobody has to complete a task.
- `rider`: a background task goes on, a build tool ends or is killed, and the lock is given to each of finitely many that wait. Weak fairness is
  enough: in this instance nobody takes the lock again and again.
- `requests`: frames of the game thread, the watchdog's loop, a budget that is up in the end (it is a time), and strong fairness for the
  delivery of an exception to a thread that executes bytecode again and again. Messages arrive and compiles end. A user need not press anything.
- `play`: the threads go on, also inside a change of the settings, messages of the connection arrive, a lost connection is noticed and found again; a reader leaves the read lock.

## Proofs

The proofs hold for every value of the constants; the only assumptions are those named in the modules. "Any" below means no bound.

**`SocketWireLink_proofs`, the processor** (any `MaxPut`, `MaxChunks`). The invariants the run checks are not
inductive: that the clean-up pops what is there needs to know where each thread is, and that numbers leave in order needs
to know what the last number on the socket was. `IInv` is the conjunction of `Typed` (types; `interrupt_balance` follows `wirePc`),
`Stream` (`StreamIntact`, `AckWithinSent`, mutual exclusion of `process` and `reprocess`) and `Order`
(`InOrderUnlessOvertaken` and `SentPosition`: which number the socket has got last, by what the wire thread is doing). `TypedStep`,
`StreamStep`, `OrderStep` show one after the other that each step keeps them, with lemmas about runs of consecutive numbers.
Theorems: `TypeCorrect`, `Invariance`, `StreamTheorem`, `AckTheorem`, `ExclusionTheorem`, `OrderTheorem`, `ContinuesTheorem`,
`KeepTheorem` (an action property, from `Stream` and the positions of the packages in the window) and `RefinementTheorem`: the
processor implements `SendWindow`.

**`SocketWireLink_proofs`, the link** (any number of packages, over any number of connections). `LinkImplementsProcessor`: every step of the link is one of the processor or leaves
it alone. That an acknowledged number was transmitted on the same socket, which `Next` of the processor demands, needs `OnSocket`: what is on the way in either direction
was. So the processor's `IInv` holds in the composition and can be used there. `LinkInv` is what connects the two ends: the peer has all up to the largest number of its
last run, all that is acknowledged and all that it is acknowledging (`PeerHas`); what is on the way continues that number by number (`WayContinues`) up to what was
transmitted last (`WayReaches`). That the first number on a new socket is not ahead of what is acknowledged comes from `SentPosition` of the processor and from
`NothingToResend`; a package that overtakes is what `raced` records (`OvertakenSeen`). Theorems: `LinkImplementsProcessor`, `LinkInvariance`, `ForgottenIsReceived`, `LinkCorrectness`.

**`Wires_proofs`** (any messages, lengths, chunk size, pings, connections; a delay of at least three, which is the code's). *Heartbeat:* `InTime` counts, for each wire, the pings of this connection it has sent and the
other has received. In time they alternate, so that when a wire has sent its n-th the other one has received all but one of the n; its own answer, at most one ping older, is then at most three intervals old.
*Messages in packages:* `InPieces` says what the packages are: the messages cut in pieces, each of which goes on where the one before ended or begins the next message; size and id come in one piece. `ReaderAt` says how many
units of which message the reader has: that many plus those left of the last package is where that package ends. A reader that waits for a package has read the last one (`StarvedAt`) and is inside a body or between two
messages, so that the next package, or package 1 again, goes on where it is. All of it is claimed until the reader is displaced, be it by a handler that threw. Theorems: `BeatInvariance`, `NoAlarm`, `StreamInvariance`, `IntactTheorem`.

**`Delivery_proofs`, the broker** (any ids, any number of messages and subscriptions). The argument is about one id at a time: a step either is about the id, or takes nothing from
it. `InOrder` lays out in one line where its messages can be (`Chain`): handled, in the worker's hand, from before the subscription, from then on, next on the wire; each part is
below the one behind it. That the actions queued find their messages is a count: one action per message that waits (`EntryKept`), until a dispatch meets the removal of the entry
(`racedIds`). Theorems: `BrokerInvariance`, `BrokerTheorem`.

**`Foundations_proofs`, lifetimes** (any threads, lifetimes, nesting, actions). Every item that was handed to a lifetime is in one place: about to be added by one call (`AddedOnce`), in the lifetime's map, about to
be run by a call, or done with (`Waiting`, `RanRight`, `NoneLost`). The maps, and what a call has still to run, are in the order of acceptance (`KeptFor`). Since a terminated lifetime accepts nothing, its map stays empty once it
was taken (`CallFits`), so that one call only has items of it (`OneRuns`), however many have terminated it; that call takes the last item first, which gives the reverse order (`InReverse`). For the nested lifetimes
the argument is the stack: the end of one that only its parent ends was called by the call that runs the parent's items, and that one still has every older action (`EndedInTurn`); so when an older action has run, the end
has returned. None of it needs that two threads are kept out of one map: a fault stops the model, and the invariant holds up to there.
Theorems: `LifetimeInvariance`, `LifetimeTheorem`.

**`Foundations_proofs`, signals** (any listeners, lifetimes, fires, and depth of fires inside fires). What can be said depends on what handlers have done, so `SignalInv` has layers. Always: listeners and lifetimes are
kept (`EventsKept`, `LifetimesKept`), the iterators of the calls stay in their queue (`QueuesHold`), and only a listener that runs is `FIRING` (`CallsHold`: of the calls all but the innermost are inside a handler).
As long as none threw, the innermost call that walks a queue will erase what is to be released (`LeftErased`). As long as none fired, there is one call; the living of its queue are in order of advise, what it has yet
to move as well as what it has moved, and it has heard them so (`SingleHolds`). With no effect at all, whoever is due was called or is still to come, and the places left empty are those it moved from
(`UndisturbedHolds`). Here too the proof corrected the property: an earlier `InAdviseOrder` was claimed for every fire, but a fire inside another moves listeners together under the places the outer one has taken,
so that the outer one may then call them out of order; TLC shows it with four listeners, three fires, depth two and a handler that throws. `OrderUnlessReentered` now claims it as long as no handler fires.
Theorems: `SignalInvariance`, `SignalTheorem`.

**`RdEntities_proofs`** (any values, members, elements, keys, calls; any number of changes). Agreement when nothing is on its way does not follow from itself; each entity has its own reason.
*Property:* `IInv` adds `Numbered` (messages to the slave carry consecutive versions), `Lagging` (the slave is behind by exactly those) and `Agreement` (the last
message on its way to an end decides its value). *Set:* it has no versions, so the argument is by member: if its changes never collided, those on the way all go one way
(`OneWay`), and the last of them says what the other end holds (`LastDecides`). *List:* with both directions counted in both numbers the ends balance (`Balanced`); no message is ahead of
the count it will meet (`NoneAhead`), one that is behind was crossed and will be noticed (`Noticed`), and until one is, each meets its number (`AllMet`). That the lists are then equal
needs more than numbers: `WillBeEqual` says that there is a sequence of lists, from the one to the other, each made from the one before by a message on the way. *Map:* by key; of one that the
master changes one at a time either nothing is pending (`NonePending`: all that is on the way are changes of the slave's, the last of which the master will take), or one entry is (`OnePending`),
and that is either on its way to the slave, alone (`SentAs`), or its answer is on the way back, and only changes of the slave's behind it count (`AnsweredBy`).
*Calls, the caller's end:* whatever a thread is about to do with a task, the argument is about who may still know it: an unmade or refused call nobody
(`Unknown`), one destroyed in time nobody either (`GoneInTime`). That holds because a call is answered once (`OneAnswer`) and, while the bind lifetime lasts, only that answer sets a result
(`OnlyAnswered`). *Calls, the other end:* a call that is asked has neither task nor listener nor answer, one with a listener has no answer yet (`CallUnanswered`), so that each of the two ways to
the answer, the endpoint's own and the listener's, excludes the other unless the completion overtook. Nothing of an answered call is held but a success that is bound, or a value whose call got a fault because its
binding or sending failed (`stranded`); both until the endpoint ends.
Theorems: `PropertyInvariance`, `PropertyTypeCorrect`, `PropertyConvergence`, `Versions`, `NotUndone` (an action property), `SetInvariance`, `SetTypeCorrect`, `SetConvergence`,
`ListInvariance`, `ListTypeCorrect`, `NumbersNotice`, `MapInvariance`, `MapTypeCorrect`, `MapConvergence`,
`CallInvariance`, `CallTypeCorrect`, `KeptApart`, `ResultStays` (an action property: only a
thread that found no result sets one, `SettersFoundNone`), `EndpointInvariance`, `EndpointTypeCorrect`, `AnsweredTheorem`.

**`Delivery_proofs`, the ext** (any threads, sends, bindings, with two ends). `NothingLeftBehind` needs `LockHeld`: a thread about to enqueue or
flush holds the ext wire's lock, so a flush cannot be passed by a send that saw `connected` as false. For the order, `AllOrdered` puts the stages of a message in a line: delivered, tasks, wire, sendQ;
of one thread the numbers rise along it, all are below the one the thread is about to hand on (`Given`), and one that bypasses sendQ has nothing in it (`NothingToOvertake`). That nothing is lost while an end
has not been bound needs `SilentUntilBound`: until then the other end is told nothing and sends nothing. Theorems: `Invariance`, `TypeCorrect`, `NothingWaits`, `DeliveryInvariance`, `DeliveryTheorem`.

**`PlayControl_proofs`** (any connections, settings, users). To `RiderLinkModule` every step of play is one of ten: `StepIsLinkStep`
reduces play to `LinkStep`, which is where the argument is. That the model is alive exactly while its connection is, when nothing is queued,
needs to know what is queued: `LinkInv` says that connections are queued in order and are newer than the model's (`ConnectedInOrder`), that the connection there
is has its model or its turn will come (`UpWaits`), that the end of a connection is told before the next one (`LostFirst`), and that an alive model has its
connection or the news of its end is on the way (`AliveTold`). `PlayInv` adds what the ends will agree on. `StateInv`: the last report of the game's state, in the queue or on the wire, is of the state
it is in. The mode takes more, as two threads are at it. `SchedulerInv` and `GameInv` say where each can be, which control it has in hand, and that without a crossing
only one of them is busy; `ControlOfModel` and `ModesOfControls` tie controls, and the modes they will tell of, to models. `SettingsInv`: what a thread has retrieved is the mode of the settings as they are, they are as far written as the scheduler's
thread is, and `playMode` is their mode when nobody is busy. `ModeInv` then is about messages: the last the editor says of the mode is `playMode`, and when Rider has heard all, its own differs by what it has
asked for since (`Agree`); this holds bit by bit, as Rider's menu changes some bits (`OtherBits`) and the editor does not keep one. Here the proof corrected the property: the editor packs the number of clients without a bound, so that a large one reaches the bit it does
not keep, and `ModeAgreedUnlessCrossed` therefore leaves that bit out on both sides. Theorems: `TypeCorrect`, `Invariance`, `AliveTheorem`, `ReplacedTheorem` (an action property: a model
is replaced only while it is dead and nobody reads it), `PlayInvariance`, `StateTheorem`, `ModeTheorem`.

**`Installer_proofs`** (any projects, runs and refreshes, from any disk; `Engine` is no project, no run is a refresh or `Nobody`). They are about `RiderSpec`, which starts from all that `RiderInit` allows; the run's
`Spec` starts from a part of that, and adds fairness. `TransactionInv` follows the one run that works: what its backups hold and what is left of the disk, at each step of it (`BackingUp`, `Deleting`,
`InstallingAll`, `Restoring`); it says nothing once two runs have met or a step has thrown something else than a cancellation. `BusyInv` says who has the lock, the progress and backups, and that a run which has ended has none unless the deletion
threw (`undeleted`). `DescribedUnlessFailed` is proved with them, as the next run goes by the descriptions, also after one that failed. Theorems: `InstallerInvariance`, `TidyTheorem`, `TransactionTheorem`: the installer implements `PluginTransaction`.

**`Requests_proofs`** (any requests, connections, builds, uses of the button). *Scripts:* an abort can hit only where the script is, because what the watchdog has armed, decided or raised is for the script that runs
(`ArmedOwn`, `Watched`, `Aborting`, `FlagUp`) until `DisarmDeadline` is through; that there is a reason for it is `CancelJustified` and `AbortJustified`. `Scope` is why a restoration drops nothing older: beyond the snapshot
there are only names the script has bound. *Builds:* the back end will be shown what the editor has said last (`Tells`), and a build that crossed nothing is where its compile is: not yet heard (`BuildAsked`), heard
(`BuildCompiles`), over (`BuildCompiled`). Theorems: `PyInvariance`, `PyTypeCorrect`, `AbortsTheorem`, `RestoreTheorem` (an action property), `CodingInvariance`, `CodingTypeCorrect`, `CompletedTheorem`.

Only model-checked: liveness, which is beyond the prover, as is `ENABLED`. Every other property of a passing run is stated by a theorem.

## Disagreements found

With a run:

- `stream_recipient`. `read_package` answers a duplicate with `true` (`wire/SocketWire.cpp:332`), which its caller takes for a length of one byte.
  The next message is displaced by that byte and goes to a recipient it was not sent to.
- `broker_flush`. The flush of an entry's custom messages (`protocol/MessageBroker.cpp:99`) dereferences the subscription that was looked up before the
  handler ran; if it has ended meanwhile it is null.
- `python_cancel`. The cancellation of a request compares its id and stores the flag in two steps (`PythonExecutor.cpp:451`); the request that starts
  in between is cancelled, which the comparison was to prevent (`:440-442`).
- `play_state`. The editor does not send its state of play to a Rider that connects (`RiderGameControl.cpp:512` sends the mode only), so that Rider shows
  Idle beside a game that runs; CHANGELOG.md:285 says that Rider reflects the editor's state.

Seen while modelling; the models contain them, and properties exclude them by name:

- `ThreadProc` tests `interrupt_balance` under `lock` and calls `process()` after releasing it (`wire/ByteBufferAsyncProcessor.cpp:154,179`). If the connection is replaced in
  between, a new package overtakes the retransmission, whose packages the peer drops as duplicates although it acknowledges them (`overtaken`, `raced`).
- A connection that ends inside a message body: `sz` is reduced again when the message is resumed, so fewer bytes are read than announced. A handler that the broker runs at once and that throws
  (`wire/SocketWire.cpp:366`) leaves `sz` and `id_` as they are, and the next connection reads the rest of the stream under them; reduced twice, a short `sz` is below zero and no connection gets past it.
- `MessageBroker`'s queued action tests, moves and erases an entry without the lock.
- A handler that fires its own signal has its listener erased by the inner fire (`reactive/base/SignalX.h:96`), which can also destroy a running `Event` of an eternal
  listener; one that throws leaves a moved-from slot, and the next fire calls through it.
  The inner fire also moves listeners together under the places of the outer one, which may then call them out of order of advise (`OrderUnlessReentered`).
- A nested lifetime removes itself from its parent without the parent's lock.
- A handler of `connected` that throws leaves the wire's thread waiting for a heartbeat that nothing ends, and with it the end of the wire.
- The end of a wire takes the send buffer's lock (`wire/ByteBufferAsyncProcessor.cpp:39`) before it closes the socket. `resume` has that lock while it resends (`:263`), `acknowledge` and `pause` while they wait for `process` (`:247`,
  `:280`): with a peer that does not read, the `Send` never returns and the end of the wire waits for ever, as does every caller of `put`.
- The two directions of a wire jam when both are full and each reader needs a lock that a blocked `Send` keeps: `socket_send_lock` for the acknowledgement it has to send, or `queue_lock` for one it has read (`:287`), which `process` keeps over
  the packages of the whole queue. For the latter it is enough that one end sends many packages. The socket `Client` and `Server` set is replaced without the lock that the
  closing action holds.
- An endpoint whose result fails after it was given its lifetime (`task/RdEndpoint.h:127`) sends a fault, and the value stays bound until the endpoint ends.
- A synchronous call that throws leaves `sync_task_id` set, and every later one of that call is refused ("Already exists sync task for call", `task/RdCall.h:78-121`).
- A map's master that changes a key twice keeps the first version as pending (`impl/RdMap.h:111`) and takes the acknowledgement of the second for an error.
- Sets have no versions: an add and a remove of one member that cross leave the ends different for good.
- Settings: a mode of Rider's is applied and echoed at once on the scheduler, ahead of one the game thread has queued (`RiderGameControl.cpp:432,495`); the two threads read and write the settings and `playMode` with no lock
  (`:178-205`, `:427-431`, `:513-516`), so that the ends may be left with different modes, and the delegate may compare with a `playMode` the first sync has not set yet (`:311`); more than four clients
  overflow the two bits `PackToMode` has for them (`:153`); the bit for compile-before-run is not kept by the editor.
- A build by live coding whose compile no tick has met, whose connection is lost, or which the editor refused stays running; one asked for while another compile runs is completed by that
  one's end.
- Scripts: a script without a budget cannot be cancelled; an abort that hits `_snapshot` makes the next restoration drop older names.
- Installer: two installations share one temporary prefix, and the first to end deletes the other's backups; when that deletion throws (`Utils/FsUtils.cs:17`) backups stay on the disk; `Restore` does not put the descriptions back; an exception other than a cancellation
  leaves folders as they are; installing into the game with no project removes the engine's plugin and reports success.

## Not modelled

The tree has about 67 000 lines of C++, C#, Kotlin and Python. 39 600 of them, 141 files, are third-party libraries copied into
`RD/thirdparty` (spdlog with fmt, `optional`, `variant`, `ordered-map`, string views, a thread pool, sockets): of these the modules use what their interfaces promise,
and a model of their insides would say nothing about this program. Most of what is left without a definition is headers, serializers, the calls into the engine's
and the IDE's own API, and presentation. What carries state and interaction is in a module; by its size, that is a small part of the whole tree.

- In the modelled components: serialization, logging, locations and ids of entities, assertions on the calling thread; the comparison of serialization hashes in the
  ext's handshake; entities inside values of a property or a map; sets of a property before it is bound, which are not sent; `remove_action` of a lifetime, which only `WiredRdTask` calls (it is in `RdCall`);
  `SequentialLifetimes`; settings of play sent as a struct; patches of the `.uplugin` file.
- Corruption of a hash table by unsynchronised access: accesses are atomic, only their order is modelled. Two threads in one map of a lifetime are recorded as a fault.
- `is_local_change` of an async entity (`base/RdReactiveBase.h:77`): the entities of the plugin that are set are not async.
- `RdSignal`: it sends and then fires, without a state of its own. Identities: names are hashed, and a model of a few names says nothing about collisions. Interning: the protocol of the
  plugin declares no interned type. Schedulers: a queue before a pool of one thread, which the modules that need it have in them.
- Editor: Blueprint, source code, shader and debugger support, asset search and screenshots hand single requests to the engine and keep no state between two of them.
- Rider: links, navigation, options, MCP handlers, the log panel, the install service and its buttons, the merge of native and Blueprint frames: sequential, or presentation.

## Plan

Done: the wire and its composition, what entities rest on, the entities, calls, the editor's connections with play, live coding and scripts, and Rider's installer with the tools it
shares with the refresher; proofs for the send buffer and the link, heartbeats and messages in packages, the broker, lifetimes, signals, all entities, both ends of calls, the ext, play, the installer, scripts and builds.

Worth doing next:

1. The hash comparison of the ext's handshake and entities inside values, whose binding crosses messages for them.
2. `SocketWireLink` in both directions at once, with the jam of `WireFlow` and the pings of `Heartbeat` on one socket.
