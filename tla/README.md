# A verification development for SuOS

SuOS is the core of a small operating environment: a router process connects
programs ("usrs" and "apps") over Unix domain sockets, every program runs on the
same small runtime of an event loop and a worker pool, and a graphics layer
shares buffers between them. This directory holds TLA+ models of that core,
TLC configurations that check them on small instances, and theorems about them
proved with TLAPS for every value of the constants.

All paths below are relative to `src/core` unless they start with `src/`.

## 1. Inventory

| Component | Where | State it keeps | Operations | Modelled by |
|---|---|---|---|---|
| suRuntime | `suRuntime/include/suRuntime.hpp` | io_context, one event thread, worker pool; per task a timer, a remaining count, an optional handle | `schedule`, `scheduleAtFixedRate`, `dispatch`, `runOnEventLoop`, `execute`, `ScheduledTask::cancel` and destructor, `stop` | `SuRuntime`, abstractly `CountedTask` |
| Uds_Server, Uds_Session | `suUDS/basic/src/Uds_Server.cpp` | acceptor, `sessions_` (id to session), per session a socket, a read and writes | `start`, accept loop, header/body reads, `send_async`, `close`, `stop`, `on_session_error` | `UdsServer`, `UdsServerApp`; the bytes of one connection, with those of Uds_Client, in `Framing` |
| Router | `Router/Router.hpp`, `Router_Heartbeat.hpp` | the server, `_main_online`, `_heartbeat_started`, timeouts per client, `_active_clients` | `Start`, `Stop`, accept with authentication, message routing with access control, Main's commands, disconnection, broadcast, timeout | `Router` (on `UdsServer`) |
| RouterAuthManager | `Router/suRouterAuth.hpp` | `entityGroupMap_`, `allowedOutApps_` | authenticate, authorize, remove, allow | in short in `Router`, in full in `RouterAuth` |
| Registry database | `Main/Database` | tables of usrs, parts and apps | `loadAll`, `unloadAll`, `addApp`, lookups | `Registry`; its contents are `Router`'s constants `Apps` and `Policy` |
| ClientManager, Uds_Client, its heartbeat | `suUDS/suUdsMgr`, `suUDS/basic/src/Uds_Client.cpp` | connection state, `_client`, the connect task, ping and overtime tasks | `Start`, `Stop`, `sendmsg`, connect attempts and results, message, error, heartbeat | `ClientMgr` |
| SysService | `SysService/SysService.hpp` | a ClientManager once the loop has made it | `start`, `stop`, control messages, the manager's verdict | `SysService` (on `ClientMgr`) |
| Vram | `Graphics/Vram/VramProvider.hpp` | buffers of users, a workflow per buffer, the registry of share ids | users, creation and its failures, workflow steps, share/unshare, lookup, release, destructors | `Vram`, abstractly `BufferTurns` |
| RgaEngine, RgaService, RgaServiceClient and their messages | `Graphics/Rga`, `suUDS/suUdsMsg/part/graphics/rga` | active job handles, epoll set, pending jobs | requests and answers, build and parse, lookups, chains, submit, fence events; cancel | `RgaJobs` (on `Vram` and `RgaWire`), without cancel |
| VTimer | `Graphics/Vtimer` | frame counter, tasks by frame, listener thread and its device | submit, vsync, start and stop of the listener | `VTimer`, abstractly `FrameTasks` |
| Envelope builder and parser | `suUDS/suUdsMsg/Uds_Msg*.hpp` | none | envelopes around messages | not modelled: a conversion without state; that `finalizeEnvelope` throws off the event loop is part of `Router!Broadcast` and `RgaJobs!FenceEvent` |
| Generated message code of the other parts | `suUDS/suUdsMsg/part/general`, `part/router`, `partExample` | none | builders and parsers | not modelled: commands without structure that the models name by what they make a handler do |
| Main, MQTT, manual test | `Main/src`, `Network_service`, `suUDS/basic/src/test_uds.cpp` | none | stubs | not modelled |

How they interact. Every component runs its handlers on the event loop of one
suRuntime and hands long work to its pool; timers are `scheduleAtFixedRate`
tasks whose handles the component keeps. The Router is the application of
Uds_Server: the server calls it on accept, message and disconnection, and it
calls `send_async`, `close` and `stop` back, also from inside those callbacks.
It asks RouterAuthManager, which reads the registry.
A ClientManager in another process is the peer of the router's sessions, and a
SysService stops its ClientManager inside the manager's own callbacks. The Rga
service looks buffers up in Vram's registry on its event loop, its engine waits
for the hardware on a thread of its own. A vsync thread drives VTimer, which hands
its tasks to the runtime. Main is
a client with special rights (it enables apps, stops the router, and must come
first).

What is hard in this code:

* asio operations have two halves. An operation completes, and later its
  handler runs. `cancel()` and `close()` reach an operation only before it has
  completed; a handler that is queued runs all the same. Most of the subtle
  behaviour of every component comes from here.
* `async_write` is many writes: two of them on one socket overlap, and each reads the
  sender's memory after `send_async` has returned.
* `sessions_` is keyed by id, and a program may connect twice. Errors of the
  overwritten session act on the entry of the newer one.
* The end of file of a peer is dropped like a cancellation
  (`Uds_Server.cpp:126`), so only the heartbeat notices that a client is gone.
* `Stop` of the router destroys the server while its handlers are queued.
* Pool threads set and use `_client` while the loop resets it.
* A callback may stop the object whose handler is calling it, and the handler goes
  on afterwards.
* Buffers die by reference counting on any thread, while the registry that
  others look them up in is only told afterwards, in their destructor.
* A holder of a buffer does not know who else holds it: `getAvailableBuffer`
  reserves nothing.
* A request for the hardware passes six representations, in which source,
  destination and pattern change places.
* A registry may be loaded again, or half loaded, while those who were admitted by the
  old one stay connected.
* Positional arguments `(false, 3)` land on `(execute_count, heavy)`, so
  several "repeated" tasks run once, on a worker.

The full list of hazards, with their lines and the properties that speak of
them, is `hazards` in `PROJECT.json`. Three have no property. The broadcast's body
walks `_active_clients` on a worker while the loop changes it, a data race; the
process ends in that body anyway, at its first envelope. What follows a length that
is not legal is lost. And the access check looks an `out_optional` receiver up in the
wrong table; the last two are what the code does (section 6), so there is nothing to check.

What makes each component correct: the runtime runs a task as often as it was
asked to, never after a cancellation that was in time, and completes it; the
server never dereferences a missing entry, reads on from everybody it has
registered, takes failed sessions out of its table, and finds the messages again in
the stream of bytes; the router watches
everybody it has registered, forwards only what the registry allows, and closes
clients that are gone; the registry never mixes two files, and what an app sends keeps
to the files in force; the client manager has a client when it says it works,
and always comes to a decision when it tries; a service has one connection, or is told
why not; a buffer is worked on by one
holder at a time, lives as long as it is referred to, is found under its id, and
gives back what it has of the kernel; a job of the hardware does what its caller asked,
with living buffers, which it keeps until it has ended and no longer; a
task for a frame begins once, not before that frame is counted.

## 2. The modules and the code

### SuRuntime, CountedTask, SuRuntime_proofs

`SuRuntime` has one "task" per call of an entry point. `timer[t]` is the
state of its steady_timer (`waiting`, `expired`: the handler is queued,
`aborted`: it is queued with `operation_aborted`, `firing`: it is running),
`left[t]` is `*remaining_count`, `handle[t]` whether somebody holds the
`ScheduledTask`, `pool` and `worker` are the worker pool, `comp[t]` the
completion callback. A handler of the loop is two steps, `BeginHandler` (run
or post the body) and `FinishHandler` (count, complete or wait again), since
workers and cancelling threads run between them. `handed` and `asked` are
history variables: how often a body was run or posted, and whether the last
`cancel()` came in time. A `schedule` is a task with count 0 and no handle; a
`dispatch` on the loop thread runs inside the current handler
(`DispatchInline`), ahead of the queue.

`CountedTask` is what a caller may rely on: a task is active with a budget,
runs, is cancelled, or spends the budget and completes. `SuRuntime` implements
it under the refinement mapping `StatusOf`, `BudgetOf`, `RunsOf`
(`ImplementsCountedTask`).

### UdsServer, UdsServerApp, SuUds_proofs

`UdsServer` is the state of the server and the operators that its users are
composed from. `sock[c]` is the server's end of connection c, `peer[c]` the
other end, `rd[c]` the read operation (`waiting`, or the result its queued
handler will see), `wr[c]` how many handlers of failed writes are queued,
`acc` the accept operation, `sessions` the table. `Shut`, `Abort`, `Fail`,
`Erased`, `Victim` and `Unreferenced` say what one call of the code does to
sockets, reads, writes and table, so that a handler that makes several calls is
one step that composes them. `Unreferenced` is the shared_ptr count of a
session: one that is in no table entry and in no operation is destroyed, and
its socket with it.

`UdsServerApp` runs this server under an application that accepts anybody
under any id and sends, closes and stops when it likes, in callbacks or
outside. The one thing it respects is what the code's users respect: it closes
and sends to clients that have been announced to it and not taken back
(`online`).

### Framing, MessageChannel, SuUds_proofs

One direction of one open connection, in the units that a socket cannot tear: a
header, or a part of a body. `queue` and `posted` are asio's work on
`async_write`: a chunk at a time, an attempt at once while the socket takes
everything (`eager`), otherwise one operation per message in the queue of the
descriptor, so that the rest of one message goes behind the first chunk of the next.
`need` and `body` are the reading loop of `Uds_Session` and `Uds_Client`, which is
the same code. The two ends differ in what they write from: a session keeps length and data
in `msg_ptr`; a client hands over a local variable and a vector of its caller, so
that what the socket did not take at once is any memory (`Dead`). A unit
that is read as a header and is none gives any length.

`spoilt` is a history variable of the three things that no length prefix survives:
a write in the middle of another, memory after its time, a length that is not legal
and is passed over without its body.

`MessageChannel` is what the users of suUDS rely on: messages are delivered whole and in order until
the channel breaks, and then anything may be. `Framing` implements it with `spoilt` as what breaks it
(`ImplementsChannel`).

### Router, Router_proofs

`Router` composes the server's operators with the callbacks of RouterManager,
Router_Heartbeat and RouterAuthManager; each handler, with every call it makes,
is one step. `tmr[k]` is the timeout task of client k and `due` the
timeout handlers that are queued, which no reset reaches. `out` is the envelope
the last step has forwarded. `gone` and `zombie` are sessions and the accept
handler of a server that `Stop` has destroyed: their handlers hold a dangling
`this`, so running one is a choice between a crash, an ignored error and
an action on the server that a later `Start` has put into the same memory: a session's
error handler disconnects there, and the accept handler accepts there
(`ZombieAccepts`: `Refuse` and `Admit` are what any accept handler does with a connection). After
that the new server has two accepts outstanding, of which the model follows the one it has
made itself.
`LaterSpec` starts in a later life of the router, where `_main_online`,
`_heartbeat_started` and Main's group are left over. It exists because in its
first life the router ends with the broadcast (see section 6), so that most of
what reconnections and timeouts do is only seen in a later one.

### Registry, RouterAuth, RouterAuth_proofs

`Registry` goes through a file as `loadAll` does, a section and a row at a time:
`SectionBegins` clears the table, `RowInserted` takes a row unless its id or name is
there, and `RowThrows` leaves in the middle. `load` is the place in the file;
`source`, `added` and `loaded` are history variables. A `linux_id` that is not a list of
three numbers is never initialised: `Values` lets it be anything.

`RouterAuth` adds RouterAuthManager: `group` is `entityGroupMap_`, `allowed` is
`allowedOutApps_`, `passed` the message that the last step has let pass. Connections
and messages come between loads, so that what was remembered of a connection meets another
registry. Nothing keeps the ids of usrs and of apps apart: one id may be a usr's in a file
and an app's in the next, or in the same, and `setAllowedApps` takes any. `AppsKeepToTheFiles`
is stated by the rows of the files that usrs and apps were last read from (`RowsRead`), not by the tables that the
check looks into. `RouterAuth` has the registry as state and one router without sockets; `Router`
has sockets and timers and a registry that stays as it is.

### ClientMgr, ConnectionLife, SysService, ClientMgr_proofs

`ClientMgr` has the states of `_stateMgr`, the connect task, the attempt's body
in the pool (two steps: set `_client`, then use `_client` again), the
completion callbacks that nobody can cancel (`late`), and for each `Uds_Client`
object its operation with the two halves as above. `overdue` and `pinging` are
heartbeat handlers that are queued. Handlers that call the application have a
parameter `stops`: whether the application calls `Stop` in the callback. `Die` then ends
in `Idle`, because `handleError` enters `Dead` before it calls `onError`.

`ConnectionLife` is the promise to the program: a connection is sought after `Start` and
after every loss, it is given up with one verdict, which tells whether there has been one since
`Start`, and one that works is lost before it is sought again. `ClientMgr` implements it with its own
`state` and `told` (`ImplementsConnection`).

`SysService` extends it by `manager` (made on the loop by `initClientMgr`) and `ended` (the cause
`onStop` was last given). It is an application that
starts its manager once and stops it in every callback that gives it reason to; calls of
`stop` off the loop reach `onStop` but not the manager, which refuses them.

### Vram, BufferTurns, Vram_proofs

`Vram` has one action per method of VramProvider, VramUsr and VBuffer: each holds
its mutex throughout and is one step of the actor (thread) that calls it. `current` is the entry of
`users_`, `usrOf[a]` the `VramUsr` an actor keeps (which survives `removeUsr`),
`active[b]` the list `active_buffers_` that b is in, `refs[a]` an actor's
`shared_ptr`s. `Dying` is the reference count: a step that takes the last
reference from a buffer makes it `dying`, and its destructor then runs in two
steps, `DestructorUnshares` and `DestructorFrees`, between which everybody else
may act. A lookup that meets a dying buffer removes the entry itself.
`createBuffer` either succeeds, or fails at one of four calls of the kernel and
undoes what it has got (`Obtained`, `Undone`). A call that is refused and changes
nothing is not a step. `working` is a history variable: who has started which
step of which buffer.

`BufferTurns` is what those who share a buffer rely on: a buffer with steps to
do is nobody's or one holder's, who takes the next step off the list when he is
done; a plan is made, or given up, only while it is nobody's. `Vram` implements it under `Todo` (the rest of the plan) and `Holder`
(`ImplementsTurns`).

### RgaWire, RgaJobs, RgaJobs_proofs

`RgaWire` holds the conversions that a call passes: `Build` and `Parse` (the
tables of `GraphicsMsg_ToRga`, where a default is not stored), `Lookups` (which ids the
callback of the message looks up as s, d and p), `Step` (what `add...` puts into the
chain) and `Task` (what the engine gives to the hardware, to read or to write). Buffers,
configs and rects are followed through all of them, for all sixteen operations; other arguments
are not looked at. A config is a shape (width, height, format) and offsets, and the two part
ways: `Bundled` wraps a buffer in the shape only, the offsets count where the engine
hands on `s_rect` or `d_rect` (`Rect`), in five operations; the three on arrays have their offsets
zeroed in the chain and are given rects; all others work on whole buffers.
`Target`, `Cfg`, `Named` and `MeantRegion` are what a caller means: which buffer is written, which
config goes with it, and the region that the operation is about.

`RgaJobs` extends `Vram` and makes jobs actors of it: `refs[j]` are the
references that the chain, the handle and the captured callback of job j
keep. `asked[j]` is the client's call (a history variable), `msg[j]` the message,
`found[j]` what has been looked up, `using[j]` what the hardware does with which buffer.
The three lookups of a request, which are made without a common lock, are
single steps (`LookUp`), and threads act between them; `LoopFree` says that
the service's loop is in one handler at a time. `armed` and `signalled` are the two
halves of a fence event. Requests and
answers may be lost on their way through the router. `FenceEvent` sets `fault`:
the callback runs on the epoll thread, where the builder of the response throws.
`BuffersAsInVram` says that the composition is a behaviour of `Vram`.

### VTimer, FrameTasks, VTimer_proofs

`frame` and `queue` are the provider's counter and tasks by frame, `timers` and `pool` where
a triggered task goes (with or without an offset), `thread` is the listener's thread: at the head of its
loop, in the wait, sleeping after an error, or calling back. `fd`, `running` and
`stopping` belong to `start` and `stop` of the listener, which any thread may call while
the thread waits. `FrameTasks` is the promise: a task is refused if its frame is past,
otherwise accepted for good, and begins once, not before its frame has been counted. A task's
place decides its `Status` in the refinement. What is called a vsync is the trigger of that
count: `drmWaitVBlank` may return at any time, since its reply overlays the request
(`VTimerHardwareAdapter.hpp:60-67`), so none of this is about the display's own blanks.

### Translating the code

Several headers do not compile as they stand; they are modelled by what the language
gives to the statements that are there. Missing includes and a
const member function that changes a member are read as if they were mended. `SysService.hpp`
gives a lambda of five parameters where `onMsg` has four and includes a file that does not
exist, and `Main/include/main.h:16` copies a `RegistryManager` whose copy constructor is deleted: the
models take the lambda's parameters by their names, and the registry as the one that `instance()` returns.
Examples where it matters:
`onConnectLost();` in `Uds_Client_heartbeat.hpp:32` names the type of
a `std::function` and makes a temporary, so nobody is called; `false` passed for an
`int` is 0, and 3 passed for a `bool` is true.

`fault` is a variable of `UdsServer` and the modules on it, of `ClientMgr` and of
`RgaJobs` (`crashed` in `RouterAuth`): the step in which the process would
end (an exception that leaves a thread, an unchecked `find`, a null pointer, a
dangling `this`) sets it, and nothing happens afterwards. Safety properties
are then about every state up to that step, and `CloseIsSafe` says that for the
server alone that step never comes.

## 3. The runs

`tlc -workers 2 -config <run>.cfg <module>`; deadlock is checked in
`Vram_app`, where threads may always go on. It is off in the other
configurations because those programs may come to rest legitimately: the
runtime has been joined, all connections have been used up, every message has
arrived, the router has
been stopped for the last time, or the process has ended in a fault.

| Run | Module | Question | Instance |
|---|---|---|---|
| `SuRuntime_app` | `MCSuRuntime` | Do counts, completions and cancellations stay consistent whoever cancels and however late the worker is, does the runtime implement `CountedTask`, does a counted task complete, does `stop` return? | a task of any of the four kinds, with counts -1, 0 and 2, beside one that keeps loop and pool busy; 1 worker |
| `UdsServer_app` | `MCUdsServer` | Does `close` ever find its entry missing, does a registered session ever stop reading, do failed sessions leave the table? | 2 connections, 2 ids |
| `Router_app` | `MCRouter` | Is everything that is forwarded allowed by the registry and sent by a registered program, is every registered client known and watched by a timeout, and is a client whose peer is gone closed in the end, unless another connection of its id goes on answering? | Main and an app in the first life; a usr that connects twice in two later ones, with a stop between them |
| `Router_main_first` | `MCRouter` | Is Main always first, as `Router.hpp:124` says? Not after a restart | Main and a usr, 2 lives |
| `ClientMgr_app` | `MCClientMgr` | Does the manager implement `ConnectionLife` whatever stale clients report, has a working one its client, does connecting end, is a service stopped when its manager gives up, has it one connection at most, and does it come up or is told? | 2 client objects, 2 completion callbacks; any application, or a SysService |
| `ClientMgr_heartbeat` | `MCClientMgr` | Does a lost heartbeat lead to a reconnection, as `Uds_ClientMgr.hpp:338` has it? It does not | 1 client object |
| `Vram_app` | `MCVram` | Is whoever has started a step alone in it, are references and registry exact while buffers die, does nothing of the kernel leak, and does the workflow implement `BufferTurns`? | 2 actors, 2 buffers, 2 user objects, 2 ids, plans of no and of two steps |
| `RgaJobs_app` | `MCRgaJobs` | Does the hardware ever work on a destroyed buffer, or on another buffer, shape or region than the caller has meant, do jobs settle and let go of their buffers, and are the buffers still those of `Vram`? | 2 threads, 2 jobs, 1 buffer; or 1 thread, 1 job, 2 buffers with calls that name several |
| `VTimer_app` | `MCVTimer` | Does every accepted task begin exactly once and not before its frame is counted, does it begin at all, does the thread ever wait on a closed device, does `stop` return? | 3 tasks with and without an offset, 3 frames |
| `RouterAuth_app` | `MCRouterAuth` | Does a load that fails in the middle mix two files, is one that succeeds complete, and does what an app sends keep to the files that usrs and apps were last read from? | 4 files of up to 6 rows; an id that is a usr's in three of them and an app's in three |
| `Framing_app` | `MCFraming` | Is the torn stream a `MessageChannel`, is nothing lost in its queues when it comes to rest, and does every message arrive? | 3 messages: of one chunk, longer, too long; a socket of 3 units |
| `Framing_protocol` | `MCFraming` | Does the client follow the protocol, as `Uds_Client.cpp:65` says? Not when a message is longer than the socket takes | the same, a socket of 2 units |

Three of the runs are expected to end in a counterexample: the code does
something else than a comment in it says. Their findings are in `PROJECT.json`.

Four MC modules have a variable `cast` that never changes: it chooses who takes part in
a behaviour, so that one run covers two small instances instead of one large one. The
`cast` only restricts what the environment does (which connections arrive, which
threads and calls there are); the steps of the code are those of the module.

### Bounds

* `MaxSub`, `MaxPool`: `handed` stops counting above every count in use, and
  closures queue in a pool of length 1 beside the one being run. That is
  enough for a body to be overtaken by a later handler, by a cancel
  and by `stop`.
* Two tasks: tasks only meet in the loop (one handler at a time), the pool and
  `stop`; `MCSuRuntime` lets one of them be anything and gives the other the two forms that
  keep loop and pool busy.
* Two connections under one id are needed for an overwritten session and
  its late errors; a second id lets one session's handler act on another one.
* `MaxWrites` 2: of the handlers of failed writes of one session the first may erase its entry, and the second
  a newer one's; further failures while two are queued are not counted.
* `MaxStarts` 2: the second life is the one that sees what the first has
  left behind, handlers included, and a third sees nothing else. `LaterSpec` starts as such a
  later life, without the first. In `Router_app` Main and the app have one life, which ends with the broadcast
  when a client is there, and the usr has two later ones. In the first life `DeadPeerClosed` therefore says little; the later ones are what
  it is checked on.
* `MaxLate` 2: a completion callback of an earlier attempt and one of the present
  attempt; two client objects: a stale one and its successor. The objects are
  reused when they have ended, so behaviours are of any length.
* `Vram`: two actors can hold one buffer, be in its steps in turn, and meet its
  destructor in a lookup; two buffers let an id pass from one to the other; two
  `VramUsr` objects are a removed one that is still held and its successor. A
  plan of two steps has a first and a last. Objects and ids are used again after
  their end, so behaviours are of any length. A new share id is taken to differ
  from those in use (64 random bits).
* `RgaJobs`: one buffer for two jobs and two threads, so that jobs share it
  with each other and with threads that unshare and drop it; of their ids one is of 2^63
  or more. In the other cast the calls are one of each kind (no source, a source,
  foreground and background, all three; a region of the target, of the source, an array of rects) and name a
  living id, a dead one and the default 0.
  The remaining operations are like one of these; the proof is about all sixteen. That a request is
  issued with or without a callback of the client's own is also fixed by the cast.
  Workflow steps are left to `Vram_app` (`Tag` and `Plan` are empty).
* `VTimer`: three vsyncs are a frame that is past, the present one and one to come;
  two tasks with an offset can be behind timers while one goes straight to the pool.
* `RouterAuth`: the files have a double name, a missing section, a row that throws and a row of
  two tables; a usr's acl differs between files, and its id is an app's in some; loads repeat without bound.
* `Framing`: a body of two units, a chunk of two and a socket of three tear a message in
  every place; a length of `Limit` is the first that is not legal.
* Symmetry is used in `Vram_app` only, over objects
  that the specification does not tell apart and without liveness.

The proofs (section 5) do not depend on any of these bounds.

### Fairness and timing premises

Liveness runs assume that clocks advance, that the loop runs what is queued and
the pool what it is given, and that bodies and handlers return: all of this is
asio's scheduling. `SF` on the loop's handlers says that asio's queue is
first in first out, so that newer handlers do not overtake an old one for
ever. In `RgaJobs` the handlers of the service return, the hardware ends the jobs it has
begun (its driver's own timeout sees to that), and the epoll thread is told of
signalled fences. In `VTimer` the kernel ends every wait, and while the display is on
the waits are not for ever errors (`SF` on `WaitSucceeds`). In `Router` it is the timers, their
handlers, those of messages and the broadcast that come about, and no other handler is counted on. In `Framing` both programs run
their loops and the kernel reports a writable socket. `SvcFairness` is the loop running
`initClientMgr`. Nothing is assumed of peers, of applications, or of the owner of a
runtime, a router, a manager, a listener or a service.

Two modules use the intervals of the code. In `Router` the heartbeat interval (1600
ms) is shorter than the timeout (3000 ms), so no timeout expires before a
broadcast that was armed with it, and a timeout armed while an older handler of the same
id is in the queue does not expire before that handler has run. In `ClientMgr`
a connect on a Unix socket has its result at once, before a further task's 100 ms or the
2000 ms of its own completion callback. These are assumptions on an
unloaded machine; a loop that is blocked for seconds is outside the model.

`NeverStuckConnecting` and `ServiceComesUp` are stated for behaviours in which the pool is not for
ever without a client object, which is a bound of the model and not of the
program.

## 4. Why the properties can fail

Every property of a passing run has a mutant in `PROJECT.json`: an operator of
the model changed the way a slip in the code would change it (a dropped test of
`ec`, a counter off by one, an entry not erased, a callback not called, a table not
cleared, a limit one too low, two lookups exchanged, a state entered too late). The
variants stand beside the operators they change, under a comment "A variant
of".

Every module has one type invariant. TLAPS proves all of them, so that no run spends time on
them.

## 5. What is proved

Assumptions: the named ASSUMEs of the modules, which every run evaluates (the constants
are disjoint from the null values, `Main` is a usr, policies and
programs are total functions, counts are at least -1, files have known sections). Each
module below proves its type invariant, an inductive invariant, and from it the properties;
`PROJECT.json` lists the theorems.

`SuRuntime_proofs`, for any tasks, workers and counts:

* `InvCorrect`: `Spec => []IInv`, where `IInv` adds to the types that the
  handler being run is the one that is firing (`FiringInv`), that counter and
  hand-overs add up at each point of a task's life (`CountInv`), and that a
  cancelled, completed or abandoned task has no wait of its own (`ClosedInv`).
  `CountKept` is not inductive: to bound the runs of a task one has to
  know what `left` was when its handler began, and that a completed task's
  timer is off.
* `CountKeptHolds` and `CancelFinalHolds` follow from it, the latter as an
  action property.
* `NeverStrandedHolds`: a repeated task that is over was cancelled in time, or has spent its budget
  and made its completion. It needs, beside `IInv`, where a completion callback is on
  its way (`Called`).
* `Implements`: `Spec => ImplementsCountedTask`. A step changes what is seen of one task at
  most: `Unseen` says of a task that its status, budget and runs stay, `Seen` that a step
  which all other tasks do not see is one of `CountedTask`; then there is a lemma for each
  kind of step (`NewTask`, `CancelSeen`, `BeginSeen`, `FinishSeen`).

`SuUds_proofs`, for any connections and ids, under any application:

* `CloseIsSafeHolds`: what the application has been told is what the table holds (`Told`), so
  that a `close` it may make finds its entry.
* `NobodyIsDeafHolds`: a read ends only with the peer gone or the socket closed (`Ends`), and a
  registered session whose read has ended is one of the two (`Quiet`). `Fresh` and `Accepted` say that a
  connection has neither read nor entry before its session, and that an accept hands over a socket
  that was accepted.

The same module, for any messages and lengths, any chunk and any size of the socket:

* `FrInvCorrect`: `[]FrInv`. `Order` is about the writer alone: a message that is not wholly written
  is in the queue of the descriptor or has a handler, those that have not begun wait in the
  order of the calls (`InTurn`), and so they begin in it (`Begun`).
  The rest is about an unspoilt stream: the messages are written one after
  the other (`WriterIn`), the reader has got the first of them and a part of the next (`ReaderIn`), and the
  units in the socket go from where the reader is to where the writer is (`StreamIn`). The last is stated of
  each unit and its neighbour, so that what the socket holds need not be computed by recursion over the
  messages, about which nothing could be proved.
* `NothingLostHolds`, `InStepHolds`, and `ImplementsChannelHolds`: `FrSpec => ImplementsChannel`. A unit that the reader
  takes is by `StreamIn` the one it expects, so that a message is delivered when its last unit is, and it is the
  message next in `sent`.

`Router_proofs`, for any connections, programs, registry and number of starts,
for `RSpec` and `LaterSpec`:

* `RInvCorrect`: `[]RInv`. `RInv` adds to `Watched`, `RegisteredIsKnown` and
  `AclEnforced` that what the table or a completed accept refers to is an
  accepted socket (`AcceptedOnly`: otherwise a connection in the backlog could
  become open behind the table's back), and that ids, groups and enabled apps are those of
  the registry (`Identity`).
* `WatchedHolds`, `RegisteredIsKnownHolds`, `AclEnforcedHolds`.
* `ServedHolds`: `Served`, what `NobodyIsDeaf` says of the server under any application, for the router with its
  restarts: the session that the table holds for an id has that id, is of the present server, and is read while its
  peer is there. `Serving` says of every connection, those of destroyed servers included, that its read ends
  only with its peer or its socket (`Ends`), that it has no read before its accept handler (`Unread`, `Fresh`),
  and that the table is keyed by id (`Keyed`). One lemma (`Serves`) covers all handlers that accept nobody;
  those of the present and of a destroyed server that do accept share `AcceptsServe`.

`RouterAuth_proofs`, for any files, rows and paths:

* `OneSourceHolds`, `LoadCompleteHolds`: while a load is at row i of a section, all rows before
  it are covered by id or name, and so are the sections before (`Progress`).
* `AppsKeepToTheFilesHolds`, for any ids: a row that a lookup finds is by `OneSource` one that was read from the
  file its table was last read from, or was added since (`FoundWasRead`).

`ClientMgr_proofs`, for any client objects and bounds:

* `WorkingHasClientHolds`: one attempt is in flight at a time (`OneInFlight`), so a connection
  that succeeds and has not been closed is `_client`'s (`Current`).
* `DecisionPendingHolds`, by the same invariant: a connecting manager has its task or a completion
  callback to come.
* `ImplementsConnectionHolds`: `Spec => ImplementsConnection`. Once an attempt has made the
  manager work, nothing is left of any attempt (`Clear`, by `OneInFlight` and because a success drops the task), so that
  no verdict meets a working manager; and none has been given while one is sought
  or works (`Undecided`). Every step is then one of `ConnectionLife` or changes neither state nor verdict.
* `ServiceIsApplication`: `SvcSpec => Spec`, so that all this holds in a service.
* `OneConnectionHolds`, `GivenUpIsStoppedHolds`: before the manager is made and after it has been
  stopped nothing begins an attempt (`Unmade`, `Rested`), and a further
  attempt is only planned when every open connection has been closed (`Closed`), so that an
  open connection is always the client's (`Mine`).
* `NeverForgottenHolds`: a service that has not been told to stop works or has a decision coming. Its
  manager leaves these states in a verdict only (`Up`), and the verdict stops the service.

`Vram_proofs`, for any actors, users, buffers, ids and plans:

* `InvCorrect`: `Spec => []Inv`, the conjunction of type, the five invariants of the run
  and `IdsUnique`. All but one are inductive with the types alone or with a neighbour.
  `RegistryExact` also needs `IdsUnique`: a lookup takes a dying buffer's
  entry away while the buffer still has its id; were that id given to
  another buffer, the destructor would erase the other's entry.
* `Implements`: `Spec => ImplementsTurns`. `HolderFacts` shows that `Holder` is a
  function of who works on a buffer, since by `StepIsExclusive` there is at most one;
  `RestOfPlan` that finishing a step takes the head off `Todo`; every other action
  leaves both alone or makes or gives up a plan.

`RgaJobs_proofs`, for any threads, jobs, buffers and calls:

* `ComposesVram`: `RgaSpec => BuffersAsInVram`, so that the theorems on `Vram` hold
  of the composition.
* `JobInvCorrect`: a job's message is the one built from its call (`Carried`), what it has found was
  looked up under an id and is referred to (`FoundIsHeld`), and the hardware
  works on the chain of a running job only (`WorksOnChain`).
* `HardwareUsesLivingHolds`: a running job refers to all that
  the hardware works on, by Vram's `ReferencedIsAlive` that is alive, and by
  `NothingLeaks` it has its memory, descriptor and mapping.
* `HardwareActsAsCalledHolds`: `RoundTrip` (parsing what was built gives the arguments, although
  defaults are not stored) and `TaskActs`, for all sixteen operations: every buffer the hardware has is one that was looked up
  under an id of the call, it is read or written as that id's parameter says, in the shape of
  the config that goes with it and in the region that the caller means.
* `AnsweredIsOverHolds`: an answer is under way only for a job that has left the hardware and is ending or over.
* `BuffersLetGoHolds`.
* `RunningIsAwaitedHolds`: while the process lives a running job has its handle, and its fence
  is in the epoll set and has been signalled or is the hardware's to signal.

`VTimer_proofs`, for any tasks and any bound on frames:

* `VTInvCorrect`: a task is in one place at a time and has run as often as its place says
  (`Places`), from which `NothingStrandedHolds`, `WaitsOnOpenDeviceHolds` and
  `ImplementsFrameTasksHolds`.

Only model-checked: all liveness, which is out of the prover's reach (`CountedTaskCompletes`, `StopJoins`,
`FailureUnregisters`, `DeadPeerClosed`, `NeverStuckConnecting`, `ServiceComesUp`, `JobSettles`, `AcceptedBegins`,
`StopEnds`, `AllArrive`). What these have of safety, that whatever must come is on its way, is
proved where there is any: `NeverStranded` for `CountedTaskCompletes`, `Watched` for `DeadPeerClosed`, `DecisionPending` for
`NeverStuckConnecting`, `NeverForgotten` for `ServiceComesUp`, `RunningIsAwaited` for `JobSettles`, `NothingStranded` for
`AcceptedBegins`, `NothingLost` for `AllArrive`. That it then comes rests on fairness, and TLC shows it on the
instances. The other way round, `NeverStranded`, `DecisionPending`, `NeverForgotten`, `RunningIsAwaited`, `AnsweredIsOver`,
`Served`, `InStep` and the types are in no run, since they hold for all instances.

## 6. What the models show beside the properties

Behaviours that the models contain and that a reader of the code may
not expect:

* A task with `execute_count` 0 runs once, since the counter is looked at after
  the run (`suRuntime.hpp:137-147`).
* The completion callback of a heavy task may come before its body has run.
* Destroying a handle does not stop a task whose timer has expired: the comment at
  `suRuntime.hpp:27` has it stopped, and the handler that is queued arms the timer again,
  as a late `cancel()` (`suRuntime.hpp:20`) does.
* `stop` of the server says that it reaches all clients (`Uds_Server.cpp:252`); a
  session that was overwritten at `Uds_Server.cpp:203` is not in the table and survives it.
* After `stop` the server's accept loop spins on `bad_descriptor`
  (`Uds_Server.cpp:214`), and an accept that had completed still registers a session.
* A message of 1 MiB or more is sent, and its body is then read as headers; so is the rest of a
  stream into which two long messages were written at once.
* The router's broadcast runs once, on a worker, where building the envelope
  throws: with a client connected, the process ends there (`Broadcast`).
* Main's orderly end of its connection does not stop the router, although
  its error does: the end of file is dropped.
* A timeout handler that is queued when a heartbeat arrives closes the client
  all the same, and stops the timer that the heartbeat has armed.
* A message from an app to an `out_optional` usr dereferences a null pointer
  (`AuthorizeCrashes`), unless an app has the id of the usr; then that app's name decides. The comment at
  `suRouterAuth.hpp:181` has the sender's acl checked for this receiver, but line 182 looks the receiver,
  a usr, up among the apps.
* A load that fails has cleared tables and taken rows, and returns `false` to nobody; a row without a
  proper `linux_id` is checked against uninitialised numbers.
* After another load a program keeps the rights of the group it was admitted with: a core program sends to
  anybody, whatever the new file says of it.
* The completion of a job of the hardware ends the process: its callback builds the
  response on the epoll thread, and the builder throws off the event loop
  (`RgaJobs!FenceEvent`).
* A share id of 2^63 or more names no buffer for the Rga service, which takes
  ids as `int64_t` and looks up those that are not negative (`RgaJobs!LookUp`): the job goes to the hardware
  without that buffer.
* The source of an osd operation has no config: `addOsd` leaves the shape in `src_cfg` as it was, and the
  engine reads it (`RgaEngine.cpp:106`).
* `RgaEngine.cpp:110` says that the region of every step is controlled by its configs. Five operations use
  their offsets (fill, osd, crop, mosaic, rectangle), one buffer's each; the eight others without arrays drop them, so that
  a copy out of the middle of a buffer copies from its corner, and the three on arrays have
  them zeroed (`RgaTypes.hpp:247, 260, 273`).
* `submit` imports every buffer into the hardware's library (`importbuffer_fd`) and
  nothing releases the imported handles.
* A job submitted without a callback would stay in `_active_handles` for
  ever, and nothing gives up a job in `_pending_jobs` whose request or answer is lost.
* A buffer found by `getAvailableBuffer` may be given to two callers; only
  `setupWorkflow` tells them apart.
* A client manager makes one attempt and reports `ConnectionTimeOut` 2000 ms
  after it, in whichever state the manager is then: the callback of an earlier attempt gives
  `ReconnectFail` to a reconnection that has just begun.
* A `Stop` while an attempt is in the pool leaves a manager in `Idle` with a connected client
  and a running heartbeat; a `Start` after it makes a second connection, which
  overwrites the first at the router. `OneConnection` holds of a service because it never
  starts its manager again; of `ClientMgr` alone it does not.
* A stopped service may still be connected, by the attempt that was in the pool.
* `SysService::onConnect` never runs, since no line of `ClientManager` calls the callback it is
  given for it. The comment at `SysService.hpp:31` puts the connection after the
  preparation, but nothing orders `execute` and `dispatch`.
* A `stop` of the service before `initClientMgr` has run leaves it with a started manager; one
  from another thread is refused by the manager, and the service believes it has stopped.

## 7. Abstractions, and what is not modelled

* In `UdsServer` and the modules on it the byte stream is whole messages; `Framing` is where they
  are torn. A message is what it makes the handler do.
* What `Framing` has after two writes that mix, or after a length that is not legal, is any bytes: its
  properties say nothing of a stream that is spoilt. A length of 0 counts as not legal; no envelope is empty, so
  none is sent (`SizeAssumption`).
* What a peer has sent before it closed is taken as sent while it was
  open: after `peer[c]` is FALSE only the read that had already completed
  delivers a message.
* `start` of the server is taken to succeed: asio throws `system_error`, the
  catch clause names another type and never matches, and the program ends.
* The connect timer of 2000 seconds is left out.
* Calls of `Start`, `Stop` and `sendmsg` of a ClientManager are made on the event loop, as the repository's
  users do; calls from other threads race with it, but for the `stop` of a service, which is modelled.
* `Uds_ClientMgr.hpp` swaps gid and uid between two of its checks; whether a peer
  is certified is a choice in the model, so this makes no difference.
* Of a registry's row only what the router reads is kept, uid and gid as one value;
  `updateAppStatus` and the queries by group and part have no readers.
* Sizes, formats, contents and dirty rectangles of buffers are left out (`dirty` is
  whether there are any). Of the sixteen pixel operations the buffers, configs and rects are followed,
  the calls of the hardware's library are not.
* `RgaJobHandle::cancel` and `submit` without a callback cannot be reached, since nobody
  is given a handle; the engine's destructor runs when the process ends. None of
  them is modelled.
* `send_async_toAll` and `getAllUsrs`, which nothing calls, are left out.
* The reports of the router to Main (`report_to_main`, `on_uds_error`) are modelled as sends that may
  fail, without what they say: nobody in the repository reads them.
* `onStart`, `onMessage` and `onStop` of a service belong to its subclasses, of which there are none;
  `attachRuntime` of VTimer is taken to have been called, as `vtimer.hpp:78` demands.
* Main loads the registry, lists the core programs and ends; the MQTT connector prints and calls
  its listener back at once; neither has state of its own yet. The envelope
  builder and parser and the other generated messages convert without state.

## 8. Plan

Done: `SuRuntime` with `CountedTask`; `UdsServer` with `UdsServerApp` and `Framing` with `MessageChannel`; `Router`;
`Registry` with `RouterAuth`; `ClientMgr` with `ConnectionLife` and `SysService`; `Vram` with `BufferTurns`; `RgaWire` and
`RgaJobs`; `VTimer` with `FrameTasks`; the proofs of every invariant, action property and refinement that a
run checks.

Next:

1. An abstract specification of the router, of ids that come, are given up and are let speak to each
   other, and the proof that `Router` implements it over all its restarts.
2. What Main is told: the router's reports with their contents, once a Main reads them. Main learns of
   a connection before its session is in the table, and a Main that comes back is not told who is there.
3. `Router` on `RouterAuth` in place of its constants, so that a load falls between the
   accept and the message of a session. The product of the two
   needs smaller instances of both.
