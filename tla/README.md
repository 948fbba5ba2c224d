# EdgeLink: a TLA+ verification project

EdgeLink is an edge gateway in C++17: plugins read field devices, values travel
over an in-process message bus, an MQTT client sends them to a broker and keeps
them in SQLite while the broker is away, and small servers on an epoll loop
answer local and remote clients.  This directory holds TLA+ modules translated
from that code, TLC configurations that check them on small instances, and TLAPS
proofs of their safety for every instance.

`PROJECT.json` is the index: components, runs, the source lines each definition
models, a mutant for every checked property, the hazards and the theorems.

## 1. Inventory of the system

| component | state it keeps | operations | hard about it |
|---|---|---|---|
| **MqttService** (`mqtt_service.cpp`) | `client_`, `connected_`, `stopping_`, replay flags, awaited message id, replay thread | connect, disconnect, publish, forwardMessage, replayLoop, callbacks of libmosquitto's thread | four kinds of thread on one mutex and three condition variables; late callbacks; PUBACK timeouts; crash between PUBACK and delete |
| **StorageService** (`storage_service.cpp`) | SQLite tables `mqtt_outbox` and `messages` | enqueue / load / remove pending rows, store and load history, open, close | every statement can fail; the file is what survives a crash |
| **MessageBus** (`message_bus.cpp`) | topic table, reverse index, next id | subscribe, unsubscribe, publish, clear | callbacks run without the lock on a copy; re-attach; throwing callbacks |
| **ThreadPool** (`thread_pool.cpp`) | task queue, two flags, workers | start, submit, stop, workerLoop | lost wakeups; drain on stop; restart |
| **Shared-memory IPC** (`shared_memory_buffer.cpp`, `eventfd_notifier.cpp`, `shared_memory_message_bridge.cpp`, `ipc_message_codec.cpp`) | a one-slot mapping with a header, an eventfd counter | create, open, write, read, notify, handleRead, send, encode, decode | two processes and no lock: torn copies, merged notifications |
| **Modbus plugin** with **DeviceConnectionStateMachine**, **ReconnectBackoff**, **DeviceManager** | socket, connection state (three copies), backoff, tag qualities | initialize, start, stop, pollOnce, destructor | long call sequences; timeouts; somebody removes the device |
| **TcpServer**, **EventLoop**, **Channel** | clients, output buffers, epoll registrations | accept, read, write, update events, remove, stop | partial sends; level-triggered batches; descriptor reuse; failing `epoll_ctl` |
| **UnixDomainServer**, **ControlCommandProcessor** | path ownership, clients, queues of responses | start, stop, accept, read, write | start() and stop() are sequences of system calls other gateways interleave with; crashes leave the path |
| **PluginManager** with the Modbus and **SocketCAN** plugins | loaded plugins, started flags, library handles; a CAN socket | load, unload, start(All), stop(All); check, encode and decode of CAN frames | failure at every step of loadPlugin and in the middle of startAll; identifiers at the edge |
| **DeviceScheduler**, **Timer**, **Wakeup** | tasks, timerfds, an eventfd | add / remove / start / stop, callbacks | callbacks that change the tasks while a batch is dispatched; stop() of another thread |
| **Gateway main**, signal handler, SystemdNotifier | the services, three timers, the signal flag | start-up, the timers' callbacks, shutdown, every early return | order of shutdown; a signal at any time |
| **SystemMonitor** | counters of the last reading | sample | sums that overflow, counters that go backwards |
| Logger, Config, Modbus RTU transport | files, a serial port | formatting, parsing, I/O | none of it concurrent |

How they meet.  `main()` opens the storage, attaches storage and MQTT service to
the bus, gives the service its offline storage, connects, starts the two servers
and some timers on the event loop, and on a signal runs everything in reverse.
`main()` itself publishes nothing: the IPC bridge, the scheduler and the plugins
are parts an application puts together.  Whoever publishes, the bus calls
`StorageService::storeMessage` and `MqttService::forwardMessage` in the
publisher's thread.  The MQTT service shares
the outbox with its replay thread, and its flags with libmosquitto's thread.  The
IPC bridge publishes on the bus what another process has put into the slot.
Plugins are loaded by the PluginManager and polled by tasks of the scheduler.

What makes each part correct, as properties, is in section 4.

## 2. Modules

| module | models | kind |
|---|---|---|
| `StoreAndForward` | what the MQTT path promises: a persistent FIFO queue with at-least-once delivery | abstract specification |
| `MqttService` | MqttService + outbox of StorageService + the order of main(); refines `StoreAndForward` | component, composed with storage, library and broker |
| `MessageBus` | MessageBus, the services that attach to it, and the history of StorageService | composition |
| `ThreadPool` | ThreadPool | component |
| `IpcMessageCodec` | encode() and decode() | pure operators |
| `SharedMemoryBridge` | SharedMemoryBuffer, EventFdNotifier, SharedMemoryMessageBridge of two processes, on `IpcMessageCodec` | composition |
| `ModbusDevice` | ModbusPlugin, DeviceConnectionStateMachine, ReconnectBackoff and one device of DeviceManager | composition |
| `SocketCan` | SocketCanPlugin and its transport: frames, and the plugin object | pure operators |
| `PluginManager` | PluginManager over `ModbusDevice` and `SocketCan` | composition |
| `EventLoop` | EventLoop, Channel, Timer and Wakeup | component, without an owner |
| `DeviceScheduler` | an application with a DeviceScheduler on `EventLoop` | composition |
| `Gateway` | edgelinkd: main() and the signal handler on `EventLoop` | composition |
| `SystemMonitor` | SystemMonitor::sample() | component |
| `TcpServer` | TcpServer on EventLoop and Channel | composition |
| `ControlSocket` | the path protocol of UnixDomainServer::start() and stop() between several gateways | component |
| `UnixDomainServer` | ControlSocket with the server's clients and ControlCommandProcessor | composition |
| `*_proofs` | the theorems about a composition and what it is made of: `EventLoop_proofs` about `DeviceScheduler`, `Gateway` and `SystemMonitor`, `PluginManager_proofs` about `ModbusDevice` and `SocketCan` too | proofs |
| `MC*` | constants for TLC; `MCPluginManager` and `MCEventLoop` have the programs that share a component side by side, each in a process of its own | instances |

### How state and actions correspond to the code

*MqttService.*  One variable per member of the class that control depends on, one
program counter per thread (`mainPc`, `rpc`, `fwd[f].pc`), the outbox as a set of
rows, and the library with the broker as `session`, `outgoing`, `unacked`,
`received`.  A scope of `mutex_`, or of the storage's mutex, is one action, so
every interleaving the locks allow is a behaviour: `forwardMessage()` is
`Forward`, `PublishAccepted`/`PublishRefused`, `EnqueueMqttMessage`/`EnqueueFails`,
`RequestReplay`; `replayLoop()` is the thirteen `Replay...` actions.  A
notification is recorded in `replayNotified`; the notification that follows a
critical section is part of its action.  Faults are actions with a budget
(`MaxFaults`): a broken link, a library that cannot start or refuses, a late
PUBACK, each SQL statement, a crash (`Restart`) at any point.
libmosquitto is external: it sends in order, keeps QoS 1 publishes over a
reconnect, forgets QoS 0 ones, and may call back after `client_` was given up.

*MessageBus.*  The two tables and the services' `subscriptionId_`.  publish() takes
a snapshot in one action and runs each callback in two, so anything can happen
between and inside callbacks.  attachMessageBus() is two lock scopes.  The
callback of the storage is `StoreMessage`: one row, or one reported failure, as the
database is open or SQLite does it; `OpenStorage` and `CloseStorage` come at any time.

*ThreadPool.*  A worker in `condition_.wait` is "asleep" until a notification
takes it back to "check".  submit() is two actions: the push under the lock, and
`notify_one` after it.

*SharedMemoryBridge.*  Each access to the mapping is an action.  memcpy moves an
encoded message in chunks, in any order, so a reader may see any mixture of
chunks.  create() is one action per step, because open() may come in between.

*ModbusDevice.*  Single-threaded: a public call is one action, and the member
functions are functions from a record of the objects to the next one, composed
as the code composes them.  Time is the difference each timer compares; it passes
in `Tick` and while the reads of a poll wait.  The device may be off, answer, or
accept a connection and stay mute.

*PluginManager.*  A call is one action, a function of a record of all objects.
`handles` counts what dlopen gave and dlclose has not taken back, `instances` the
objects.  `Failures` are the places where loadPlugin() gives up.  The order of the
hash map in startAll() is arbitrary.

*EventLoop, DeviceScheduler.*  `channels` is `channels_` and epoll's registrations:
which timer is behind a descriptor.  A callback is open from `DispatchTimer` until
it returns, and the scheduler's functions may be called there; a new timer gets the
lowest free descriptor, so the number of a removed one comes back in the same
batch.  Expirations are merged, and timerfd_settime forgets them.  stop() of
another thread is `StoreStop`, then `WakeUp`.

*Gateway.*  `main` names the next statement.  `up` are the services that work;
`return 1` and the end of main() run the destructors in reverse order; an exception
of a Timer's constructor ends the process.

*SystemMonitor.*  The two halves of sample() are an action each.  Numbers are
`0 .. MaxWord`; what the two files may say are constants (`CpuLines`,
`MemoryInfos`), a small set of lines for TLC and any at all in the proof.

*TcpServer.*  `EpollWait` takes a batch; handlers run one by one while peers go
on.  Bytes are numbered, so the echo can be compared with what was sent.

*ControlSocket, UnixDomainServer.*  One action per system call of start() and of
stop(): `Stop` (or `StartFails`, when listen() or addChannel() fails) closes the
socket, `StopEnds` removes the path later, and `StopAgain` is the destructor's
stop() after a stop() or a refused start().  `path` keeps naming an instance after
its close() until somebody unlinks it.  A file may appear whenever the path is free
(`PutFile`).  The clients' handlers are whole actions; accept4 may fail early, and a
packet of length zero ends a connection like an end of stream.  `UnixDomainServer`
conjoins the actions of `ControlSocket` with what they do to the clients: what ends
an instance (`Ends`) closes them, the rest (`GoesOn`) leaves them alone.

## 3. Runs

| run | module | expected | distinct states |
|---|---|---|---|
| `mqtt_safety` | MCMqttService | pass | 351,425 |
| `mqtt_live` | MCMqttService | pass | 220,164 |
| `mqtt_replay_claim` | MCMqttService | violation | |
| `bus` | MCMessageBus | pass | 217,946 |
| `pool` | MCThreadPool | pass | 13,228 |
| `shm` | MCSharedMemoryBridge | pass | 87,311 |
| `shm_torn_claim` | MCSharedMemoryBridge | violation | |
| `plugins` | MCPluginManager | pass | 75,813 |
| `loop` | MCEventLoop | pass | 26,032 |
| `tcp` | MCTcpServer | pass | 45,893 |
| `control` | MCUnixDomainServer | pass | 962,969 |
| `control_path_claim` | MCControlSocket | violation | |

### Bounds and why they are enough

* `mqtt_safety`: two forwarders and two messages, so that one row can be in the
  outbox while another is being stored, sent directly or replayed; four API calls
  (set storage, connect, disconnect, connect again); two faults of any of eight
  kinds, so that one fault can hit the recovery from another.  Forwarders and
  messages are symmetric.  The same invariants are proved for all bounds.
* `mqtt_live`: one forwarder, two messages, two faults ("link" and "enqueue"),
  three calls.  Faults that end a replay early on a healthy link are left out
  here: for those the properties are false (see `mqtt_replay_claim`).
* `bus`: the two services, two topics, two publishers, four subscriptions: enough
  for a re-attachment of each service with a publisher inside an old snapshot.
* `pool`: two workers, two submitters, three tasks, two starts: one task more than
  workers, and a pool that is used again.
* `shm`: a slot of 15 cells in three chunks, the second with the length fields;
  messages of 13, 13, 15 (fits exactly), 16 (too long) cells and one that cannot
  be encoded; three sends, so that a send overlaps the reading of an earlier one;
  an eventfd that overflows at 2.
* `plugins`: two tags, delays 2, 4, 7 (the third doubling is cut off by the
  maximum), a timeout of one tick, two removals of the device; three libraries, two
  of them with the same plugin name, loaded three times; frames at both sides of
  each limit, with every combination of flag bits.
* `loop`: three tasks on three descriptors (a removed one is replaced in the same
  batch), one failing timerfd_settime, one stop() of another thread; the daemon
  with and without watchdog and monitor.  For the monitor, words of 3 bits and a
  KiB of 2 bytes: sums and products reach both sides of the limit.
* `tcp`: two peers, two descriptors that are reused, a send buffer of one byte and
  two bytes per peer (every second send blocks), one failing `epoll_ctl`.
* `control`: two gateways started twice each, one crash, one failing call, one
  client with two requests (valid, oversized or empty) and a send buffer of one.
  Each gateway can take the path over inside a start() or a stop() of the other,
  stop, and start again.  `StartSafety` and `PathSafety` are proved for any number.

### Fairness

Weak fairness of threads that can run, and of what outside the program must
happen for anything to happen at all:

* MQTT: main() inside connect()/disconnect(), a forwarder inside
  forwardMessage(), the replay thread, except that at its wait it runs only when
  it was notified (`ReplayRuns`): a lost wakeup is a liveness error in the model.
  Of the environment: a dead link is noticed (keepalive), a broker accepts in the
  end (libmosquitto retries for ever), publishes are written and acknowledged.
* ThreadPool: workers that are not asleep, the owner inside start() and stop(),
  submitters between unlock and notify.
* SharedMemoryBridge: both processes.  TcpServer, UnixDomainServer: the loop, and
  peers that read; a start() of the control socket that was begun goes on (its
  calls do not block).  ModbusDevice: polling goes on and time passes.
* EventLoop: the loop's thread and the thread inside stop(), callbacks return, and a
  timer that is set expires.  The daemon: main() goes on.

Nothing is assumed of callers: nobody has to call start, stop, connect, submit or
send, and no fault has to happen.

`CHECK_DEADLOCK FALSE` where the system may come to rest when its bounded inputs
are used up or its program ends (MQTT, pool, shared memory, control socket, loop).
Bus, plugin and TCP runs check deadlock.

## 4. What the runs show

**Store and forward** (`mqtt_safety`).  `NoRowLost`: every id the outbox ever gave
is stored or has reached the broker.  `RowsArriveInOrder`: rows reach the broker
for the first time in id order.  `RemovesConfirmedRow`: a row is deleted only
after the broker has it, and only once.  `ConnectedTracksSession`: `connected_`
agrees with the session, also when callbacks come late.  `ThreadLifetimes`: no
replay thread past the join, no client without its threads.
`ImplementsStoreAndForward`: all of it refines the abstract queue.

**Liveness of the replay** (`mqtt_live`).  `ReplayNotForgotten`: rows waiting on a
connected service always have a pending request and notification, or a forwarder
about to make one.  `DisconnectReturns`, `BacklogDrains`.

**Bus** (`bus`).  `IndexesAgree`: topic table and reverse index always say the
same.  `NoOrphanSubscription`: re-attaching leaves no subscription behind, and an id
left over from clear() never names another service's subscription.
`HistoryIsExact`: a message published while the storage is attached gets exactly one
row or one reported failure, whatever other callbacks do and whoever attaches,
detaches, clears or closes meanwhile.

**Pool** (`pool`).  `StopDrains`: after stop() every accepted task has run.
`NoSleepOverBacklog`: no worker sleeps over work nobody is on the way to.
`NothingWaitsForever`: accepted tasks run and stop() returns.

**Shared memory** (`shm`).  `LatestIsForwarded` and `LatestGetsThrough`: the last
message sent is published, cell for cell, in the end.  `OnlyValidIsPublished`:
what is published from a torn copy is at least a message some process could have
made.

**Plugins** (`plugins`).  `GoodMeansConnected`: no stale value is shown as Good.
`StatesAgree`: the three copies of the connection state agree, and a new plugin
finds a state it can connect from.  `BackoffIsExponential`: the wait doubles up to
the cap and attempts are never closer than the initial delay.  `Reconnects`: a
device that answers again is connected again.  `NothingLeaks`: table, objects,
library references and sockets agree, however calls fail.  `StartAllIsAtomic`: a
startAll() that fails leaves started what was started before and opens no
connection; it may close one that pollOnce() had opened by itself.
`FramesSurvive`: sendFrame() accepts exactly the frames that arrive as they were
meant.

**Loop** (`loop`).  `SchedulerAgrees`: the tables of scheduler, loop and kernel agree
after any sequence of calls.  `QuietAfterStop`: no stale event of a batch calls a
task that was stopped, removed, or took over a descriptor.  `TimersAreServed`: no
task is starved.  `ReadyMeansServing`: READY is sent when everything serves, the
database outlives its users on each way out of main(), and nothing is left at the
end.  `ShutdownCompletes`: a signal ends the daemon, a stop() of another thread ends
the loop.  `MetricsAreTrue`: what the monitor reports is true of the kernel's
numbers.

**TCP** (`tcp`).  `EchoIsExact`: what a peer has received and what is still on its
way is what it sent, in order.  `TablesAgree`: clients, channels, descriptors and
EPOLLOUT interest agree.  `BytesComeBack`: the echo arrives while the connection
lasts.

**Control interface** (`control`).  `NotAllRefused`: starting together or after a
crash does not lock everybody out.  `PathIsRespected`: a regular file, or a socket
that listens, is never taken away unless somebody was already on the way to unlink
it (past its probe, or itself owner of the path), and a gateway at rest has left no
socket behind; only crashes do.  The restriction is what the code needs: see
`control_path_claim` and the notes below.  `OneAnswerEach`, `ServedByLiving`,
`AnswersArrive`: requests are answered once, in order, in the end, and no client
hangs on a gateway that is gone.

### Where the code does not do what a comment or document says

* `mqtt_replay_claim`: one PUBACK later than `publishAckTimeoutMs` on a healthy
  link ends the replay; nothing asks for it again, and the rows stay in SQLite
  until a reconnect or the next buffered message (`main.cpp:129` promises replay).
* `shm_torn_claim`: read() can copy parts of two messages
  (`shared_memory_buffer.h:64` promises complete data).
* `control_path_claim`: a gateway that starts while another is between bind() and
  listen() takes its socket for stale and unlinks it; both then run, one of them
  unreachable (comment at `unix_domain_server.cpp:118`).

### Seen while modelling, without a run

* stop() of the control server unlinks whatever the path names.  A gateway that
  probes between its close() and its unlink() finds a dead socket, takes the path
  over, and loses it to that unlink().  (`RunningIsReachable` fails this way too,
  when bind and listen, and probe and unlink, are made atomic.)
* A regular file that appears between start()'s lstat() and its unlink(), or before
  an owner's stop(), is removed, although the comment above the lstat says never.
* A QoS 0 publish on a link that is dead and not noticed yet is accepted by the
  library and lost, and a direct publish may overtake rows that wait for their
  replay.  QoS 0 promises no more.
* EventLoop::stop() before run() is forgotten: run() sets `running_` itself.
  `ShutdownCompletes` speaks of a stop() that comes while run() is under way.
  edgelinkd is not affected, since its signal flag is read inside the loop.
* pollOnce() of a Modbus plugin connects by itself, also after stop() or a failed
  start().  The manager then does not count it as started, and stopAll() leaves the
  connection open; unloading closes it.
* A task's callback that removes its own task, or stops and starts the scheduler,
  destroys the closure it runs in.  The model lets it do nothing but return.
* The heartbeat for systemd is max(100 ms, half the watchdog's period), too late for
  a period of 100 ms or less.
* The history keeps floating-point values as text: one below the smallest normal
  number is written and cannot be read back by `std::stof`, and a string with a NUL
  is cut off there.

## 5. Proofs

Every invariant and every action property that a run checks is also proved, for
all values of the constants that satisfy the named assumptions of the modules.
TLC evaluates those assumptions in the runs.

| module of proofs | theorem | statement |
|---|---|---|
| `MqttService_proofs` | `Invariance` | `Spec => []IndInv` |
| | `TypeCorrect` | `Spec => []TypeOK` |
| | `NoRowIsLost` | `Spec => []NoRowLost` |
| | `BacklogInOrder` | `Spec => []RowsArriveInOrder` |
| | `RemovalIsConfirmed` | `Spec => []RemovesConfirmedRow` |
| | `ConnectedIsTrue` | `Spec => []ConnectedTracksSession` |
| | `NoThreadOutlivesClient` | `Spec => []ThreadLifetimes` |
| | `Refinement` | `Spec => ImplementsStoreAndForward` |
| | `BacklogIsNotForgotten` | `Spec => []ReplayNotForgotten`, if no fault ends a replay early |
| `MessageBus_proofs` | `Invariance` | `Spec => []IndInv` |
| | `IndexSafety` | `Spec => []IndexesAgree` |
| | `OrphanSafety` | `Spec => []NoOrphanSubscription` |
| | `HistorySafety` | `Spec => []HistoryIsExact` |
| `ThreadPool_proofs` | `Invariance` | `Spec => []IndInv` |
| | `DrainSafety` | `Spec => []StopDrains` |
| | `WorkConservation` | `Spec => []NoSleepOverBacklog` |
| `SharedMemoryBridge_proofs` | `Invariance` | `Spec => []IndInv` |
| | `PublishSafety` | `Spec => []OnlyValidIsPublished` |
| | `LatestSafety` | `Spec => []LatestIsForwarded` |
| | `CodecRoundTrip` | decode() undoes encode() |
| `PluginManager_proofs` | `DeviceInvariance` | `Spec => []DeviceInv` |
| | `StateSafety` | `Spec => []StatesAgree` |
| | `QualitySafety` | `Spec => []GoodMeansConnected` |
| | `BackoffSafety` | `Spec => []BackoffIsExponential` |
| | `ManagerInvariance` | `ManagerSpec => []ManagerInv` |
| | `LeakSafety` | `ManagerSpec => []NothingLeaks` |
| | `FrameSafety` | `ManagerSpec => []FramesSurvive` |
| | `StartAllAtomicity` | `ManagerSpec => StartAllIsAtomic` |
| | `ManagedDeviceSafety` | the three of the device, under a manager |
| | `ValidMeansSurvives` | isValidFrame() is right for all frames |
| `EventLoop_proofs` | `SchedulerSafety` | `ApplicationSpec => []SchedulerAgrees` |
| | `NoStaleCallback` | `ApplicationSpec => QuietAfterStop` |
| | `GatewaySafety` | `GatewaySpec => []ReadyMeansServing` |
| | `MetricsSafety` | `MonitorSpec => []MetricsAreTrue` |
| `TcpServer_proofs` | `Invariance` | `Spec => []IndInv` |
| | `EchoSafety` | `Spec => []EchoIsExact` |
| | `TableSafety` | `Spec => []TablesAgree` |
| `UnixDomainServer_proofs` | `Invariance` | `ServerSpec => []ServerInv` |
| | `StartSafety` | `ServerSpec => []NotAllRefused` |
| | `PathSafety` | `ServerSpec => PathIsRespected` |
| | `ConnectionSafety` | `ServerSpec => []ServedByLiving` |
| | `AnswerSafety` | `ServerSpec => []OneAnswerEach` |

A proof that a step keeps an invariant has one step per action and, under it, one
per conjunct the action can disturb.  What the invariants add, and why:

*MqttService.*  That a row is removed only when the broker has it depends on which
publish the acknowledgement that ended the wait belonged to, which depends on what
the library holds.  `IndInv` adds

* `ThreadInv`: which thread exists in which phase of connect()/disconnect(), and
  what `connected` means then (a client is owned only while no one tears it down);
* `RowInv`: ids are unique and below `nextId`, nothing is lost, arrivals are in
  order;
* `ReplayInv`: the row being replayed is the oldest one stored, an id is awaited
  only while waiting, and an acknowledgement that was noted is for that row;
* `LibraryInv`: the awaited message id is carried by publishes of the loaded row
  only, everything unacknowledged has reached the broker, and nothing in the
  library is ahead of the rows delivered.

`Refinement` shows that the initial state maps to the initial state and that each
action, under `IndInv`, maps to `Store`, `Deliver`, `Retire` or a stutter.
`BacklogIsNotForgotten` excludes the fault kinds in `EarlyEnds` (a late PUBACK, a
library that refuses, a failing load or remove): with those the property is false,
which is the finding of `mqtt_replay_claim`.  `WakeInv` adds where the replay
thread can be while a request is open.

*MessageBus.*  `TableInv` makes the two tables one relation: an id stands for one
topic and is below the next one, a subscription is the one its service remembers,
and a service between the halves of attachMessageBus() has none.  `SnapshotInv`
counts within one publish(): at most one callback of the storage is still to come.

*ThreadPool.*  `PhaseInv` says which threads exist in which phase of start() and
stop(), `GoneMeansDrained` that a worker which has left a stopping pool stands for
an empty queue, `TasksInv` where an accepted task is.  `NoSleepOverBacklog` is
inductive next to the types: a notification becomes a worker at the queue while one
sleeps.  Workers and submitters are finite sets, so that they can be counted.

*SharedMemoryBridge.*  `WriterInv`: how much of the message is in the slot at each
step of write().  `ReaderInv`: what the receiver holds has the length it has read.
`LatestInv`: after a send the message is complete in the slot and a notification or
a reader is on its way.  The codec's round trip holds for sequences of any length:
encode() is a concatenation of fields, so no induction is needed.

*ModbusDevice, PluginManager.*  The calls are compositions of member functions, and
so is the proof: a lemma for each says what it does to each field.  `ObjectInv` says
which pairs of states occur (`StatesInv`), when a tag may be Good (`TagsInv`), and
that delay, failure count and remaining wait fit together (`BackoffInv`); `PaceInv`
relates the wait to the time since the last attempt.  `WorldInv` ties references,
objects and flags to the manager's table, and `SoFar` is the invariant of the loop
in startAll().  The powers of two that the delays need are an assumption
(`PowerAssumption`: 2^0 = 1 and 2^(k+1) = 2 * 2^k), since the provers do not know
exponentiation.

*DeviceScheduler, Gateway.*  `SchedulerAgrees` is inductive with the types and the
injectivity of `channels`; that a free descriptor has a lowest one uses the
well-foundedness of the naturals.  `QuietAfterStop` follows at the one step that
starts a callback.  For edgelinkd the invariant is a table of main()'s statements:
which services are up (`UpInv`), what systemd was told (`NotifiedInv`), which timers
exist (`TimersInv`).

*SystemMonitor.*  The checked sums are exact or given up (`TimesAreTrue`,
`BytesAreExact`); `BaselineInv` says which two readings the usage comes from, and
`ReportInv` that nothing is left in the metrics while a sample is under way.  The
theorem is for counters of any width and any contents of the two files.

*TcpServer.*  `ConnInv`: a peer waits at one place of the queue or has one
descriptor.  `EchoInv`: received, in the send buffer, in the output buffer and in
the inbox together are the stream the peer sent; the law for peers that still wait
is needed for the step that accepts them.

*ControlSocket, UnixDomainServer.*  `SomebodyActs` says who may still create the path
when it is free or find out about a dead socket, `NamedIsOwned` that a
gateway the path names has still to unlink it, from which the half of
`PathIsRespected` about gateways at rest follows.  The other half is shown step by
step (`FileStep`, `SocketStep`): from outside, one gets to an unlink only through a
probe that a listening socket refutes or through a bind that an existing path
refuses.  `AnswersInv` is the conservation law of one connection.

Only model-checked: liveness (`DisconnectReturns`, `BacklogDrains`,
`NothingWaitsForever`, `LatestGetsThrough`, `Reconnects`, `TimersAreServed`,
`ShutdownCompletes`, `BytesComeBack`, `AnswersArrive`), since fairness and ENABLED
are outside the prover's reach.  Their safety halves (`ReplayNotForgotten`,
`NoSleepOverBacklog`, `LatestIsForwarded`: what must happen is always under way) are
proved.  No module that is proved about uses RECURSIVE.

## 6. Not modelled, and limits of what is

* Payloads, topics and JSON of MQTT; which values registers hold; log output.
* libmosquitto's 16-bit message ids do not wrap (a wait is over long before).
* `ThreadPool::start()` writes its flags without the lock; the model makes that
  one step before any worker exists.  A pool of zero threads is excluded by an
  assumption.
* Memory lifetimes in C++ (a service destroyed while a bus callback runs in another
  thread, code that runs in a destroyed closure).
* A peer that half-closes loses the echo not yet sent; the TCP properties speak of
  connections that are up, as the code does.
* `Timer::startOnce` and the Modbus RTU transport: nothing in the repository calls
  them.
* main() ignores the results of startPeriodic() (`main.cpp:158`, 175, 196).  It
  returns false when timerfd_settime() fails (`timer.cpp:84`), which with a valid
  descriptor it does only for an interval that is out of range; main()'s are not, so
  `Gateway` always arms its timers.  `DeviceScheduler` has the failure.
* Calls of the control server's start() that fail before bind() (socket() without
  descriptors, lstat() or unlink() without permission): they return false and leave
  nothing behind.
* `epoll_wait` failing with anything but EINTR, and `dlclose` failing: neither happens
  with valid arguments.
* Of StorageService, loadMessages() and the conversion of values to columns; of
  SystemMonitor, the list of temperatures; of SystemdNotifier, the datagram.
* Logger and Config: I/O without state others use.

## 7. Plan

The components are modelled, and the safety properties of all runs are proved.
Worth adding:

1. The stages of the liveness arguments as action properties: which counter each
   step of the replay, of the pool and of the TCP output brings down.
2. An abstract specification of the echo service and of the bus, with refinement
   proofs like that of `StoreAndForward`.
