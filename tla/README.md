# Verification of the RoboPLC middleware

TLA+ models, model-checking runs and machine-checked proofs of the concurrent
core of this repository: a gateway that takes JSON-RPC and HTTP requests, talks
Modbus TCP to devices and streams their values to browsers. The workers are
threads of the `roboplc` framework; they share a message hub and a few
process-wide tables.

Contents: [the system](#the-system), [the modules](#the-modules),
[the runs](#the-runs), [fairness](#fairness), [the proofs](#the-proofs),
[where code and documentation disagree](#where-code-and-documentation-disagree),
[what is not modelled](#what-is-not-modelled).

## The system

| Component (source) | State | Operations | Interacts with |
|---|---|---|---|
| Hub send pool (`src/src/hub_protection.rs`) | bounded task queue (512), 16 threads | protected send: submit, wait with timeout | every publisher; the hub |
| Hub and messages (`src/src/messages.rs`, `roboplc`) | one bounded mailbox per subscriber | blocking send, receive; per-kind delivery policy | all workers |
| RPC server (`src/src/workers/rpc/{connection,server,worker}.rs`) | connections, byte buffers, active connections, observers of their tasks | accept, split the byte stream into requests, run handlers on blocking threads, drain on shutdown | request handler |
| RPC request handler (`src/src/workers/rpc/handler.rs`) | one response channel per request | send a DeviceControl, wait for the answer | hub, Modbus workers |
| Modbus worker (`src/src/workers/modbus/{worker,handler,state,types}.rs`) | device record, connection pool, connection state, capacity counter, tasks | handle DeviceControl, ConfigUpdate | hub, response channels, pool |
| Connection pool (`src/src/workers/modbus/client.rs`) | deque of idle connections, `total_created` | acquire, create, operate, release | the device |
| Heartbeat worker, device manager (`src/src/workers/{heartbeat_worker,manager}.rs`) | current device, `device_states` | register, ping in turn, record, broadcast | Modbus workers, latency monitor, HTTP |
| Latency monitor (`src/src/workers/latency_monitor.rs`) | window of samples per device with running mean and deviations | add a sample, drop the oldest, 3-sigma test | heartbeats |
| Data stream worker (`src/src/workers/data_stream_worker.rs`, cache in `src/src/lib.rs`) | poll groups with timers, sequence, data cache | poll due groups, store, publish, reload | Modbus workers, SSE, HTTP |
| SSE worker and HTTP worker (`src/src/workers/{sse,http}_worker.rs`) | connection registry, per-client channel, server | subscribe, route, heartbeat, drop dead clients, queries, shutdown | hub, shared tables |
| Config loader (`src/src/workers/config_loader.rs`, rules in `src/src/config.rs`) | current configuration, bounded event buffer | watch the file, read, validate, compare, publish | every worker with a configuration |
| Program start (`src/src/main.rs`) | none | spawns the workers of a configuration | all workers |
| Data conversion (`src/src/{data_conversion.rs,config.rs}`, `src/src/workers/modbus/{operations,parsing}.rs`) | none | registers to values and back, validation | Modbus worker |
| Simulated device (`src/demo/mock_server.rs`) | four tables | answer Modbus requests | the demos |

What makes it hard: a message whose sender gave up is still delivered; a
request is cloned into the mailbox of every worker; answers race timeouts; an
operation outlives its caller; capacity, connections and clients are counted
in places that do not share a lock; tables are read entry by entry while others
write them; at shutdown each worker stops when it notices; configuration
changes travel through the same lossy path as the requests they affect.

What makes each part correct:

- send pool: an outcome is never a lie ("Ok" is delivered, "queue full" has no
  effect), nothing is lost or doubled inside, callers always return;
- RPC server: the reader stops at the first end of a chunk at which the brackets of
  all it has read balance, with strings and escapes carried over from chunk to chunk;
  a drain leaves no connection behind, the worker returns at shutdown;
- request path: one effect per request, one answer per request, answers that
  match effects, capacity that is exact and comes back;
- connection pool: exclusive use, exact accounting, no connection of a dead
  device kept for ever;
- heartbeats: online means reached, health says no more than the table did,
  statistics are those of the window, every device has its turn;
- streams: order and cache never go back but where a sender gave up, no poll
  group starves another, dead clients are found and dropped, limits hold;
- configuration: every change of the file is read, and what the rules accept
  the workers can work with;
- signal groups: what was written is read back, spelled in the configured byte
  order, complete, and inside the group.

`PROJECT.json` lists every component with what is and is not modelled, and the
hazards of the code at their lines with the properties that stand guard.

## The modules

```
HubSend ─┬─ DeviceControl ──implements── RequestReply
         ├─ StreamPipeline ──implemented by── StreamPolling
         └─ ConfigReload ── ConfigRules ── FieldCodec
Heartbeat ── StatusReports ── (MCStatusReports) ── LatencyStats
SignalGroups ── FieldCodec        SignalGroups ── (MCSignalGroups) ── MockModbus
ConnectionPool      SseRegistry      RpcServer
```

A line is EXTENDS or INSTANCE; in brackets the MC module that joins the two sides.

| Module | Models | State | Actions and the code behind them |
|---|---|---|---|
| `HubSend` | `hub_protection.rs`, roboplc's hub | `call`, `taskQueue`, `carried`, `delivered`, `mailbox` | `SubmitAccepted`/`SubmitRefused` are `try_send` on the task queue, `CallerTimesOut` the end of `recv_timeout`, `TakeTask`/`CompleteTask` a pool thread around `hub.send`; `Deliver` and `Consume` stand for roboplc |
| `DeviceControl` (extends `HubSend`) | `rpc/handler.rs`, `modbus/{worker,handler,state,types}.rs` | the worker's record, pool, timeout and capacity; the task of every request; response channel and reply | one action per return of the protected send and of `recv_timeout`, per branch of `ModbusWorker::run` and `handle_device_control`, and per step of the spawned task |
| `RequestReply` | what `DeviceControl` promises | `phase`, `answer`, `effect` | `Start`, `Apply`, `Answer`, `Reject` |
| `RpcServer` | `rpc/{connection,server,worker}.rs` | where each connection is, its bytes and nesting, blocking threads, accept loop, observers, `RpcWorker` | `Read` takes any number of bytes and follows the nesting, `StopReading` is end of stream or a timeout, `StartHandler`/`HandlerReturns` the blocking thread, `Accept`/`AddActive`/`SpawnObserver` the three steps of the accept loop, then the drain, its forced end and the end of the runtime |
| `ConnectionPool` | `modbus/client.rs` | `available` (with ages), `totalCreated`, `client`, `step`, `up`, `broken` | `acquire_connection` in its locked and unlocked parts, `execute_operation`, `release_connection`; the passing of time; a device that restarts |
| `SseRegistry` | `sse_worker.rs`, the stream route and the end of `http_worker.rs` | registry, channels, worker position, mailbox, server | the limit check, the insertion, the iteration of the map entry by entry, heartbeats, the removal of dead clients; `Stop` of SseWorker and `StopServer`/`ServerEnds` of HttpWorker, in any order |
| `StreamPipeline` (extends `HubSend`) | one poll of `data_stream_worker.rs`, the cache in `lib.rs` | `sequence`, `publisher`, `streamOf`, `cache`, `routed` | poll, cache, number, publish, give up, route |
| `StreamPolling` (extends `StreamPipeline`) | the polling loop of `data_stream_worker.rs` | groups, elapsed timers, the round in progress | `Elapse`, `UpdateConfig` at the top of the loop, `StartRound`, `NextGroup`, `Poll`, `FinishGroup` |
| `Heartbeat` | `heartbeat_worker.rs`, `manager.rs` | the ping in progress, mailbox and request of each worker, `status` | begin, deliver, answer, give up, record; requests of others that displace a ping |
| `StatusReports` (extends `Heartbeat`) | `/api/health` in `http_worker.rs` | the request in progress | `len()`, then one entry of the table after the other, while heartbeats go on |
| `LatencyStats` | `latency_monitor.rs` | none (functions) | `Added`, `Removed`, `IsAnomaly`, `Processed` |
| `ConfigReload` (extends `HubSend`, `ConfigRules`) | `config_loader.rs`, `update_config` of the workers | the file, watcher events, bounded buffer, `current_config`, configurations in use | edit (before the watch too), bridge, take, load and compare, publish and its three outcomes, apply |
| `ConfigRules` | `Config::from_file` and `validate` in `config.rs`, the spawning in `main.rs`, what the workers parse once more | none (functions) | `Readable`, `Parsed` (defaults), `Valid`, `StartedWorkers`, `StreamGroups`; `Usable` is what the workers rely on |
| `FieldCodec` | `data_conversion.rs`, `modbus/parsing.rs` | none | conversion of numbers to bytes, byte orders, registers, `Encode` and `Parse` |
| `SignalGroups` (extends `FieldCodec`) | `operation_to_modbus_op`, the read and write functions of `client.rs`, validation in `config.rs` | the device's `memory`, `order`, `running` operations, last `answer` | admission with its refusals, execution in any order, failure with and without effect, a device that changes its own memory |
| `MockModbus` | `demo/mock_server.rs` | none (tables are arguments) | `Process` per function code with its exceptions, `Serve` per frame |

`MC...` modules give the constants of the instances, `...Proofs` modules hold the
proofs. Operators named `...Deviation` are plausible errors of the code; they
occur in no specification and serve to show that a property notices them.

Abstractions. Payloads are model values; time is a timeout that may fire at any
moment, except in the pool, where ages are counted. A message is a
constant, so that each is sent once; its many executions are many messages.
`HubSend.Deliver` hands a message to one subscriber at a time and waits while
that mailbox is full, as roboplc's `send` does; a later DeviceControl replaces an
earlier one in the same mailbox (`single`). A register of `FieldCodec` has two
bytes of `ByteBase` values; floating point types stand for their bit patterns.
In `SignalGroups` fields are listed in the order of their names, in which
`serde_json` iterates over an object; `memory` is changed by one Modbus
transaction at once. A byte of `RpcServer` is one of the five kinds its reader tells
apart. A configuration file is a record of the keys it has; an address is its
first letter and its number. The numbers of `LatencyStats` are exact fractions.

## The runs

Passing runs; together they take every action of every next-state relation.

| Run | Instance and bounds | Shows |
|---|---|---|
| `HubSend` | 4 messages, 2 subscribers, 2 threads, queue 1, mailboxes 2 | Ok is delivered; callers return although no subscriber reads (`CallsReturn`); if they read, an accepted message arrives although its caller gave up |
| `DeviceControl` | 3 requests for 2 devices, one of them flaky, 1 pool thread, capacity 1 | exact capacity, at most one effect, refusals that are final, data that is backed, nobody left to answer once a channel holds an answer |
| `DevicePromise` | a complete read and an incomplete write of one group against a ConfigUpdate that removes it | refinement of `RequestReply` with its liveness; capacity comes back |
| `ConnectionPool` | 3 threads, 4 connections, pool size 2, connections expire after 2 ticks | exact accounting, exclusive use, the bound of open connections, and that dead connections are drained |
| `Sse` | 3 clients on 2 handler threads, limit 1, channels and mailbox of 1, 2 updates, shutdown | order, bounded overshoot of the limit, no live client dropped; the worker never waits for a client, dead clients are removed, at shutdown every stream ends and the server with it |
| `StreamPipeline` | polling loop with 3 streams in up to 2 groups, 2 updates, 1 reload, 2 pool threads | an update overtakes another only if its sender gave up; the cache is not behind; a due group waits for at most two rounds of the others |
| `Heartbeat` | 2 devices, a health request at any time once both are registered; latencies 0, 2, 7 in every history of up to 5, window 3 | online implies reached; the health verdict is bounded by what the table showed; the carried statistics equal those of the window and the alarm is that of an outlier; each device is checked again and again |
| `Reload` | 3 edits among 4 accepted files and a broken one, buffer 1, the workers of the startup file, 2 pool threads | no change the watch saw goes unnoticed; the loader converges; followers agree; nobody uses a file the workers cannot work with |
| `Signals` | 5 groups, 4 byte orders, 2 callers, 8 requests (full, incomplete, refused), bytes of 4 values | reading back, spelling in the configured order, every field as asked for, no effect outside the group; the simulator answers the same requests, and every first part of each write, alike |
| `RpcServer` | 3 texts (a bracket behind an escaped quote; a request followed by more than fits; nothing), chunks of up to 3 bytes, 1 blocking thread | a request ends at the first chunk end where all that was read balances; a drain that is not forced leaves no connection; the worker returns; connections end if handlers do |

Why the bounds suffice: each hazard needs at most two actors and one full queue.
Capacities of one or two are full after two steps; two pool threads already
overtake each other; three threads or clients already pass a limit together that each
of them respects alone; a fast and a slow poll group are enough for one to keep the
other waiting, and the third stream makes one of them longer than a single poll; the
third edit is the one that meets a full buffer and a send that timed out. A byte of
four values puts the ends of all integer types next to the numbers asked for. In
`Reload` each of the fourteen files that are refused has exactly one mistake, one per rule of
`Config::validate` and per key without a default; the accepted ones sit at the ends
of the ranges (address 65535, 65535 registers, intervals 5 and 5000 ms). Bounds of the
models, not of the code: `MaxEdits`, `LastSequence`, `LastNumber`, `MaxUpdates`,
`MaxLatencies`, the number of connections and `MaxTimeout`; timers and ages saturate.

`Heartbeat` runs under `StartedSpec`: health requests come after the registration, and read
the table in one fixed order. `HealthTruthful` speaks of no others: before that a device
that has no entry yet is not in either of its numbers (`HealthAtStart` shows what happens
there), and as the table keeps its entries, another order is a renaming of the devices. The
proof needs neither restriction.

What must happen in the end is stated as "again and again": `CallsReturn` says that it is
again and again true that no caller waits. A message is sent once, a client connects once, a
request is made once and an offline controller stays offline, so this is the same as saying
of each of them that it ends, and it is one condition for TLC instead of one per
message. The largest run has 1.7 million states, each finishes within a minute.

Violated, each the counterexample of a finding:

- `HeartbeatDown`: a device that was reached once stays online for ever
  (`modbus/state.rs:144`: the existing pool counts as the connection).
- `ReloadLost`: a change whose broadcast fails is never published again
  (`config_loader.rs:47`).

More counterexamples, to be run by hand with `tlc -config <name>.cfg <module>`:

| Configuration | Module | The code | What is said of it |
|---|---|---|---|
| `HubSendStalled` | `MCHubSend` | `hub_protection.rs:52`: `hub.send` blocks a pool thread while one mailbox is full, and messages for others wait behind it | `docs/messaging/消息传递机制.md:357`: delivery does not block |
| `DeviceUnicast` | `MCDeviceControl` | `modbus/worker.rs:43`: every worker receives every DeviceControl | same file, 229: `single` is delivered to one subscriber |
| `DeviceDisplaced` | `MCDeviceControl` | a request still in a mailbox is replaced by the next one, even one for another device; its caller hears that it timed out | same file, 246-250: it is executed and answered |
| `PoolLimit` | `MCConnectionPool` | `client.rs:525`: threads that find the deque empty all open a connection | `config.rs:340`: the size of the pool is its limit |
| `SseRace` | `MCSseRegistry` | `sse_worker.rs:108`: limit check and insertion are not one step | the limit of connections (`LimitOvershoot` bounds the excess by the handler threads) |
| `SseLate` | `MCSseRegistry` | a client that registers after SseWorker has stopped is ended by nobody but the server | `sse_worker.rs:331`: the registry is cleared at the end |
| `HealthAtStart` | `MCStatusReports` | `http_worker.rs:83-89`: a device registered between `len()` and the count makes `total - connected` underflow | the two numbers of one answer |
| `ReloadDevices` | `MCConfigReload` | `manager.rs:37`: devices are registered at start only, `ConfigUpdater` is never spawned | `docs/configuration.md:290`: new devices appear |

`CHECK_DEADLOCK FALSE` stands in the SSE and RPC configurations only: there everything
has really ended after the shutdown. Elsewhere a system at rest takes an explicit stutter
step or has a timer or a device that can still move.

## Fairness

Assumed: threads are scheduled and timeouts expire. Nothing is assumed of
devices, clients, publishers or the file.

- send pool: weak fairness of the pool threads and of each caller's timeout.
  `AcceptedReachesRecipients` has as its premise that subscribers keep reading
  (`ConsumerFairness`).
- request path: the worker threads, their tasks and both timeouts of a caller.
- connection pool: the runtime threads (`PoolThreadFairness`).
- SSE: the thread of SseWorker, the heartbeat interval, the thread and the handlers
  of the server that have begun. `DeadRemoved` has as its premise that updates keep
  arriving (`UpdatesArrive`), because the worker wakes up with an update only.
- heartbeats: the heartbeat thread alone (`ThreadFairness`) for the round of checks;
  `HeartbeatDown` also lets the workers run, so its counterexample is not a worker that
  was never scheduled.
- RPC: the server and worker threads, the observers, and of a connection only the
  steps that a timeout ends (a read within 3 s or 50 ms, a write within 5 s).
  `ConnectionsEnd` has as its premise that handlers return; `WorkerStops` needs no
  such premise.
- configuration: the loader, its bridge thread, pool and workers.

## The proofs

For every value of the constants, under the named assumptions of the modules:

- `HubSendProofs`: `HubInv`, which is the type invariant and `Placed` (a message is
  where its caller's state says it may be: queued once, carried by one thread, or done),
  is inductive; `OkMeansDelivered`, `RefusedHasNoEffect`, `NeverLostInPool` and
  `OneSinglePerMailbox` follow. The properties alone are not inductive: none of them
  excludes a message queued twice. `PoolNeverStuck` is what can be proved about waiting without
  fairness: an accepted message can move on, or the thread that carries it (all threads, while
  it is queued) stands before a full mailbox. Threads and callers never wait for each other;
  that a subscriber empties its mailbox is the premise of the liveness properties.
- `DeviceControlProofs`: every behaviour of the request path is one of the send pool
  (`DeviceUsesHub`), so `HubInv` and the policy `single` hold of it. On top of them one
  invariant per question, each for one request or device: in which one place it waits or is worked on
  (`Once`), how often its operation was performed given the stage of its task and what was
  answered (`Task`), what the response channel and the caller's reply allow to be true (`Answer`), and the
  capacity counter as the number of tasks that hold a place (`Counted`). At most one effect, one answer
  per channel, data that is backed, final refusals and exact capacity follow, and with
  them the safety part of the refinement: every initial state and step maps to one of
  `RequestReply` (`KeepsPromise`).
- `ConnectionPoolProofs`: `PoolInv` adds to the accounting that connections in the
  deque and in the threads are pairwise different and that the deque is sorted by age.
  Exclusive use, exact accounting, the bound, the order and, as an action property,
  that no expired connection is left in front follow.
- `StreamPipelineProofs`: `PipelineInv` is `HubInv` with what the publisher may have in
  flight (`PublisherInv`), the order of what is routed (`OrderInv`) and the cache
  (`CacheInv`). The polling loop implements the pipeline, so both properties hold of it,
  and `TurnInv` counts what a due group has still to wait for (`TurnsTaken`). Both are behaviours of the
  send pool (`PipelineUsesHub`), and since what left the pool is among the updates taken or waiting
  (`ArrivedInv`), an update whose send returned Ok is not lost (`PollingLosesNothing`).
- `HttpProofs`, what clients of the HTTP server see. *Heartbeats*: what is online was reached, by
  an invariant on the only channel that is listened to; and `HealthTruthful`, by sandwiching
  what a request has counted between what was shown all the time and at some time
  since it began (`ReadingInv`); requests disturb no heartbeat (`ReportsKeepHeartbeat`). *Streams*: what is in `dead` is gone for good, hence no live
  client is dropped; a handler that passed the limit check holds a thread, hence the
  overshoot is at most the other threads; and for the order an invariant from the mailbox to the
  client (`OrderInv`): what waits in the mailbox is ahead of what any channel holds, what is being
  routed is ahead of every channel not yet visited, and a channel is ahead of what its client has
  read. *Statistics*: for any history of latencies and any window the numbers carried along are those
  of the last latencies, the squared deviations never become negative, and an alarm is raised for just
  the outliers (`StatisticsOfWindow`; `StatisticsAlwaysExact` is the property of the run). One step rests
  on the identity behind Welford's update (`WelfordStep`), read forwards for the sample that
  enters and backwards for the one that leaves (`WindowStaysExact`), the alarm on the
  same identity with the common factor cancelled (`AlarmIsOutlier`), and the whole
  history is an induction. `ReturnAlwaysRaisesAlarm` draws a consequence: after failed
  pings have filled the window, the first answer raises an alarm, however fast it was.
- `RpcServerProofs`: `DrainInv` says of each task where it is watched: by the accept loop that has just
  made it, by an observer, or by nobody because it was forced to end. `DrainWaits` alone is
  not inductive: a task that nobody watches
  while the server still accepts does not violate it yet.
  `ThreadsInv` ties the handlers that run to the connections that wait for them: no more run than
  there are blocking threads, those of closed connections included. `RequestsCutRight`: after any number of
  chunks, cut anywhere, the reader's four variables are a function of the text read so far, taken as a whole
  (`Exact`; one byte in `ByteStaysExact`, a chunk by induction in `ChunkStaysExact`), and
  what it takes for complete is what is balanced.
- `ConfigReloadProofs`: an edit that the loader has not seen has an event to come
  (`LoaderPart`); workers that missed nothing agree with the loader (`FollowInv`), on top
  of `HubInv`, as a reload is a behaviour of the send pool (`ReloadUsesHub`); the type invariant
  (`ReloadTypeCorrect`). And of the rules, for any text: what
  `Config::validate` accepts is what the workers take for granted (`AcceptedIsUsable`). The workers
  started are a concatenation of parts that are pairwise different (`WellMade`), the names of
  the fields of a group are as many as its fields because the rule makes naming one-to-one, and the end
  of a field is what the saturating sum says it is wherever the group is smaller than 65535.
  `UsedIsUsable` puts the two together.
- `SignalGroupsProofs`: the way of a value out and back is undone step by step: the digits of a
  number spell it (`DigitsSpell`), each byte order undoes itself for every width (`ReorderTwice`), bytes
  come out of the registers they were packed into (`BytesComeBack`), a value out of its bytes
  (`ValueComesBack`) and a group out of its cells (`GroupComesBack`), for any size of a byte, any
  type and layout. `StoredInv` then says that what is known of a group is what its cells spell,
  that a write in progress was made of a complete request, and that an answer was made of
  cells: `ReadBack` and `SpelledInOrder` follow for any groups, callers and interleaving
  (`ReadsGiveBack`, `OthersReadIt`). A write reaches as many cells as it carries (`Reached`), and
  what `Encode` makes is never longer than the group: requests stay in their group
  (`RequestsStayInGroup`). The device then holds in every field of the group what was asked for
  (`FieldsGetWhatWasAsked`), because only complete requests are admitted and `Encode` is undone by
  `Parse`; fields of other groups that share registers do change. `SimulatorStandsIn`: the simulator of the demos, from the frame to the packed
  coils, answers every read and every first part of a write in progress as that device does, for every
  memory, every configuration and every request that fits into a frame. What is packed into
  bytes comes out again (`BitsOfByte`, `UnpackedCoils`), the changed table is the memory after the
  write (`TableAfterWrite`), and the rest is one case per function code.

Two proofs are inductions over data. Both rest on `Upwards`: a set that holds zero, and with a number
the next one, holds them all, which follows from the well-ordering of the natural numbers
in the library (`SmallestNumber`). What the model computes by a recursive function is defined as
any function that satisfies the equation, so the proof first shows that there is
one (`RunExists`, or the very function the theorem claims).

The type invariants, `RefusedHasNoEffect`, `NeverLostInPool`, `OneSinglePerMailbox`,
`OldestFirst`, `NoExpiredLeft` and `RoutedOnce` are proved and not checked again by the runs.

The assumptions are those named in the modules: that constants are of their type and limits
positive where the code divides by them or could not start, that what a configuration says has
passed validation (`SignalsAssumption`, `ReloadAssumption`), that addresses have 16 bits
(`SimulatorAssumption`), and in `LatencyStats` that the unit
of the exact fractions divides evenly. No theorem has a hypothesis beyond them but its `Spec`; lemmas
on functions name the domain of their arguments. `RequestsReadWhole` itself speaks of texts with
backslashes only inside quotes, as in all JSON: the reader ignores one elsewhere.

Model-checked only:

- all liveness, and with it the liveness part of `ImplementsPromise`: fairness and `ENABLED`
  are out of the prover's reach. Every invariant and every action property of a run that is
  expected to pass is also proved.

## Where code and documentation disagree

Beside the findings and the counterexamples above, met while modelling and stated here
without a run.

Signal groups:

- `docs/configuration.md:265-268` and the head of `data_conversion.rs:26-27` give
  `little_endian_byte_swap` as BADC and `mid_big` as CDAB; `convert_byte_order`
  and its tests do the opposite. `SpelledInOrder` states what these do.
- `addressing_mode` is parsed and never used; `docs/configuration.md:254-257` says
  that h100 means address 99 with `one_based`.
- "Non-zero = true" (`data_conversion.rs:20`): only the low byte of the register is
  looked at, 256 reads as false.
- A group without fields reads as an empty list; `docs/configuration.md:133` says
  that the raw values are returned. Writing such a group, or registers of a
  group that no field covers, stores zeros.
- Two groups may share registers: a write of one changes fields of the other, which its
  caller never named.
- A number out of range is stored as the nearest one and success is reported; a
  group of coils keeps of a number only whether it is zero.

Configuration:

- the head of `config.rs` (line 14) lists the range of ports among what is validated;
  `InvalidPort` is never produced.
- A file without `[server]` gets `Server::default()`, whose numbers of RPC threads are zero
  and with which no runtime starts; a section without these keys gets 4 and 128
  (`ThreadsOfDefaults` in `MCConfigReload`).
- `[timeouts]` and `[stream_settings]` are read by nobody.
- Not checked: address plus count beyond 65535, two groups of one name, and the end of a field
  in a group of 65535 registers (the sum saturates there; `Usable` excepts it).
- `validate` cuts the first byte off an address: one that begins with a longer character
  ends the validation with a panic.
- Streams that a reload adds are never polled if there were none at start, as the worker
  was not spawned; each reload, even of a file that does not concern streams, starts all poll timers
  anew; an update published before a ModbusWorker has subscribed is missed.
- The watch follows the file itself: an editor that replaces it by renaming ends it.
- `/api/config` shows the configuration of the start; `/api/config/reload` only says ok.

Heartbeats and statistics:

- `docs/workers/worker模块.md:301` says that samples are taken of successful answers; a failed
  ping is published with latency 0 and becomes a sample, so a device that comes back raises
  an alarm with the first ping it answers (`ReturnAlwaysRaisesAlarm`).
- The interval per device is a division in whole seconds and becomes zero with more devices
  than seconds (`heartbeat_worker.rs:212`).
- `error_count` and `reconnect_count` are shown and never updated.

Streams and servers:

- A cached error is served like a value, and its age is that of the wall clock; `is_fresh`
  includes the end of the period, the reader of the cache does not.
- `main.rs:173-179` promises a graceful end: SseWorker notices it only with the next
  update, a stream opened after that is ended by the forced end of the server, and HttpWorker keeps
  running when its server could not bind its port.
- The JoinSet of the RPC server is not polled while it accepts, so it grows with every connection;
  the drain of 5 s is shorter than a handler may take (send and answer have 5 s each);
  a bind or runtime that fails leaves RpcWorker running without a server; handlers go on
  after the forced end.
- Balance is looked at only at the end of a chunk (`connection.rs:77`): of `{}[` the request is
  `{}` if the network cuts there, and incomplete otherwise. `RequestsReadWhole` states
  this rule; that the cut makes no difference would be false.
- `docs/integration.md:407-408`: the simulator supports all standard function codes, and
  delays and errors can be configured. It has no 0x0F (writing several coils, which the
  middleware uses for a group of coils), and `fail_next` is never read. It reads coils
  without a limit, and a frame of another protocol leaves its body in the stream.

## What is not modelled

- `ConfigUpdater`: `main.rs` never spawns it (`ReloadDevices` shows what its absence means);
  `PendingRequest` and its cleanup, `RegisterMapping`, `encode_single_field`,
  `encode_fields_for_partial_write`, `Backoff`: constructed or called by tests only.
- `ping`, `get_version`, `get_device_list` of RPC and the routes that read one constant: no
  shared state. The messages SystemStatus and DeviceResponse: no sender reaches them.
- actix, tokio, TOML, JSON and the Modbus library below `execute_operation`: external; modelled
  where the code depends on what they do.
- Rounding of floating point numbers; logging; the ring buffer of device events, which nobody
  reads; the keys of the cache as strings (two pairs of names with underscores can collide).
- The demo clients: they call the program and keep no state of it.

Left of the plan: `SignalGroups` under configuration changes between admission and execution,
composed with `DeviceControl` (there a group is only known or not); a proof of the pipeline from
the answer of a device to the cache.
