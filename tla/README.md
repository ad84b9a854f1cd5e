# Webhook Watcher in TLA+

Webhook Watcher reads the binlog of one or more MariaDB servers, turns every row
change of a pedido into an Event, enqueues it in Redis (asynq) and, in a second
process, posts it to srp-hub-api. The promises are stated in `README.md`,
`GLOSSARY.md` and `docs/adr/`: no Event is lost silently, Events of one Recurso keep
their order except for retries, Events are delivered at least once and a duplicate
is harmless, a snapshot is never older than its date. This directory models the
code that has to keep them, checks it with TLC and proves all its safety properties with
TLAPS, for every log, number of servers, queues and failures.

Contents: [system](#the-system), [modules](#the-modules), [runs](#the-runs),
[fairness](#fairness), [proofs](#the-proofs), [disagreements](#where-the-code-disagrees-with-its-documentation),
[not modelled](#not-modelled), [plan](#the-plan).

## The system

```
 MariaDB binlog --> BinlogWatcher --> Producer --> FanoutQueue --> ShardedQueue --> RedisQueue
 (one per server)    |   positionTracker  |  ^                                        |
                     |                    |  +-- PedidoEnricher (SELECTs in MariaDB)  v
                     v                    v                                     Redis (asynq)
             SQLite: binlog_servers  SQLite: failed_events                            |
                                                                                      v
   srp-hub-api <-- webhook.Delivery <-- RedisWorker (one per shard, concurrency 1) <--+
                         |
                         v
                SQLite: failed_deliveries
```

| Component | State | Operations | Talks to |
|---|---|---|---|
| **BinlogWatcher** (`binlog.go`) and **positionTracker** (`position.go`) | the tracker's `current`, `safe`, `inTx`, `lastFlush`; the row of `binlog_servers` | `Start`, the `GetEvent` loop, `Observe`, `persistPosition` | go-mysql (pulls events), `HandleEvent` (call), SQLite |
| **Producer** and **RowsStrategy** (`producer/`) | none of its own between events; within one, the row index, `dataEvento` and the Contrato | `HandleEvent`, `eachRow`, `emitRows`, `emit` | TableProcessor, Enqueuer, `failed_events` |
| **Fan-out, shards, Redis adapter** (`pkg/queue/`) | the tasks in Redis | `FanoutQueue.Enqueue`, `ShardedQueue.shardFor`, `RedisQueue.Enqueue` | asynq |
| **asynq** (library) | per queue: pending, active, retry, archived tasks | enqueue with `TaskID`, dequeue, retry, archive, recover, requeue | Redis |
| **HTTP consumer** (`consumer_cmd.go`, `consumer/webhook/deliver.go`, `pkg/queue/redis_consumer.go`) | the task each worker holds | `RedisWorker.Handle`, `Delivery.Handle`, `deliverOne`, `saveFailedDelivery`, `Shutdown` | asynq (callback), srp-hub-api (HTTP), `failed_deliveries` |
| **Supervision** (`main.go`, `health.go`, compose files) | one goroutine per server, `watcherLiveness` | `beat`, `stop`, `check`, exit code, restart | docker, `/healthz` |
| **TableProcessor, PedidoEnricher** (`tables/`) | the PedidoRecurso being filled | `Process`, `Enrich` and its queries | MariaDB |
| **HTTP_CONSUMER_SHARDS** (`server_cmd.go`, `main.go`, `consumer_cmd.go`) | the number each process read, `shardsUp` | `httpShardCount`, start of the workers, `/healthz` of the consumer | docker, Redis |
| **Server registry and seed** (`server_cmd.go`, `config/`, `main.go`) | table `binlog_servers` | add, update, remove, seed, load, save a position | SQLite |
| **servers.db and the dead-letter commands** (`config/`, `failed_events_cmd.go`, `failed_deliveries_cmd.go`) | the schema, `failed_events`, `failed_deliveries` | `InitDB` and its migration, insert, list, remove | SQLite |
| **MemoryQueue** (`pkg/queue/memory.go`), **logging** (`logging.go`) | a slice; none | test double; filter | - |

What makes it hard, and what each part owes:

* **Watcher.** The master sends artificial events with `LogPos` 0 when a stream
  starts or resumes; go-mysql reconnects by itself in the middle of a transaction;
  row events can only be decoded after the `TableMapEvent` before them; any write of
  the position may fail and the process may die between any two steps. *Owes:* no
  change is skipped by a restart, the persisted position is always one that go-mysql can
  resume from and never goes back, the position ids derive from is the same
  whenever an event is read again and different for different events, no failure
  makes it restart in the same place for ever.
* **Producer.** One row may be skipped, unsupported or impossible to serialise in
  the middle of its event; a target of the fan-out may take an Event while
  another fails; the answer of Redis may be lost after Redis took the task; SQLite may fail
  right then; a crash repeats everything since the last saved position.
  *Owes:* every row reaches every target or `failed_events`, a repetition meets its
  task in the same shard.
* **Enricher.** The cover of a pedido is in the binlog row, the rest comes from up to seven
  kinds of query, in no transaction, while the ERP commits; each may fail alone, in the middle
  of its rows too, and what was filled is published. *Owes:* nothing is older than
  `dataEvento`, a later date never goes with an older reading, and the last Event
  completes what earlier ones missed.
* **Consumer.** A POST may be accepted with its answer lost; a task may be retried
  behind later ones, given back by a graceful stop, or found with an expired lease.
  *Owes:* order within a shard but for failures, nothing leaves Redis without being
  received, a dead letter has its row, no task blocks its shard for ever.
* **End to end.** A client keeps the snapshot with the latest date (ADR 0001).
  *Owes:* that client ends with the last state.
* **Supervision.** *Owes:* a watcher that dies beside others is reported, and comes back where
  somebody acts on the report; a watcher that waits on an idle stream is not reported.
* **Shards.** Producer and consumer read the number of shards when they start, and are recreated
  one after the other; a worker may fail to start beside others. *Owes:* a task in a
  queue below the deployed number is taken in the end or `/healthz` says why not, a Recurso changes
  its queue only with the number, a healthy consumer reads what its producer fills.
* **Registry.** The producer loads the active rows once and goes on writing the positions of
  what it loaded, while an operator adds, changes, removes and resets rows. *Owes:* no server skips
  a change of its host, a reset stays until the master was asked, a table that allows it lets
  the producer start.
* **servers.db.** Producer, consumer and commands open, create and migrate one file, in
  statements of their own; operators remove dead letters by ids they saw earlier. *Owes:* whoever opened
  the file finds it complete, an interrupted migration heals, `remove` hits the row that was shown.

The hazards, at their lines, with the properties aimed at each, are in
`PROJECT.json` under `hazards`.

## The modules

| Module | Models | About |
|---|---|---|
| `Binlog` | external | the log: files of events, positions and their order, transactions, `SHOW MASTER STATUS` |
| `Watcher` | `binlog.go`, `position.go` | one watcher, its tracker, its row in SQLite, the stream |
| `Replay` | - | abstract: changes handled in order, at least once, from a remembered place never ahead of them |
| `Asynq` | external, `pkg/queue/redis.go` | the tasks in Redis, as operators the next two modules use |
| `Producer` | `producer/`, `pkg/queue/`, `tables/pedido/` | rows to Events to tasks or `failed_events` |
| `Delivery` | `consumer_cmd.go`, `deliver.go`, `redis_consumer.go` | workers, handler, retries, stop, crash |
| `Pipeline` | `main.go`, `consumer_cmd.go` | `Producer` and `Delivery` over one Redis, and the client of ADR 0001 |
| `Supervision` | `main.go`, `health.go`, compose | goroutines, liveness, restart |
| `Shards` | `server_cmd.go`, `sharded.go`, `consumer_cmd.go`, compose | the number of shards at both ends, the consumer's health, a deploy |
| `Enricher` | `tables/pedido/`, `rows.go` | one pedido: cover, queries and `dataEvento` against the commits of the ERP |
| `Registry` | `server_cmd.go`, `config.go`, `main.go`, `binlog.go` | `binlog_servers` between the commands and the producer |
| `Store` | `config.go`, `failed_*_cmd.go` | opening and migrating `servers.db`, its dead letters |
| `MC*` | - | instances for TLC |
| `*_proofs` | - | theorems, a module per model; those about `Producer` are in `Pipeline_proofs` |

Definitions keep the code's names (`Observe`, `HandleEvent`, `ShardFor`,
`SaveFailedDelivery`); `PROJECT.json` maps each to its lines. A definition that
begins with "Fault to try on X" is a plausible bug in X, kept beside it: replacing X
by it must break the property it is listed with, which shows that the property is
about the code.

**Watcher.** A position is a file and the index of an event in it. `db` is the row of
`binlog_servers`; `cursor` is the next event of the stream and `pre` the artificial
events due before it; `mapped` says whether go-mysql knows the current `TableMap`.
A round of the loop is two actions, `Handle` up to the end of `HandleEvent` and `Observe` with
the save that may follow, because a crash between them is what at-least-once is about.
Rotations are one action, since the code does nothing between their effects but
the write. Failures of the write are an outcome of each action that writes. Each
failure is paid from `MaxFaults`; a silent reconnection of go-mysql from
`MaxReconnects`. What `HandleEvent` does is reduced to "handed over with this position" or
"failed or panicked".

**Producer.** The watcher around it is reduced to what `Replay` allows: it starts
after `saved`, and `Save` may persist any place already passed, in any round. Steps follow
the code's own boundaries: next row, clock (`dataEvento`), reading of MariaDB and
building, one call per target, the answer of the fan-out. MariaDB commits in between
(`Commit`), so a snapshot may be newer than its change. A body carries the two readings apart:
`capa`, the version in the binlog row, and `enr`, the version `Enrich` reads (in one reading
here; its queries are `Enricher`). A row is one of four kinds, by what
`emitRows` does with it.

**Asynq.** A `TaskID` is unique while its task is in Redis in any state, archived included;
a finished task leaves nothing behind (no `Retention`). A lease that expired is a
task `active` that no worker holds; it counts as a failed attempt.

**Delivery.** `Fetch`, `Handle` (decode, route, POST, report of the last attempt) and
`Settle` (what asynq does with the returned error) are apart, so that a crash or a
stop may fall between them. A graceful stop gives back what is in hand once
asynq's patience (8s) ends, even with the POST (10s) under way: `Requeue`.

**Pipeline** extends `Producer` and instantiates `Delivery` on the same Redis variables; its
steps are theirs, and nothing else is shared, as in the code. `view[r]` is the snapshot of r that a client of
srp-hub-api shows: whenever srp-hub-api receives one, the client keeps the newer of the two (`ClientSees`, `Keep`), as ADR 0001
asks of it.

**Supervision.** A turn of the loop begins with a beat, polls (`GetEvent`) and may handle an event;
`age` is the time since the last beat, `spent` the time since the watcher began what it is doing. The clock waits
only for a `GetEvent` that has reached its 2s (`context.WithTimeout`, `binlog.go:129`): connecting and
handling may take any time, and hang for ever. `RestartsUnhealthy` says whether the orchestrator acts on 503.

**Shards.** A container keeps the environment it was created with: `Deploy` changes `env`, `Recreate*`
the containers. A task carries the number that routed it. Workers start one by one; `WorkerFails` is
`Start` returning an error, after which the goroutine is gone and `shardsUp` stays short. `acts` says
whether an orchestrator replaces a container that answers 503; docker compose does not.
What a worker does with a task is `Delivery`; here `Serve` takes the oldest.

**Enricher.** `log` is the history of one pedido: transactions that write its row, some of its
parts, or both. A part of the Recurso is what one query fills; it carries the version it was read
at and whether rows were left out. Each query is an action, so that the ERP commits in between;
its disjuncts are the code's ways out (no row, a `Scan` that refuses a NULL, an error of the query or
of its iteration). Custom fields are read row by row with `cursor`, because the options of a box
are a query of their own inside the loop. Of an answer only what the properties tell apart is kept: the
version of its options, and whether it is a NaN.

**Registry.** A host is the address of a master, host and port. A change is one number of its binlog and a position is the next one, since
positions inside a transaction are `Watcher`'s matter. `watcher[n].row` is the copy that was loaded:
what a command does to the table reaches a watcher only with the next start, but what the watcher
persists reaches the row, whatever became of it. `fits` says whether `Scan` takes the row for a
`ServerConfig` (the commands accept any integer for port and replica). `foreign` and
`resetDue` are history for two properties.

**Store.** `pc[p]` is the statement of `InitDB` that is due in process p, `seen` what `table_info`
told it. `Init` starts from no file, one from before the two columns, or today's. A dead
letter carries the number of its insertion, which tells two rows with the same id apart.

## The runs

| Run | Module, bounds | Shows |
|---|---|---|
| `watcher` | `Watcher`: 3 files, a SAVEPOINT inside a transaction, a file cut inside one; 2 faults, 2 reconnections | types; `NothingSkipped`, `SavedResumable`, `NeverRewinds`, `EventuallyHandled`; `ImplementsReplay` (refinement) |
| `watcher_ids` | `Watcher`: a log without SAVEPOINT, with multi-row and BEGIN transactions and a DDL; 3 faults | `SavedAtBoundary`, `StableIds`, `DistinctIds` |
| `watcher_reconnect` | two reconnections, nothing else | `DistinctIds` is violated (below) |
| `producer` | `Producer`: 3 changes with every action and kind of row, an odd UPDATE, two targets of 2 and 1 queues; one crash, one Redis and one SQLite failure | `EveryRowAccounted`, `OneTaskPerTarget`, `EventuallyAccounted` |
| `delivery` | `Delivery`: 2 shards, 3 tasks (today's, one older than the Contrato, one that cannot be decoded); 2 failed POSTs, a crash, a stop, a SQLite failure; `MaxRetry` 1 | `OvertakenOnlyAfterFailure`, `GoneMeansReceived`, `DeadLetterAccounted`, `EventuallySettled` |
| `pipeline` | `Producer` and `Delivery`: 2 changes of one row, clock advancing; a crash of each process, a failed POST | `NothingLost` (a row was received, is on its way, or left a trace), `EventuallyDelivered`; `ClientConverges` while the producer does not crash |
| `pipeline_order` | 2 changes, one crash of the producer | `NewestIsLast` is violated (below) |
| `supervision` | 2 watchers, 2 faults, events of any length, an orchestrator that acts on 503 | `AlarmIsTrue`, `WatcherComesBack` |
| `shards` | `Shards`: the variable unset (3 shards), 1 or 2; 2 Recursos, 2 Events, 2 deploys, 1 fault; with an orchestrator and without | `HealthyMeansServed`, `OvertakenOnlyByRecount`, `TaskServed` |
| `registry` | `Registry`: the seed and another server, 2 hosts with a change each; 2 commands, a crash | `CommandsSkipNothing`, `ResetTakesEffect`, `ProducerComesUp` |
| `enricher` | `Enricher`: a pedido that grows and one with odd rows, 3 transactions each; a failed query, a crash | `NotOlderThanDate`, `LaterReadsNewer`, `CompletedByNext` |
| `store` | `Store`: both services and an operator; 2 dead letters, 3 commands, a fault | `OpenIsComplete`, `EventuallyOpen`, `RemovesWhatWasListed` |

Why the bounds are enough for the questions asked (for the safety properties the
[proofs](#the-proofs) remove them):

* *Watcher.* The tracker remembers one boundary and one flag, so what can go wrong
  happens within a transaction and the next boundary. Three files give a real
  rotation, one that the master never wrote (a file that just ends inside a transaction), and
  a place to go on to. Two faults are a failure and a second one during
  recovery; two reconnections are what two equal positions take.
* *Producer.* Events interact only through the saved position and the task of the same
  id, so one crash repeats any prefix. Two targets are what an answer of the fan-out can
  hide; the first has two shards, and the two resources hash to different ones.
* *Delivery.* With `MaxRetry` 1 (the code has 5) a task has an ordinary failure and a last
  attempt. Two tasks in one shard are what overtaking takes; the task of the other shard
  shows independence.
* *Clock.* `Dates` bounds what `ReadClock` may read, so that the instances are finite. It is a constant
  like any other: the theorems hold for all of `Nat`.
* *Pipeline.* Two changes of one Recurso are what an inversion takes; one target with one
  shard is where they meet.
* *Supervision.* One watcher beside another. `StaleAfter` 3 and `PollTime` 1 keep the
  order of 30s and the 2s of `GetEvent`; the property is about order, not seconds. Both clocks stop
  counting just past `StaleAfter`, where nothing tells them apart any more.
* *Shards.* Two Recursos that share a queue only when there is one; 1, 2 and 3 shards shrink and
  grow, and two deploys go there and back.
* *Registry.* One server is the seed, so that it collides with the other's `replica_id`; two hosts
  are what `-host` and `-port` take. Every property here takes at most a command before a restart and one after.
* *Enricher.* The first history has the items in a transaction after the row and everything changed
  again; the second has rows that `Scan` refuses, a NaN, and a removal. One crash repeats any Event with
  a newer reading.
* *Store.* Two processes are what a race of `InitDB` takes; three commands are a list, a removal and
  another of the same old list, and two insertions let an id come back. With one key the filter of `list`
  selects all or nothing: a filter that selects fewer rows shows an operator less and no more.

`delivery` and `producer` have every failure in one instance so that safety and
liveness are checked under the same conditions. In `pipeline`, `ClientConverges` is only claimed
while the producer did not crash, because `pipeline_order` shows what a crash does; likewise
`watcher_ids` has no reconnection and no SAVEPOINT. Deadlock is checked in every run: where the system has
nothing left to do (`Timeout`, `Finished`, `Drained`, `Done`, `Halted`, `Idle`) it stutters
explicitly.

## Fairness

* `Watcher`: `Start` is weakly fair because the process of a lone watcher exits with code 1 when
  its watcher ends (`main.go:111-119`) and docker restarts it (`restart:
  unless-stopped`). A watcher beside others needs an orchestrator acting on 503; this
  is what `Supervision` is about. The loop's rounds are fair because the loop turns by
  itself and the server sends what it has. `StreamError` is fair where the next event cannot
  be decoded, because go-mysql does report a row event without its `TableMap`. Crashes, stops, reconnections and the clock are
  not fair.
* `Producer`: one weak fairness for the loop as a whole (it never waits), one for the ERP's commits.
* `Delivery`: one for the process being restarted or finishing its stop, one per shard for the
  asynq server of that shard doing any of what it can do: asynq polls, and runs its
  forwarder and recoverer periodically. No fairness is assumed of srp-hub-api: failures
  are bounded by `MaxHubFaults`, not by fairness.
* `Supervision`: goroutines that can run do, time passes, docker acts on what it is told. Whether
  a watcher fails is not fair. `Replace`, which docker compose never does, is fair only where
  `RestartsUnhealthy` says that somebody does it; `WatcherComesBack` is claimed for that deployment.
* `Shards`: docker starts the consumer and recreates it after a deploy, its goroutines go on. An
  orchestrator acts on its 503 only in the behaviours that have one (`acts`); in the others, which are those
  of the repository's compose file, `TaskServed` allows a task to wait under a consumer that answers 503 for
  ever. Nothing is fair of the producer, the failures and the operator.
* `Registry`: `Load` and `Seeding`, because docker starts the producer again whenever it ends. No command is
  fair, and nothing of the watchers.
* `Store`: every process goes on with the statements of `InitDB`, and docker restarts a service that
  exits. A command may never be run.
* `Enricher` has safety properties only.

## The proofs

A run shows a property on a small instance; a theorem shows it for every value of the constants
that the module's assumption allows: any log, any number of servers, targets, shards, operators
and tasks, any bound on crashes and failures. The theorems with the property each one states:

| Module | Theorem | States |
|---|---|---|
| `Watcher_proofs` | `TypeCorrect`, `NeverSkips`, `AlwaysResumable`, `NoRewind` | `TypeOK`, `NothingSkipped`, `SavedResumable`, `NeverRewinds` |
| | `IdsAreStable`, `IdsAreDistinct` | `StableIds`, `DistinctIds` while there is no reconnection |
| | `BoundariesOnly` | `SavedAtBoundary` for logs without SAVEPOINT |
| | `Refines` | `ImplementsReplay`: `Watcher` implements `Replay` |
| `Pipeline_proofs` | `TypeCorrect`, `NoRowLostInSilence`, `OneShardPerEvent` | `TypeOK`, `EveryRowAccounted`, `OneTaskPerTarget` of the producer alone |
| | `ProducerBesideConsumer` | the last two again, with the consumer emptying the queues |
| | `NothingLostEndToEnd`, `DeadLettersTraced` | `NothingLost` of the two processes; what asynq archives is in `failed_deliveries` or its loss is logged, with the producer beside |
| | `ClientInvariant` | what a client shows is the latest dated of what srp-hub-api received, and a Contrato the producer made |
| | `ClientShowsTheLast`, `ClientShowsTheLastWithMovingClock` | `ClientConverges`, while no two Contratos of a Recurso have one date; when the clock moves between rows |
| | `NewestUntilCrash`, `MovingClockHasNoTies` | `NewestIsLast` until the producer crashes; there are no ties when the clock moves between rows |
| `Delivery_proofs` | `TypeCorrect`, `OrderKept`, `NothingVanishes`, `ArchiveAccounted` | `TypeOK`, `OvertakenOnlyAfterFailure`, `GoneMeansReceived`, `DeadLetterAccounted` |
| `Registry_proofs` | `TypeCorrect`, `NothingSkippedByCommands`, `ResetStands` | `TypeOK`, `CommandsSkipNothing`, `ResetTakesEffect` |
| `Enricher_proofs` | `TypeCorrect`, `DateIsALowerBound`, `LaterDateReadsNewer`, `LastEventCompletes` | `TypeOK`, `NotOlderThanDate`, `LaterReadsNewer`, `CompletedByNext` |
| `Shards_proofs` | `HealthIsTrue`, `OrderHeldByShard` | `HealthyMeansServed`, `OvertakenOnlyByRecount` |
| `Supervision_proofs` | `TypeCorrect`, `AlarmMeansTrouble` | `TypeOK`, `AlarmIsTrue`, with no bound on the time of an event |
| `Store_proofs` | `SchemaComplete`, `RemovesTheRowShown` | `OpenIsComplete`, `RemovesWhatWasListed` (an action property) |

### What they assume

The assumptions are the ones the modules declare, and TLC evaluates each of them in the runs.
Most say only what kind of thing a constant is. The others:

* `LogAssumption` (`Binlog`): row events follow their `TableMapEvent`, and only the last event of a file
  rotates. This is the format of the binlog.
* `NamesAssumption` (`Producer`): the sets `Ids`, `Bodies` and `Queues` of the Redis model hold what the
  producer makes: the Contratos, the ids and the shards of its targets.
* `PipelineAssumption`: the fan-out is not empty, because `initQueue` always adds the queue of the HTTP
  consumer (`main.go:129-148`), and "no task" is not the id of one.
* `ShardsAssumption`: finitely many values of the variable; the model numbers its queues up to the
  largest of them.
* `SupervisionAssumption`: there is a server (the seed, at least), and the timeout of `GetEvent` is no
  longer than the threshold (2s and 30s in the code). Nothing is assumed of how long an event takes. The action
  `Tick` assumes that `GetEvent` returns by its timeout.

One assumption is in a definition. `EventId` in `Producer`, and so in `Pipeline`, is the pair of event and row,
where the code hashes the tracked position, the row index and the resource (`producer.go:89-94`). This takes the
hash not to collide, and the position to be the same whenever the event is read and to belong to no other event.
The second is `StableIds` and `DistinctIds` of `Watcher`, which hold as long as go-mysql does not reconnect by
itself in the middle of a file. So every property of `Producer` and `Pipeline`, and every theorem of `Pipeline_proofs`,
is about producers whose stream was not resumed that way: after two such reconnections two changes may have one id,
Redis refuses the second as a duplicate, and it is lost (`watcher_reconnect`).

Some theorems have a hypothesis of their own, because without it the code breaks the property.
`IdsAreStable` and `IdsAreDistinct` are about behaviours in which go-mysql does not reconnect by itself
(`[]NoReconnection`): `watcher_reconnect` shows what a reconnection does to the ids. Crashes, stops, errors
of the stream and of SQLite stay in. `BoundariesOnly` is about logs without SAVEPOINT (`NoSavepoint`), which
`Observe` takes for a boundary. `ClientShowsTheLast` and `NewestUntilCrash` are about behaviours in which no two
Contratos of one Recurso carry the same date (`[]NoTies`): ADR 0001 gives no order to those, and with
`ClockSteps = {0, 1}` TLC finds a client that ends with the older one. `MovingClockHasNoTies` shows when that holds: the clock,
read once for each row, shows another millisecond each time (`0 \notin ClockSteps`). Both are about a producer that has not
crashed yet, because `pipeline_order` shows what a crash does. `NeverSkips`, `AlwaysResumable`, `NoRewind` and `Refines` need neither.

### The inductive invariants

None of these properties is inductive: each invariant says where the next value will come from. Every
one of them was checked by TLC on the bounds of the runs before it was proved.

**Watcher.** What a save writes is the tracker's `safe`, so the invariant has to say what `safe` is before it
is written. `Session`: while the watcher runs, `db` is at or before `safe`, `safe` is at or before the event
being read and points at no row event, every change before that event and after `origin` was attempted,
and the tracker is inside a transaction whenever the next event is one that only a `TableMap` makes
readable. The last part is what the artificial rotation of a reconnection needs: it is taken for a boundary
only if `inTx` is false. There is one lemma per action; `RotateTo`, shared by two, and the write, shared by
five, have their own. `NoRewind` follows from `Session` step by step. The ids rest on `IdsAreThePlace` (the
tracker's `current` is the place of the row event about to be handled), `BoundariesOnly` on `AtBoundary` (what
the tracker takes for a boundary is one).

**Refinement.** `Replay` counts changes where `Watcher` has positions: `Rank` of a position is the number of
row events before it. `RankGrows`, `RankAfter` and `RankNextFile` compute it by cardinalities of the
(finite) set of row events. Then each action is one of `Replay`'s or a stutter: `Start` is `Begin`, `Handle` of a row event is `Take`,
any action that writes is `Save` or, when it ends the process, `Stop`, and everything else is invisible.

**Producer.** `EveryRowAccounted` is about what is behind `saved`, but a row is accounted for long before its
position is saved. `Handled`: every row before the one in hand is in its targets, in `failed_events`, or
known to be lost, and the one in hand reached each target called so far if none of them failed. `InHand` ties
the Contrato to its row, and `Placed` a task in Redis to the shard of the resource it came from, from which
`OneTaskPerTarget` follows because an id has one resource.

**End to end.** `NothingLost` holds of the producer and of the consumer for different reasons, and between
them lies Redis. `PInv` is the producer's invariant, which the consumer's steps do not disturb, with what the
consumer keeps: what was given to a target is in Redis, was received, or is a removal (`Kept`). For that,
a pending task is in its queue's list once (`Waiting`), what a worker holds is active and, if its
handler returned without error, was received or is a removal (`Held`), and a task carries what the producer made of
its row, so that the consumer can decode it and routes everything but removals (`Carried`). What asynq archived is
in Redis for ever, so `NothingLost` needs that it is traced: `DeadLetters` says so of the archived tasks, and of the one in hand
whose last attempt has just failed, which is archived only in the next step.

**The client.** A client shows one snapshot of all it was sent, so the order has to be known of all of them at once. `Made` is what is in Redis
or was received; the consumer only takes from it (`ConsumeMade`), the producer adds the Contrato in hand
(`ProduceMade`). `ClientInv`: nothing in `Made` is dated after the clock (`Dated`), what was received is what the producer made of its row
(`Genuine`), and what the client shows is the latest of it (`Latest`). It holds whatever crashes. `InTurn` is what a crash breaks:
the producer goes from change to change, so of two Contratos the one dated later is of the later change, and was read when MariaDB
held no less (`VersionGrows`). It needs that the Contrato in hand is dated after every other of its Recurso: not
before, by `Dated`; not at the same time, by `NoTies`. `ClientConverges` then puts the chain together: when all is
quiet the last change was handled (`Handled`), so it was inserted, so it was received (`Kept`), so the client
shows nothing dated before it (`Latest`), so nothing older than it (`InTurn`).

**Delivery.** Order is a property of tasks none of which has failed yet: `InLine` says that behind a `Fresh` task every
later one of its queue is pending, unreceived and after it in the list. A task stops being fresh by a failed
attempt, a lost lease or the archive, which are the excuses of `OvertakenOnlyAfterFailure`. `Handled` says what
the handler's answer means before asynq acts on it, for `GoneMeansReceived` and `DeadLetterAccounted`.

**Registry.** A watcher works with the copy it loaded. `CopyOf` says of the copy what `CommandsSkipNothing` says of
the row, unless the host was changed under it; `DueOf` that while a reset is due no watcher holds an older
position. The lemmas follow an update of the row, whose fields change one at a time.

**Enricher.** `Version` grows with the transactions committed. `Building` and `Scanning` bound what is in hand between
the version at `dataEvento` and today's; `Behind` bounds what was published by the date of the Event in hand. `LastEventCompletes` has an
invariant of its own, `Whole`, that goes along the order of the queries: what was asked so far was read whole, while no
query has failed.

**Shards.** `/healthz` compares a counter with a number; that the counter counts workers that are up is
`Counted`, and equal cardinalities of one set inside another then give "every shard has its worker". `Placed`: a task
is where its number and its Recurso put it.

**Supervision.** `Beaten`: while the process is up a watcher is marked as stopped exactly when its goroutine has
ended, its last beat is not younger than what it is doing, and older by at most one `GetEvent`.

**Store.** `Migrated`: the statements a process is past have had their effect, whoever executed them. `Numbered`
and `Listed`: ids are given once (AUTOINCREMENT), so what an operator was shown is that row or no row.

### Only model-checked

* Liveness: `EventuallyHandled`, `EventuallyAccounted`, `EventuallySettled`, `EventuallyDelivered`,
  `WatcherComesBack`, `TaskServed`, `ProducerComesUp`, `EventuallyOpen`. They rest on fairness, hence on ENABLED,
  which tlapm does not handle.

No safety property is left to TLC alone. What would have needed an induction over data (the library's theorems
take an operator as a parameter, which no installed prover can instantiate) is written so that it does not: the client is a
variable that moves with what it receives rather than a fold over the history, and where the induction is over a set of numbers, as in
`Greatest`, `WFMin` replaces it (a well-founded relation has a minimal element in every set that is not empty).

## Where the code disagrees with its documentation

Two have a run whose counterexample is the behaviour described; the quotes
are in `PROJECT.json` under `findings`.

* `watcher_reconnect` (a bug): the made-up `FormatDescriptionEvent` after a
  reconnection has `LogPos` 0, and `Observe` takes it for the current position. Two
  reconnections in one file, each right before row events, give two changes the same ids.
* `pipeline_order` (a bug): a change that was delivered and is replayed after a crash is
  dated anew, after a later change that Redis still holds; the client keeps the older cover.

Others, seen while reading and visible in the models, without a run of their own:

* A row whose Recurso cannot be serialised (a NaN parsed from a custom field,
  `tables/pedido/enricher.go:417`) ends its event: the remaining rows are not emitted and only the log
  knows (`Abort` in `Producer`, `Serialisable` in `Enricher`), while `README.md:55` says
  no event is lost silently.
* A consumer that dies during a last attempt leaves an archived task without a row in
  `failed_deliveries` (`Recover`, `orphaned` in `Delivery`); `README.md:65` promises the row.
* The repository's compose file restarts processes that exit and does nothing about a 503, on which
  `health.go:83-84` counts: a watcher that dies beside another stays dead
  (`RestartsUnhealthy = FALSE` in `Supervision`), and so does a shard whose worker failed to start
  (`acts = FALSE` in `Shards`).
* `health.go:20-23` says that 30s leave room for slow enrichment. Nothing bounds it: `HandleEvent` runs
  the queries of `Enrich` and the calls of Redis for every row of an event, with no timeout (`binlog.go:167`), and no
  beat in between. A working watcher with a large event is reported (`AlarmIsTrue` says exactly when), and an orchestrator
  that acts on it would replace the process in the middle of the event, and again after the restart.
* Resetting a position while the producer runs has no effect: the watcher's next save, or its last one at a
  graceful stop, writes its own position over it (`Reset`, `Save`, `Return` in `Registry`).
  The instruction in `README.md` (section Configuração) does not say to stop the producer first.
* The seed is inserted when no server is *active* (`main.go:60`), while `README.md` and the compose file
  (line 13) say when the table is empty. With every server deactivated, the seed's own
  row among them, the INSERT meets a UNIQUE constraint and the producer exits at every start.
* One active row that `Scan` refuses (`server update -port 70000`) stops every server at the next start
  (`Load`); the commands accept any integer. An `-is-active 5` counts as inactive, and `server list` fails on it.
* `server update -host`, or `-port`, keeps the position on the master before, which the next start resumes
  from in another binlog (`foreign` in `Registry`).
* Two processes that migrate an old `servers.db` at once: the slower ALTER fails with a duplicate column
  and the process exits; the restart heals it (`AddUnless`, `EventuallyOpen` in `Store`).

* `position.go:11-12` says only transaction boundaries are saved, but `Observe` takes every
  Query that is not BEGIN for one, SAVEPOINT included (`ObserveEvent`). It stays resumable:
  `watcher` has a SAVEPOINT and `SavedResumable` holds.
* ADR 0001 and `producer/rows.go:88-90` say a snapshot is never older than its date; the cover
  (`capa`) comes from the binlog row and may be. What `Enrich` reads is not
  (`NotOlderThanDate`).
* ADR 0001 says a duplicate carries the same state and date; a replay after a crash of a
  task that left Redis is rebuilt with both new (`Build`, `HandleEvent`).
* `pkg/queue/redis_consumer.go:44` says a corrupt payload is a definitive failure; the error
  is not wrapped in `asynq.SkipRetry`, so it is retried to the end (`Handle`,
  `Settle`).

## Not modelled

* Two Events of one Recurso within a millisecond and a clock that goes back: the `pipeline`
  runs advance the clock between Events. With ties the rule of ADR 0001 has no answer (`NoTies`).
* asynq's retention of archived tasks (90 days), its own bookkeeping in Redis, and the persistence of Redis.
* Reconnections of go-mysql in `Producer` and `Pipeline` (they are in `Watcher`): [above](#what-they-assume).
* A POST of the consumer that goes on after a graceful stop gave its task back: `Delivery` takes it for received
  or not at the moment of the requeue.
* `MemoryQueue` (a test double), logging, formatting, settings of connections, the HTTP servers of
  `/healthz`, `Close` of the queues, `server list`: none changes state that another part reads.
* The mapping of columns to fields of a PedidoRecurso: data, taken as one part per query.
* How long a replay may be after an idle stream, and the first start of a watcher whose first write fails:
  `hazards` in `PROJECT.json` say why.

## The plan

The modelling is done: what is left out above is out for the reason given. Every invariant and action property that
a passing run checks has its theorem; the liveness properties stay with TLC. A change of the code begins in
the module that models it: its runs tell whether the property still holds, and its proofs, whose steps
are named for the actions, which argument the change touches.
