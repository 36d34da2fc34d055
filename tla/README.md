# PyFly, specified in TLA+

TLA+ specifications of the parts of PyFly (a Python application framework) whose correctness depends on
the order in which concurrent tasks, database units, timeouts, crashes and restarts fall, with the TLC
configurations that check them and TLAPS proofs. Paths are those of the repository; `outbox.py` is
`src/src/pyfly/eda/outbox.py`.

    tlc -workers 2 -config RelayDelivery.cfg MCOutboxRelay     # one run
    tlapm OutboxRelay_proof.tla                                # the proofs of one module

`PROJECT.json` lists the runs, the lines each definition models, the hazards of the code, the mutations
every property detects, the findings and the theorems.

## 1. The system

| Component | State | Operations | Talks to | What is hard |
|---|---|---|---|---|
| **Outbox store** (`eda/outbox.py`, `SqlOutboxStore`) | tables of events, deliveries (`available_at`, `attempts`, `claimed_by`, `handled`), consumers, dead letters | `append`, `register`, `unregister`, `claim`, `complete`, `settle`, `extend`, `release`, `prune`, `requeue` | the unit of work of its caller; units of its own | units of several processes on the same rows; the fence `claimed_by = token`; a registration, an append and a sweep side by side |
| **Outbox relay** (`eda/outbox.py`, `OutboxRelay`) | a task; the round's queue, lease, in-flight delivery | `start`, `stop`, `_run`, `_round_once`, `_deliver`, `_handle_failures`, `_give_back` | the store, subscriptions, an external dead-letter store | leases against slow handlers; cancellation at every await; a lost answer; a crash between a handler's commit and the settling |
| **Outbox forwarding, MongoDB outbox** (`eda/outbox_forwarding.py`, `eda/adapters/mongo_outbox.py`) | as above | a relay with one subscription that publishes; the store over documents | a broker; MongoDB | as above |
| **Event buses** (`eda/adapters`) | subscriptions, consumer positions | publish, subscribe, start, stop | brokers, the outbox | at least once over brokers |
| **Saga engine** (`transactional/saga`) | the layers of a saga, each step's status, the steps that may have committed | execute, compensate under five policies, recover | persistence, events port, steps | parallel steps of which one fails; commits that land as an attempt is cancelled; recovery of a saga that still runs |
| **TCC engine** (`transactional/tcc`) | participants' tries, phase | try, confirm, cancel | persistence, participants | a cancel that fails or is cancelled |
| **Unit of work** (`data/transaction`) | the bound unit per datasource, savepoints, rollback-only marks, synchronizations | open, join, suspend, commit, roll back, after-commit callbacks | every data component | cancellation inside a commit (`run_shielded`); a joined unit marked rollback-only |
| **Resilience** (`resilience`) | breaker state, window, probes; permits and waiters | call, acquire, release | callers | late answers; cancelled callers; permits handed to waiters that left |
| **Listener container** (`messaging/listener_container.py`) | the poll in progress, the record in flight, offsets to commit, failed attempts, the partitions owned and being revoked | poll, deliver, retry, dead-letter, commit, react to rebalances, stop | brokers, units of work | a rebalance against the record in flight; commits refused or without an answer; a stop that cancels as the unit commits |
| **Event sourcing** (`eventsourcing`) | the event table, the head row of positions, each store's backlog list; a projection's checkpoint and read model | append in the caller's unit, number, page the stream; load a checkpoint, apply a page, reset | units of work, a projection's lease | units that commit late, after a reader has passed; a clock that steps back; two runners of one projection; a commit whose answer is lost |
| **Scheduling, locks** (`scheduling`) | lease rows with a fence | acquire, renew, release | a database | a holder that outlives its lease |
| **Sessions, cache, idempotency** | entries in stores | limit, evict, join a unit | stores | stale reads around a commit |
| **Agentic runtime** (`agentic`) | pipelines, memory, quotas, checkpoints | run, resume | model providers | mostly I/O with external models |
| **Web, security, admin, actuator, IDP, OAuth2** | per-request state | filters, handlers | HTTP | sequential per request |
| **Container, context, kernel, configuration, starters** | bean registry | start, stop | everything | start-up order, sequential |
| **CQRS, flags, audit, notifications, rule engine, CLI, testing, ...** | little | buses, clients, tools | | little protocol state |

What makes each of the first parts correct: an outbox loses no event, runs no delivery in two relays at
once, exceeds no retry policy, and writes a dead letter once; a saga runs a step only on committed work and
undoes what committed, in order; a TCC confirms everything or releases everything; a unit of work that
several tasks share commits nobody's unfinished work and undoes nobody's finished work; a half-open breaker
that rejects every call waits for a trial, unless trials were cancelled and took their slots along; an event store shows every reader the same stream, which grows only at its
end, and a projection applies it once and in order; a listener container passes over no record, whatever fails or moves; a bulkhead loses no permit and leaves none idle; a lease is never
believed by two jobs.

## 2. The modules

| Module | Models |
|---|---|
| `OutboxRelay` | the relays of one consumer group, and the store statements they send |
| `OutboxContract` | what an outbox promises a group, in three variables |
| `OutboxStore` | the outbox's tables under publishing, registering, unregistering, settling and sweeping units |
| `SagaEngine` | one execution of a saga: engine, orchestrator, compensator, record, recovery sweep |
| `TccEngine` | one execution of a TCC: its three phases |
| `UnitOfWork` | one unit of work, its boundary and the tasks that share its connection |
| `LeaseLock` | the row of one lease, the nodes that keep entries for it, the jobs that take it |
| `QueuedBulkhead`, `CircuitBreaker` | one bulkhead, one breaker, and their callers |
| `EventStore` | the event table under appending units, the readers that number it, the stores' lists |
| `EventStream` | what a reader of the stream may rely on, in two variables |
| `ProjectionRunner` | the runners of one projection: stream, checkpoint row, read model, lease |
| `KafkaListener` | the listener containers of a Kafka consumer group, the broker and the client they use |
| `OutboxRelay_proof`, `OutboxContract_proof`, `OutboxStore_proof` | theorems about the relays, what they promise, and the tables they share |
| `SagaEngine_proof` | theorems about the saga engine |
| `Engines_proof` | theorems about the TCC engine and the projection, and of the three engines together |
| `Guards_proof` | theorems about the breaker, the bulkhead, the lease and the unit of work, and of the four together |
| `EventStore_proof` | theorems about the event store and the stream it shows |
| `KafkaListener_proof` | theorems about the listener containers of a group |
| `MCOutboxRelay`, `MCOutboxStore`, `MCConsumers`, `MCStores`, `MCTransactional`, `MCGuards` | small instances for TLC |

The two outbox models cut one component along its natural seam: relays of one group meet publishers and sweeps
only through the rows of their own group. `OutboxRelay` has every state of a row and one group;
`OutboxStore` has every group and reduces what a relay does between claim and settling to one step.

### OutboxRelay

A relay is a task; `pc[r]` is what it awaits. *Awaiting* is the unit of interleaving: an action is what the
task does from one await to the next, so that whatever it read before an await may be stale when it
resumes. The places, and the code they stand for:

    down --start--> idle --(claim sent)--> claiming --> loop --(next delivery)--> handling --> loop ...
                     ^                                    |                          |
                     |                                    +-> short/extending        +-> deadLettering -> settling -> loop
                     +--- waiting <------- ending <-------+
    any of them --(failure, cancel)--> givingBack --> waiting | down

- `claiming`, `extending`, `settling`, and `Completing`/`Releasing` places hold a statement in flight.
  `until` is the instant that statement carries, computed where the code reads `now` - for the extension
  *before* the settling of the handled deliveries is awaited (`_round_once`, line 1671).
- `Claim`, `Complete`, `Settle`, `Extend`, `Release` apply the statement and continue.
  `...Fails`, `Cancel`, `CancelClaim` and `Crash` go through `MaybeEffect`: the statement took effect or not
  (a commit whose answer is lost; a commit in flight that a cancellation does not interrupt).
- `Conclude` is the loop of `_deliver` and the decision of `_handle_failures`: the next subscription gets
  a timeout of its own; after the last, the delivery joins the round's handled ones, is settled on its
  own, or first hands its dead letters to an external store.
- `HandlerFails` lets the handler's work be done or not: an exception or a timeout after a commit reached the
  database is a failure to the relay all the same.
- Failures are `error` (retryable), `poison` (`PoisonMessageError`, and under the dead-letter
  strategy an exception the policy lists as not retryable), `retain` (`RetainMessageError`), and
  `refused` (the external store refused the dead letter, so it is attempted again).

Time: an instant is the number of ticks until it comes. `Tick` lowers every countdown, down to a floor
behind which instants are not told apart. A handler at the end of its timeout is cancelled before time
passes on, unless `CommitOverrun`. All relays and the database share one clock; the code compares an instant
one process wrote with the clock of another, so skew between hosts shortens or lengthens a lease by as much,
and is left out.

### OutboxStore

Each statement of a unit is an action. A unit under READ COMMITTED sees what is committed when its statement
runs, its own writes show at its commit, and a statement that writes a key or row another unit wrote waits for
that unit (`KeysHeld`, `RowsHeld`). A publishing unit may read the groups in the snapshot of its first read
(`SnapshotReads`: MySQL, or a caller at REPEATABLE READ). `sure`, `held`, `promised`, `filled`, `settled`, `gone`
are history variables for the properties.

Two assumptions come from the documentation. A group is unregistered once it stopped consuming, so
`UnregisterConsumers` waits until its relays are down (`src/docs/modules/events.md:440`). And the relays of a
group that register *at once* are configured alike (`Uniform`); the run `StoreMixed` drops this one, because
the docstring of `register` speaks about nodes that differ.

`Named[e]` are the groups an event is addressed to (`append(..., groups=...)`), `Private` the destinations with `ADDRESSED_DESTINATION_PREFIX`, under which
event sourcing addresses its events. `_backfill` cannot see who an event was addressed to, and for a group that registers every destination leaves out those with the
prefix. Events and destinations may go together in any way, and `BackfillExact` says what comes of it: a backfill gives nobody an addressed event whose destination
has the prefix and is registered nowhere by its name, and finds every other event a publish would have owed the group (`LooksUnaddressed`). Where the destination does not tell, it goes
by the destination: the audit journal addresses its export with `groups=[EXPORT_GROUP]` to the destination `EXPORT_GROUP`, without the prefix
(`src/src/pyfly/audit/sql.py:263-276`), and a new group that registers every destination from the earliest event on is owed the exports that
wait, against the comment in `_backfill` (`outbox.py:720`). And an event that somebody published to a prefixed destination, addressed to nobody, is not found; nothing in the repository does.

### OutboxContract

An event is owed to every matching subscription from the commit of its publishing unit; a
subscription stops being owed it for good, and only once accounted for. `OutboxRelay` maps `owed[e]` to
`Matching[e]` minus what the row names done (nothing once the row is gone), and `accounted[e]` to the
subscriptions that handled the event, were let go by `ignore`, or are in the dead letters.
That owed sets only shrink says that no give-back, late settle or second claim ever brings an obligation back.

### SagaEngine

`task[s]` is what the task of a step awaits in its layer (its start behind the concurrency limit, its body, a pause between
attempts, the report of its result to the events port) and `request[s]` the cancellation it has not yet heard. `orch` is what
`_run_layer` waits for: the layer (`running`), the tasks to end after the first failure (`failing`) or after the
caller's cancellation (`cancelling`). A body ends in any way with its unit of work committed or not (`Took`), and the engine may or may not
see a commit (`Heard`, `Noted`): `effect` counts what the database kept, `committed` is what `SagaContext.note_committed` recorded.

Compensation is a sequence of `groups`, the first at work: singletons for the sequential policies, one layer for
`GROUPED_PARALLEL`, everything for `BEST_EFFORT_PARALLEL`. A group is empty where nothing in it is to be undone, and `Undoing` passes the empty ones by, as
the loops of the compensator do with `continue`. `comp[s]` is where a step's compensation is, the
telling of the events port included, for the port may fail after a compensation succeeded. `recover_stale` is a second process that
reads the record and marks it later; a dead engine is a behaviour in which only it moves.

### TccEngine

`phase` and `place` say which participant's call is awaited; `try` its attempt; `tried` is `tried_ids`; `todo` is what is left of
the cancel phase and `after` what follows it (the next participant after an optional one was released, the failure, the caller's cancellation).
`reserved`, `confirmed` and `released` count what the participants' units committed. The cancel phase
runs under `run_shielded`, and so does `_finish`: `CallerCancelsTcc` is only remembered in `told`. `outcome` is what the phases came to, `answer` what `execute` returned
or raised in the end (`TccFinishes`, `TccFinishFails`): a cancellation first, be it of `_finish` alone, then an error of `_finish`, then the result.

So an exception does not say what happened. The docstring (`tcc_engine.py:79`) says of a `CancelledError` that the participants were cancelled and the
failure recorded; a caller that cancels while a TCC finishes that confirmed everything gets one, and everything stays confirmed, recorded as completed. `AllOrNothing` says what the code does.
`SagaEngine.execute` ends in the same way (`saga_engine.py:97` against 175-182): a saga that succeeded may raise a `CancelledError` with nothing compensated.
`SagaEngine` does not model what `execute` raises: `result` is what the execution came to, and the record what was marked.

### UnitOfWork

`opened` numbers the nested scopes. `levels` is the connection: a function from the numbers of the savepoints that are open on it (0 for none) to the writes
made on top of each. `savepoints` is the unit's own list of them, a set of numbers with owners, for the order of the list is that of the numbers.
The two are kept apart because the hazards are where they disagree. `guard` is the operation that has the
connection, `frames[t]` the nested scopes a task is in, `heldBy[c]` the context a child task copied from its parent
(`_HELD_SAVEPOINTS`). `mark` is `rollback_only` with the depth it was set at (0: outside every savepoint). A nested scope
ends in steps - the check that no other task's savepoint is in the way, the operation, the RELEASE or ROLLBACK TO, the
bookkeeping after it - and other tasks run between any two.

### LeaseLock

`until`, `fence` and `holder` are the row; `held[n]` the entries of a node; `stmt[t]` the statement a job has in flight with the `now` it was computed
from. `TakesUnheard` is a statement whose answer is lost; `NotKept` an acquire refused after its statement since the node stopped meanwhile.
`trust[t]` is what the job was told. One clock for all nodes: `LeaseLock` compares instants nodes computed (`self._clock()`), so
skew between hosts shortens the lease by as much, and is left out as for the relay.

### EventStore, EventStream

A writing unit reads the version (`ReadsVersion`, one statement with the guard of `xid8`), inserts (`InsertsEvent`, the unique
key decides between two units) and ends; its rows are in `own[u]` until it commits them to `table`. With `head-row` a committed event
has position 0 until a reader numbers it. A numbering round is one action (`RoundCommits`), for it
holds the head row's lock from its first statement to its commit and acts only on committed events, which no one else changes; what
happens *after* the commit, when the lock is free and the task brings its store's list up to date, is another
(`AccountsFor`), and other rounds of the same store may run between the two. `RoundBreaks` is a round whose commit has no answer:
the positions may be there, and the list does not know. A list is kept by its `id` and what is `left` of it. `missed` holds the events
that wait when a round tells its reader there are no more, so the contract can say there are none.
`InsertedBy(u)` is what a unit has inserted and not committed; `InLine(S, Before)` puts a set in the order an `ORDER BY` gives it.
With `xid8`, `xid[u]` is taken by the check, ordinals follow, and a reader sees what is below the `Horizon`.

`EventStream` is the seam between the store and the projections. `EventStore` is shown to implement it
(`KeepsStream`); `ProjectionRunner` assumes it, and can so be small: its events are numbered by their place in the stream.

### ProjectionRunner

`doing[r]` is what the task awaits: the lease, the checkpoint, a page, the statement that claims the batch, the handlers, the commit.
`position[r]` is what the runner believes, `checkpoint` what the row says, `rowLock` the unit that has moved the row and not ended. The
handlers write inside that unit, so `readModel` changes with its commit. A commit may take effect without an answer (`CommitFails`), a task may end in
the middle of it (`LeavesBehind`, after a cancelled `stop()` or a crash). `stuck` is an event that
never succeeds, in its handler or at commit (`stuckAt`); any event may fail now and then (`EventRaises`). `origin` is a history variable.

### KafkaListener

A member has two tasks that share the container's fields: the consume loop (`task[m]`: what it awaits) and the client's coordinator, which calls
`_on_revoked` (`rebalance[m]`: `waiting` for the record in flight, `telling` the broker what is done, `joining` the next generation). `batch[m]` is
what is left of the poll, with the record in flight first; `GoesOn` is every way to the next record, with the check of `_owns` and of `_stopping` that
the loop makes there, and `EndsPoll` the commit after the last one. `Polls(m, due)` fetches after the partitions of `due` were resumed; `From` is what is left of a poll when a
partition goes, in its order. `pending` is `_pending`, `sent` and `told` the commits in flight; `failures`,
`recovering`, `resumes` are `_failures`, `_recovering`, `_paused_until`.

The broker and the client are external and modelled by what the container relies on. A rebalance is eager: every member gives up what it has and
joins, and the broker assigns when all it counts have. A commit is refused once its generation is over (`fenced`, `m \notin group`). A member may be put out of the group
without hearing of it (`Evicts`). `holds`, `position` and `paused` are the client's.

`handled`, `passed`, `reached`, `awaited` and `overran` are history variables; `overran[m]` says that a rebalance did not wait for what `m` was doing, because
the shutdown timeout was over or the broker had put it out, until nothing of it is left to be committed.

### QueuedBulkhead, CircuitBreaker

A waiter whose future was set has been *granted* a permit and has not resumed; in between it may time out or be cancelled
(`GivesUpGranted`). The breaker's callers hold a call while the breaker moves on: `Succeeds` and `Fails` report to whatever
state it is in by then, and `Vanishes` is a call that reports nothing - cancelled, or ended by an exception
that is not expected.

## 3. What the runs check

| Run | States | Instance | Shows |
|---|---|---|---|
| `RelayDelivery` | 487 k | 2 relays, 1 event, 2 subscriptions, 2 attempts by policy, 3 claims, 1 fault, statements that take a tick | leases, fences and retries; the contract |
| `RelayBatch` | 606 k | 2 relays, 2 events in one claim, the second with 3 subscriptions, 2 faults; a row is claimed again only after it was given back | lease extension, batched settling |
| `RelayExternal` | 1.0 M | external dead letters; 3 strategies; retained failures | the contract when dead letters are refused and rows are retried often |
| `RelayLiveness` | 97 k | fair scheduling; a delivery whose worst case (4) is above `claim_timeout` (3); 2 faults; up to 6 claims | events are settled, stops end |
| `StoreUnits` | 184 k | the outbox: 2 nodes of one group, 1 event, 2 sets of destinations, snapshot reads; the event store: 2 units, 2 aggregates, 3 events, 2 stores, 2 readers, batches of 1 and lists of 2, a clock of 2 values, both strategies | what is owed stays owed, and once; the stream every reader relies on |
| `Consumers` | 439 k | Kafka: 2 members, a partition of 2 records, polls of 2, 2 attempts, 1 mishap, groups that start at the earliest or the latest record; the outbox: 2 groups that register every destination, 2 events: one for an included group, one addressed | records are settled in order, none is passed over; backfill agrees with append |
| `Transactional` | 555 k | a saga of 3 steps in 2 layers, 2 attempts, every policy, a limit of 1 or none, one recovery; a TCC of 4 participants, one optional and one without a cancel, 2 attempts; 2 runners of a projection, pages of 2, 2 events, the second one stuck or none, 1 mishap | the promises of both engines; a read model that is the stream, and catches up |
| `Guards` | 1.7 M | a breaker with 3 callers, both trip rules; a bulkhead of 2 permits and 2 waiters with 5 callers; a lease of 3 jobs on 2 nodes; a unit with a root and 2 child tasks, 2 nested scopes | what concurrent tasks share is shared correctly |
| `RelayOverrun`, `StoreMixed`, `StoreUnregister`, `UnitParticipant` | | | findings, below |

Properties of the relays:

- `RunsWithinLease`: the rest of the handler's timeout and the timeouts after it fit in the rest of the lease.
- `LeaseHolds`: while its lease lasts, a round owns the rows of everything it holds, and they come due when it ends.
- `ExclusiveHandling`: two relays run handlers of one delivery together at most at the very instant the last
  handler of one of them is timed out.
- `DeadLettersFinal`: with the outbox's own table a dead letter is written once, and not run again under a lease.
- `BoundedRetries`: claims, give-backs and lost leases in any order grant no more than `max_attempts - 1` retries.
- `KeepsContract`: the refinement of `OutboxContract`. That nothing is lost is part of it: what a subscription is owed ends only when it is
  accounted for.
- `EventuallySettled`, `StopEnds`: liveness.

Properties of the store: `DeliveriesKept` (`OwedUntilSettled`: a committed event stays, and stays owed, to every group
registered since before its unit read; `OrphansAreBackfilled`: a delivery outlives its event only in the race `claim` drops),
`BackfillExact` (`BackfillComplete`: a new `earliest` group is owed what a publish would owe it; `AddressedOnly`: and no
event whose destination says it is addressed), `OwedOnce` (what a group settled is not owed again).

Properties of the listeners: `NothingSkipped` (everything before a committed offset, and everything before the record that runs, was handled or
dead-lettered), `RunsAtOneMember` and `CommitsForward` (two members run records of one partition at once, or a committed offset goes back, only
where a rebalance did not wait), and the liveness `EveryRecordSettles`. Two things the properties leave room for, and the code does: a member whose record
outlasts a rebalance, and that is given the partition again before the loop comes to its commit, commits the offset of that record over a
later one the group has reached; and a group with `auto_offset_reset=latest` that has not committed an offset yet passes over the records
that came before its members died, stopped or rebalanced (`passed`).

Properties of the saga: `WorkOnce` (`CommittedOnce`: no retry after a commit; `UndoneOnce`), `DependenciesKept` (`RunsOnItsDependencies`, `UndoneInOrder`), `CompensationSeesAll` (once the
execution failed nothing runs on, and everything that committed is on the list), `CompensationComplete` (`FailedSagaUndone`, and
`SettledBeforeEnd`: only a layer undone in parallel leaves a compensation running past the end, which the code does,
`compensator.py:133`), `RecordHonest` (only `recover_stale` writes a FAILED that is not true), and the liveness `SagaSettles`.
Of the TCC: `PhasesOnce`, `AllOrNothing` (everything is confirmed or everything released; what `execute` returns, and a record that was marked, says which; an exception does not), `ConfirmedTogether`.

Properties of what tasks share: `MovesOn` (a half-open breaker that rejects every call has a trial in flight, unless trials
vanished: a cancelled trial takes its slot with it, `circuit_breaker.py:102`, and with the last one the breaker rejects for good),
`PermitsConserved`, `NoIdlePermit`, `LeaseKept` (one job relies on the lease, and the row agrees for as long),
`OpenScopeNeverCommitted` and `UndoneByOwnScope` (a unit that commits keeps no work of a nested scope that has not ended, and no
savepoint's rollback undoes what another task was told had succeeded).

Of the event store, `KeepsStream`: the refinement of `EventStream` - no event appears before one a reader may have passed, positions
never repeat or change, an aggregate's events are in sequence, and no round says "no more" over a committed event.
Of the projection, `AppliedInOrder` (the read model is the stream up to the checkpoint, each event once) and the liveness
`ProjectionCatchesUp` (it comes to the end of the stream, or stops right before an event that always fails, and
never further back: a page that fails is cut until the events before the bad one are applied).

**Bounds, and why they are enough.** Two relays: statements act on the rows of their own claim, so a violation
needs one relay that acts late and one that overtakes it. Two subscriptions give every mixed outcome
of a delivery; three give one whose worst case outlasts a fresh claim's lease, together with a smaller one.
`HandlerTimeout = 1` and `ClaimTimeout = 2` is the tightest setting the constructor accepts that lets two
subscriptions fit. In `RelayLiveness` (2 and 3) two do not fit and one does, so a first attempt goes through an extension and a retry of one subscription may not.
No run has a round that yields to a fresh claim (`Yields`): the safety of that is in the proofs. `Latency = 1` tick, in `RelayDelivery` and `RelayLiveness`, lets a claim return after its lease began to run; in `RelayBatch` and `RelayExternal` statements take no tick, and
leases run out while handlers work. `AttemptBound` and
`MaxFaults` cut runs: a row claimed that often is not claimed again, and at most that many stops, crashes and failed
statements happen. Two faults (`RelayBatch`, `RelayLiveness`) let the repair of one fault fail; a policy of two attempts under three
claims lets a crash spend an attempt. `RelayBatch` asks what happens to two deliveries of one claim, so a claim per row is enough, and what a round gives back may be claimed once more;
the races of a late statement with a second claim are in `RelayDelivery` and `RelayExternal`. All of these bounds only limit the runs: the safety properties of the relay
are proved for any number of faults, claims and subscriptions and any latency (section 4). In the store, one event and two nodes suffice for every race of two units on one
row; a second event and group separate included from addressed events. `Strategies` and `Failures` are split over the runs
since they do not interact: each strategy has a run whose properties concern it.

In `Transactional`, two parallel steps give the first failure of a layer something to cancel, and the third depends on one of them: a layer
before and a layer after. Two attempts let a commit fall in one and the retry in the next. Four participants have one before and one after the
optional one, and one whose cancel is missing. A recovery sweep may come in every execution of the saga. The two engines share no state, so a behaviour of the run is one of either, and so are those of
`Guards`, where `MaxScopes` bounds the nested scopes of a behaviour, `MaxClock` the instants (0 to 2, so that a lease of one ends and is taken again) and `MaxFence` the takeovers of a lease. Child tasks of
the unit are symmetric (`MCSymmetry` of `MCGuards`; no liveness is checked there). `MCConstraint` does not follow a unit that can only roll back any
further: its properties are about what commits, and the states it cuts commit nothing, but for a unit whose commit was decided before an operation in flight failed. The proof needs no such constraint.

Two units and two aggregates let a unit that began first commit last, on its own aggregate or on the other's. Three
events with batches of 1 and lists of 2 give a list with a rest, a list that is full, and an event behind it; two stores, and two readers of one
store or of two, give a list that another store, or another round, has overtaken. A clock that may say 1 or 2 at every insert
steps back as often as it likes. In the projection a page of two of which the second event breaks is the smallest page to
cut. A mishap is a failure, stop, crash or rebuild, and one is allowed; that the repair of a mishap may fail as well is in the proof, which
bounds none. The runner's events are
two, since all it knows of the stream is how long it is.

Two members and two records are the least for a poll in which a record fails before another, and for a partition that goes from one member
to another and back. Members join one after the other, and what joins rebalances the group; the one mishap (a failed commit or publish, a stop, a crash, an
eviction, a rebalance for another cause) comes on top of that. One partition suffices for properties of one partition each; `SetToSeqs` and
`AllButPartition` matter with two.

**Fairness.** `FairSpec` has weak fairness of every relay's own steps and of time: the event loop schedules
tasks, statements return (drivers have timeouts), a process that died is started again by its supervisor, the
clock runs. No fairness is assumed of how a handler ends, of publishing, stops, crashes or failures. `Prompt` makes the
statements and the decisions of the loop take no tick: a relay always slower than its lease never starts a
delivery. With two subscriptions and a `HandlerTimeout` of 2 a delivery's worst case is 4, and `ClaimTimeout = 3` below it: no fresh claim covers the
delivery, and a round extends its lease before it starts. It is settled in the end. With `ClaimTimeout = 4`, exactly the worst case, it need not be: a round whose
lease has lost any time extends it before its first delivery, and meanwhile another relay may claim
the row and do the same, so two relays can take turns for good. The constructor only requires `claim_timeout` above one
`handler_timeout`, and the observation is for anyone who sets it with no margin.
`SagaSettles` assumes weak fairness of the engine's own steps (`SagaStep`), which include the end of the bodies it awaits: a step, a compensation or a port that
never returns keeps a saga for good, and the code bounds that by the timeouts a user sets. No fairness is assumed of the caller's cancellation, of a step that cancels itself, or of recovery.
`ProjectionCatchesUp` assumes weak fairness of each runner's own steps (`RunnerMoves`: statements return, handlers return or
raise, a process that is down is started again by its supervisor) and that the lease of a runner that is down, or
does not know it has one, ends (its ttl). It assumes nothing of failures, stops, crashes and publishing, nor that a live runner's
lease ever ends.
`EveryRecordSettles` assumes weak fairness of each member's loop and coordinator (handlers return or raise, a back-off ends, a process that is down
is started again) and of the broker (sessions of the dead end, a generation everyone joined is assigned). It assumes nothing of failures, stops, crashes, evictions, rebalances and producers; their
number is bounded, since nothing settles in a group that rebalances for good.
`AttemptBound = 6` is never reached under two faults and two attempts, so it cuts no behaviour of this run.

**Findings** (`PROJECT.json` quotes the lines):

1. `RelayOverrun`: the module documentation says no delivery runs past its lease while its relay lives. A handler's timeout
   does not interrupt a commit in flight, which is shielded, and so may outlast timeout and lease.
2. `StoreMixed`: the docstring of `register` says that nodes registering different destinations at once still
   owe each event once. Nodes that insert different keys do not wait for each other, both find the
   group new, and the later backfill owes the group again what it settled in between.
3. `StoreUnregister`: the docstring of `unregister` says nothing is owed to the group any more. A publish that read the
   groups before and commits after leaves a row of a group nobody serves, which keeps its event from the sweep.
4. `UnitParticipant`: the documentation of the unit of work says a participant that fails marks the unit rollback-only, so that the
   outermost boundary rolls back. The mark is set at the depth of the innermost savepoint, whichever task opened it. When a
   sibling task is inside a nested scope, the participant's failure undoes the sibling's scope, which had succeeded, and
   the unit commits what the failed participant wrote.

## 4. What is proved

Every theorem holds for all values of the constants the named assumptions of its module admit.

`OutboxRelay_proof` proves, for any finite sets of events and subscriptions, any set of relays, any settings the constructor
accepts and any bounds (`RelayAssumption`, `SettingsAssumption`, `BoundAssumption`, `NullAssumption`):

- `TypeCorrect == Spec => []TypeOK`
- `LeasesHold == Spec => []LeaseHolds`
- `HandlersInTime`: `RunsWithinLease`, when no commit outlasts its handler's timeout (`~CommitOverrun`)
- `HandlingIsExclusive`: `ExclusiveHandling`, under the same condition

The inductive invariant, part by part:

1. `TInv`: `TypeOK` and `ClaimCounted` - a claimed row has at least one attempt. `release` subtracts one,
   so without it the type of `attempts` is not inductive; the fence `Mine` is what makes it hold.
2. `Shape`: what a place says about the task's locals, and that the queue, the handled events and the
   delivery in flight of one round are disjoint. A statement about one delivery then leaves the rows of the others alone.
3. `RowsPublished`: an event not published has no row, so a publish overwrites none that a round holds.
4. `LeaseInv`: the claim of every row a round holds, with `available_at` equal to the lease. Its core is
   `EffectsOnOwnRows`: a statement of one relay changes a row of another's claim only if the row is due, and
   a row under a running lease is not due.
5. `InTime`, for the timeouts: `StartDelivery` requires the worst case within the lease, the end of a
   subscription takes exactly one timeout off, and a tick lowers both sides.

`HandlingIsExclusive` follows: both rows would be the same row carrying two claims, unless one lease has ended, and by
`RunsWithinLease` then only an instant of its last timeout is left.

`OutboxContract_proof` (the same assumptions): `KeepsContract`, `BoundedRetries`, `DeadLettersFinal`. The invariant `ContractInv` has two halves. `LedgerInv` is about a row: what it names
done, and whatever has no row any more, is accounted for (`RowKnown`); the retries the policy granted, and the claim that holds the row, are at most the row's attempts
(`RetriesCounted`); with letters in the outbox's own table a subscription gets at most one, and its row then names it done (`LettersFinal`). `Carries(r)` is about what a relay holds in its hands between two statements: while
its claim lasts a delivery says what its row says (`AsClaimed`), what a delivery need not run again is accounted for (`Known`), the deliveries it calls handled are wholly accounted for, and the matching subscriptions of the delivery in flight are
done, failed or still to run (`InFlight`). Every statement of a relay is then shown to be `Lawful`: it keeps the ledger, takes nothing off the accounts,
leaves what other relays carry alone, and owes an event to fewer subscriptions only when those are accounted for (`SettlesOnly`). The refinement is read off this last part.

`OutboxStore_proof` (any groups, nodes, events, destinations, with or without snapshot reads): `TypeOK`, `DeliveriesKept`, `BackfillExact`, `OwedOnce`. `OwedOnce` has a
hypothesis, which is what the documentation assumes: `Uniform`; `StoreMixed` shows that it fails without.

- `KeepsInv`, for `DeliveriesKept`: units write only events of their own and for groups they read (`OwnRows`, `WantsAllowed`), every group that was registered before a unit read
  is among them (`SureOwed`), and nobody is sure of what a sweep is to delete as delivered; rows that commit after it has read are a registration's (`SweptUnowed`).
- `FillsInv`, for `BackfillExact`: a registration has a row for each event it holds and can find once it has backfilled (`HeldFilled`), and addressed rows go
  only where they are addressed, or where a backfill that could not tell put them (`AddressedRows`).
- `OnceInv`, for `OwedOnce`: the registrations at work on one group want the same keys (`WantAlike`), a group that is being unregistered registers nowhere (`NoneRegisters`), nobody writes a key that
  another one wrote and has not committed (`KeysApart`), and what a registration is through with is registered or is once it commits (`KeysComing`); so the one that found the group new is alone with it (`StillNew`, `FillsNew`), and a new
  group has settled nothing.

`SagaEngine_proof` (any steps whose dependencies have no cycle, any steps without a compensation, any limits, attempts, retries and thresholds, every policy): `SagaTypeOK`, `WorkOnce`,
`DependenciesKept`, `CompensationSeesAll`, `CompensationComplete`, `RecordHonest`; every safety property the run checks.

- The layers come first. `Reached` is a recursive function, and `ReachedIs` proves that it satisfies its own equation: a sequence of sets that follows the layers as far as `n` exists and is unique, by
  the smallest `n` for which it would not (`Smallest`, from the well-foundedness of `<` on the naturals). From it: layers grow, every step is in one, and after the steps it depends on.
- `StepsInv`, for the way forward: `StepOK(s)` ties a step's task, its status, the list `committed` and what the database kept (no attempt begins, or is repeated, on a commit;
  what is done is listed); `StageOK` says where the execution is, with `InLayer(n)`: the layers before `n` are done and those after it have not begun;
  `CommittedInOrder`: a step is listed once, after the steps it depends on; and `RecordOK`.
- `QueueOf(gs, p)` is what the three ways to build the groups have in common (`GroupsAre`): they hold each committed step that can be undone once, and under every policy but the parallel best
  effort a step before those it depends on. For the sequential policies this is `CommittedInOrder` backwards; for the layers it is that `Reached` grows.
- `CompInv`, for the way back: `GroupsOK` and `QueuedInOrder` keep that of what is left of the groups; `RunningOK` says a compensation at work is of the first group, or was left by a failed
  layer; `UndoneOK(s)` counts; `AllAccounted` says of every step whose work is to be undone that it is queued, was passed, or was given up (`GivenUp`, with the reason the policy has);
  `StreakCounted` bounds `consecutive_failures` by the compensations in error, without which the circuit breaker could give up too early.

The proof attempt found one thing TLC had not: `LayerSettles` was a `CASE` with overlapping guards, of which TLC takes the first and TLA+ any. Its alternatives are now
exclusive, as the `if`s of `_run_layer` are.

`Engines_proof`, of the TCC (any sequence of participants, any of them optional or without a cancel, any number of attempts): `PhasesOnce`, `AllOrNothing`,
`ConfirmedTogether`. The properties speak about the end of a TCC, so the invariant `TInv` says what holds on the way: `Ledger` (no phase counted twice, nothing
confirmed or released that was not reserved), `TriedUpTo(n)` (while the participants before place `n` were tried, exactly those are listed whose try
was seen or needs undoing), `AllHeld` (whatever is reserved and can be released is listed in `tried`, and has not been released), `ConfirmedUpTo(n)`
in the confirm phase, and `Cancels` (in a cancel phase, what is reserved and not released is still in `todo` or failed). `Told` then says which answers and records each outcome allows. Small lemmas about
sequences without repetitions (`Head`, `Tail`, `Reverse`, appending) carry the lists.

`Guards_proof`, of the lease (any nodes and jobs, any ttl): `LeaseKept`. The invariant `LInv` says that a fence names one acquisition: entries of all nodes with the same fence are one
entry, none is beyond the row's fence, and a job that trusts an acquisition has the entry with its fence as its last one (`Consistent`). A statement moves the
row only under its own `locked_by`, or once the row is over, and then nobody relies on it any more.

Of the bulkhead (any callers, permits, places in the queue): `PermitsConserved`, `NoIdlePermit`. The queue holds each waiting caller once (`QueueOfWaiting`), and is
empty unless every permit is out (`FullBehindQueue`); the permits are counted by cardinality lemmas about one caller changing place.

Of the breaker (any thresholds and callers): `MovesOn`, from `ProbesAccounted`: the probes counted, plus the successes of earlier calls counted as probes, are
the trials in flight, the successes, and the trials that vanished.

Of the unit of work (any root, children and number of nested scopes): `OpenScopesStayOpen`, `RollbackUndoesItsScope`. `UInv` has three parts. `UShape` is what holds whatever becomes of the
unit: who has the guard and where the tasks are (`Guarded`, `Placed`), that no scope, savepoint or write has a number not given out yet and a task's scopes are in the order they were opened
(`Numbered`, `WritesNumbered`), and that a savepoint has one owner, whose children hold it only below their own (`Owned`). `LiveOK` says how the unit's list and the connection agree, and
holds only as long as the unit may still commit (`MayCommit`): a poisoned unit, or one marked outside every savepoint, has lost the connection's state for good, and an invariant without
that condition is not inductive. While it may, the open scopes are exactly those of the savepoints, and the connection has them (`Opens`); a task that holds a savepoint is in its
scope, and holds those below it (`Holds`); an operation in flight runs in savepoints its task holds, and one that ends a scope is on top (`OnTop`); a write is under exactly the open
savepoints up to the one it was made in (`Inside`). Last, `CommitOK`: once the commit was decided, nothing that is on the connection is under a scope that is open.
`RollbackUndoesItsScope` is `Inside` and `OnTop` together: what a ROLLBACK TO takes away was made in the scope it ends or on top of it, and everyone who could have been on top holds that savepoint.

`GuardsTypes` is the type invariant of the run `Guards`, from the four of its parts.

`Engines_proof`, of the projection (any runners, page size, stream and number of mishaps, with or without the lease): `ProjectionTypes`, `ProjectionAppliesInOrder`. The
lease plays no part in the proof, and the code says as much: it is the claim, `UPDATE ... WHERE position = :expected`, that keeps two
runners apart. The invariant `PInv` adds to `AppliedInOrder` that a unit that has moved the row holds its lock and began
where the checkpoint still is (`HoldsRow`), that its page ends beyond it (`HasPage`), and `FromOrigin`; with them a
commit appends `Span(checkpoint, target)`, and `SpansJoin` makes one span of the two.

`EnginesTypes` is the type invariant of the run `Transactional`.

`KafkaListener_proof` (any members, partitions, lengths, size of polls, attempts, start positions and mishaps): `ListenerTypes`, `NothingIsSkipped`, `RunsAtOne`, `OffsetsGoForward`. The broker and the client
are those of the model, so the theorems are about the container as far as it may rely on them. `KInv` holds of every member (`MemberInv`) and answers three questions.

- *What is behind an offset.* Everything before an offset that is committed, or that a member is to commit, is over: handled, dead-lettered, or never asked for (`Behind`, `SkipsNothing`). A record of a poll
  comes right behind the one before it, or has everything behind it over (`InOrder`); what the client has fetched of a partition the member still has is over or in the poll. A record that fails
  pauses its partition and takes the rest of it out of the poll (`AllButPartition`), so the next record of the poll is of another partition, or nothing was left out before it.
- *Whose a partition is.* `OwnsByTurn` follows the eager rebalance: what a member has assigned, revoked and told the broker in each of its places. A partition is claimed - held, or in a commit
  that is not fenced - by one member of the generation (`OneClaims`), and what a member runs is its own until a rebalance did not wait for it (`RunsItsOwn`).
- *Which way the offsets go.* The records of a partition follow each other in a poll (`InRuns`). The offsets a member may still commit are not behind the committed one, and are one offset (`Ahead`); what it runs
  and fetches is ahead of them (`RunsAhead`). Both hold until a rebalance did not wait for the member (`GoesForward`), which is the exception that `RunsAtOneMember` and `CommitsForward` name, and the proof
  shows that there is no other.

`ConsumersTypes` is the type invariant of the run `Consumers`.

`EventStore_proof` (any units, aggregates, stores and readers, any clock, any sizes of batches and lists, both strategies): `EventsKeepStream`, the refinement of `EventStream`, and `StoresTypes`, the type invariant of
the run `StoreUnits`. The number of events is bounded by `MaxEvents`, any positive number; a transaction has that many ordinals and one more, for `_reserve_ordinals` (`store.py:617`) refuses to give out more than there are. The parts of `EInv`:

- `Sequenced`, for what units insert: an aggregate's events are numbered from one without a gap, each number once, in the table alone and together with a unit's own rows (`Dense`, `UniqueKeys`, `Continues`); no two
  units have rows of one aggregate in flight (`OneWriter`), which is what the unique key and the wait behind it come to.
- `Transactions`, for `xid8`: a unit's positions are in the range of its transaction id and in the order of its inserts (`Ordinals`), ids are not shared (`OwnXids`), and positions rise with an
  aggregate's sequence (`Rises`), to which the guard `OutOfOrder` is essential. So what a running unit inserts is at or above the `Horizon` (`AboveHorizon`), the `Horizon` never falls (`HorizonGrows`), and a commit
  shows nothing before an event that a reader may have passed.
- `HeadRow`, for the other strategy: what has a position has one of its own, at most `head`, and behind those of the aggregate's earlier events.
- `ListsKept`: a list of any store, or of any round that has not accounted for its commit, names committed events, each once, and none before an earlier event of its aggregate that waits (`ListOK`).

A numbering round needs more than the invariant. What it gives positions to is `Batched`: waiting events, each once, and none before an earlier one of its aggregate that waits; the positions behind `head` then keep `HeadRow`. A
fresh list is in the order of `PlacedBefore`, which keeps each aggregate's sequence whatever the clock said (`FreshIs`). The first batch of a list with something to number
is `Batched` because everything the round passed over is numbered (`FirstBatch`, `BatchIsBatched`). A list stays one to number from when another store or round numbers (`ListsStayOK`), and when a round has taken its batch off
(`RestStays`). A round that says there is no more has numbered all that waited (`SaysNoMore`): either its list named everything, or a list was read anew. From `EInv` the refinement is two lemmas about rows in the order of distinct positions:
such a row has all earlier events of its aggregate before it (`StreamInOrder`), and rows that come in above those that were there add to the end of the stream (`StreamGrows`).

Every safety property of the passing runs is so a theorem: the invariants, the action properties and both refinements. **Only model-checked** are the liveness properties (`EventuallySettled`, `StopEnds`, `SagaSettles`, `ProjectionCatchesUp`,
`EveryRecordSettles`): they need fairness and `ENABLED`, which are out of the prover's reach. The four runs that expect a violation have nothing to prove. No theorem composes the components: that the projection may
assume `EventStream` is what `EventsKeepStream` shows of the store, and the place where the two meet is the text of section 2.

`KafkaListener`, `UnitOfWork` and `EventStore` have been put so that they can be reasoned about: a set with numbers for a list, a function from scope numbers for a stack, an order by
counting what comes before (`InLine`) for one by choice among permutations. What they allow is what they allowed.

## 5. What is not modelled

Of the relay: audit recording (`_audited_invoke`, `_strict_recorder`), a relay without a handler timeout,
`run_once` outside the loop, round hooks, a statement that joins a unit the caller holds, a statement that ends in a
cancellation nobody requested, and the reads that count and list. Of the store: requeueing and deleting dead letters, statistics, table
creation, SKIP LOCKED (a claim takes the due rows in order; a row another claim holds locked is passed
over, which is a claim that ran a moment later). `available_at` and `outbox_id` order a claim; ties at the floor
of past instants are left open. The MongoDB store and the forwarder are not modelled. 

Of the saga engine: arguments, results and their injection, `compensation_retry = 0` (the compensation is then skipped without an error: `range(1, 1)`, `compensator.py:149`),
backpressure other than the layer limit, crashes of the persistence port other than a mark that is not written, and the workflow and composition engines built on it.
Of the TCC engine: the phase it persists, and `recover_stale` marking TCC records.
Of the unit of work: the propagations other than joining, nested and outermost; suspension; synchronizations (one registered by a
`before_commit` callback while `run_before_commit` runs is not called); automatic units; `session.begin_nested`; streams; timeouts; a ROLLBACK TO that fails and loses the connection.
Of event sourcing: the in-memory stores, `load` and snapshots, upcasters, the aggregate repository, publishing through the outbox; the cursor by event id of earlier releases
(`_loop_by_event_id`); settling the strategy, and numbering an earlier release's rows at start with `xid8`; a head row that something
outside the store moves (`_HeadRowMoved`). `stream_all` numbers only when the page needs it, and pages are cut at a limit: a
round is here possible whenever an event waits, and `Stream` is what all the pages make together. When an event was
recorded is forgotten (0) once it is numbered, for nothing reads it again. The handlers of a page are one action, and the sleep between
two rounds of the loop the time spent at `looping`.
Of the listener container: RabbitMQ; a container without a group (nothing is committed), one without a dead letter (the record is skipped as if it was kept), one that waits until it is `ready`;
`RetainMessageError` (attempted for good), a poll that fails (a pause), an error of the container itself (`listener_delivery_error`), a drain that cannot be confirmed (`UnconfirmedDrainError`); cooperative rebalances; a member that
joins while its earlier incarnation's session lasts (the broker waits for the session's end first).
Of scheduling: the scheduler around the lock. Of resilience: the rate limiter, retry and time limiter.

The components of section 1
that have no module are listed with their reasons in `PROJECT.json`.

## 6. Plan

1. The RabbitMQ container, `UnitOfWork`'s suspension and
   synchronizations, and the abstract all-or-nothing unit it implements.
2. Event sourcing: publishing through the outbox, the projection composed with `EventStore` itself on a small instance, and the theorem that the projection over the store's
   `Stream` applies it in order.
3. The outbox's two models joined: that the rows `OutboxStore` settles in one step are those `OutboxRelay` settles in many.
