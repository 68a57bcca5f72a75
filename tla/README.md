# TLA+ models of effect-view-server

Effect View Server keeps rows of topics in memory, fed by sources (Kafka, gRPC,
TCP publishers, or the application itself), and lets clients subscribe to
queries over them. A subscription starts with a snapshot and continues with
deltas; its client holds a live window of rows that follows the server's.

These modules model the parts of the system where interleaving, ordering and
incremental bookkeeping make mistakes easy and tests rare: how mutations,
subscriptions and the engine's life cycle share a topic, how the result of a
query is kept up to date without evaluating it again, how a delta becomes the
same window at the client and in a grid, how sources are run, retried, leased and
stopped, where a Kafka source reads from, and how health is pushed. TLC checks
them on small instances. TLAPS proves every safety property that a passing run checks, for
every size of the system: the barrier, the topic store and its journals, incremental
queries and their deltas, the client and its grid, the life of sources, their retention,
leases and Kafka offsets, and pushed health.

## The system

| Component | State | Operations | What is hard | What makes it correct | Here |
|---|---|---|---|---|---|
| Engine mutation barrier (`engine.ts`) | admission gate, idle latch, counter, lifecycle permit | publish/patch/delete enter and leave; reset and close drain and run alone | interruption while waiting, a second reset, new publishers while one drains | exclusion, exact latch, every call returns | `EngineMutationBarrier` |
| Topic store, live subscriptions (`topic-store-*.ts`, `live-subscription.ts`) | rows and version, subscriber registry, two semaphores, cursor and queue of each subscription | mutate, notify, subscribe, close, overflow, reset, close | commit and notification are separate critical sections; a full queue is closed from inside a publish | no lost or repeated update, exact registry and leases, one final status, no deadlock | `LiveTopic` |
| Row change journal (`topic-row-change-journal.ts`, `topic-row-storage.ts`) | batches, pending changes, validity version, references; one per partition besides the root | record, commit, trim, retain, release, clear | limits reached in the middle of a batch; sparse versions of partitions | an answer is the exact history or "unknown" | `TopicRowChangeJournal` |
| Raw query execution (`active-raw-query.ts`) | leased windows, retained rows with lookahead, total | acquire, release, latest | the window moves past what is retained; several windows share one execution | incremental result equals the query from scratch | `RetainedWindow` |
| Grouped execution (`grouped-incremental-execution.ts`, `active-materialized-query.ts`) | groups and aggregates, journal reference | acquire, release, latest, fallback | as above, per group | the same | not modelled |
| Query deltas (`query-result.ts`) | none | `deltaOperations` | positions in a list that changes under the operations | applying the operations gives the next window | `QueryDelta` |
| Client state (`client/src/live-query-state.ts`) | rows, keys, key index, version, status | snapshot, delta, status | a delta fails half-way; versions that do not follow | all or nothing, stale until a snapshot | `LiveQueryState`, `RowSequence` |
| Remote subscription (`client/src/remote-subscription.ts`, `remote-client.ts`) | queue, retry flag, shared health entries | open, retry, overflow, close | retry against close, overflow inside the producer | one failure status per outage, closed once | not modelled |
| Source runtime (`runtime-core/src/source-runtime.ts`) | attempt state, lanes, settlement fibers, leases of feeds, owned storage keys | deliver, settle, retry, maintain, stop, lease and release | cancellation against termination, maintenance against deliveries, failed clean-up | each delivery settled once, no row outlives its lease | `SourceAttempt`, `SourceMaintenance`, `SourceLease` |
| Pushed health (`runtime-core/src/pushed-health.ts`, `health.ts`) | epochs, hub subscriptions, scheduler flags | refresh, install, subscribe, close | readings that arrive out of order, requests during a run | no answer older than its call, a request is not lost | `PushedHealth` |
| Source buffer (`source-adapter/src/source-buffer.ts`) | queue, overflow flag | emit, read | overflow of a source that cannot pause | fails once, nothing after | not modelled |
| Kafka adapter (`kafka/src`) | key leases, retention deadlines and generations, frozen and committed offsets | acquire, release, sweep, resolve, commit | an interrupted waiter that was just granted; rows renewed during a sweep; partitions that appear while lookups lag | one holder, no live row expired, no record skipped | `SourceMaintenance`, `RetentionDeadlineIndex`, `KafkaOffsets` |
| React viewport (`react/src/live-query-viewport.ts`) | active request, pending clean-ups | set window, switch, release, destroy | sinks that call back or throw, late events of an old request | only the latest request writes its sink, nothing is left in another | `LiveQueryViewport` |
| TCP publish ingress (`runtime/src/tcp-publish-socket-runtime.ts`) | sockets, counters of queued commands | accept, enqueue, work, close | counters against closing sockets | caps hold, counters return to zero | not modelled |
| Server, protocol, configuration, gRPC, test kits | little or none | handlers, codecs, types | — | — | not modelled |

Interaction: sources and publishers call the runtime core, which calls the
engine (`publish`, `patch`, `delete`, `reset`); the engine admits the call
through the barrier and runs it on one topic store. The store writes its rows,
records the changes in the journals, commits a version, and notifies its
subscribers, whose executions read the journal. Each subscriber's delta goes to
its own bounded queue, is read by the transport, and is applied by the client's
state, whose reported changes a viewport copies into a grid. A source's lanes
apply their deliveries under the runtime's lifecycle gate; leased feeds are started
by the first subscriber and cleaned up by the last. Everything runs in one JavaScript
process: concurrency is that of Effect fibers, which switch at every Effect step and
exclude each other by semaphores and latches only.

## The modules

**`SharedExclusive`** is the abstract promise of a readers/writer lock: any
number of sharers, or one owner.

**`EngineMutationBarrier`** is the class of that name. A process is one call: a
mutation (`withMutation`) or a reset or close (`withLifecycle`). `Admit` is
`tryAcquire` with the gate open, `Refuse` with the gate closed, `LeaveMutation`
the release; `CloseGate`, `BeginExclusive`, `EndExclusive`, `OpenGate` and
`ReleasePermit` are the steps of `runEngineLifecycleTransaction`. Interruption is
a step of the environment, at the places where the code waits interruptibly: at
the gate, for the permit, and for the drain. `BarrierKeepsPromise` is the
refinement of `SharedExclusive`.

**`LiveTopic`** extends the barrier with one topic store and its live
subscriptions. A mutation goes through the stages of
`runTopicStoreMutationTransaction`: `BeginMutation` (admission and the ledger's
batch), `Write` and `Commit` under the mutation semaphore, `BeginNotify`, then one
step per subscriber captured at the commit (`SkipClosed`, `TellNothing`, `Deliver`,
`Overflow`), `EndNotify` and `EndMutation`. A subscription that overflows is closed
from inside that loop (`CloseBackpressured`, `FinishBackpressure`); one that its
caller closes takes the two semaphores in the other order of need
(`LockForClose`, `CloseSubscription`). `Drain`, `Terminate` and
`UnlockTransition` are reset and close of the engine. Rows are contents of keys;
which rows changed is a function from keys, and the consumer replays it
(`Replay`).

**`TopicRowChangeJournal`** has one operator per method of the class
(`Recorded`, `Committed`, `Trimmed`, `Retained`, `Released`, `Knows`, and the loop of
`ChangesSince`) and the actions of the storage that route changes to the root
journal and to the sparse ones of partitions. A change is known by where it was written;
`batchLog` is the history the code does not keep, the batch that each version committed.
`ExactOrUnknown` compares whole batches: versions, changes and their order.

**`RetainedWindow`** is one shared execution. `Latest` is the function of that
name: a scan when the longest window changed or the journal does not know, else
`Updated`, which is `updateBaseEvaluationFromRetainedChanges`. A row is its order
field and its key; the predicate is the set `Matching`. The journal is
abstracted to what `TopicRowChangeJournal` shows of it: the exact changes, or
unknown (`Forgetful`). Positions count from 1 in this and the next two modules.

**`QueryDelta`** is `deltaOperations` with its three strategies (one row moved;
rows replaced; the general walk), as operators. Loops are recursive functions on the
number of rounds, here and in the next two modules.

**`LiveQueryState`** extends it with the client: `Applied` runs the operations and
keeps the way back, `RolledBack` undoes them, `ApplyDelta` is the delta branch of
`apply`. The environment sends the engine's events (`Event`), and others: deltas made
for another window or version, malformed snapshots, status events. A delta made for
another window still leaves no more rows than the query's limit (`StrayDelta`): all
deltas of a subscription are of one query. A batch with many structural operations is staged (`Staged`) in **`RowSequence`**, the balanced tree
with parents and sizes of `stageStructuralBatch`; what does not fit is then dropped
with the tree. The nodes are kept by the key of their row, as in the map of the code, and
their priorities may be any numbers.

**`LiveQueryViewport`** extends `LiveQueryState` with the viewport of a virtual grid
(`makeLiveQueryViewport`). `Replace` and `SetWindow` install a request and interrupt the
stream of the one before; `BeginActivation`, `RunCleanup`, `ClearSink`, `Activated` and
`NotActivated` are the steps of its `activate`, `GiveUp` is `cleanupRequest`, and `Deliver`
projects an event and copies the range it changed into the sink. JavaScript runs
each of these without a pause, but a sink that is told something may call the
viewport back, so a call is cut at every sink it tells: the variable `call` is what it has
still to do. Where the code keeps the numbers of requests, the model keeps where the
clean-up of the interrupted call's own request is (`own`), which is all `isCurrent` and
`makeSinkCleanup` tell apart. The order of several clean-ups is left open. That a
published command runs later, or at once, or not at all when another follows it, is
the behaviour of the atom behind `publish`.

**`SourceAttempt`** is the supervisor of a source (`makeLogicalRuntime`) with the lanes
of its current attempt and the settlement fiber of each. `Receive`, `TakeGate` and `Apply`
are a lane's event; `Callback` is the settlement's callback, which cannot be
interrupted, and `Promote` the effect it returns, which can. `ClaimsTermination` and
`CancelActiveAttempt` are the two sides of `makeSourceAttemptArbitration`. Interruption
is a flag, as in Effect: an interruptible wait observes it, an uninterruptible
region does not. What adapters and the engine answer is chosen freely. An item that
was rejected degrades the source for good; that a rejection publishes its status
without the gate, from what it read before, is in `SourceMaintenance` (`pending`).

**`SourceMaintenance`** composes the adapter's application state
(`kafka/server-internal.ts`: deadlines, generations, key leases, the sweep), the
transitions of the SDK (`source-adapter/server.ts`) and the runtime that applies
deliveries and maintenance deletes under one gate. `Prepare`, `ApplyDelivery` and
`PublishLane` are a delivery, `BeginSweep` to `EndSweep` a sweep, whose deletes `Execute`
tries again under the gate (`IsCurrent`). Keys are leased with `Acquires`, `Granted`,
`AbandonsWait` and `ReleasesOwnership`, the registry's entry by entry. The index of the
deadlines is **`RetentionDeadlineIndex`**, an immutable AVL tree: its recursive operators are
checked against sorted sets by an assumption of `MCSourceMaintenance`, over all the trees
that nine settings and removals lead to. Regions that keep rows for ever have no
deadlines and are left out.

**`SourceLease`** is the life of a leased feed in `makeRuntimeCoreSourceManager`: `JoinFeed`,
`RetryCleanup` and `Create` are `acquireLeased`; `ReleaseStale`, `ReleaseShared` and
`ReleaseLast` are `release`; `StopRuntime`, `BeginDeletion`, `DeleteOwned` and
`ForgetsLease` are `cleanupLease`; `BeginUpsert` to `Disown` are the lanes' mutations with
the set of owned keys. `Attach` and `Leave` are the hand-off to the live client's
subscription. `close()` takes the lock only to set its flag, so its clean-up may run
beside that of a release.

**`KafkaOffsets`** is the binding state of a Kafka region (`kafka/node-internal.ts`). An
attempt resolves offsets (`ListLatest`, `ListStart`, `ListFallback`, `ListFloor`, whichever
its start position needs), freezes them (`Complete`, `Merged`), opens a stream from
what is frozen and what this lifetime committed (`Open`), joins the group
(`GroupJoin`) and exposes its records (`Expose`); `Expand` resolves partitions that
appear. The broker is external: partitions are added and grow, a lookup may not know
the newest partitions, and a commit's answer may be lost. The earliest offset of a
partition is 0, the modes by timestamp and by committed offset are one (`usable`,
which finds an offset or does not), and the fallback that fails the attempt is left
out: it is a failure.

**`PushedHealth`** is `makePushedHealth` with the coalescing reader and the scheduler of
`health.ts`. `Change`, `ClaimEpoch` and `Schedule` are a request; `Awake`, `EndRound` and
`ClearActiveRun` the scheduler's fiber; `Decide`, `Read`, `Install`, `Publish` and `Complete`
a reading by any of its callers; `SubscribeHealth` to `FinishNormal` a subscription;
`CloseScheduler` to `TellStopping` the close. Health is the set of changes a reading
has seen. Sections of the lock that only read are merged with the step before them.
Changes stop before the hub closes (`runtime-core-construction.ts:139`), and whether a
subscriber's queue is full is the consumer's choice (it holds 64 in the code).

`MC*.tla` give the constants their values; the mutated forms beside some
definitions (`\* Mutant: ...`) are what a plausible bug there would look like, and
each property is shown to notice one of them. They are not part of any `Next`.

## The runs

| Run | What it explores | What it shows |
|---|---|---|
| `topic` | 2 mutations, 2 keys (one in a partition), a reset and a close, 1 subscription with a queue of 2 (1.7 M states) | the life of a topic: `BarrierKeepsPromise`, `QuietOnceClosed`, `ReplayReachesCursor`, `VersionChain`, `NoLostUpdate`, `RegistryExact`, `PendingBatchesExact`, `StatusIsLast`, `EndedQueueOnlyDrains` |
| `liveness` | 2 mutations, 1 key, a reset, 1 subscription with a queue of 1, with fairness (58 K states) | `MutationsReturn`, `ClosesReturn`, `SubscribersCatchUp` |
| `journal` | limits of 2 changes and 2 versions, 4 commits, a partition and the root (3.0 M states) | `ExactOrUnknown`, `KnowsWithinLimits` |
| `retained_window` | 3 keys, windows that end at 0, 1, 2 and nowhere (463 K states) | `LeasesSeeTheResult`, `RetainedIsPrefix` |
| `retained_window_torn` | notifications that meet an uncommitted mutation | a violation, see below |
| `viewport` | every pair of windows over 3 keys and 2 rows, two positions, 3 sinks (16 K states, 2.8 M transitions) | `FollowsTheEngine`, `KeyIndexesExact`, `RefusedDeltaChangesNothing`; `SinksAreCleared`, `SinkShowsTheClient` |
| `source_attempt` | 2 lanes, 2 attempts, 2 events, a stop at any time (1.0 M states) | `SettledOnce`, `CancelledEffectsStop`, `OneWinner`; `StopReturns` |
| `source_maintenance` | 2 regions, 2 keys, a clock to 2, 2 records, a rejection, 2 attempts (228 K states) | `DeadlinesExact`, `BacklogShown`, `LeasesExact`, `ExpiryHitsItsRow`; `WaitersProceed` |
| `source_lease` | 2 subscribers, 2 lanes with a row each, 3 leases, a close (60 K states) | `RowsAreOwned`, `OneRuntime`, `SubscribersServed`; `EveryoneLeaves` |
| `source_lease_shared` | two lanes that deliver the same row | a violation, see below |
| `kafka_offsets` | 1 partition and 2 that are added, 4 start positions, 2 faults (188 K states) | `NothingSkipped`, `FrozenStays`; `EverythingHandled` |
| `pushed_health` | 2 changes, a subscriber, a caller of refresh, a listener that throws once, a close (681 K states) | `AnswersAreFresh`, `CloseIsFinal`; `RequestsServed` |

Bounds, and why they suffice:

- A process of the barrier and of `LiveTopic` runs once. Two mutations are enough
  for one to overtake another between the semaphores. `CHECK_DEADLOCK FALSE` in these
  runs and in those of the sources, of health and of the viewport: when every call has
  returned, or what is observed was stopped or destroyed, the system has stopped, as it
  should.
- `QueueCapacity` is 2 in `topic`, so that two deltas can wait in one queue before the
  next overflows, and 1 in `liveness`; the code only compares the size with the capacity.
  What several subscriptions could do to one another is covered by the proofs, which hold
  for any number of them. `liveness` has a reset and no close, for its size: close takes
  the same locks and then stays closed. Symmetry (the mutations are interchangeable, and
  the keys and sinks of `viewport`) is used in runs without liveness only.
- The journal's limits are 2 so that both are exceeded within the 4 commits and 3
  changes explored; `VersionBound`, `BatchBound` and `RefsBound` bound the
  exploration, not the code.
- `RetainedWindow` has 3 keys against windows of 0, 1, 2 and a lookahead of 1, so a
  result can be shorter than, as long as, and longer than what is retained;
  `LogBound` allows two changes between two notifications, which is enough for a
  row to leave and come back, and `LeaseBound` one lease per window. The lookahead
  of 64 rows for windows of 128 or more is in the module and not reached.
- `MinReplacement` is 2 in the instance and 8 in the code, and `StagedFrom` 2 instead of
  64, so that windows of three rows take the second strategy of `deltaOperations` and the
  tree. Three sinks let two clean-ups wait for one activation; two positions of the
  window let rows be told at the wrong place.
- `MaxAttempts` and `MaxEvents` of 2 let an event of one attempt meet the next one.
  `MaxRecords` of 2 lets a row be renewed while a sweep has its old deadline. The third
  lease of `source_lease` follows one that was cleaned up and one that could not be.
- `MaxEnd` is 2 for the first partition and 1 for those that are added, which is a record
  before and one after any offset that matters; `ResolutionAttempts` is 2 instead of 10
  and `MaxFaults` 2, so that a resolution can run out of attempts.
- `MaxRequests` is 2 and the readers are 3, so that a newer reading overtakes an older one
  while a third joins either.

Fairness: fibers that can run do run (Effect's scheduler is a FIFO of runnable
fibers), so each fiber has weak fairness on its own steps. The semaphores of the
code are queues, and whoever waits for one is served: where a process can wait for
a permit again and again (`SourceMaintenance`, `SourceLease`) this is strong fairness on
its step; in `LiveTopic` weak fairness is enough because each process is one call.
Nobody has to call the engine, subscribe, deliver, fail, interrupt or close, the
clock need not advance, and a consumer may stop reading for ever. Adapters owe
nothing: what they acquire, stream or settle may hang. For Kafka, attempts are
retried, the broker answers, and the group is joined again when partitions appear;
for health, reads and the cadence end.

`RequestsServed` is conditional: a listener that throws ends the scheduler's fiber, and
`clearActiveRun` then forgets the request that was pending (`health.ts:200`); the next
request starts a new fiber. `runtime-health.test.ts:257` and `:715` expect just that, so the property
claims a refresh once listeners no longer throw.

`NothingSkipped` depends on one thing outside the repository, the constant
`ReadsFromJoin`: the client library reads a partition it was assigned from where it
was when the group was joined. If records that were pulled from a new partition could
come after those it held at that time, a lookup that lags behind the join would
override the floor of `conservativeLatestGrowthOffsets`, and with `ReadsFromJoin = FALSE`
TLC finds a record skipped. `docs/kafka-source-adapter.md` (from line 290) describes the
case the floor is for.

## The torn commit

A mutation writes its rows, reads the clock and commits the version in separate
Effect steps (`topic-store-mutation.ts:202-204`), under the mutation semaphore. The
notification of an earlier mutation holds only the notification semaphore. Effect
preempts a fiber after a number of operations, inside an uninterruptible region
too, so the notification can run in between. It then sees the new rows at the
old version:

- `LiveTopic` includes this (`Readable`): no update is lost by it, the cursor moves
  ahead and the consumer follows.
- `RetainedWindow` with `Preemptible` does not survive it. When the notification has
  to scan (`active-raw-query.ts:582`), the evaluation contains the uncommitted
  change, and after the commit the journal's change is applied to it again.
  `retained_window_torn` ends with an empty result whose `totalRows` is −1, where
  `docs/query-semantics.md:149` promises 0.

The behaviour depends on the Effect runtime, which is a dependency outside the
repository: the run shows what happens if the preemption falls there. Without it
(`retained_window`, `Preemptible = FALSE`) the result is exact.

## Lanes that share rows

A feed's lanes share `ownedStorageKeys`. An upsert owns its key before it publishes the
row and gives the key up when that fails and it was new
(`source-runtime.ts:1571-1585`). When two lanes upsert the same new row, the second
finds the key owned; if the first then fails, it gives up the key of the row that the
second has stored, and the clean-up of the lease, which deletes owned rows, leaves it
behind. `source_lease_shared` shows this against
`docs/adr/0007-source-adapters-return-effect-streams.md:57` and
`docs/source-adapter-sdk.md:110`, which leaves the division of rows among lanes to the
adapter. The adapters of the repository give each lane rows of its own: then
(`source_lease`, and the theorem under `OwnLanes`) every row is owned.

## The proofs

| Module | Proves about |
|---|---|
| `LiveTopic_proofs` | `EngineMutationBarrier` with `SharedExclusive`, `LiveTopic` |
| `RawQuery_proofs` | `TopicRowChangeJournal`, `RetainedWindow` |
| `LiveQueryDelta_proofs` | the operators of `QueryDelta`, and of `LiveQueryState` in place |
| `LiveQueryTree_proofs` | the operators of `RowSequence`, and of `LiveQueryState` in the tree |
| `LiveQueryViewport_proofs` | `LiveQueryViewport`, with `LiveQueryState` as it uses it |
| `RuntimeCore_proofs` | `SourceAttempt`, `SourceLease`, `PushedHealth` |
| `SourceMaintenance_proofs` | `SourceMaintenance` |
| `KafkaOffsets_proofs` | `KafkaOffsets` |

Where one of them extends several models, the models' own names are distinct
(`InitLease`, `NextHealth`, `SpecJournal`, ...).

### Barrier and topic store

The first section of `LiveTopic_proofs` is about the barrier alone. It proves, for any
finite set of mutations and any set of lifecycle calls:

- `BarrierTypeCorrect`: the types; in particular the counter never goes below zero;
- `IdleIsAlwaysExact`: the counter is the number of admitted mutations and the idle
  latch is open exactly when there are none;
- `BarrierImplementsPromise`: the barrier implements `SharedExclusive`.

They follow from one inductive invariant, `BarrierInv` (`BarrierInvariance`). The
types and the exact counter are inductive together, but exclusion is not: that
no mutation is admitted while a call is exclusive needs to know that the gate
is closed from `draining` until `OpenGate`, that the permit is held by whoever is past
`queued`, and that the latch stays open once it was seen open behind a closed gate.
The invariant states just these. Each action preserves it in a lemma of its own;
the counter's lemmas use the cardinality facts of `FiniteSetTheorems`, which is
where the assumption that the set of mutations is finite is used.

Then `LiveTopic_proofs` proves about `LiveTopic`, for any rows, partitions and queue capacity,
any finite sets of mutations and of subscriptions and any lifecycle calls
(`FiniteSubscribers`: they are counted; `ProcessesAreDistinct`: a holder of a semaphore is
one of them):

- `TopicTypeCorrect`, the types;
- `NoUpdateIsLost`: an open subscription that differs from the committed rows still has
  a notification coming (`NoLostUpdate`);
- `RegistryIsAlwaysExact` and `PendingBatchesAlwaysExact`: the registry, the references to
  the executions and the health ledger are exact;
- `ConsumersReachTheCursor`: replaying a queue of any length leads to the cursor
  (`ReplayReachesCursor`);
- `ClosedEngineStaysQuiet`: once `close()` has set its flag no mutation writes or notifies,
  and once it has drained nobody registers (`QuietOnceClosed`). This is what the second
  checks under the mutation semaphore are for: a mutation that waited at the gate and a
  subscriber that found the engine open before it waited both run after `close()`;
- `ConsumersMeetNoGap` (`VersionChain`), `StatusIsAlwaysLast` (`StatusIsLast`) and
  `EndedQueuesOnlyDrain`.

The inductive invariant `TopicInv` has these layers, each of which needs those before it:

1. `BarrierInv`, carried over because a step of the topic is a step of the barrier or
   none of it (`TopicStepsAreBarrierSteps`). It gives that nobody is inside the engine
   while a transition runs.
2. `ControlInv`: at which stages each semaphore is held and by whom, that a stage begins
   and ends with the admission, that only a mutation between its commit and its last
   notification has somebody to tell, that one mutation at a time handles an overflow, that
   nobody is registered while the engine drains. Mutual exclusion follows
   (`HolderIsAlone`).
3. `RegistryExact` and `PendingBatchesExact`, which count: a reference is given back only
   by who was registered, and the counter is zeroed only when no mutation is admitted.
4. `UncommittedIsWritten` and `CursorIsReadable`. `NoLostUpdate` is not inductive: when a
   batch commits nothing, the mutation that was going to notify is not any more. What is
   preserved is that a subscriber whom no committed mutation has captured has seen each row
   as committed or as written (`CursorIsReadable`), and that rows differ from the committed
   ones only where the holder of the mutation semaphore wrote (`UncommittedIsWritten`). From
   these two, `NoLostUpdate` follows in every state (`ReadableLosesNothing`).
5. `StatusIsLast`, `VersionChain` and `QueueReachesVersion`: the chain of versions is kept
   because it also leads to the version of the cursor.
6. `ReplayReachesCursor`. `Replayed` is a recursive function over a queue. That such a
   function exists, and what it is after an element is appended or the first is taken, is
   proved from the well-foundedness of the naturals (`Recursion`, `ReplayedAppend`,
   `ReplayedTail`), as the library's own theorems of induction and recursion
   take an operator as a parameter.

`QuietOnceClosed` is not one of the layers: that nobody writes or registers after the flag
is inductive beside `TopicInv` (`QuietMutations`, `QuietRegistry`), and `RegistryExact`
gives that no reference is left.

### Journals and incremental queries

`RawQuery_proofs` proves of `TopicRowChangeJournal`, for any partitions, limits and mutations:

- `AnswersAreExact` (`ExactOrUnknown`): what a journal answers is exactly what was committed;
- `KnownWithinLimits` (`KnowsWithinLimits`): a journal within its limits does answer;
- `JournalTypeCorrect`, the types.

Neither property is inductive, and the invariant `JInv` does not mention answers. It says of
each journal that its batches are committed ones that it was to hear, in increasing order
(`BatchesAreLogged`); that from `invalidBefore`, and in the root from its first batch, none of
those is missing (`NoneIsMissing`); that what is pending is what it heard of the
mutation under way (`PendingIsHeard`), and one that overflowed is valid after that mutation
only (`OverflowIsNow`). That answers are exact follows because there is only one increasing
list of a set of batches (`ListingDetermined`), and both the loop of `changesSince` and the
history are that list (`ChangesSinceLists`, `HeardLists`). `NothingIsDropped` adds that within
its limits a journal holds all it heard since it was retained; it needs the count of changes
that `trim` keeps incrementally to be their number (`ChangesAreCounted`).

And of `RetainedWindow`, for any rows, matching values, windows and changes, with the
hypothesis `Preemptible = FALSE` (without it both properties are false, see "The torn
commit"):

- `LeasesAreServed` (`LeasesSeeTheResult`): what every subscriber reads from the shared execution is
  what a query of the committed rows returns;
- `RetainedContinuesTheResult` (`RetainedIsPrefix`): so does what is retained beyond its window.

The invariant `RInv` (`ExecutionInvariant`) also speaks of an execution that has not
been told yet: its evaluation is exact for *some* earlier content, from which the changes it
has not seen lead, one by one, to the committed rows (`ExactForSeen`, `Leads`). Exact
(`IsExact`) means that the window has the result's first rows in order, that the total is
right, that it is long enough for the longest lease and, if it says `retainedWindowFilled`,
for the retained limit. That `latest` restores exactness is the correctness of the algorithm:

1. Sorting. `InOrder` arranges a finite set by any strict total order (`InOrderArranges`), and a
   list of a beginning of another one is a prefix of it (`ListingOfBeginning`), so it is
   enough to reason about sets of rows.
2. The loop. After each change (`ApplyFollows`, `LoopFollows`) the total is the number of rows that
   answer; what is kept or inserted is as the rows are; in a limited window no kept row has
   moved down, which is the test of `replaceRetainedMatchingEntryAtIndex`; and any other row that
   answers was not retained and has not changed (`Tracks`).
3. The rows left out therefore come after every kept row (`LeftOut`), and after every inserted one
   that `retainedLimitAfterInsertedChanges` counts as safe (`SafeRowsPrecede`).
4. So there are as many rows that come before all left out as the merged window is cut to
   (`EnoughPrecede`): if a row that comes after one left out were in the cut list, so would be
   all of them, and the list would be too long (`CutBegins`). This needs the two scans of the code:
   when the window became shorter than the longest lease (`requiredWindowEntries`), and when it had
   not been filled.

### Deltas, the client and its grid

`LiveQueryDelta_proofs` and `LiveQueryTree_proofs` prove, for any keys and rows, windows of any
length, any limits and any priorities of the tree's nodes:

- `DeltasApply`: the operations of `deltaOperations`, whichever strategy made them, are all
  accepted by a client that has the previous window, and give it the next one;
- `RefusedBatchIsUndone`: any operations, applied as far as they fit and undone, leave the rows
  and the key index as they were;
- `StagedIs`: a batch staged in the tree has the rows, the index and the range of changes of
  the same batch applied in place, and is refused in the same cases.

`LiveQueryViewport_proofs` uses them for any sinks, positions and events:

- `ClientFollowsTheEngine` (`FollowsTheEngine`) and `KeyIndexesAreExact` (`KeyIndexesExact`);
- `RefusedDeltasChangeNothing` (`RefusedDeltaChangesNothing`);
- `SinksAreAlwaysCleared` (`SinksAreCleared`);
- `SinkAlwaysShowsTheClient` (`SinkShowsTheClient`).

The argument, from the bottom:

1. What an operation does to a window is one function (`Edit`), which `Change` performs in
   place (`ChangeIs`) and `Fits` guards (`FitsIs`). The index after it is exact: it has to be
   rebuilt only from the first position that moved, because what is before kept its place
   (`ReindexedExact`).
2. A batch in place (`IsBatch`) has an exact index; a way back, whose mutations lead to the
   first window, newest first (`LeadsBack`); and outside the positions it touched, or before
   them once rows came or went, the rows of before (`Touches`). Every step keeps this
   (`StepIsBatch`), also the one that does not fit.
3. Operations *lead* from one window to another (`Leads`) if all fit, one after the other, and
   the last window is that one. Each strategy's operations do: a single move with its
   updates (`MoveLeads`), removals and then insertions in the order of their positions
   (`RemovalsLead`, `InsertionsLead`), and the walk, whose working copy agrees with the next
   window up to where the walk is (`PlaceLeads`, `WalkLeads`). `DeltaLeads` joins them. The
   assumption that the two windows have distinct keys is what a query's rows satisfy.
4. The tree. `TreeOn` says that a root has, in order, the keys of an interval of a sequence,
   with the sizes and the parents right; it does not ask for balance, so it holds whatever
   the priorities are. `Merge` joins trees on two adjacent intervals (`MergeIs`), `Split` cuts
   one (`SplitIs`), and neither touches a node outside; a node is found by its position
   (`NodeAtIs`) and a position by its node, up the parents (`NodeIndexIs`). A tree that
   `Holds` a window therefore does, operation by operation, what the batch in place does
   (`StepTreeIs`). The recursions of the code end because sizes decrease; that the functions
   exist is proved from that (`MergeIsRecursive`, `SplitIsRecursive`).
5. The client. `ClientInv`: the window has distinct keys and its limit, the index is exact, and
   while the client follows the engine it has the engine's evaluation. The engine's delta is
   accepted by 3, in the tree by 4; a refused one leaves no trace by 2 or because the tree is
   dropped.
6. The sinks. `SinksAreCleared` is not inductive: that a call under way will clear what it has
   to needs to know for whom it acts. `ControlInv` adds that a call whose request has its place
   acts for the active one, which has no command left (`ActsForActive`), that there is a
   command or a subscription and not both (`ActiveRuns`), and that nothing is cleared after the
   new sink (`NothingLeftToDo`).
7. What a sink shows. A delta tells it the total and the rows of one range. That this is
   enough (`ChangeShows`) follows from `Touches`: outside the range the rows are those of
   before, unless they are behind the new end, and these the count has dropped. This needs
   the second part of `SinkInv`, that the sink has no row outside its window even while the
   client does not follow the engine.

Assumed of the constants: the bounds are numbers and first rows too (`BoundsAreNumbers`,
`FirstRowsAreNumbers`), stray deltas are made from windows (`StraysAreWindows`), and "no node",
"no request" and "no call" are none (`NoNodeIsNone`, `NoneAreDistinct`).

### Sources

`RuntimeCore_proofs` proves of `SourceAttempt`, for any lanes, attempts and events:

- `EverySettlementRunsOnce` (`SettledOnce`): the settlement callback of an event runs at most
  once, and has run before its lane goes on or ends;
- `CancellationReachesEveryEffect` (`CancelledEffectsStop`): no settlement effect is promoted past
  a cancellation;
- `AttemptsHaveOneWinner` (`OneWinner`), and the types (`TypesHold`).

The invariant `IInv` says where the lane of an event is at each stage of its settlement fiber
(`EventProgress`) and that between the decision to promote an effect and its registration
the arbitration's lock is held (`PromotionIsLocked`), so that a cancellation sees the effect
or prevents it. Who was interrupted is traced back to its cause: a fiber to a cancellation
(`InterruptedByCancellation`), a cancellation to `stop()` or a decided outcome
(`CancelledByStop`, `OutcomeIsKnown`).

`SourceMaintenance_proofs` proves, for any keys, regions and bounds:

- `DeadlinesAreExact` (`DeadlinesExact`), `BacklogIsShown` (`BacklogShown`), `LeasesAreExact`
  (`LeasesExact`), `ExpiryHitsRow` (`ExpiryHitsItsRow`) and the types (`TypesHold`).

What is read before it is used has a conjunct that says what has become of it since: the
work that a prepared delivery cancels is still that of its key, which is leased, unless the
deadline is gone (`CancelsTheWork`); a candidate of a sweep is what its key has now if the
generation says so (`CandidatesWereDue`); a status computed before its publication still
shows the backlog when it is published (`PublicationsShowBacklog`). Rows and deadlines then
agree (`RowsHaveDeadlines`) and the counts are numbers of rows (`RowsCounted`). For the
leases, `LeasesOK` says what the registry's entry of a key counts: those who wait are in its
queue exactly once, a held lease has one owner, be it granted and not told yet, and the users
are the owner and the queue.

`RuntimeCore_proofs` proves of `SourceLease`, for any subscribers, rows, lanes and failures:

- `SubscribersAreServed` (`SubscribersServed`), `OneRuntimeAlways` (`OneRuntime`) and
  `LeaseTypeCorrect`. The invariant `ServeInv` counts: the subscribers of a lease are the
  clients that hold it (`HoldersCounted`), nobody holds a lease that is still to come
  (`HoldersKnown`), and until `close()` who holds one holds the one that is entered, which
  nobody is cleaning up (`ServedWhileOpen`).
- `RowsAreAlwaysOwned` (`RowsAreOwned`), with the hypothesis `OwnLanes` that different lanes
  deliver different rows (the section above is what happens without it). Its invariant
  `LeaseInv` says who may hold the lock at which stage, that a clean-up is of the lease that is
  entered, that its deletions miss nothing unless one failed, that only lanes of a live
  runtime are busy, and that a busy lane keeps the key of the row it stores.

`KafkaOffsets_proofs` proves, for any partitions, start positions, bounds and faults:

- `RecordsAreNotSkipped` (`NothingSkipped`), with the hypothesis `ReadsFromJoin = TRUE`: without
  it the property is false (see the end of "The runs");
- `FrozenIsFinal` (`FrozenStays`) and the types (`TypesHold`), which need no hypothesis.

What is owed is fixed when a partition is frozen or first known to be missing; the
invariant `KInv` follows it from there: frozen offsets are at or before what is owed
(`FrozenCoversOwed`), which for a lookup under way depends on its start position and on which
answers it already has (`OwedFollowsPolicy`, `AnswerFollowsPolicy`); a commit never passes what
was handled (`CommitsAreHandled`), and so neither does the position of a stream that starts
from either (`StreamSkipsNothing`).

### Pushed health

`RuntimeCore_proofs` proves of `PushedHealth`, for any sets of subscribers and callers of refresh and any
number of changes:

- `AnswersAreAlwaysFresh` (`AnswersAreFresh`). Freshness is not inductive: a call is answered
  by what is installed or by a reading it joined. `FreshInv` relates both to the epochs: a
  reading contains every change requested at or before its epoch, what is installed contains
  those of the installed epoch, and a call's epoch is at least that of every request
  made before the call.
- `CloseIsAlwaysFinal` (`CloseIsFinal`), from `CloseInv`: who has claimed a subscription is
  about to end it, and no subscription is active once the hub is closed. It needs
  `DrainIsScheduled`, that the scheduler's fiber is not started twice.

### Beside the proofs

The theorems about types, and the exactness of the barrier's counter and latch
(`IdleIsExact`), are proved and not checked by a run of their own.

The attempts at these proofs corrected the models where TLC's instances were too small to
tell: from where a partition owes its records when its start position is fixed and it was
discovered before it could be resolved (`Owe`); that a waiter leaves the queue at its own
place; the assumptions that "no row" is not a deadline and that the ends of partitions are
numbers up to a bound; and a journal's answer, which was compared with the history change by
change, and now is batch by batch. To reason about the client's data its recursive operators
became recursive functions, and the nodes of the tree are kept by key; what was proved
about them found no error in `deltaOperations`, in the undo or in the tree.

Only model-checked:

- the eight liveness properties, with their fairness: `MutationsReturn`, `ClosesReturn`,
  `SubscribersCatchUp`, `StopReturns`, `WaitersProceed`, `EveryoneLeaves`, `EverythingHandled` and
  `RequestsServed` are beyond the prover;
- `RetentionDeadlineIndex`, the tree of deadlines, which is written with `RECURSIVE` operators
  and checked over the trees of the run (`SourceMaintenance`, which is proved, has the set of
  deadlines that tree stands for);
- that the client's tree is balanced, which is about time and not about its rows;
- `RetainedWindow` under preemption and `SourceLease` with lanes that share rows, where the
  runs find their violations.

## Plan

1. Done: barrier, topic store, journal, retained window, deltas and client state;
   the proofs of the barrier and of the topic store.
2. Done: attempts, maintenance and leases of sources; offsets of Kafka; pushed health; the
   viewport over the client state; the proofs about leases and pushed health.
3. Done: the proofs of the journals, attempts, maintenance and Kafka offsets, of the counts
   of leased feeds, of replaying a queue, and of the incremental update of a query.
4. Done: deltas, the client's undo and its tree without `RECURSIVE` operators, and the proofs
   of what they compute, of the client state and of the viewport. Every safety property of a
   passing run is now a theorem.
5. Left: the tree of deadlines as a recursive function and its proof; models of what is
   listed below, remote subscriptions and the TCP ingress first.

## Not modelled

Each of these has state of its own that meets none of the modules above, so it would
be a model and a run beside them; what is modelled came first by the weight of its
hazards.

- Remote subscriptions (`remote-subscription.ts`, `remote-client.ts`): the retry of a transport
  error with one status per outage, and the overflow of the local queue. What
  a client does with the events that follow a retry is in `LiveQueryState`: it waits for a
  snapshot.
- The TCP ingress: counters of queued commands and of sockets.
- Grouped and materialized queries: aggregates of groups, kept from the same journal as a
  raw query's window; `TopicRowChangeJournal` covers how they retain and release it.
- The source buffer of sources that cannot pause, metrics and lag, source health
  subscriptions and the reporting state; the validation of what adapters return.
- The binding of viewports in React, which moves the active request to another viewport, the
  capture of a request's getters and the published chrome; the stores of `useLiveQuery`.
- The tracking of sockets at the server's shutdown, and its request handlers.
- The codecs, the schemas and the configuration (no state), the row storage's columns and
  indexes (sequential data structures that the repository's own tests compare with
  scans), the gRPC adapter (its life cycle is the source runtime's).
