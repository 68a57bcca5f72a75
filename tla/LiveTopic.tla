------------------------------ MODULE LiveTopic ------------------------------
(***************************************************************************)
(* One topic store of the column live view engine with its live            *)
(* subscriptions, under the engine's mutation barrier                      *)
(* (topic-store-mutation.ts, topic-store-subscription.ts,                  *)
(* topic-store-lifecycle.ts, live-subscription.ts, engine.ts).             *)
(*                                                                         *)
(* A mutation commits under the mutation semaphore, remembers which        *)
(* subscribers it must tell, releases it, and tells them under the         *)
(* notification semaphore; other mutations commit in between.  A           *)
(* subscriber has a cursor (the evaluation it was last told), a bounded    *)
(* dropping queue of events, and a consumer that replays them.             *)
(*                                                                         *)
(* Rows are contents of keys; which operations a delta holds, and how an   *)
(* evaluation is kept up to date, are the business of QueryDelta and       *)
(* RetainedWindow.  A fiber can be preempted between any two Effect steps, *)
(* so a notification may run while another mutation has written its rows   *)
(* and has not committed them: it then sees each row as committed or as    *)
(* written.                                                                *)
(***************************************************************************)
EXTENDS EngineMutationBarrier, Sequences, SequencesExt

CONSTANTS Keys, Values, Absent,         \* a row of the topic, or none
          Partitions, NoPartition,      \* feed routes of leased rows
          PartitionOf,                  \* the partition a key belongs to
          Subscribers,                  \* subscriptions; each is used once
          QueueCapacity                 \* subscriptionQueueCapacity

ASSUME AbsentIsNoValue == Absent \notin Values
ASSUME PartitionsOfKeys ==
    /\ NoPartition \notin Partitions
    /\ PartitionOf \in [Keys -> Partitions \union {NoPartition}]
ASSUME CapacityIsPositive == QueueCapacity \in Nat \ {0}
ASSUME FiniteSubscribers == IsFiniteSet(Subscribers)
ASSUME ProcessesAreDistinct ==
    /\ Nobody \notin Mutations \union Subscribers
    /\ Mutations \intersect Subscribers = {}
    /\ Mutations \intersect Transitions = {}
    /\ Subscribers \intersect Transitions = {}

VARIABLES
    rows,                   \* the storage, uncommitted writes included
    committed,              \* the storage as of the last commit
    version,                \* storage.version
    closed,                 \* engine.closed
    mutationSemaphore,      \* holder
    notificationSemaphore,  \* holder
    stage,                  \* progress of an admitted mutation
    route,                  \* partition key of a mutation
    captured,               \* subscribers a committed mutation has to tell
    pendingMutationBatches, \* health ledger
    phase,                  \* progress of an exclusive lifecycle transaction
    closing,                \* drained subscribers still owed a terminal status
    subscriber,             \* "none", "open" or "closed"
    scope,                  \* partition key of a subscription
    registered,             \* state.subscribers
    leases,                 \* references to the query execution of each scope
    cursor,                 \* evaluation last told to a subscriber
    queue, ended,           \* its event queue
    overflowing,            \* subscriber whose queue just refused an event
    closer,                 \* progress of a subscription's close()
    view                    \* what the consumer has replayed so far

storeVars == <<rows, committed, version, closed>>
mutationVars == <<stage, route, captured, pendingMutationBatches>>
lifecycleVars == <<phase, closing>>
registryVars == <<subscriber, scope, registered, leases>>
streamVars == <<cursor, queue, ended, overflowing>>
semaphoreVars == <<mutationSemaphore, notificationSemaphore>>
topicVars == <<storeVars, mutationVars, lifecycleVars, registryVars, streamVars, semaphoreVars,
               closer, view>>
vars == <<barrierVars, topicVars>>

-----------------------------------------------------------------------------
(* Rows, results and events *)

Contents == [Keys -> Values \union {Absent}]
Routes == Partitions \union {NoPartition}

NoRows == [k \in Keys |-> Absent]

\* The keys a partition reaches; without a partition, all of them.
Visible(p) == {k \in Keys : p = NoPartition \/ PartitionOf[k] = p}

Result(p, content) == [k \in Keys |-> IF k \in Visible(p) THEN content[k] ELSE Absent]

\* What an evaluation running now may read: exactly the committed rows unless
\* a mutation is between its writes and its commit.
Readable == {content \in Contents : \A k \in Keys : content[k] \in {committed[k], rows[k]}}

\* Mutant: rows that left the result are not removed.
OperationsWithoutRemoves(previous, next) ==
    [k \in {x \in Keys : next[x] # previous[x] /\ next[x] # Absent} |-> next[k]]

\* deltaOperations, as the new content of the keys that changed.
Operations(previous, next) ==
    [k \in {x \in Keys : next[x] # previous[x]} |-> next[k]]

Snapshot(v, content) == [type |-> "snapshot", toVersion |-> v, content |-> content]

\* Mutant: a delta starts at the store's previous version.
DeltaFromPreviousVersion(from, to, operations) ==
    [type |-> "delta", fromVersion |-> to - 1, toVersion |-> to, operations |-> operations]

Delta(from, to, operations) ==
    [type |-> "delta", fromVersion |-> from, toVersion |-> to, operations |-> operations]

Status(code) == [type |-> "status", code |-> code]

Event ==
    [type : {"snapshot"}, toVersion : Nat, content : Contents]
        \union [type : {"delta"}, fromVersion : Nat, toVersion : Nat,
                operations : UNION {[K -> Values \union {Absent}] : K \in SUBSET Keys}]
        \union [type : {"status"}, code : {"BackpressureExceeded", "SubscriptionClosed"}]

\* Mutant: an unpartitioned subscriber is looked up under the partition only.
ListensToOwnPartition(s, p) == p = NoPartition \/ scope[s] = p

\* A partition hears of its own mutations and of the unpartitioned ones.
Listens(s, p) == p = NoPartition \/ scope[s] = NoPartition \/ scope[s] = p

-----------------------------------------------------------------------------
TypeOK ==
    /\ BarrierTypeOK
    /\ rows \in Contents /\ committed \in Contents
    /\ version \in Nat
    /\ closed \in BOOLEAN
    /\ mutationSemaphore \in Mutations \union Transitions \union {Nobody}
    /\ notificationSemaphore \in Mutations \union Transitions \union Subscribers \union {Nobody}
    /\ stage \in [Mutations -> {"idle", "admitted", "written", "committed", "notifying",
                                "overflow", "terminating", "finished"}]
    /\ route \in [Mutations -> Routes]
    /\ captured \in [Mutations -> SUBSET Subscribers]
    /\ pendingMutationBatches \in Nat
    /\ phase \in [Transitions -> {"idle", "entering", "locked", "draining", "finished"}]
    /\ closing \in SUBSET Subscribers
    /\ subscriber \in [Subscribers -> {"none", "open", "closed"}]
    /\ scope \in [Subscribers -> Routes]
    /\ registered \in SUBSET Subscribers
    /\ leases \in [Routes -> Nat]
    /\ cursor \in [Subscribers -> [version : Nat, content : Contents]]
    /\ queue \in [Subscribers -> Seq(Event)]
    /\ ended \in [Subscribers -> BOOLEAN]
    /\ overflowing \in Subscribers \union {Nobody}
    /\ closer \in [Subscribers -> {"idle", "waiting", "holding", "done"}]
    /\ view \in [Subscribers -> [version : Nat, content : Contents]]

Empty == [version |-> 0, content |-> NoRows]

Init ==
    /\ BarrierInit
    /\ rows = NoRows /\ committed = NoRows
    /\ version = 0
    /\ closed = FALSE
    /\ mutationSemaphore = Nobody
    /\ notificationSemaphore = Nobody
    /\ stage = [m \in Mutations |-> "idle"]
    /\ route = [m \in Mutations |-> NoPartition]
    /\ captured = [m \in Mutations |-> {}]
    /\ pendingMutationBatches = 0
    /\ phase = [t \in Transitions |-> "idle"]
    /\ closing = {}
    /\ subscriber = [s \in Subscribers |-> "none"]
    /\ scope = [s \in Subscribers |-> NoPartition]
    /\ registered = {}
    /\ leases = [p \in Routes |-> 0]
    /\ cursor = [s \in Subscribers |-> Empty]
    /\ queue = [s \in Subscribers |-> <<>>]
    /\ ended = [s \in Subscribers |-> FALSE]
    /\ overflowing = Nobody
    /\ closer = [s \in Subscribers |-> "idle"]
    /\ view = [s \in Subscribers |-> Empty]

-----------------------------------------------------------------------------
(* Mutations: runTopicStoreMutationTransaction *)

CallPublish(m) ==
    /\ CallMutation(m)
    /\ ~closed
    /\ UNCHANGED <<storeVars, mutationVars, lifecycleVars, registryVars, streamVars,
                   semaphoreVars, closer, view>>

\* Admission, then beginMutationBatch.
BeginMutation(m) ==
    /\ Admit(m)
    /\ stage' = [stage EXCEPT ![m] = "admitted"]
    /\ pendingMutationBatches' = pendingMutationBatches + 1
    /\ UNCHANGED <<storeVars, route, captured, lifecycleVars, registryVars, streamVars,
                   semaphoreVars, closer, view>>

\* Take the mutation semaphore and write the rows of a publish, patch or delete.
Write(m) ==
    /\ stage[m] = "admitted"
    /\ mutationSemaphore = Nobody
    /\ ~closed
    /\ \E p \in Routes, content \in Contents :
        /\ \A k \in Keys \ Visible(p) : content[k] = rows[k]
        /\ rows' = content
        /\ route' = [route EXCEPT ![m] = p]
    /\ mutationSemaphore' = m
    /\ stage' = [stage EXCEPT ![m] = "written"]
    /\ UNCHANGED <<barrierVars, committed, version, closed, captured, pendingMutationBatches,
                   lifecycleVars, registryVars, streamVars, notificationSemaphore, closer, view>>

\* The engine closed meanwhile, or the patch does not apply: nothing is written.
FailMutation(m) ==
    /\ stage[m] = "admitted"
    /\ mutationSemaphore = Nobody
    /\ stage' = [stage EXCEPT ![m] = "finished"]
    /\ UNCHANGED <<barrierVars, storeVars, route, captured, pendingMutationBatches,
                   lifecycleVars, registryVars, streamVars, semaphoreVars, closer, view>>

\* commitTopicStoreState: a batch that changed no row commits nothing; one that
\* changed rows, even back to what they were, advances the version.
Commit(m) ==
    /\ stage[m] = "written"
    /\ \/ /\ rows = committed
          /\ UNCHANGED <<committed, version, captured>>
       \/ /\ committed' = rows
          /\ version' = version + 1
          /\ captured' = [captured EXCEPT ![m] = {s \in registered : Listens(s, route[m])}]
    /\ mutationSemaphore' = Nobody
    /\ stage' = [stage EXCEPT ![m] = "committed"]
    /\ UNCHANGED <<barrierVars, rows, closed, route, pendingMutationBatches, lifecycleVars,
                   registryVars, streamVars, notificationSemaphore, closer, view>>

BeginNotify(m) ==
    /\ stage[m] = "committed"
    /\ notificationSemaphore = Nobody
    /\ notificationSemaphore' = m
    /\ stage' = [stage EXCEPT ![m] = "notifying"]
    /\ UNCHANGED <<barrierVars, storeVars, route, captured, pendingMutationBatches,
                   lifecycleVars, registryVars, streamVars, mutationSemaphore, closer, view>>

\* What execution.next may compute for a subscriber now.
Evaluations(s) ==
    {[version |-> version, content |-> Result(scope[s], content)] : content \in Readable}

Telling(m, s) == stage[m] = "notifying" /\ s \in captured[m]

Told(m, s) == captured' = [captured EXCEPT ![m] = @ \ {s}]

\* Mutant: the check of subscriber.closed is lost.
SkipAnyone(m, s) ==
    /\ Telling(m, s)
    /\ Told(m, s)
    /\ UNCHANGED <<barrierVars, storeVars, stage, route, pendingMutationBatches, lifecycleVars,
                   registryVars, streamVars, semaphoreVars, closer, view>>

\* It closed since the commit.
SkipClosed(m, s) ==
    /\ Telling(m, s)
    /\ subscriber[s] # "open"
    /\ Told(m, s)
    /\ UNCHANGED <<barrierVars, storeVars, stage, route, pendingMutationBatches, lifecycleVars,
                   registryVars, streamVars, semaphoreVars, closer, view>>

\* An evaluation that shows no change is not told, and the cursor stays.
TellNothing(m, s) ==
    /\ Telling(m, s)
    /\ subscriber[s] = "open"
    /\ \E next \in Evaluations(s) : next.content = cursor[s].content
    /\ Told(m, s)
    /\ UNCHANGED <<barrierVars, storeVars, stage, route, pendingMutationBatches, lifecycleVars,
                   registryVars, streamVars, semaphoreVars, closer, view>>

\* The cursor moves before the event is offered to the queue.
Deliver(m, s) ==
    /\ Telling(m, s)
    /\ subscriber[s] = "open"
    /\ Len(queue[s]) < QueueCapacity
    /\ \E next \in Evaluations(s) :
        /\ next.content # cursor[s].content
        /\ cursor' = [cursor EXCEPT ![s] = next]
        /\ queue' = [queue EXCEPT ![s] =
                Append(@, Delta(cursor[s].version, next.version,
                                Operations(cursor[s].content, next.content)))]
    /\ Told(m, s)
    /\ UNCHANGED <<barrierVars, storeVars, stage, route, pendingMutationBatches, lifecycleVars,
                   registryVars, ended, overflowing, semaphoreVars, closer, view>>

\* The dropping queue refuses the event: the subscription has to be closed.
Overflow(m, s) ==
    /\ Telling(m, s)
    /\ subscriber[s] = "open"
    /\ Len(queue[s]) >= QueueCapacity
    /\ \E next \in Evaluations(s) :
        /\ next.content # cursor[s].content
        /\ cursor' = [cursor EXCEPT ![s] = next]
    /\ overflowing' = s
    /\ stage' = [stage EXCEPT ![m] = "overflow"]
    /\ UNCHANGED <<barrierVars, storeVars, route, captured, pendingMutationBatches, lifecycleVars,
                   registryVars, queue, ended, semaphoreVars, closer, view>>

\* Mutants: the place, or the share of the execution, is not given back.
UnregisterKeepsPlace(s) ==
    /\ subscriber' = [subscriber EXCEPT ![s] = "closed"]
    /\ leases' = [leases EXCEPT ![scope[s]] = IF @ = 0 THEN 0 ELSE @ - 1]
    /\ UNCHANGED <<scope, registered>>

UnregisterKeepsLease(s) ==
    /\ subscriber' = [subscriber EXCEPT ![s] = "closed"]
    /\ registered' = registered \ {s}
    /\ UNCHANGED <<scope, leases>>

\* Closing gives back the subscription's place and its share of the execution.
Unregister(s) ==
    /\ subscriber' = [subscriber EXCEPT ![s] = "closed"]
    /\ registered' = registered \ {s}
    /\ leases' = [leases EXCEPT ![scope[s]] = IF @ = 0 THEN 0 ELSE @ - 1]
    /\ UNCHANGED scope

\* Mutant: it closes like a caller does, waiting for the notification semaphore.
CloseBackpressuredLikeCaller(m) ==
    /\ stage[m] = "overflow"
    /\ notificationSemaphore = Nobody
    /\ mutationSemaphore = Nobody
    /\ Unregister(overflowing)
    /\ stage' = [stage EXCEPT ![m] = "terminating"]
    /\ UNCHANGED <<barrierVars, storeVars, route, captured, pendingMutationBatches,
                   lifecycleVars, streamVars, semaphoreVars, closer, view>>

\* closeForBackpressure takes the mutation semaphore, the notification one held.
CloseBackpressured(m) ==
    /\ stage[m] = "overflow"
    /\ mutationSemaphore = Nobody
    /\ IF subscriber[overflowing] = "open"
       THEN Unregister(overflowing)
       ELSE UNCHANGED registryVars
    /\ stage' = [stage EXCEPT ![m] = "terminating"]
    /\ UNCHANGED <<barrierVars, storeVars, route, captured, pendingMutationBatches,
                   lifecycleVars, streamVars, semaphoreVars, closer, view>>

\* Mutant: the queue is not ended.
TerminateWithoutEnd(s, code) ==
    /\ queue' = [queue EXCEPT ![s] = <<Status(code)>>]
    /\ UNCHANGED ended

\* Clear the buffered events, offer the terminal status, end the queue: the
\* consumer's reads between the three see an empty queue or the status.
TerminateQueue(s, code) ==
    /\ queue' = [queue EXCEPT ![s] = <<Status(code)>>]
    /\ ended' = [ended EXCEPT ![s] = TRUE]

FinishBackpressure(m) ==
    /\ stage[m] = "terminating"
    /\ TerminateQueue(overflowing, "BackpressureExceeded")
    /\ captured' = [captured EXCEPT ![m] = @ \ {overflowing}]
    /\ overflowing' = Nobody
    /\ stage' = [stage EXCEPT ![m] = "notifying"]
    /\ UNCHANGED <<barrierVars, storeVars, route, pendingMutationBatches, lifecycleVars,
                   registryVars, cursor, semaphoreVars, closer, view>>

\* Mutant: the notification semaphore is kept when nobody is left to tell.
EndNotifyKeepsSemaphore(m) ==
    /\ stage[m] = "notifying"
    /\ captured[m] = {}
    /\ stage' = [stage EXCEPT ![m] = "finished"]
    /\ UNCHANGED <<barrierVars, storeVars, route, captured, pendingMutationBatches,
                   lifecycleVars, registryVars, streamVars, semaphoreVars, closer, view>>

EndNotify(m) ==
    /\ stage[m] = "notifying"
    /\ captured[m] = {}
    /\ notificationSemaphore' = Nobody
    /\ stage' = [stage EXCEPT ![m] = "finished"]
    /\ UNCHANGED <<barrierVars, storeVars, route, captured, pendingMutationBatches,
                   lifecycleVars, registryVars, streamVars, mutationSemaphore, closer, view>>

\* endMutationBatch, then the admission is given back.
EndMutation(m) ==
    /\ stage[m] = "finished"
    /\ LeaveMutation(m)
    /\ stage' = [stage EXCEPT ![m] = "idle"]
    /\ pendingMutationBatches' =
           IF pendingMutationBatches = 0 THEN 0 ELSE pendingMutationBatches - 1
    /\ route' = [route EXCEPT ![m] = NoPartition]
    /\ UNCHANGED <<storeVars, captured, lifecycleVars, registryVars, streamVars,
                   semaphoreVars, closer, view>>

-----------------------------------------------------------------------------
(* Subscriptions *)

\* Mutant: the engine is not asked again, under the mutation semaphore, whether
\* it is open.
SubscribeUnchecked(s) ==
    /\ subscriber[s] = "none"
    /\ mutationSemaphore = Nobody
    /\ \E p \in Routes :
        /\ scope' = [scope EXCEPT ![s] = p]
        /\ leases' = [leases EXCEPT ![p] = @ + 1]
        /\ cursor' = [cursor EXCEPT ![s] = [version |-> version, content |-> Result(p, rows)]]
        /\ queue' = [queue EXCEPT ![s] = <<Snapshot(version, Result(p, rows))>>]
    /\ subscriber' = [subscriber EXCEPT ![s] = "open"]
    /\ registered' = registered \union {s}
    /\ UNCHANGED <<barrierVars, storeVars, mutationVars, lifecycleVars, ended, overflowing,
                   semaphoreVars, closer, view>>

\* acquireTopicStoreSubscription, whole under the mutation semaphore: lease the
\* execution, make the cursor, register, offer the initial snapshot.
Subscribe(s) ==
    /\ subscriber[s] = "none"
    /\ mutationSemaphore = Nobody
    /\ ~closed
    /\ \E p \in Routes :
        /\ scope' = [scope EXCEPT ![s] = p]
        /\ leases' = [leases EXCEPT ![p] = @ + 1]
        /\ cursor' = [cursor EXCEPT ![s] = [version |-> version, content |-> Result(p, rows)]]
        /\ queue' = [queue EXCEPT ![s] = <<Snapshot(version, Result(p, rows))>>]
    /\ subscriber' = [subscriber EXCEPT ![s] = "open"]
    /\ registered' = registered \union {s}
    /\ UNCHANGED <<barrierVars, storeVars, mutationVars, lifecycleVars, ended, overflowing,
                   semaphoreVars, closer, view>>

\* The caller closes, its stream ends, or the subscribing fiber is interrupted.
RequestClose(s) ==
    /\ subscriber[s] # "none"
    /\ closer[s] = "idle"
    /\ closer' = [closer EXCEPT ![s] = "waiting"]
    /\ UNCHANGED <<barrierVars, storeVars, mutationVars, lifecycleVars, registryVars, streamVars,
                   semaphoreVars, view>>

LockForClose(s) ==
    /\ closer[s] = "waiting"
    /\ notificationSemaphore = Nobody
    /\ notificationSemaphore' = s
    /\ closer' = [closer EXCEPT ![s] = "holding"]
    /\ UNCHANGED <<barrierVars, storeVars, mutationVars, lifecycleVars, registryVars, streamVars,
                   mutationSemaphore, view>>

\* closeTopicStoreSubscription: what is buffered stays readable.
CloseSubscription(s) ==
    /\ closer[s] = "holding"
    /\ mutationSemaphore = Nobody
    /\ IF subscriber[s] = "open"
       THEN Unregister(s) /\ ended' = [ended EXCEPT ![s] = TRUE]
       ELSE UNCHANGED <<registryVars, ended>>
    /\ notificationSemaphore' = Nobody
    /\ closer' = [closer EXCEPT ![s] = "done"]
    /\ UNCHANGED <<barrierVars, storeVars, mutationVars, lifecycleVars, cursor, queue,
                   overflowing, mutationSemaphore, view>>

\* How a consumer replays an event; a terminal status changes no row.
Replay(state, event) ==
    CASE event.type = "snapshot" -> [version |-> event.toVersion, content |-> event.content]
      [] event.type = "delta" ->
            [version |-> event.toVersion,
             content |-> [k \in Keys |-> IF k \in DOMAIN event.operations
                                         THEN event.operations[k] ELSE state.content[k]]]
      [] event.type = "status" -> state

\* What a consumer has after several events.
Replayed(state, events) ==
    LET after[i \in 0..Len(events)] ==
            IF i = 0 THEN state ELSE Replay(after[i - 1], events[i])
    IN  after[Len(events)]

Consume(s) ==
    /\ queue[s] # <<>>
    /\ view' = [view EXCEPT ![s] = Replay(@, Head(queue[s]))]
    /\ queue' = [queue EXCEPT ![s] = Tail(@)]
    /\ UNCHANGED <<barrierVars, storeVars, mutationVars, lifecycleVars, registryVars, cursor,
                   ended, overflowing, semaphoreVars, closer>>

-----------------------------------------------------------------------------
(* reset() and close() of the engine, inside the barrier *)

\* close() marks the engine first; reset() of a closed engine fails.
BeginTransition(t) ==
    /\ BeginExclusive(t)
    /\ \/ /\ closed' = TRUE
          /\ phase' = [phase EXCEPT ![t] = "entering"]
       \/ /\ UNCHANGED closed
          /\ phase' = [phase EXCEPT ![t] = IF closed THEN "finished" ELSE "entering"]
    /\ UNCHANGED <<rows, committed, version, mutationVars, closing, registryVars, streamVars,
                   semaphoreVars, closer, view>>

LockForTransition(t) ==
    /\ phase[t] = "entering"
    /\ notificationSemaphore = Nobody
    /\ notificationSemaphore' = t
    /\ phase' = [phase EXCEPT ![t] = "locked"]
    /\ UNCHANGED <<barrierVars, storeVars, mutationVars, closing, registryVars, streamVars,
                   mutationSemaphore, closer, view>>

\* drainTopicStoreSubscribersForReset or ...ForClose, then the executions.
Drain(t) ==
    /\ phase[t] = "locked"
    /\ mutationSemaphore = Nobody
    /\ mutationSemaphore' = t
    /\ IF closed
       THEN UNCHANGED <<rows, committed, version, pendingMutationBatches>>
       ELSE /\ rows' = NoRows
            /\ committed' = NoRows
            /\ version' = 0
            /\ pendingMutationBatches' = 0
    /\ closing' = registered
    /\ subscriber' = [s \in Subscribers |-> IF s \in registered THEN "closed" ELSE subscriber[s]]
    /\ registered' = {}
    /\ leases' = [p \in Routes |-> 0]
    /\ phase' = [phase EXCEPT ![t] = "draining"]
    /\ UNCHANGED <<barrierVars, closed, stage, route, captured, scope, streamVars,
                   notificationSemaphore, closer, view>>

\* closeWithStatus of one drained subscriber: its lease is already gone.
Terminate(t, s) ==
    /\ phase[t] = "draining"
    /\ s \in closing
    /\ TerminateQueue(s, "SubscriptionClosed")
    /\ leases' = [leases EXCEPT ![scope[s]] = IF @ = 0 THEN 0 ELSE @ - 1]
    /\ closing' = closing \ {s}
    /\ UNCHANGED <<barrierVars, storeVars, mutationVars, phase, subscriber, scope, registered,
                   cursor, overflowing, semaphoreVars, closer, view>>

UnlockTransition(t) ==
    /\ phase[t] = "draining"
    /\ closing = {}
    /\ mutationSemaphore' = Nobody
    /\ notificationSemaphore' = Nobody
    /\ phase' = [phase EXCEPT ![t] = "finished"]
    /\ UNCHANGED <<barrierVars, storeVars, mutationVars, closing, registryVars, streamVars,
                   closer, view>>

EndTransition(t) ==
    /\ phase[t] = "finished"
    /\ EndExclusive(t)
    /\ UNCHANGED <<storeVars, mutationVars, lifecycleVars, registryVars, streamVars,
                   semaphoreVars, closer, view>>

-----------------------------------------------------------------------------
MutationStep(m) ==
    \/ BeginMutation(m)
    \/ Refuse(m) /\ UNCHANGED topicVars
    \/ Write(m)
    \/ FailMutation(m)
    \/ Commit(m)
    \/ BeginNotify(m)
    \/ \E s \in Subscribers :
        SkipClosed(m, s) \/ TellNothing(m, s) \/ Deliver(m, s) \/ Overflow(m, s)
    \/ CloseBackpressured(m)
    \/ FinishBackpressure(m)
    \/ EndNotify(m)
    \/ EndMutation(m)

TransitionStep(t) ==
    \/ (CloseGate(t) \/ OpenGate(t) \/ ReleasePermit(t)) /\ UNCHANGED topicVars
    \/ BeginTransition(t)
    \/ LockForTransition(t)
    \/ Drain(t)
    \/ \E s \in Subscribers : Terminate(t, s)
    \/ UnlockTransition(t)
    \/ EndTransition(t)

CloseStep(s) == LockForClose(s) \/ CloseSubscription(s)

Next ==
    \/ \E m \in Mutations :
        \/ CallPublish(m)
        \/ MutationStep(m)
        \/ InterruptMutation(m) /\ UNCHANGED topicVars
    \/ \E t \in Transitions :
        \/ TransitionStep(t)
        \/ (CallLifecycle(t) \/ InterruptLifecycle(t)) /\ UNCHANGED topicVars
    \/ \E s \in Subscribers : Subscribe(s) \/ RequestClose(s) \/ CloseStep(s) \/ Consume(s)

\* Fibers that can run do run.  Nobody has to call the engine, and a consumer
\* may stop reading for ever.
Fairness ==
    /\ \A m \in Mutations : WF_vars(MutationStep(m))
    /\ \A t \in Transitions : WF_vars(TransitionStep(t))
    /\ \A s \in Subscribers : WF_vars(CloseStep(s))

Spec == Init /\ [][Next]_vars /\ Fairness

-----------------------------------------------------------------------------
(* Safety *)

\* What a consumer has replayed, and then what its queue still holds, is what
\* the engine believes it told the subscriber (live-subscription.ts notify,
\* query-result.ts deltaEvent).
ReplayReachesCursor ==
    \A s \in Subscribers :
        subscriber[s] = "open" /\ overflowing # s =>
            Replayed(view[s], queue[s]) = cursor[s]

\* Every delta starts at the version the event before it ended at: a consumer
\* never meets a gap, not even while its queue overflows.
VersionChain ==
    \A s \in Subscribers : \A i \in 1..Len(queue[s]) :
        queue[s][i].type = "delta" =>
            queue[s][i].fromVersion =
                IF i = 1 THEN view[s].version ELSE queue[s][i - 1].toVersion

\* Some mutation is still going to evaluate the subscription.
WillBeTold(s) ==
    \E m \in Mutations :
        \/ s \in captured[m]
        \/ stage[m] = "written" /\ Listens(s, route[m])

\* No update is lost: an open subscription that differs from the committed
\* rows still has a notification coming (commitTopicStoreState captures whom
\* to tell; the mutations that overtake each other between the two semaphores).
NoLostUpdate ==
    \A s \in Subscribers :
        subscriber[s] = "open" /\ overflowing # s =>
            cursor[s].content = Result(scope[s], committed) \/ WillBeTold(s)

\* The subscriber registry is the set of open subscriptions, and each query
\* execution has one reference per open subscription: close, overflow, reset
\* and their races neither leak one nor give one back twice.
RegistryExact ==
    /\ registered = {s \in Subscribers : subscriber[s] = "open"}
    /\ \A p \in Routes : leases[p] = Cardinality({s \in registered : scope[s] = p})

\* The health ledger's pending batches are the admitted mutations; a reset,
\* which zeroes the counter, never runs under one.
PendingBatchesExact == pendingMutationBatches = Cardinality(Active)

\* Once close() has set its flag no mutation is between its write and its last
\* notification, and once it has drained the registry nothing comes back: neither
\* a mutation admitted when the gate reopens nor a subscriber that found the
\* engine open before it waited for the mutation semaphore (engine.ts close,
\* mutationsAllowed, the second ensureOpen of subscribeRuntime).
QuietOnceClosed ==
    closed =>
        /\ \A m \in Mutations : stage[m] \in {"idle", "admitted", "finished"}
        /\ (\A t \in Transitions : phase[t] \notin {"entering", "locked"}) =>
                registered = {} /\ \A p \in Routes : leases[p] = 0

\* A terminal status is the last thing a queue holds, and the queue has ended.
StatusIsLast ==
    \A s \in Subscribers : \A i \in 1..Len(queue[s]) :
        queue[s][i].type = "status" => i = Len(queue[s]) /\ ended[s] /\ subscriber[s] = "closed"

\* Once ended, a queue is only read: no later mutation, reset or second close
\* adds to it or takes from it.
EndedQueueOnlyDrains ==
    [][\A s \in Subscribers : ended[s] => ended'[s] /\ IsSuffix(queue'[s], queue[s])]_vars

-----------------------------------------------------------------------------
(* Liveness *)

\* A slow or stopped consumer blocks no publisher.
MutationsReturn == \A m \in Mutations : call[m] = "trying" ~> call[m] = "done"

\* close() of a subscription, and reset() and close() of the engine, return.
ClosesReturn ==
    /\ \A s \in Subscribers : closer[s] = "waiting" ~> closer[s] = "done"
    /\ \A t \in Transitions : lifecycle[t] = "queued" ~> lifecycle[t] = "done"

\* A subscription catches up with the committed rows, or is closed.
SubscribersCatchUp ==
    \A s \in Subscribers :
        subscriber[s] = "open" ~>
            \/ subscriber[s] = "closed"
            \/ cursor[s].content = Result(scope[s], committed)
=============================================================================
