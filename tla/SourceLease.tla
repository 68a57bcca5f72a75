------------------------------ MODULE SourceLease ------------------------------
(***************************************************************************)
(* The life of a leased feed in the source manager                         *)
(* (makeRuntimeCoreSourceManager in source-runtime.ts): subscribers share  *)
(* one logical runtime, the last one to leave stops it and deletes the     *)
(* rows it owns, and a clean-up that could not delete them all is tried    *)
(* again by the next subscriber.                                           *)
(*                                                                         *)
(* Everything happens under the lease lock, except the lanes of the        *)
(* runtime and close(), which only takes the lock to set its flag.  The    *)
(* module follows one feed; other feeds only delay it at the lock.  What   *)
(* a runtime does besides its mutations is in SourceAttempt.               *)
(***************************************************************************)
EXTENDS Naturals, FiniteSets

CONSTANTS Clients, Manager, Nobody,
          Ids, FeedLanes,
          IdsOf,                \* the rows a lane delivers
          MaxLeases             \* bound on leaseSequence

ASSUME LanesDeliverIds == IdsOf \in [FeedLanes -> SUBSET Ids]
ASSUME LeaseBound == MaxLeases \in Nat
ASSUME ManagerIsNoClient == Manager \notin Clients /\ Nobody \notin Clients \union {Manager}

VARIABLES
    closed,             \* the manager accepts no more subscribers
    leaseLock,          \* holder of the lease lock
    leaseSequence,
    lease,              \* leases.get(feedKey), 0 when there is none
    subscribers,        \* of the current lease
    runtime,            \* progress of the logical runtime of each lease
    laneWork,           \* mutation each lane of each lease is busy with
    owned,              \* ownedStorageKeys of each lease
    stored,             \* rows of the feed in the topic's store
    pc,                 \* progress of each client and of close()
    holds,              \* lease a client acquired and has not released
    cleaning            \* clean-up a process is in

storeVars == <<owned, stored>>
leaseVars == <<leaseSequence, lease, subscribers>>
runtimeVars == <<runtime, laneWork>>
feedVars == <<closed, leaseLock, leaseVars, runtimeVars, storeVars, pc, holds, cleaning>>

Leases == 1..MaxLeases
Processes == Clients \union {Manager}
Idle == [op |-> "idle"]
Mutation(op, id, previouslyOwned) == [op |-> op, id |-> id, previouslyOwned |-> previouslyOwned]
Mutations == [op : {"upserting", "deleting"}, id : Ids, previouslyOwned : BOOLEAN]
Cleanups == [lease : 0..MaxLeases, stage : {"none", "stopping", "deleting"},
             todo : SUBSET Ids, failed : BOOLEAN]
NoCleanup == [lease |-> 0, stage |-> "none", todo |-> {}, failed |-> FALSE]
CleanupOf(g) == [lease |-> g, stage |-> "stopping", todo |-> {}, failed |-> FALSE]

LeaseTypeOK ==
    /\ closed \in BOOLEAN
    /\ leaseLock \in Clients \union {Nobody}
    /\ leaseSequence \in 0..MaxLeases
    /\ lease \in 0..MaxLeases
    /\ subscribers \in Nat
    /\ runtime \in [Leases -> {"none", "running", "stopping", "stopped"}]
    /\ laneWork \in [Leases -> [FeedLanes -> {Idle} \union Mutations]]
    /\ owned \in [Leases -> SUBSET Ids]
    /\ stored \subseteq Ids
    /\ pc \in [Processes -> {"idle", "queued", "retrying", "making", "activated", "unmaking",
                             "attaching", "subscribed", "releasing", "cleaning", "closing",
                             "done"}]
    /\ holds \in [Clients -> 0..MaxLeases]
    /\ cleaning \in [Processes -> Cleanups]

InitLease ==
    /\ closed = FALSE /\ leaseLock = Nobody
    /\ leaseSequence = 0 /\ lease = 0 /\ subscribers = 0
    /\ runtime = [g \in Leases |-> "none"]
    /\ laneWork = [g \in Leases |-> [l \in FeedLanes |-> Idle]]
    /\ owned = [g \in Leases |-> {}] /\ stored = {}
    /\ pc = [p \in Processes |-> "idle"]
    /\ holds = [c \in Clients |-> 0]
    /\ cleaning = [p \in Processes |-> NoCleanup]

Goes(p, stage) == pc' = [pc EXCEPT ![p] = stage]

-----------------------------------------------------------------------------
(* acquireLeased *)

Subscribe(c) ==
    /\ pc[c] = "idle"
    /\ Goes(c, "queued")
    /\ UNCHANGED <<closed, leaseLock, leaseVars, runtimeVars, storeVars, holds, cleaning>>

\* Interrupted while it waits for the lock, or the manager is closed.
NotAdmitted(c) ==
    /\ pc[c] = "queued"
    /\ Goes(c, "idle")
    /\ UNCHANGED <<closed, leaseLock, leaseVars, runtimeVars, storeVars, holds, cleaning>>

\* Mutant: a lease without subscribers is shared like any other.
NeverPending == FALSE

\* The last clean-up of the lease failed.
CleanupPending == lease # 0 /\ subscribers = 0

\* The lock is granted and the feed has a live lease.
JoinFeed(c) ==
    /\ pc[c] = "queued" /\ leaseLock = Nobody /\ ~closed
    /\ lease # 0 /\ ~CleanupPending
    /\ subscribers' = subscribers + 1
    /\ holds' = [holds EXCEPT ![c] = lease]
    /\ Goes(c, "attaching")
    /\ UNCHANGED <<closed, leaseLock, leaseSequence, lease, runtimeVars, storeVars, cleaning>>

\* Its rows must be deleted before the feed can be leased again (by a lease
\* within the bound).
RetryCleanup(c) ==
    /\ pc[c] = "queued" /\ leaseLock = Nobody /\ ~closed
    /\ CleanupPending /\ leaseSequence < MaxLeases
    /\ leaseLock' = c
    /\ Goes(c, "retrying")
    /\ cleaning' = [cleaning EXCEPT ![c] = CleanupOf(lease)]
    /\ UNCHANGED <<closed, leaseVars, runtimeVars, storeVars, holds>>

\* The lease is entered before its runtime is made.
NewLease ==
    /\ leaseSequence < MaxLeases
    /\ leaseSequence' = leaseSequence + 1
    /\ lease' = leaseSequence'
    /\ subscribers' = 0

Create(c) ==
    /\ pc[c] = "queued" /\ leaseLock = Nobody /\ ~closed
    /\ lease = 0
    /\ NewLease
    /\ leaseLock' = c
    /\ Goes(c, "making")
    /\ UNCHANGED <<closed, runtimeVars, storeVars, holds, cleaning>>

\* activate
Activate(c) ==
    /\ pc[c] = "making"
    /\ runtime' = [runtime EXCEPT ![lease] = "running"]
    /\ Goes(c, "activated")
    /\ UNCHANGED <<closed, leaseLock, leaseVars, laneWork, storeVars, holds, cleaning>>

\* The runtime could not be made, or the client is interrupted.
MakeFails(c) ==
    /\ pc[c] \in {"making", "activated"}
    /\ Goes(c, "unmaking")
    /\ cleaning' = [cleaning EXCEPT ![c] = CleanupOf(lease)]
    /\ UNCHANGED <<closed, leaseLock, leaseVars, runtimeVars, storeVars, holds>>

Made(c) ==
    /\ pc[c] = "activated"
    /\ subscribers' = subscribers + 1
    /\ holds' = [holds EXCEPT ![c] = lease]
    /\ leaseLock' = Nobody
    /\ Goes(c, "attaching")
    /\ UNCHANGED <<closed, leaseSequence, lease, runtimeVars, storeVars, cleaning>>

-----------------------------------------------------------------------------
(* The subscription and its release *)

\* The engine subscription is made on the lease's partition.
Attach(c) ==
    /\ pc[c] = "attaching"
    /\ Goes(c, "subscribed")
    /\ UNCHANGED <<closed, leaseLock, leaseVars, runtimeVars, storeVars, holds, cleaning>>

\* It fails or is interrupted, or the subscription is closed: released once.
Leave(c) ==
    /\ pc[c] \in {"attaching", "subscribed"}
    /\ Goes(c, "releasing")
    /\ UNCHANGED <<closed, leaseLock, leaseVars, runtimeVars, storeVars, holds, cleaning>>

\* A lease that close() has cleaned up is no concern of its subscribers.
ReleaseStale(c) ==
    /\ pc[c] = "releasing" /\ leaseLock = Nobody
    /\ lease # holds[c]
    /\ holds' = [holds EXCEPT ![c] = 0]
    /\ Goes(c, "idle")
    /\ UNCHANGED <<closed, leaseLock, leaseVars, runtimeVars, storeVars, cleaning>>

ReleaseShared(c) ==
    /\ pc[c] = "releasing" /\ leaseLock = Nobody
    /\ lease = holds[c] /\ subscribers > 1
    /\ subscribers' = subscribers - 1
    /\ holds' = [holds EXCEPT ![c] = 0]
    /\ Goes(c, "idle")
    /\ UNCHANGED <<closed, leaseLock, leaseSequence, lease, runtimeVars, storeVars, cleaning>>

ReleaseLast(c) ==
    /\ pc[c] = "releasing" /\ leaseLock = Nobody
    /\ lease = holds[c] /\ subscribers = 1
    /\ subscribers' = 0
    /\ holds' = [holds EXCEPT ![c] = 0]
    /\ leaseLock' = c
    /\ Goes(c, "cleaning")
    /\ cleaning' = [cleaning EXCEPT ![c] = CleanupOf(lease)]
    /\ UNCHANGED <<closed, leaseSequence, lease, runtimeVars, storeVars>>

-----------------------------------------------------------------------------
(* cleanupLease *)

\* stop() of the runtime, and the close of the lease's scope
StopRuntime(p) ==
    /\ cleaning[p].stage = "stopping"
    /\ runtime[cleaning[p].lease] = "running"
    /\ runtime' = [runtime EXCEPT ![cleaning[p].lease] = "stopping"]
    /\ UNCHANGED <<closed, leaseLock, leaseVars, laneWork, storeVars, pc, holds, cleaning>>

\* Mutant: the clean-up does not wait for the lanes of the runtime.
StopRequested(g) == runtime[g] # "running"

Stopped(g) == runtime[g] \in {"none", "stopped"}

\* The rows owned now are deleted, one after the other.
BeginDeletion(p) ==
    LET g == cleaning[p].lease
    IN  /\ cleaning[p].stage = "stopping"
        /\ Stopped(g)
        /\ cleaning' = [cleaning EXCEPT ![p] =
                            [cleaning[p] EXCEPT !.stage = "deleting", !.todo = owned[g]]]
        /\ UNCHANGED <<closed, leaseLock, leaseVars, runtimeVars, storeVars, pc, holds>>

\* A deletion that fails does not keep the others from being tried.
DeleteOwned(p) ==
    /\ cleaning[p].stage = "deleting"
    /\ \E id \in cleaning[p].todo :
          \/ /\ stored' = stored \ {id}
             /\ cleaning' = [cleaning EXCEPT ![p] = [cleaning[p] EXCEPT !.todo = @ \ {id}]]
          \/ /\ cleaning' = [cleaning EXCEPT ![p] =
                                [cleaning[p] EXCEPT !.todo = @ \ {id}, !.failed = TRUE]]
             /\ UNCHANGED stored
    /\ UNCHANGED <<closed, leaseLock, leaseVars, runtimeVars, owned, pc, holds>>

\* Mutant: the lease is forgotten although rows of it may be left.
ForgetsAlways(p) == TRUE

\* Ownership is retained for a retry unless every row was deleted.
ForgetsLease(p) == ~cleaning[p].failed

Ends(p) == cleaning[p].stage = "deleting" /\ cleaning[p].todo = {}

CleanupEffects(p) ==
    /\ IF ForgetsLease(p)
       THEN /\ owned' = [owned EXCEPT ![cleaning[p].lease] = {}]
            /\ lease' = 0
       ELSE UNCHANGED <<owned, lease>>
    /\ cleaning' = [cleaning EXCEPT ![p] = NoCleanup]

\* Mutant: a failed clean-up does not give the lock back.
UnlocksAfterSuccess(c) == leaseLock' = IF cleaning[c].failed THEN leaseLock ELSE Nobody

Unlocks(c) == leaseLock' = Nobody

\* The clean-up of a release, or of a lease whose runtime was not made.
EndCleanup(c) ==
    /\ pc[c] \in {"cleaning", "unmaking"} /\ Ends(c)
    /\ CleanupEffects(c)
    /\ Unlocks(c)
    /\ Goes(c, "idle")
    /\ UNCHANGED <<closed, leaseSequence, subscribers, runtimeVars, stored, holds>>

\* The pending clean-up: the feed is leased again, or still unavailable.
EndRetry(c) ==
    /\ pc[c] = "retrying" /\ Ends(c)
    /\ cleaning' = [cleaning EXCEPT ![c] = NoCleanup]
    /\ IF ForgetsLease(c)
       THEN /\ owned' = [owned EXCEPT ![cleaning[c].lease] = {}]
            /\ NewLease
            /\ Goes(c, "making")
            /\ UNCHANGED leaseLock
       ELSE /\ Unlocks(c)
            /\ Goes(c, "idle")
            /\ UNCHANGED <<leaseVars, owned>>
    /\ UNCHANGED <<closed, runtimeVars, stored, holds>>

-----------------------------------------------------------------------------
(* close() *)

RequestClose ==
    /\ pc[Manager] = "idle"
    /\ Goes(Manager, "queued")
    /\ UNCHANGED <<closed, leaseLock, leaseVars, runtimeVars, storeVars, holds, cleaning>>

\* The flag is set under the lock, the leases are cleaned up outside it.
BeginClose ==
    /\ pc[Manager] = "queued" /\ leaseLock = Nobody
    /\ closed' = TRUE
    /\ IF lease = 0
       THEN Goes(Manager, "done") /\ UNCHANGED cleaning
       ELSE /\ Goes(Manager, "closing")
            /\ cleaning' = [cleaning EXCEPT ![Manager] = CleanupOf(lease)]
    /\ UNCHANGED <<leaseLock, leaseVars, runtimeVars, storeVars, holds>>

EndClose ==
    /\ pc[Manager] = "closing" /\ Ends(Manager)
    /\ CleanupEffects(Manager)
    /\ Goes(Manager, "done")
    /\ UNCHANGED <<closed, leaseLock, leaseSequence, subscribers, runtimeVars, stored, holds>>

-----------------------------------------------------------------------------
(* The lanes of a lease *)

Lane(g, l, mutation) == laneWork' = [laneWork EXCEPT ![g][l] = mutation]

unchangedByLane == <<closed, leaseLock, leaseVars, runtime, pc, holds, cleaning>>

\* A row is owned before it is published.
BeginUpsert(g, l) ==
    /\ runtime[g] = "running" /\ laneWork[g][l] = Idle
    /\ \E id \in IdsOf[l] :
          /\ Lane(g, l, Mutation("upserting", id, id \in owned[g]))
          /\ owned' = [owned EXCEPT ![g] = @ \union {id}]
    /\ UNCHANGED <<unchangedByLane, stored>>

Publish(g, l) ==
    /\ laneWork[g][l].op = "upserting"
    /\ stored' = stored \union {laneWork[g][l].id}
    /\ Lane(g, l, Idle)
    /\ UNCHANGED <<unchangedByLane, owned>>

\* Mutant: a refused row is given up even if it was owned before.
AlwaysGivenUp(mutation) == {mutation.id}

GivenUp(mutation) == IF mutation.previouslyOwned THEN {} ELSE {mutation.id}

PublishFails(g, l) ==
    /\ laneWork[g][l].op = "upserting"
    /\ owned' = [owned EXCEPT ![g] = @ \ GivenUp(laneWork[g][l])]
    /\ Lane(g, l, Idle)
    /\ UNCHANGED <<unchangedByLane, stored>>

\* A row is owned until its deletion has returned; one that fails changes
\* nothing.
BeginDelete(g, l) ==
    /\ runtime[g] = "running" /\ laneWork[g][l] = Idle
    /\ \E id \in IdsOf[l] :
          /\ Lane(g, l, Mutation("deleting", id, id \in owned[g]))
          /\ stored' = stored \ {id}
    /\ UNCHANGED <<unchangedByLane, owned>>

Disown(g, l) ==
    /\ laneWork[g][l].op = "deleting"
    /\ owned' = [owned EXCEPT ![g] = @ \ {laneWork[g][l].id}]
    /\ Lane(g, l, Idle)
    /\ UNCHANGED <<unchangedByLane, stored>>

\* Interrupted before the engine has the row, or after it deleted it.
FeedInterrupted(g, l) ==
    /\ runtime[g] = "stopping" /\ laneWork[g][l] # Idle
    /\ Lane(g, l, Idle)
    /\ UNCHANGED <<unchangedByLane, storeVars>>

RuntimeStopped(g) ==
    /\ runtime[g] = "stopping"
    /\ \A l \in FeedLanes : laneWork[g][l] = Idle
    /\ runtime' = [runtime EXCEPT ![g] = "stopped"]
    /\ UNCHANGED <<closed, leaseLock, leaseVars, laneWork, storeVars, pc, holds, cleaning>>

-----------------------------------------------------------------------------
AcquireFeed(c) == NotAdmitted(c) \/ JoinFeed(c) \/ RetryCleanup(c) \/ Create(c)
Make(c) == Activate(c) \/ MakeFails(c) \/ Made(c)
Release(c) == ReleaseStale(c) \/ ReleaseShared(c) \/ ReleaseLast(c)
Cleanup(p) == StopRuntime(p) \/ BeginDeletion(p) \/ DeleteOwned(p)
ClientStep(c) == AcquireFeed(c) \/ Make(c) \/ Release(c) \/ EndCleanup(c) \/ EndRetry(c)
FeedStep(g, l) == Publish(g, l) \/ PublishFails(g, l) \/ Disown(g, l) \/ FeedInterrupted(g, l)

NextLease ==
    \/ \E c \in Clients : Subscribe(c) \/ Attach(c) \/ Leave(c) \/ ClientStep(c)
    \/ \E p \in Processes : Cleanup(p)
    \/ RequestClose \/ BeginClose \/ EndClose
    \/ \E g \in Leases, l \in FeedLanes : BeginUpsert(g, l) \/ BeginDelete(g, l) \/ FeedStep(g, l)
    \/ \E g \in Leases : RuntimeStopped(g)

SpecLease == InitLease /\ [][NextLease]_feedVars

\* The lock serves its waiters in order, runtimes are made and stopped, and
\* the engine answers.  Subscribers, deliveries and close() owe nothing.
FairSpecLease ==
    /\ SpecLease
    /\ \A c \in Clients : SF_feedVars(Release(c)) /\ WF_feedVars(Make(c))
                              /\ WF_feedVars(EndCleanup(c) \/ EndRetry(c))
    /\ \A p \in Processes : WF_feedVars(Cleanup(p))
    /\ SF_feedVars(BeginClose) /\ WF_feedVars(EndClose)
    /\ \A g \in Leases : WF_feedVars(RuntimeStopped(g)) /\ \A l \in FeedLanes : WF_feedVars(FeedStep(g, l))

-----------------------------------------------------------------------------
(* Properties *)

\* Every row of the feed in the store is owned by the lease that is entered
\* for it, so that it is seen by its subscribers and deleted in the end: in
\* the middle of mutations that are interrupted or fail, of failed clean-ups
\* and of clean-ups by a release and by close() at once.
RowsAreOwned == stored \subseteq IF lease = 0 THEN {} ELSE owned[lease]

\* The feed has one runtime at a time: before another lease is entered the
\* lanes of the last one have ended, so an old delivery cannot reach it.
OneRuntime ==
    \A g \in Leases :
        runtime[g] \in {"running", "stopping"} \/ (\E l \in FeedLanes : laneWork[g][l] # Idle) => g = lease

\* The subscribers of a lease are counted exactly, and have a live runtime
\* until the manager closes.
SubscribersServed ==
    /\ lease # 0 => subscribers = Cardinality({c \in Clients : holds[c] = lease})
    /\ ~closed => \A c \in Clients : holds[c] # 0 => lease = holds[c] /\ runtime[lease] = "running"

\* A release returns and close() returns, whoever else holds the lock
\* meanwhile, is interrupted or fails to delete the feed's rows.
EveryoneLeaves ==
    /\ \A c \in Clients : pc[c] = "releasing" ~> pc[c] = "idle"
    /\ pc[Manager] = "queued" ~> pc[Manager] = "done"

\* docs/adr/0007: the final subscriber deletes the feed's route-owned rows.
NoRowsWithoutLease == lease = 0 => stored = {}

=============================================================================
