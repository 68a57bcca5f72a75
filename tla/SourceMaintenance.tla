-------------------------- MODULE SourceMaintenance --------------------------
(***************************************************************************)
(* Retention of a Kafka source: the application state of the adapter       *)
(* (kafka/server-internal.ts), the transitions its deliveries carry        *)
(* (source-adapter/server.ts), and the runtime that applies both the       *)
(* deliveries and the maintenance deletes of the sweep                     *)
(* (source-runtime.ts).                                                    *)
(*                                                                         *)
(* Each region is a lane; the identifier of a row names its region, so a   *)
(* key is written by one lane only.  A delivery takes the key's lease when *)
(* it is prepared and gives it back when it is applied; a sweep takes the  *)
(* lease of each due candidate of the state it began with.  The lifecycle  *)
(* gate makes one application or one maintenance operation an atomic step  *)
(* of rows and state; the status that reports the backlog is published at  *)
(* the end of it, a rejection's without the gate.                          *)
(***************************************************************************)
EXTENDS Integers, FiniteSets, Sequences, SequencesExt

CONSTANTS Keys, Lanes,
          LaneOf,               \* the region a key belongs to
          Sweeper, Nobody, NoKey, NoRow,
          MaxTime,              \* the clock runs from 0 to MaxTime
          MaxRecords,           \* bound on records, and so on generations
          MaxRejections,        \* bound on rejected records
          MaxAttempts           \* bound on source attempts

ASSUME KeysHaveLanes == LaneOf \in [Keys -> Lanes]
ASSUME MaintenanceBounds ==
    {MaxTime, MaxRecords, MaxRejections, MaxAttempts} \subseteq Nat
ASSUME SweeperIsNoLane == Sweeper \notin Lanes /\ Nobody \notin Lanes \union {Sweeper}
ASSUME NoKeyIsNoKey == NoKey \notin Keys

VARIABLES
    now,                    \* epoch clock
    rows,                   \* deadline and generation of the row of each key
    deadlines,              \* state.deadlines with state.deadlineIndex
    nextGeneration,
    trackedRows,            \* per region
    failedWork,             \* the regions' failedWork
    failedMaintenanceWork,  \* the runtime's ledger of the same
    latestRejection,        \* how many items were rejected
    status,                 \* published status with its reasons
    pending,                \* publication a process has computed
    active,                 \* maintenanceActive
    source,                 \* progress of the current attempt
    attempts,
    closing,
    gate,                   \* holder of the lifecycle gate
    phase,                  \* progress of each lane and of the sweep
    want,                   \* key whose lease a process holds or waits for
    command,                \* prepared command of a lane
    candidates,             \* due deadlines the sweep has still to execute
    candidate,              \* the one it is executing
    held, queue, users      \* entries of the key lease registry

stateVars == <<rows, deadlines, nextGeneration, trackedRows, failedWork>>
ledgerVars == <<failedMaintenanceWork, latestRejection>>
statusVars == <<status, pending>>
attemptVars == <<active, source, attempts, closing>>
leaseVars == <<held, queue, users>>
vars == <<now, stateVars, ledgerVars, statusVars, attemptVars, gate, phase, want, command,
          candidates, candidate, leaseVars>>

Processes == Lanes \union {Sweeper}

-----------------------------------------------------------------------------
(* Deadlines, commands and reasons *)

Generations == 1..MaxRecords
Deadline == [id : Keys, deadlineNanos : 0..MaxTime, generation : Generations]
NoDeadline == [id |-> NoKey]
ASSUME NoRowIsNoRow == NoRow \notin Deadline

Upsert(k, deadline, cancelled) ==
    [tag |-> "AppliedUpsert", id |-> k, deadlineNanos |-> deadline, cancelled |-> cancelled]
Delete(k, cancelled) == [tag |-> "AppliedDelete", id |-> k, cancelled |-> cancelled]
NoCommand == [tag |-> "None"]

\* retentionWorkId and retentionWorkForId
WorkId(d) == <<d.id, d.generation>>

\* Mutant: a new record does not cancel the failed work of the old one.
NoWork(k) == {}

WorkForId(k) == IF deadlines[k] = NoDeadline THEN {} ELSE {WorkId(deadlines[k])}

\* The status an operational source shows for what its ledgers hold.
Operational(work, rejections) ==
    [tag |-> IF work # {} \/ rejections > 0 THEN "Degraded" ELSE "Ready",
     rejections |-> rejections, maintenance |-> work # {}]

Status(tag) == [tag |-> tag, rejections |-> 0, maintenance |-> FALSE]

IsOperational == status.tag \in {"Ready", "Degraded"}

\* publish, under the health lock: a closing source only publishes Stopping.
Published(next) == IF closing THEN status ELSE next

NoPublication == Status("None")

\* publishDegradationLedger: the reasons are read now, and published later.
ReadsLedger(p, work, rejections) ==
    pending' = [pending EXCEPT ![p] = Operational(work, rejections)]

-----------------------------------------------------------------------------
TypeOK ==
    /\ now \in 0..MaxTime
    /\ rows \in [Keys -> Deadline \union {NoRow}]
    /\ deadlines \in [Keys -> Deadline \union {NoDeadline}]
    /\ nextGeneration \in 0..MaxRecords
    /\ trackedRows \in [Lanes -> Int]
    /\ failedWork \subseteq (Keys \X Generations)
    /\ failedMaintenanceWork \subseteq (Keys \X Generations)
    /\ latestRejection \in 0..MaxRejections
    /\ active \in BOOLEAN /\ closing \in BOOLEAN
    /\ source \in {"down", "up", "ending", "closing"}
    /\ attempts \in 0..MaxAttempts
    /\ gate \in Processes \union {Nobody}
    /\ phase \in [Processes -> {"ended", "pulling", "waiting", "leased", "publishing",
                                "rejecting", "sleeping", "sweeping"}]
    /\ want \in [Processes -> Keys \union {NoKey}]
    /\ candidates \subseteq Deadline
    /\ candidate \in Deadline \union {NoDeadline}
    /\ held \in [Keys -> BOOLEAN]
    /\ queue \in [Keys -> Seq(Processes)]
    /\ users \in [Keys -> Nat]

Init ==
    /\ now = 0
    /\ rows = [k \in Keys |-> NoRow]
    /\ deadlines = [k \in Keys |-> NoDeadline]
    /\ nextGeneration = 0
    /\ trackedRows = [l \in Lanes |-> 0]
    /\ failedWork = {} /\ failedMaintenanceWork = {}
    /\ latestRejection = 0
    /\ status = Status("Starting")
    /\ pending = [p \in Processes |-> NoPublication]
    /\ active = FALSE /\ source = "down" /\ attempts = 0 /\ closing = FALSE
    /\ gate = Nobody
    /\ phase = [p \in Processes |-> IF p = Sweeper THEN "sleeping" ELSE "ended"]
    /\ want = [p \in Processes |-> NoKey]
    /\ command = [l \in Lanes |-> NoCommand]
    /\ candidates = {} /\ candidate = NoDeadline
    /\ held = [k \in Keys |-> FALSE]
    /\ queue = [k \in Keys |-> <<>>]
    /\ users = [k \in Keys |-> 0]

Tick ==
    /\ now < MaxTime
    /\ now' = now + 1
    /\ UNCHANGED <<stateVars, ledgerVars, statusVars, attemptVars, gate, phase, want, command,
                   candidates, candidate, leaseVars>>

-----------------------------------------------------------------------------
(* The key lease registry *)

\* acquire: at once if nobody holds the key, else behind the others.
Acquires(p, k) ==
    /\ users' = [users EXCEPT ![k] = @ + 1]
    /\ want' = [want EXCEPT ![p] = k]
    /\ IF held[k]
       THEN queue' = [queue EXCEPT ![k] = Append(@, p)] /\ UNCHANGED held
       ELSE held' = [held EXCEPT ![k] = TRUE] /\ UNCHANGED queue

Queued(p) == want[p] # NoKey /\ Contains(queue[want[p]], p)

\* Mutant: the lease is freed, and no waiter told.
FreesLease(p) ==
    /\ users' = [users EXCEPT ![want[p]] = @ - 1]
    /\ want' = [want EXCEPT ![p] = NoKey]
    /\ held' = [held EXCEPT ![want[p]] = FALSE]
    /\ UNCHANGED queue

\* releaseKafkaKeyLeaseOwnership: the first waiter becomes the owner.
ReleasesOwnership(p) ==
    LET k == want[p]
    IN  /\ users' = [users EXCEPT ![k] = @ - 1]
        /\ want' = [want EXCEPT ![p] = NoKey]
        /\ IF queue[k] = <<>>
           THEN held' = [held EXCEPT ![k] = FALSE] /\ UNCHANGED queue
           ELSE queue' = [queue EXCEPT ![k] = Tail(@)] /\ UNCHANGED held

\* removeKafkaKeyLeaseWaiter: the waiter is unlinked where it stands.
LeavesQueue(p) ==
    LET k == want[p]
    IN  /\ users' = [users EXCEPT ![k] = @ - 1]
        /\ want' = [want EXCEPT ![p] = NoKey]
        /\ \E i \in DOMAIN queue[k] :
              queue[k][i] = p /\ queue' = [queue EXCEPT ![k] = RemoveAt(@, i)]
        /\ UNCHANGED held

\* Mutant: an interrupted waiter that was just granted the lease drops it.
OnlyLeavesQueue(p) ==
    /\ users' = [users EXCEPT ![want[p]] = @ - 1]
    /\ want' = [want EXCEPT ![p] = NoKey]
    /\ queue' = [queue EXCEPT ![want[p]] = Remove(@, p)]
    /\ UNCHANGED held

\* A wait that is interrupted: still queued, or already granted.
AbandonsWait(p) == IF Queued(p) THEN LeavesQueue(p) ELSE ReleasesOwnership(p)

-----------------------------------------------------------------------------
(* The reducer *)

Tracks(l, by) == trackedRows' = [trackedRows EXCEPT ![l] = @ + by]

\* Mutant: an expired deadline is forgotten without its row count.
ForgetsUncounted(k) ==
    /\ deadlines' = [deadlines EXCEPT ![k] = NoDeadline]
    /\ UNCHANGED trackedRows

\* removeCurrent
Forgets(k) ==
    /\ deadlines' = [deadlines EXCEPT ![k] = NoDeadline]
    /\ Tracks(LaneOf[k], IF deadlines[k] = NoDeadline THEN 0 ELSE -1)

\* AppliedUpsert: a new generation replaces the deadline of the key.
ReduceUpsert(k, deadline) ==
    LET new == [id |-> k, deadlineNanos |-> deadline, generation |-> nextGeneration + 1]
    IN  /\ nextGeneration' = nextGeneration + 1
        /\ failedWork' = failedWork \ WorkForId(k)
        /\ deadlines' = [deadlines EXCEPT ![k] = new]
        /\ Tracks(LaneOf[k], IF deadlines[k] = NoDeadline THEN 1 ELSE 0)
        /\ rows' = [rows EXCEPT ![k] = new]

ReduceDelete(k) ==
    /\ failedWork' = failedWork \ WorkForId(k)
    /\ Forgets(k)
    /\ rows' = [rows EXCEPT ![k] = NoRow]
    /\ UNCHANGED nextGeneration

\* Mutant: a candidate is current as long as its key has a deadline.
HasDeadline(d) == deadlines[d.id] # NoDeadline

\* isCurrent of a maintenance operation
IsCurrent(d) ==
    /\ deadlines[d.id] # NoDeadline
    /\ deadlines[d.id].generation = d.generation

-----------------------------------------------------------------------------
(* The lanes *)

unchangedByLane == <<now, attempts, closing, active, candidates, candidate>>

\* recordEvent: a record becomes a command, whose cancelled work is read
\* before the lease of its key is acquired.
Prepare(l, k) ==
    /\ source = "up" /\ phase[l] = "pulling"
    /\ LaneOf[k] = l
    /\ nextGeneration + Cardinality({m \in Lanes : command[m].tag = "AppliedUpsert"}) < MaxRecords
    /\ \E deadline \in 1..MaxTime, tombstone \in BOOLEAN :
          command' = [command EXCEPT ![l] =
                         IF tombstone \/ deadline <= now THEN Delete(k, WorkForId(k))
                         ELSE Upsert(k, deadline, WorkForId(k))]
    /\ Acquires(l, k)
    /\ phase' = [phase EXCEPT ![l] = IF held[k] THEN "waiting" ELSE "leased"]
    /\ UNCHANGED <<unchangedByLane, stateVars, ledgerVars, statusVars, source, gate>>

\* A rejection is recorded, and its ledger read, without the gate.
Reject(l) ==
    /\ source = "up" /\ phase[l] = "pulling"
    /\ latestRejection < MaxRejections
    /\ latestRejection' = latestRejection + 1
    /\ ReadsLedger(l, failedMaintenanceWork, latestRejection')
    /\ phase' = [phase EXCEPT ![l] = "rejecting"]
    /\ UNCHANGED <<unchangedByLane, stateVars, failedMaintenanceWork, status, source, gate, want,
                   command, leaseVars>>

\* Under the gate the row is written, the transition applied, its lease given
\* back and its cancelled work struck from the ledger.
ApplyDelivery(l) ==
    /\ phase[l] = "leased" /\ gate = Nobody
    /\ gate' = l
    /\ IF command[l].tag = "AppliedUpsert"
       THEN ReduceUpsert(command[l].id, command[l].deadlineNanos)
       ELSE ReduceDelete(command[l].id)
    /\ failedMaintenanceWork' = failedMaintenanceWork \ command[l].cancelled
    /\ ReadsLedger(l, failedMaintenanceWork', latestRejection)
    /\ ReleasesOwnership(l)
    /\ phase' = [phase EXCEPT ![l] = "publishing"]
    /\ command' = [command EXCEPT ![l] = NoCommand]
    /\ UNCHANGED <<unchangedByLane, latestRejection, status, source>>

\* A mutation the engine refuses, or a stream that fails, ends the attempt;
\* a lease that was prepared stays with the attempt's scope.
LaneFails(l) ==
    /\ source = "up"
    /\ phase[l] = "pulling" \/ (phase[l] = "leased" /\ gate = Nobody)
    /\ phase' = [phase EXCEPT ![l] = "ended"]
    /\ source' = "ending"
    /\ command' = [command EXCEPT ![l] = NoCommand]
    /\ UNCHANGED <<unchangedByLane, stateVars, ledgerVars, statusVars, gate, want, leaseVars>>

\* The publication ends the handling of the event, and gives the gate back.
PublishLane(l) ==
    /\ phase[l] \in {"publishing", "rejecting"}
    /\ status' = Published(pending[l])
    /\ pending' = [pending EXCEPT ![l] = NoPublication]
    /\ gate' = IF gate = l THEN Nobody ELSE gate
    /\ phase' = [phase EXCEPT ![l] = "pulling"]
    /\ UNCHANGED <<unchangedByLane, stateVars, ledgerVars, source, want, command, leaseVars>>

\* The attempt ends: a lane stops where it can be interrupted.
LaneInterrupted(l) ==
    /\ source = "ending"
    /\ phase[l] \in {"pulling", "waiting", "leased", "rejecting"}
    /\ IF phase[l] = "waiting" THEN AbandonsWait(l) ELSE UNCHANGED <<want, leaseVars>>
    /\ phase' = [phase EXCEPT ![l] = "ended"]
    /\ pending' = [pending EXCEPT ![l] = NoPublication]
    /\ command' = [command EXCEPT ![l] = NoCommand]
    /\ UNCHANGED <<unchangedByLane, stateVars, ledgerVars, status, source, gate>>

\* A waiter that was granted the lease goes on with it.
Granted(p) ==
    /\ phase[p] = "waiting" /\ ~Queued(p)
    /\ phase' = [phase EXCEPT ![p] = "leased"]
    /\ UNCHANGED <<now, stateVars, ledgerVars, statusVars, attemptVars, gate, want, command,
                   candidates, candidate, leaseVars>>

-----------------------------------------------------------------------------
(* The sweep *)

unchangedBySweep == <<now, attemptVars, latestRejection, command>>

\* runDueSweepIfActive: the due deadlines of the state as it is now.
BeginSweep ==
    /\ phase[Sweeper] = "sleeping"
    /\ gate = Nobody
    /\ active /\ IsOperational
    /\ candidates' = {d \in {deadlines[k] : k \in Keys} \ {NoDeadline} : d.deadlineNanos <= now}
    /\ phase' = [phase EXCEPT ![Sweeper] = "sweeping"]
    /\ UNCHANGED <<unchangedBySweep, stateVars, failedMaintenanceWork, statusVars, gate, want,
                   candidate, leaseVars>>

\* The lease of the next candidate is acquired.
NextCandidate ==
    /\ phase[Sweeper] = "sweeping"
    /\ \E d \in candidates :
          /\ candidates' = candidates \ {d}
          /\ candidate' = d
          /\ Acquires(Sweeper, d.id)
          /\ phase' = [phase EXCEPT ![Sweeper] = IF held[d.id] THEN "waiting" ELSE "leased"]
    /\ UNCHANGED <<unchangedBySweep, stateVars, failedMaintenanceWork, statusVars, gate>>

\* SweepCompleted
EndSweep ==
    /\ phase[Sweeper] = "sweeping" /\ candidates = {}
    /\ phase' = [phase EXCEPT ![Sweeper] = "sleeping"]
    /\ UNCHANGED <<unchangedBySweep, stateVars, failedMaintenanceWork, statusVars, gate, want,
                   candidates, candidate, leaseVars>>

\* The operation takes effect: the row goes with its deadline, or the work is
\* recorded as failed, or it is stale.
ExpirationSucceeds(d) ==
    /\ IsCurrent(d)
    /\ rows' = [rows EXCEPT ![d.id] = NoRow]
    /\ Forgets(d.id)
    /\ failedWork' = failedWork \ {WorkId(d)}
    /\ failedMaintenanceWork' = failedMaintenanceWork \ {WorkId(d)}
    /\ UNCHANGED nextGeneration

ExpirationFails(d) ==
    /\ IsCurrent(d)
    /\ failedWork' = failedWork \union {WorkId(d)}
    /\ failedMaintenanceWork' = failedMaintenanceWork \union {WorkId(d)}
    /\ UNCHANGED <<rows, deadlines, trackedRows, nextGeneration>>

ExpirationStale(d) ==
    /\ ~IsCurrent(d)
    /\ failedWork' = failedWork \ {WorkId(d)}
    /\ failedMaintenanceWork' = failedMaintenanceWork \ {WorkId(d)}
    /\ UNCHANGED <<rows, deadlines, trackedRows, nextGeneration>>

\* runMaintenance, under the gate and uninterruptible
Execute ==
    /\ phase[Sweeper] = "leased" /\ gate = Nobody
    /\ active /\ IsOperational
    /\ gate' = Sweeper
    /\ ExpirationSucceeds(candidate) \/ ExpirationFails(candidate) \/ ExpirationStale(candidate)
    /\ ReadsLedger(Sweeper, failedMaintenanceWork', latestRejection)
    /\ phase' = [phase EXCEPT ![Sweeper] = "publishing"]
    /\ UNCHANGED <<unchangedBySweep, status, want, candidates, candidate, leaseVars>>

PublishSweep ==
    /\ phase[Sweeper] = "publishing"
    /\ status' = Published(pending[Sweeper])
    /\ pending' = [pending EXCEPT ![Sweeper] = NoPublication]
    /\ gate' = Nobody
    /\ ReleasesOwnership(Sweeper)
    /\ candidate' = NoDeadline
    /\ phase' = [phase EXCEPT ![Sweeper] = "sweeping"]
    /\ UNCHANGED <<unchangedBySweep, stateVars, failedMaintenanceWork, candidates>>

\* The source is not operational: the sweep gives up.
Inactive ==
    /\ phase[Sweeper] = "leased" /\ gate = Nobody
    /\ ~(active /\ IsOperational)
    /\ ReleasesOwnership(Sweeper)
    /\ candidates' = {} /\ candidate' = NoDeadline
    /\ phase' = [phase EXCEPT ![Sweeper] = "sleeping"]
    /\ UNCHANGED <<unchangedBySweep, stateVars, failedMaintenanceWork, statusVars, gate>>

\* stop() interrupts the maintenance fiber where it can be interrupted.
SweepInterrupted ==
    /\ closing
    /\ phase[Sweeper] \in {"sleeping", "sweeping", "waiting", "leased"}
    /\ IF phase[Sweeper] = "waiting" THEN AbandonsWait(Sweeper)
       ELSE IF phase[Sweeper] = "leased" THEN ReleasesOwnership(Sweeper)
       ELSE UNCHANGED <<want, leaseVars>>
    /\ candidates' = {} /\ candidate' = NoDeadline
    /\ phase' = [phase EXCEPT ![Sweeper] = "ended"]
    /\ UNCHANGED <<unchangedBySweep, stateVars, failedMaintenanceWork, statusVars, gate>>

-----------------------------------------------------------------------------
(* Attempts and stop() *)

unchangedByAttempt == <<now, stateVars, ledgerVars, pending, command, candidates, candidate>>

BecomeReady ==
    /\ source = "down" /\ ~closing
    /\ gate = Nobody
    /\ attempts < MaxAttempts
    /\ attempts' = attempts + 1
    /\ source' = "up" /\ active' = TRUE
    /\ status' = Published(Operational(failedMaintenanceWork, latestRejection))
    /\ phase' = [p \in Processes |-> IF p = Sweeper THEN phase[p] ELSE "pulling"]
    /\ UNCHANGED <<unchangedByAttempt, closing, gate, want, leaseVars>>

\* The attempt's exit is recorded under the gate.
EndAttempt ==
    /\ source = "ending" /\ \A l \in Lanes : phase[l] = "ended"
    /\ gate = Nobody
    /\ active' = FALSE
    /\ source' = "closing"
    /\ UNCHANGED <<unchangedByAttempt, status, attempts, closing, gate, phase, want, leaseVars>>

\* The finalizer of the attempt's scope gives the leases of its lanes back.
ReleaseTransition(l) ==
    /\ source = "closing" /\ want[l] # NoKey
    /\ ReleasesOwnership(l)
    /\ UNCHANGED <<unchangedByAttempt, status, attemptVars, gate, phase>>

AttemptClosed ==
    /\ source = "closing" /\ \A l \in Lanes : want[l] = NoKey
    /\ source' = "down"
    /\ status' = Published(Status("WaitingToRetry"))
    /\ UNCHANGED <<unchangedByAttempt, active, attempts, closing, gate, phase, want, leaseVars>>

StopBegins ==
    /\ ~closing
    /\ closing' = TRUE
    /\ source' = IF source = "up" THEN "ending" ELSE source
    /\ UNCHANGED <<unchangedByAttempt, status, active, attempts, gate, phase, want, leaseVars>>

\* The maintenance fiber is gone; Stopping is published under the gate.
StopPublishes ==
    /\ closing /\ status.tag # "Stopping"
    /\ phase[Sweeper] = "ended" /\ gate = Nobody
    /\ active' = FALSE
    /\ status' = Status("Stopping")
    /\ UNCHANGED <<unchangedByAttempt, source, attempts, closing, gate, phase, want, leaseVars>>

-----------------------------------------------------------------------------
LaneStep(l) ==
    ApplyDelivery(l) \/ PublishLane(l) \/ LaneInterrupted(l) \/ ReleaseTransition(l) \/ Granted(l)
SweepStep ==
    NextCandidate \/ EndSweep \/ Execute \/ PublishSweep \/ Inactive \/ SweepInterrupted
        \/ Granted(Sweeper)
AttemptStep == EndAttempt \/ AttemptClosed

Next ==
    \/ Tick \/ BeginSweep \/ SweepStep
    \/ \E l \in Lanes : Reject(l) \/ LaneFails(l) \/ LaneStep(l) \/ \E k \in Keys : Prepare(l, k)
    \/ BecomeReady \/ AttemptStep \/ StopBegins \/ StopPublishes

Spec == Init /\ [][Next]_vars

\* Semaphores serve their waiters in order, so whoever waits for the gate gets
\* it; fibers that can run are run.  Records, clock and failures owe nothing.
FairSpec ==
    /\ Spec
    /\ \A l \in Lanes : SF_vars(LaneStep(l))
    /\ SF_vars(SweepStep)
    /\ SF_vars(AttemptStep)

-----------------------------------------------------------------------------
(* Properties *)

\* Maintenance only deletes the row whose deadline it found due, never one a
\* newer record wrote meanwhile, and not once the source stops
\* (isCurrent, runMaintenance and stop under the lifecycle gate).
ExpiryHitsItsRow ==
    [][gate' = Sweeper =>
          /\ active /\ IsOperational
          /\ \A k \in Keys : rows'[k] # rows[k] => rows[k] = candidate /\ candidate.deadlineNanos <= now]_vars

\* Between operations every row has its deadline and every deadline its row,
\* and the region counts them (reduceKafkaRetentionState).
DeadlinesExact ==
    gate = Nobody =>
        /\ \A k \in Keys : IF rows[k] = NoRow THEN deadlines[k] = NoDeadline
                           ELSE deadlines[k] = rows[k]
        /\ \A l \in Lanes :
              trackedRows[l] = Cardinality({k \in Keys : LaneOf[k] = l /\ rows[k] # NoRow})

\* Failed work is work of a current deadline, the runtime and the adapter agree
\* on it, and while there is some an operational source is Degraded: although
\* cancelled work is read before the lease, and rejections publish without gate.
BacklogShown ==
    /\ failedMaintenanceWork = failedWork
    /\ failedWork \subseteq UNION {WorkForId(k) : k \in Keys}
    /\ gate = Nobody /\ active /\ ~closing /\ failedWork # {} => status.tag = "Degraded"

\* A lease has one owner while it is held, and is used by its owner and the
\* waiters only, through interruptions, failures and the end of an attempt.
LeasesExact ==
    \A k \in Keys :
        LET claimants == {p \in Processes : want[p] = k}
            owners == {p \in claimants : ~Queued(p)}
        IN  /\ users[k] = Cardinality(claimants)
            /\ Cardinality(owners) = IF held[k] THEN 1 ELSE 0
            /\ Len(queue[k]) = Cardinality(claimants \ owners)

\* Whoever waits for a key's lease gets it or is interrupted.
WaitersProceed == \A p \in Processes : phase[p] = "waiting" ~> phase[p] # "waiting"

=============================================================================
