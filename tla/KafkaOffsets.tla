----------------------------- MODULE KafkaOffsets -----------------------------
(***************************************************************************)
(* Where the Kafka adapter starts to read (the binding state and acquire   *)
(* of makeRegionDriver in kafka/src/node-internal.ts): the offsets of a    *)
(* topic are resolved once and frozen for the lifetime of the binding, a   *)
(* retry resumes from what the lifetime has committed, and a partition     *)
(* that appears later is resolved before its attempt ends.                 *)
(*                                                                         *)
(* One region, whose records are applied and committed one after the       *)
(* other.  The broker is what the adapter sees of it: partitions that are  *)
(* added and grow, lookups that may not know of the newest partitions, and *)
(* commits whose answer may be lost.                                       *)
(***************************************************************************)
EXTENDS Integers, FiniteSets

CONSTANTS PartitionCount,       \* bound on the partitions of the topic
          FirstPartitions,      \* partitions it has at first
          FirstEnd,             \* records each of them has at first
          MaxEnd,               \* bound on the records of each partition
          Starts,               \* start positions: a mode and its fallback
          Usable,               \* offset the mode finds in a partition, or Missing
          ReadsFromJoin,        \* the client library reads a partition it was
                                \* assigned from where it was at the time
          ResolutionAttempts,   \* partitionGrowthResolutionAttempts
          MaxFaults             \* bound on failures and outdated answers

ASSUME Bounds == /\ PartitionCount \in Nat \ {0} /\ FirstPartitions \in 0..PartitionCount
                 /\ FirstEnd \in Nat
                 /\ ResolutionAttempts \in Nat \ {0} /\ MaxFaults \in Nat
                 /\ ReadsFromJoin \in BOOLEAN
Partitions == 0..(PartitionCount - 1)
ASSUME EndsAreBounded == /\ MaxEnd \in [Partitions -> Nat]
                         /\ \A p \in 0..(FirstPartitions - 1) : FirstEnd <= MaxEnd[p]
Offsets == UNION {0..MaxEnd[p] : p \in Partitions}
Missing == -1
Unknown == -2                   \* null in pendingPartitionGrowthOffsets
NotOwed == Cardinality(Offsets) \* above every offset
ASSUME UsableIsOffset == Usable \in [Partitions -> Offsets \union {Missing}]
ASSUME StartsAreModes == Starts \subseteq [mode : {"earliest", "latest", "usable"},
                                           fallback : {"earliest", "latest"}]

VARIABLES
    existing, end,              \* the partitions, and the end of each
    committed,                  \* commits of the active group at the broker
    faults,
    start,                      \* input.start
    initial,                    \* state.initial
    committedPartitions,
    pending,                    \* state.pendingPartitionGrowthOffsets
    lookup,                     \* what the attempt resolves at the moment
    position,                   \* next record of each partition of the stream
    record, recordStage,        \* the record being processed
    handled,                    \* history: records applied or rejected
    owed                        \* history: first record a partition owes

brokerVars == <<existing, end, committed>>
bindingVars == <<initial, committedPartitions, pending>>
streamVars == <<position, record, recordStage>>
historyVars == <<handled, owed>>
vars == <<brokerVars, faults, start, bindingVars, lookup, streamVars, historyVars>>

Existing == 0..(existing - 1)
NoOffsets == [p \in {} |-> 0]
NotResolved == [known |-> FALSE, offsets |-> NoOffsets, latest |-> {}]
NoLookup == [stage |-> "none", resolution |-> 0, count |-> 0, offsets |-> NoOffsets,
             latest |-> {}]
NoRecord == [partition |-> 0, offset |-> 0]

TypeOK ==
    /\ existing \in 0..PartitionCount /\ end \in [Partitions -> Offsets]
    /\ committed \in [Partitions -> Offsets \union {Missing}]
    /\ faults \in 0..MaxFaults /\ start \in Starts
    /\ committedPartitions \subseteq Partitions
    /\ DOMAIN pending \subseteq Partitions /\ DOMAIN position \subseteq Partitions
    /\ recordStage \in {"none", "pulled", "handled"}
    /\ handled \in [Partitions -> SUBSET Offsets] /\ owed \in [Partitions -> 0..NotOwed]

Init ==
    /\ existing = FirstPartitions
    /\ end = [p \in Partitions |-> IF p < FirstPartitions THEN FirstEnd ELSE 0]
    \* An earlier lifetime may have committed.
    /\ committed \in [Partitions -> {Missing, FirstEnd}]
    /\ \A p \in Partitions \ Existing : committed[p] = Missing
    /\ faults = 0 /\ start \in Starts
    /\ initial = NotResolved /\ committedPartitions = {} /\ pending = NoOffsets
    /\ lookup = [NoLookup EXCEPT !.stage = "waiting"]
    /\ position = NoOffsets /\ record = NoRecord /\ recordStage = "none"
    /\ handled = [p \in Partitions |-> {}] /\ owed = [p \in Partitions |-> NotOwed]

Fault == faults < MaxFaults /\ faults' = faults + 1

\* A supervised attempt ends: its consumer is closed, and what it had pulled
\* and not committed is forgotten.
EndAttempt ==
    /\ lookup' = [NoLookup EXCEPT !.stage = "waiting"]
    /\ position' = NoOffsets /\ record' = NoRecord /\ recordStage' = "none"

-----------------------------------------------------------------------------
(* The broker *)

AddPartition ==
    /\ existing < PartitionCount
    /\ existing' = existing + 1
    /\ UNCHANGED <<end, committed, faults, start, bindingVars, lookup, streamVars, historyVars>>

Produce(p) ==
    /\ p \in Existing /\ end[p] < MaxEnd[p]
    /\ end' = [end EXCEPT ![p] = @ + 1]
    /\ UNCHANGED <<existing, committed, faults, start, bindingVars, lookup, streamVars, historyVars>>

\* An answer about the first so many partitions: all of them, unless the
\* broker that answers does not know the newest ones yet.
Answered(n) ==
    /\ n \in 0..existing
    /\ IF n < existing THEN Fault ELSE UNCHANGED faults

AnswerFor(n, offset) == [p \in 0..(n - 1) |-> offset[p]]

-----------------------------------------------------------------------------
(* Resolving the start position *)

\* The policy of a partition without an offset of its own.
CanResolveFromLatest ==
    \/ start.mode = "latest"
    \/ start.mode = "usable" /\ start.fallback = "latest"

\* What the policy comes to for one partition: its end at this moment ...
FromLatest(p) ==
    CanResolveFromLatest /\ (start.mode = "latest" \/ Usable[p] = Missing)

\* ... or the offset the mode finds, or the earliest.
FixedStart(p) == IF start.mode = "usable" /\ Usable[p] # Missing THEN Usable[p] ELSE 0

FirstOwed(p) == IF FromLatest(p) THEN end[p] ELSE FixedStart(p)

\* A partition owes its records from where it is frozen; one that was discovered
\* before, from the first lookup since, whether or not that one knows of it.
Owe ==
    owed' = [p \in Partitions |->
                IF owed[p] # NotOwed THEN owed[p]
                ELSE IF p \in DOMAIN pending THEN FirstOwed(p)
                ELSE IF p \in DOMAIN initial'.offsets THEN initial'.offsets[p]
                ELSE NotOwed]

\* Reacquisition, and every resolution after the first, are conservative.
Conservative == lookup.resolution # 1

\* Mutant: metadata that lag never lead to the earliest offset.
NeedsNoFloor(latest) == FALSE

NeedsFloor(latest) ==
    /\ initial.known /\ Conservative
    /\ \E p \in DOMAIN pending : pending[p] = Unknown /\ p \in latest

Frozen(offsets, latest) == [known |-> TRUE, offsets |-> offsets, latest |-> latest]

\* Mutant: what is frozen is resolved again.
MergedAnew(offsets, latest, floors) == Frozen(offsets, latest)

\* mergeInitialPartitions
Merged(offsets, latest, floors) ==
    LET old == initial.offsets
        Floor(p, resolved, fromLatest) ==
            IF p \in DOMAIN floors /\ fromLatest /\ floors[p] # Unknown THEN floors[p] ELSE resolved
    IN  Frozen([p \in DOMAIN old \union DOMAIN offsets |->
                   IF p \notin DOMAIN old THEN Floor(p, offsets[p], p \in latest)
                   ELSE IF Floor(p, old[p], p \in initial.latest) < old[p]
                   THEN floors[p] ELSE old[p]],
               initial.latest \union (latest \ DOMAIN old))

\* The bounded resolution of a running attempt ends it, resolved or not;
\* reacquisition goes on only if nothing is left to resolve.
Expand(offsets, latest, floors) ==
    LET unresolved == [p \in DOMAIN pending \ DOMAIN offsets |-> pending[p]]
    IN  /\ initial' = Merged(offsets, latest, floors)
        /\ pending' = unresolved
        /\ UNCHANGED committedPartitions
        /\ IF lookup.resolution = 0 /\ unresolved = NoOffsets
           THEN lookup' = [NoLookup EXCEPT !.stage = "open"] /\ UNCHANGED streamVars
           ELSE IF lookup.resolution \in 1..(ResolutionAttempts - 1) /\ unresolved # NoOffsets
           THEN /\ lookup' = [NoLookup EXCEPT !.stage = "latest",
                                              !.resolution = lookup.resolution + 1]
                /\ UNCHANGED streamVars
           ELSE EndAttempt

\* All offsets are known; resolveInitial returns.
Resolved(offsets, latest) ==
    IF ~initial.known
    THEN /\ initial' = Frozen(offsets, latest)
         /\ lookup' = [NoLookup EXCEPT !.stage = "open"]
         /\ UNCHANGED <<committedPartitions, pending, streamVars>>
    ELSE IF NeedsFloor(latest)
    THEN /\ lookup' = [lookup EXCEPT !.stage = "floor", !.offsets = offsets, !.latest = latest]
         /\ UNCHANGED <<bindingVars, streamVars>>
    ELSE Expand(offsets, latest, pending)

\* resolveInitial fails unless it has an offset for each partition.
Complete(offsets, latest) ==
    IF DOMAIN offsets = 0..(lookup.count - 1) /\ \A p \in DOMAIN offsets : offsets[p] # Missing
    THEN Resolved(offsets, latest) /\ Owe
    ELSE EndAttempt /\ UNCHANGED <<bindingVars, owed>>

unchangedByLookup == <<brokerVars, start, handled>>

\* Mutant: a retry does not resolve what the last attempt has left unresolved.
KnownIsEnough == initial.known

NothingToResolve == initial.known /\ pending = NoOffsets

Acquire ==
    /\ lookup.stage = "waiting"
    /\ lookup' = [NoLookup EXCEPT !.stage = IF NothingToResolve THEN "open" ELSE "latest"]
    /\ UNCHANGED <<unchangedByLookup, faults, bindingVars, streamVars, owed>>

ListLatest ==
    /\ lookup.stage = "latest"
    /\ \E n \in 0..existing :
          /\ Answered(n)
          /\ IF start.mode = "latest"
             THEN Resolved(AnswerFor(n, end), 0..(n - 1)) /\ Owe
             ELSE /\ lookup' = [lookup EXCEPT !.stage = "start", !.count = n]
                  /\ UNCHANGED <<bindingVars, streamVars, owed>>
    /\ UNCHANGED unchangedByLookup

\* The earliest offsets, commits of another group, or offsets at a time.
ListStart ==
    /\ lookup.stage = "start"
    /\ \E n \in 0..existing :
          /\ Answered(n)
          /\ LET offsets == AnswerFor(n, IF start.mode = "earliest" THEN [p \in Partitions |-> 0]
                                                                   ELSE Usable)
                 missing == {p \in DOMAIN offsets : offsets[p] = Missing}
             IN  IF missing = {}
                 THEN Complete(offsets, {})
                 ELSE /\ lookup' = [lookup EXCEPT
                            !.stage = "fallback", !.offsets = offsets,
                            !.latest = IF start.fallback = "latest" THEN missing ELSE {}]
                      /\ UNCHANGED <<bindingVars, streamVars, owed>>
    /\ UNCHANGED unchangedByLookup

\* resolveFallback
ListFallback ==
    /\ lookup.stage = "fallback"
    /\ \E n \in 0..existing :
          /\ Answered(n)
          /\ Complete([p \in DOMAIN lookup.offsets |->
                          IF lookup.offsets[p] # Missing THEN lookup.offsets[p]
                          ELSE IF p >= n THEN Missing
                          ELSE IF start.fallback = "latest" THEN end[p] ELSE 0],
                      lookup.latest)
    /\ UNCHANGED unchangedByLookup

\* conservativeLatestGrowthOffsets: the earliest offset of what is unknown.
ListFloor ==
    /\ lookup.stage = "floor"
    /\ \E n \in 0..existing :
          /\ Answered(n)
          /\ LET unknown == {p \in DOMAIN pending : pending[p] = Unknown /\ p \in lookup.latest}
             IN  IF \E p \in unknown : p >= n
                 THEN EndAttempt /\ UNCHANGED bindingVars
                 ELSE Expand(lookup.offsets, lookup.latest,
                             [p \in DOMAIN pending |-> IF p \in unknown THEN 0 ELSE pending[p]])
    /\ Owe
    /\ UNCHANGED unchangedByLookup

ResumesCommit(p) == p \in committedPartitions /\ committed[p] # Missing

\* activeOffsets, and the stream starts.
Open ==
    /\ lookup.stage = "open"
    /\ lookup' = NoLookup
    /\ position' = [p \in DOMAIN initial.offsets |->
                        IF ResumesCommit(p) THEN committed[p] ELSE initial.offsets[p]]
    /\ UNCHANGED <<unchangedByLookup, faults, bindingVars, record, recordStage, owed>>

Lookup == Acquire \/ ListLatest \/ ListStart \/ ListFallback \/ ListFloor \/ Open

-----------------------------------------------------------------------------
(* The stream *)

Running == lookup.stage = "none" \/ lookup.resolution > 0

\* signalPartitionGrowth: once per attempt the resolution is started.
GroupJoin ==
    /\ Running
    /\ \E joined \in SUBSET (Existing \ DOMAIN position) :
          /\ joined \ DOMAIN pending # {}
          /\ pending' = [p \in DOMAIN pending \union joined |->
                            IF p \in DOMAIN pending THEN pending[p] ELSE Unknown]
    /\ lookup' = IF lookup.stage = "none"
                 THEN [NoLookup EXCEPT !.stage = "latest", !.resolution = 1] ELSE lookup
    /\ UNCHANGED <<unchangedByLookup, faults, initial, committedPartitions, streamVars, owed>>

\* A record of a partition that is not resolved, with the offset that the
\* client library began to read at.
Expose ==
    /\ Running /\ recordStage = "none"
    /\ \E p \in Existing \ DOMAIN position : \E offset \in 0..(end[p] - 1) :
       /\ ReadsFromJoin => offset <= owed[p]
       /\ LET known == IF CanResolveFromLatest THEN offset
                       ELSE IF p \in DOMAIN pending THEN pending[p] ELSE Unknown
          IN  /\ pending' = [q \in DOMAIN pending \union {p} |->
                                IF q = p THEN known ELSE pending[q]]
              /\ owed' = IF FromLatest(p) /\ offset < owed[p]
                         THEN [owed EXCEPT ![p] = offset] ELSE owed
    /\ EndAttempt
    /\ UNCHANGED <<unchangedByLookup, faults, initial, committedPartitions>>

unchangedByRecord == <<existing, end, start, initial, pending, owed>>

Pull ==
    /\ Running /\ recordStage = "none"
    /\ \E p \in DOMAIN position :
          /\ position[p] < end[p]
          /\ record' = [partition |-> p, offset |-> position[p]]
          /\ position' = [position EXCEPT ![p] = @ + 1]
    /\ recordStage' = "pulled"
    /\ UNCHANGED <<unchangedByRecord, committed, faults, committedPartitions, lookup, handled>>

\* Applied, or rejected and settled like an applied one.
Handle ==
    /\ recordStage = "pulled"
    /\ handled' = [handled EXCEPT ![record.partition] = @ \union {record.offset}]
    /\ recordStage' = "handled"
    /\ UNCHANGED <<unchangedByRecord, committed, faults, committedPartitions, lookup, position,
                   record>>

CommitArrives == committed' = [committed EXCEPT ![record.partition] = record.offset + 1]

\* settleCommittedRecord
Commit ==
    /\ recordStage = "handled"
    /\ CommitArrives
    /\ committedPartitions' = committedPartitions \union {record.partition}
    /\ recordStage' = "none" /\ record' = NoRecord
    /\ UNCHANGED <<unchangedByRecord, faults, lookup, position, handled>>

\* A commit whose answer is lost ends the attempt like one that failed.
CommitAnswerLost ==
    /\ recordStage = "handled"
    /\ Fault /\ CommitArrives
    /\ EndAttempt
    /\ UNCHANGED <<unchangedByRecord, committedPartitions, handled>>

\* A lookup, the stream, the application or the commit fails.
AttemptFails ==
    /\ lookup.stage # "waiting"
    /\ Fault
    /\ EndAttempt
    /\ UNCHANGED <<brokerVars, start, bindingVars, historyVars>>

Process == Pull \/ Handle \/ Commit

-----------------------------------------------------------------------------
Next ==
    \/ AddPartition \/ \E p \in Partitions : Produce(p)
    \/ Acquire \/ ListLatest \/ ListStart \/ ListFallback \/ ListFloor \/ Open
    \/ GroupJoin \/ Expose
    \/ Pull \/ Handle \/ Commit \/ CommitAnswerLost \/ AttemptFails

Spec == Init /\ [][Next]_vars

\* Attempts are retried, the broker answers, the group is joined again when
\* partitions appear, and the region does not starve its own records.
FairSpec == Spec /\ WF_vars(Lookup) /\ WF_vars(GroupJoin) /\ WF_vars(Process)

-----------------------------------------------------------------------------
(* Properties *)

\* No record is skipped, whichever attempts end, answers are lost or outdated
\* and partitions appear: what a stream has behind it was applied or rejected,
\* from the first record its partition owes (activeOffsets,
\* mergeInitialPartitions, conservativeLatestGrowthOffsets).
NothingSkipped ==
    \A p \in DOMAIN position : \A offset \in owed[p]..(position[p] - 1) :
        \/ offset \in handled[p]
        \/ recordStage = "pulled" /\ record = [partition |-> p, offset |-> offset]

\* A frozen partition stays frozen, whatever a later answer says or omits, and
\* its offset is only ever lowered.
FrozenStays ==
    [][initial.known => \A p \in DOMAIN initial.offsets :
        p \in DOMAIN initial'.offsets /\ initial'.offsets[p] <= initial.offsets[p]]_vars

\* Every record that is owed is applied or rejected in the end.
EverythingHandled ==
    \A p \in Partitions : \A offset \in Offsets :
        offset >= owed[p] /\ offset < end[p] ~> offset \in handled[p]

=============================================================================
