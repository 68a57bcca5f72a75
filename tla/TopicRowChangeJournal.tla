------------------------ MODULE TopicRowChangeJournal ------------------------
(***************************************************************************)
(* The change journals of one topic store (topic-row-change-journal.ts)    *)
(* and the storage that feeds them (topic-row-storage.ts).  Active queries *)
(* bring an evaluation up to date from the changes since its version; when *)
(* the journal no longer knows them they rescan the rows.                  *)
(*                                                                         *)
(* The root journal hears every change.  The journal of a partition is     *)
(* sparse: it hears the mutations of its partition and the unpartitioned   *)
(* ones only.  A journal records while some query execution retains it.    *)
(*                                                                         *)
(* A change is the number it was written under; batchLog is the history    *)
(* code does not keep.                                                     *)
(***************************************************************************)
EXTENDS Naturals, Sequences

CONSTANTS Partitions,   \* partition keys of leased feed rows
          Root,         \* the journal, and the route, of no partition
          MaxEntries,   \* maxRowChangeJournalEntries
          MaxVersions,  \* maxRowChangeJournalVersions
          VersionBound, \* commits per epoch explored
          BatchBound,   \* changes per commit explored
          RefsBound     \* executions per journal explored

ASSUME RootIsNoPartition == Root \notin Partitions
ASSUME LimitsArePositive == MaxEntries \in Nat \ {0} /\ MaxVersions \in Nat \ {0}

VARIABLES
    version,      \* storage.versionValue
    journal,      \* rowChangeJournal and partitionChangeJournals
    batch,        \* the mutation under way: its route and its changes so far
    batchLog,     \* history: the batch each version since the last reset committed
    retainedAt    \* history: version at which each journal began to record

journalVars == <<version, journal, batch, batchLog, retainedAt>>

Journals == Partitions \union {Root}
Idle == [route |-> Root, changes |-> <<>>]

-----------------------------------------------------------------------------
(* TopicRowChangeJournal *)

NewJournal ==
    [refs |-> 0, batches |-> <<>>, pending |-> <<>>, overflowed |-> FALSE,
     changeCount |-> 0, invalidBefore |-> 0]

\* clear
Cleared(j, v) ==
    [j EXCEPT !.batches = <<>>, !.pending = <<>>, !.overflowed = FALSE,
              !.changeCount = 0, !.invalidBefore = v]

\* record
Recorded(j, change, v) ==
    IF j.refs = 0 \/ j.overflowed THEN j
    ELSE IF Len(j.pending) + 1 > MaxEntries
         THEN [Cleared(j, v + 1) EXCEPT !.overflowed = TRUE]
         ELSE [j EXCEPT !.pending = Append(@, change)]

\* Mutant: a sparse journal forgets that it dropped its oldest batch.
TrimForgetsSparse(j, v, sparse) ==
    LET excess == Len(j.batches) > MaxVersions
        oldest == Head(j.batches)
        kept == IF ~excess THEN j
                ELSE [j EXCEPT !.batches = Tail(@),
                               !.changeCount = @ - Len(oldest.changes)]
    IN  IF kept.changeCount > MaxEntries THEN Cleared(kept, v) ELSE kept

\* trim: one batch was appended, so at most one is dropped for its number.
Trimmed(j, v, sparse) ==
    LET excess == Len(j.batches) > MaxVersions
        oldest == Head(j.batches)
        kept == IF ~excess THEN j
                ELSE [j EXCEPT !.batches = Tail(@),
                               !.changeCount = @ - Len(oldest.changes),
                               !.invalidBefore = IF sparse /\ oldest.version > @
                                                 THEN oldest.version ELSE @]
    IN  IF kept.changeCount > MaxEntries THEN Cleared(kept, v) ELSE kept

\* commit
Committed(j, v, sparse) ==
    IF j.refs = 0 THEN j
    ELSE IF j.overflowed THEN [j EXCEPT !.pending = <<>>, !.overflowed = FALSE]
    ELSE Trimmed([j EXCEPT !.batches = Append(@, [version |-> v, changes |-> j.pending]),
                           !.pending = <<>>, !.changeCount = @ + Len(j.pending)], v, sparse)

\* retain
Retained(j, v) ==
    LET more == [j EXCEPT !.refs = @ + 1]
    IN  IF more.refs = 1 THEN Cleared(more, v) ELSE more

\* release; the storage drops the journal of a partition nobody retains.
Released(j, v, sparse) ==
    LET less == [j EXCEPT !.refs = IF @ = 0 THEN 0 ELSE @ - 1]
    IN  IF less.refs # 0 THEN less
        ELSE IF sparse THEN NewJournal ELSE Cleared(less, v)

\* Mutant: the first batch is compared with the version itself.
KnowsTooLittle(j, v, current, sparse) ==
    \/ v = current
    \/ /\ j.refs > 0
       /\ v < current
       /\ v >= j.invalidBefore
       /\ sparse \/ (j.batches # <<>> /\ v >= Head(j.batches).version)

\* changesSince answers, and does not return undefined ...
Knows(j, v, current, sparse) ==
    \/ v = current
    \/ /\ j.refs > 0
       /\ v < current
       /\ v >= j.invalidBefore
       /\ sparse \/ (j.batches # <<>> /\ v >= Head(j.batches).version - 1)

\* ... with the batches that this loop collects.
ChangesSince(j, v) ==
    LET newer[i \in 0..Len(j.batches)] ==
            IF i = 0 THEN <<>>
            ELSE IF j.batches[i].version > v THEN Append(newer[i - 1], j.batches[i])
            ELSE newer[i - 1]
    IN  newer[Len(j.batches)]

-----------------------------------------------------------------------------
(* The storage: who hears what *)

Sparse(j) == j # Root

Hears(j, route) == j = Root \/ route = Root \/ route = j

InitJournal ==
    /\ version = 0
    /\ journal = [j \in Journals |-> NewJournal]
    /\ batch = Idle
    /\ batchLog = <<>>
    /\ retainedAt = [j \in Journals |-> 0]

\* recordRowChange of a set or a delete, under the mutation semaphore.
RecordRowChange(route) ==
    /\ version < VersionBound
    /\ Len(batch.changes) < BatchBound
    /\ batch = Idle \/ batch.route = route
    /\ LET change == <<version + 1, Len(batch.changes) + 1>>
       IN  /\ batch' = [route |-> route, changes |-> Append(batch.changes, change)]
           /\ journal' = [j \in Journals |->
                  IF Hears(j, route) THEN Recorded(journal[j], change, version) ELSE journal[j]]
    /\ UNCHANGED <<version, batchLog, retainedAt>>

\* advanceVersion: a mutation that changed some row commits.
AdvanceVersion ==
    /\ batch # Idle
    /\ version' = version + 1
    /\ journal' = [j \in Journals |->
           IF Hears(j, batch.route) THEN Committed(journal[j], version', Sparse(j))
           ELSE journal[j]]
    /\ batchLog' = Append(batchLog, batch)
    /\ batch' = Idle
    /\ UNCHANGED retainedAt

\* A query execution is registered: under the mutation semaphore.
RetainChanges(j) ==
    /\ batch = Idle
    /\ journal[j].refs < RefsBound
    /\ journal' = [journal EXCEPT ![j] = Retained(@, version)]
    /\ retainedAt' = [retainedAt EXCEPT ![j] = IF journal[j].refs = 0 THEN version ELSE @]
    /\ UNCHANGED <<version, batch, batchLog>>

\* An execution ends, or a grouped one gives up being incremental: it does so
\* while it is told, which may be in the middle of a mutation.
ReleaseChanges(j) ==
    /\ journal[j].refs > 0
    /\ journal' = [journal EXCEPT ![j] = Released(@, version, Sparse(j))]
    /\ UNCHANGED <<version, batch, batchLog, retainedAt>>

\* reset: storage.clear, then every execution releases what it retained.
Reset ==
    /\ batch = Idle
    /\ journal' = [j \in Journals |->
           IF journal[j].refs = 0 THEN Cleared(journal[j], version)
           ELSE IF Sparse(j) THEN NewJournal
           ELSE [Cleared(journal[j], 0) EXCEPT !.refs = 0]]
    /\ version' = 0
    /\ batchLog' = <<>>
    /\ UNCHANGED <<batch, retainedAt>>

NextJournal ==
    \/ \E route \in Journals : RecordRowChange(route)
    \/ AdvanceVersion
    \/ \E j \in Journals : RetainChanges(j) \/ ReleaseChanges(j)
    \/ Reset

SpecJournal == InitJournal /\ [][NextJournal]_journalVars

-----------------------------------------------------------------------------
Changes == Seq(Nat \X Nat)
Batch == [version : Nat, changes : Changes]

JournalTypeOK ==
    /\ version \in Nat
    /\ journal \in [Journals -> [refs : Nat, batches : Seq(Batch), pending : Changes,
                                 overflowed : BOOLEAN, changeCount : Nat, invalidBefore : Nat]]
    /\ batch \in [route : Journals, changes : Changes]
    /\ batchLog \in Seq([route : Journals, changes : Changes])
    /\ retainedAt \in [Journals -> Nat]

\* The batches that a journal was to hear since a version.
Heard(history, j, v) ==
    LET heard[u \in 0..Len(history)] ==
            IF u = 0 THEN <<>>
            ELSE IF u > v /\ Hears(j, history[u].route)
            THEN Append(heard[u - 1], [version |-> u, changes |-> history[u].changes])
            ELSE heard[u - 1]
    IN  heard[Len(history)]

\* How many changes they are.
ChangesIn(batches) ==
    LET count[i \in 0..Len(batches)] ==
            IF i = 0 THEN 0 ELSE count[i - 1] + Len(batches[i].changes)
    IN  count[Len(batches)]

\* What a journal answers is exactly the committed changes since that version,
\* in their order, or unknown: never a part of them, and never the changes of the
\* mutation under way (changesSince).
ExactOrUnknown ==
    \A j \in Journals : \A v \in 0..version :
        journal[j].refs > 0 /\ Knows(journal[j], v, version, Sparse(j)) =>
            ChangesSince(journal[j], v) = Heard(batchLog, j, v)

\* Since it was retained the journal has stayed within its limits, with what it
\* hears of the mutation under way.
WithinLimits(j) ==
    LET heard == Heard(batchLog, j, retainedAt[j])
        recording == IF Hears(j, batch.route) THEN Len(batch.changes) ELSE 0
    IN  Len(heard) <= MaxVersions /\ ChangesIn(heard) + recording <= MaxEntries

\* A journal that was retained at a version, and has stayed within its limits
\* since, knows every change since: no query rescans the rows for nothing.
KnowsWithinLimits ==
    \A j \in Journals :
        journal[j].refs > 0 /\ WithinLimits(j) =>
            \A v \in retainedAt[j]..version : Knows(journal[j], v, version, Sparse(j))
=============================================================================
