--------------------------- MODULE KafkaOffsets_proofs ---------------------------
(***************************************************************************)
(* Proofs about the offsets of a Kafka region, for any partitions, start   *)
(* positions, bounds and faults.                                           *)
(***************************************************************************)
EXTENDS KafkaOffsets, FiniteSetTheorems, FunctionTheorems, TLAPS

\* Types of what TypeOK leaves open.
LookupOK ==
    /\ DOMAIN lookup = {"stage", "resolution", "count", "offsets", "latest"}
    /\ lookup.stage \in {"none", "waiting", "latest", "start", "fallback", "floor", "open"}
    /\ lookup.resolution \in 0..ResolutionAttempts /\ lookup.count \in 0..PartitionCount
    /\ DOMAIN lookup.offsets \subseteq Partitions
    /\ \A p \in DOMAIN lookup.offsets : lookup.offsets[p] \in Offsets \union {Missing}

OffsetsOK ==
    /\ \A p \in DOMAIN initial.offsets : p \in Partitions /\ initial.offsets[p] \in Offsets
    /\ \A p \in DOMAIN pending : p \in Partitions /\ pending[p] \in Offsets \union {Unknown}
    /\ \A p \in DOMAIN position : position[p] \in Offsets
    /\ \A p \in Partitions : end[p] <= MaxEnd[p]
    /\ initial.known \in BOOLEAN

\* Progress of an attempt: it has a stream once it is open, and resolves what is
\* pending before it is open or while it runs.
AttemptProgress ==
    /\ Running => initial.known /\ DOMAIN position \subseteq DOMAIN initial.offsets
                     /\ committedPartitions \subseteq DOMAIN position
    /\ ~Running => DOMAIN position = {} /\ recordStage = "none"
    /\ lookup.stage \in {"none", "open"} => DOMAIN pending = {} /\ initial.known
    /\ lookup.stage \in {"none", "open", "waiting"} => lookup.resolution = 0
    /\ ~initial.known => DOMAIN pending = {} /\ DOMAIN initial.offsets = {}
    /\ committedPartitions \subseteq DOMAIN initial.offsets

\* An answer under way starts each partition where the policy does.
AnswerFollowsPolicy ==
    /\ lookup.stage \in {"start", "fallback"} => start.mode # "latest"
    /\ lookup.stage = "fallback" =>
          /\ start.mode = "usable"
          /\ \A p \in DOMAIN lookup.offsets : lookup.offsets[p] = Usable[p]
    /\ lookup.stage = "floor" =>
          /\ initial.known /\ Conservative
          /\ \A p \in DOMAIN lookup.offsets :
                IF FromLatest(p) THEN lookup.offsets[p] \in 0..end[p] ELSE lookup.offsets[p] = FixedStart(p)
    /\ lookup.stage \in {"fallback", "floor"} =>
          lookup.latest = {p \in DOMAIN lookup.offsets : FromLatest(p)}
    /\ initial.latest = {p \in DOMAIN initial.offsets : FromLatest(p)}

\* A partition owes once it is frozen or discovered, from where the policy says.
OwedFollowsPolicy ==
    \A p \in Partitions :
        /\ owed[p] # NotOwed => p \in DOMAIN initial.offsets \union DOMAIN pending
        /\ p \in DOMAIN initial.offsets => owed[p] # NotOwed
        /\ ~FromLatest(p) => owed[p] \in {FixedStart(p), NotOwed}
        /\ ReadsFromJoin /\ FromLatest(p) /\ p \in DOMAIN pending /\ pending[p] # Unknown
              => pending[p] <= owed[p] /\ owed[p] # NotOwed

\* A partition is frozen at or before what it owes, unless a record that showed
\* that it owes more is pending.
FrozenCoversOwed ==
    ReadsFromJoin =>
        \A p \in DOMAIN initial.offsets :
            initial.offsets[p] > owed[p] =>
                FromLatest(p) /\ p \in DOMAIN pending /\ pending[p] # Unknown

\* What the first resolution of a running attempt is about has only just joined.
FirstResolutionIsFresh ==
    lookup.resolution = 1 =>
        \A p \in DOMAIN pending \ DOMAIN initial.offsets : pending[p] = Unknown => owed[p] = NotOwed

\* The record in hand is the last one that its stream has behind it.
RecordInStream ==
    recordStage # "none" =>
        /\ record.partition \in DOMAIN position
        /\ record.offset \in Nat
        /\ position[record.partition] = record.offset + 1
        /\ record.offset < end[record.partition]
        /\ recordStage = "handled" => record.offset \in handled[record.partition]

\* What the lifetime has committed was applied or rejected, from what is owed.
CommitsAreHandled ==
    ReadsFromJoin =>
        \A p \in committedPartitions :
            \A offset \in owed[p]..(committed[p] - 1) : offset \in handled[p]

StreamSkipsNothing == ReadsFromJoin => NothingSkipped

\* The inductive invariant of the offsets.
KInv ==
    /\ TypeOK /\ LookupOK /\ OffsetsOK /\ AttemptProgress /\ AnswerFollowsPolicy
    /\ OwedFollowsPolicy /\ FrozenCoversOwed /\ FirstResolutionIsFresh /\ RecordInStream
    /\ CommitsAreHandled /\ StreamSkipsNothing

-----------------------------------------------------------------------------
(* Offsets *)

LEMMA OffsetsAreClosed ==
    /\ Offsets \subseteq Nat /\ 0 \in Offsets
    /\ \A o \in Offsets : 0..o \subseteq Offsets
    /\ \A p \in Partitions : MaxEnd[p] \in Nat /\ 0..MaxEnd[p] \subseteq Offsets
<1>1. \A p \in Partitions : MaxEnd[p] \in Nat /\ 0..MaxEnd[p] \subseteq Offsets
  BY EndsAreBounded DEF Offsets
<1>2. Offsets \subseteq Nat /\ \A o \in Offsets : 0..o \subseteq Offsets
  BY EndsAreBounded DEF Offsets
<1>3. 0 \in Partitions
  BY Bounds DEF Partitions
<1>. QED
  BY <1>1, <1>2, <1>3

\* No partition owes its records from NotOwed on, which is no offset.
LEMMA NotOwedIsNoOffset == NotOwed \in Nat /\ \A o \in Offsets : o < NotOwed
<1>. DEFINE Ends == {0..MaxEnd[p] : p \in Partitions}
            f == [p \in Partitions |-> 0..MaxEnd[p]]
<1>1. IsFiniteSet(Partitions)
  BY FS_Interval, Bounds DEF Partitions
<1>2. f \in Surjection(Partitions, Ends)
  BY DEF Surjection
<1>3. IsFiniteSet(Ends)
  BY <1>1, <1>2, FS_Surjection
<1>4. \A E \in Ends : IsFiniteSet(E)
  BY FS_Interval, EndsAreBounded
<1>5. IsFiniteSet(Offsets)
  BY <1>3, <1>4, FS_UNION DEF Offsets
<1>6. ASSUME NEW o \in Offsets PROVE o < NotOwed
  <2>1. o \in Nat /\ 0..o \subseteq Offsets
    BY OffsetsAreClosed
  <2>2. Cardinality(0..o) = o + 1
    BY <2>1, FS_Interval
  <2>3. Cardinality(0..o) <= Cardinality(Offsets) /\ Cardinality(Offsets) \in Nat
    BY <2>1, <1>5, FS_Subset, FS_CardinalityType
  <2>. QED
    BY <2>1, <2>2, <2>3 DEF NotOwed
<1>. QED
  BY <1>5, <1>6, FS_CardinalityType DEF NotOwed

\* What ends an attempt leaves nothing of it behind.
LEMMA EndedAttempt ==
    ASSUME EndAttempt
    PROVE  /\ lookup'.stage = "waiting" /\ lookup'.resolution = 0 /\ lookup'.count = 0
           /\ DOMAIN lookup' = {"stage", "resolution", "count", "offsets", "latest"}
           /\ DOMAIN lookup'.offsets = {} /\ DOMAIN position' = {} /\ recordStage' = "none"
BY DEF EndAttempt, NoLookup, NoOffsets

LEMMA ExistingArePartitions == ASSUME TypeOK PROVE Existing \subseteq Partitions
BY Bounds DEF TypeOK, Existing, Partitions

LEMMA NumbersAreNat ==
    ASSUME TypeOK, OffsetsOK
    PROVE  /\ \A p \in Partitions : owed[p] \in Nat /\ end[p] \in Nat
           /\ \A p \in DOMAIN initial.offsets : p \in Partitions /\ initial.offsets[p] \in Nat
           /\ \A p \in DOMAIN position : p \in Partitions /\ position[p] \in Nat
<1>1. \A p \in Partitions : owed[p] \in Nat
  BY NotOwedIsNoOffset DEF TypeOK
<1>2. \A p \in Partitions : end[p] \in Nat
  BY OffsetsAreClosed DEF TypeOK
<1>3. \A p \in DOMAIN initial.offsets : p \in Partitions /\ initial.offsets[p] \in Nat
  BY OffsetsAreClosed DEF OffsetsOK
<1>4. \A p \in DOMAIN position : p \in Partitions /\ position[p] \in Nat
  BY OffsetsAreClosed DEF TypeOK, OffsetsOK
<1>. QED
  BY <1>1, <1>2, <1>3, <1>4

LEMMA InitEstablishesInvariant == Init => KInv
<1>. SUFFICES ASSUME Init PROVE KInv
  OBVIOUS
<1>. USE Bounds, EndsAreBounded, OffsetsAreClosed, NotOwedIsNoOffset
<1>. USE DEF Init, NoOffsets, NotResolved, NoLookup, NoRecord, Missing, Unknown
<1>1. \A p \in Partitions : end[p] \in 0..MaxEnd[p]
  BY DEF Partitions
<1>2. TypeOK
  <2>1. \A p \in Partitions : committed[p] \in Offsets \union {Missing}
    <3>1. \A p \in Existing : FirstEnd \in Offsets
      BY DEF Existing, Partitions
    <3>. QED
      BY <3>1
  <2>2. committed \in [Partitions -> Offsets \union {Missing}]
    BY <2>1
  <2>3. end \in [Partitions -> Offsets]
    BY <1>1
  <2>4. handled \in [Partitions -> SUBSET Offsets] /\ owed \in [Partitions -> 0..NotOwed]
    OBVIOUS
  <2>. QED
    BY <2>2, <2>3, <2>4 DEF TypeOK
<1>3. LookupOK /\ OffsetsOK
  BY <1>1 DEF LookupOK, OffsetsOK
<1>4. AttemptProgress /\ AnswerFollowsPolicy
  BY DEF AttemptProgress, AnswerFollowsPolicy, Running
<1>5. OwedFollowsPolicy /\ FrozenCoversOwed /\ FirstResolutionIsFresh
  BY DEF OwedFollowsPolicy, FrozenCoversOwed, FirstResolutionIsFresh
<1>6. RecordInStream /\ CommitsAreHandled /\ StreamSkipsNothing
  BY DEF RecordInStream, CommitsAreHandled, StreamSkipsNothing, NothingSkipped
<1>. QED
  BY <1>2, <1>3, <1>4, <1>5, <1>6 DEF KInv

-----------------------------------------------------------------------------
(* The broker *)

LEMMA AddPartitionKeepsInvariant == ASSUME KInv, AddPartition PROVE KInv'
<1>. USE DEF KInv, AddPartition, bindingVars, streamVars, historyVars
<1>1. TypeOK' /\ LookupOK' /\ OffsetsOK'
  BY Bounds DEF TypeOK, LookupOK, OffsetsOK
<1>2. AttemptProgress' /\ AnswerFollowsPolicy'
  BY DEF AttemptProgress, AnswerFollowsPolicy, Running, Conservative, FromLatest,
     CanResolveFromLatest, FixedStart
<1>3. OwedFollowsPolicy' /\ FrozenCoversOwed' /\ FirstResolutionIsFresh'
  BY DEF OwedFollowsPolicy, FrozenCoversOwed, FirstResolutionIsFresh, FromLatest,
     CanResolveFromLatest, FixedStart
<1>4. RecordInStream' /\ CommitsAreHandled' /\ StreamSkipsNothing'
  BY DEF RecordInStream, CommitsAreHandled, StreamSkipsNothing, NothingSkipped
<1>. QED
  BY <1>1, <1>2, <1>3, <1>4

LEMMA ProduceKeepsInvariant ==
    ASSUME KInv, NEW q \in Partitions, Produce(q)
    PROVE  KInv'
<1>. USE DEF KInv, Produce, bindingVars, streamVars, historyVars
<1>1. /\ end' \in [Partitions -> Offsets]
      /\ \A p \in Partitions : end'[p] <= MaxEnd[p] /\ end[p] <= end'[p]
  <2>1. \A p \in Partitions : end[p] \in Nat /\ end[p] <= MaxEnd[p] /\ MaxEnd[p] \in Nat
    BY OffsetsAreClosed DEF TypeOK, OffsetsOK
  <2>2. end' = [end EXCEPT ![q] = end[q] + 1] /\ end[q] < MaxEnd[q]
    OBVIOUS
  <2>3. end[q] + 1 \in 0..MaxEnd[q] /\ 0..MaxEnd[q] \subseteq Offsets
    BY <2>1, <2>2, OffsetsAreClosed
  <2>. QED
    BY <2>1, <2>2, <2>3 DEF TypeOK
<1>2. TypeOK' /\ LookupOK' /\ OffsetsOK'
  BY <1>1 DEF TypeOK, LookupOK, OffsetsOK
<1>3. AttemptProgress'
  BY DEF AttemptProgress, Running
<1>4. AnswerFollowsPolicy'
  <2>1. ASSUME lookup.stage = "floor", NEW p \in DOMAIN lookup.offsets, FromLatest(p)
        PROVE  lookup.offsets[p] \in 0..end'[p]
    <3>1. p \in Partitions /\ lookup.offsets[p] \in 0..end[p]
      BY <2>1 DEF LookupOK, AnswerFollowsPolicy
    <3>2. end[p] \in Nat /\ end'[p] \in Nat /\ end[p] <= end'[p]
      BY <3>1, <1>1, OffsetsAreClosed DEF TypeOK
    <3>. QED
      BY <3>1, <3>2
  <2>. QED
    BY <2>1 DEF AnswerFollowsPolicy, Conservative, FromLatest, CanResolveFromLatest, FixedStart
<1>5. OwedFollowsPolicy' /\ FrozenCoversOwed' /\ FirstResolutionIsFresh'
  BY DEF OwedFollowsPolicy, FrozenCoversOwed, FirstResolutionIsFresh, FromLatest,
     CanResolveFromLatest, FixedStart
<1>6. RecordInStream'
  <2>1. ASSUME recordStage # "none"
        PROVE  record.offset < end'[record.partition]
    <3>1. /\ record.partition \in Partitions /\ record.offset \in Nat
          /\ record.offset < end[record.partition]
      BY <2>1 DEF RecordInStream, TypeOK
    <3>2. /\ end[record.partition] \in Nat /\ end'[record.partition] \in Nat
          /\ end[record.partition] <= end'[record.partition]
      BY <3>1, <1>1, OffsetsAreClosed DEF TypeOK
    <3>. QED
      BY <3>1, <3>2
  <2>. QED
    BY <2>1 DEF RecordInStream
<1>7. CommitsAreHandled' /\ StreamSkipsNothing'
  BY DEF CommitsAreHandled, StreamSkipsNothing, NothingSkipped
<1>. QED
  BY <1>2, <1>3, <1>4, <1>5, <1>6, <1>7

-----------------------------------------------------------------------------
(* The attempt *)

LEMMA AcquireKeepsInvariant == ASSUME KInv, Acquire PROVE KInv'
<1>. USE DEF KInv, Acquire, unchangedByLookup, brokerVars, bindingVars, streamVars
<1>1. /\ lookup'.stage = IF NothingToResolve THEN "open" ELSE "latest"
      /\ lookup'.resolution = 0 /\ lookup'.count = 0 /\ DOMAIN lookup'.offsets = {}
      /\ DOMAIN lookup' = {"stage", "resolution", "count", "offsets", "latest"}
  BY DEF NoLookup, NoOffsets
<1>2. NothingToResolve => initial.known /\ DOMAIN pending = {}
  BY DEF NothingToResolve, NoOffsets
<1>3. TypeOK' /\ LookupOK' /\ OffsetsOK'
  BY <1>1, Bounds DEF TypeOK, LookupOK, OffsetsOK
<1>4. AttemptProgress'
  BY <1>1, <1>2 DEF AttemptProgress, Running
<1>5. AnswerFollowsPolicy'
  BY <1>1 DEF AnswerFollowsPolicy, FromLatest, CanResolveFromLatest
<1>6. OwedFollowsPolicy' /\ FrozenCoversOwed' /\ FirstResolutionIsFresh'
  BY <1>1 DEF OwedFollowsPolicy, FrozenCoversOwed, FirstResolutionIsFresh, FromLatest,
     CanResolveFromLatest, FixedStart
<1>7. RecordInStream' /\ CommitsAreHandled' /\ StreamSkipsNothing'
  BY DEF RecordInStream, CommitsAreHandled, StreamSkipsNothing, NothingSkipped
<1>. QED
  BY <1>3, <1>4, <1>5, <1>6, <1>7

\* The stream starts at what the lifetime has committed, or where it was frozen.
LEMMA OpenKeepsInvariant == ASSUME KInv, Open PROVE KInv'
<1>. USE DEF KInv, Open, unchangedByLookup, brokerVars, bindingVars
<1>1. lookup'.stage = "none" /\ lookup'.resolution = 0 /\ lookup'.count = 0
      /\ DOMAIN lookup'.offsets = {}
      /\ DOMAIN lookup' = {"stage", "resolution", "count", "offsets", "latest"}
  BY DEF NoLookup, NoOffsets
<1>2. /\ DOMAIN position' = DOMAIN initial.offsets
      /\ \A p \in DOMAIN position' :
            position'[p] = IF ResumesCommit(p) THEN committed[p] ELSE initial.offsets[p]
  OBVIOUS
<1>3. /\ recordStage = "none" /\ recordStage' = "none"
      /\ initial.known /\ DOMAIN pending = {}
      /\ committedPartitions \subseteq DOMAIN initial.offsets
      /\ DOMAIN initial.offsets \subseteq Partitions
  BY DEF AttemptProgress, OffsetsOK, Running
<1>4. \A p \in DOMAIN position' : position'[p] \in Offsets
  BY <1>2, <1>3 DEF OffsetsOK, TypeOK, ResumesCommit
<1>5. TypeOK' /\ LookupOK' /\ OffsetsOK'
  <2>1. TypeOK'
    BY <1>2, <1>3 DEF TypeOK
  <2>2. LookupOK'
    BY <1>1, Bounds DEF LookupOK
  <2>3. OffsetsOK'
    BY <1>4 DEF OffsetsOK
  <2>. QED
    BY <2>1, <2>2, <2>3
<1>6. AttemptProgress'
  BY <1>1, <1>2, <1>3 DEF AttemptProgress, Running
<1>7. AnswerFollowsPolicy'
  BY <1>1 DEF AnswerFollowsPolicy, FromLatest, CanResolveFromLatest
<1>8. OwedFollowsPolicy' /\ FrozenCoversOwed' /\ FirstResolutionIsFresh'
  BY <1>1 DEF OwedFollowsPolicy, FrozenCoversOwed, FirstResolutionIsFresh, FromLatest,
     CanResolveFromLatest, FixedStart
<1>9. RecordInStream' /\ CommitsAreHandled'
  BY <1>3 DEF RecordInStream, CommitsAreHandled
<1>10. StreamSkipsNothing'
  <2>1. ASSUME ReadsFromJoin, NEW p \in DOMAIN position', NEW offset \in owed[p]..(position'[p] - 1)
        PROVE  offset \in handled[p]
    <3>1. CASE ResumesCommit(p)
      BY <2>1, <3>1, <1>2 DEF ResumesCommit, CommitsAreHandled
    <3>2. CASE ~ResumesCommit(p)
      <4>1. p \in DOMAIN initial.offsets /\ p \in Partitions /\ position'[p] = initial.offsets[p]
        BY <3>2, <1>2, <1>3
      <4>2. ~(initial.offsets[p] > owed[p])
        BY <2>1, <4>1, <1>3 DEF FrozenCoversOwed
      <4>3. initial.offsets[p] \in Nat /\ owed[p] \in Nat
        BY <4>1, NumbersAreNat
      <4>. QED
        BY <4>1, <4>2, <4>3
    <3>. QED
      BY <3>1, <3>2
  <2>. QED
    BY <2>1 DEF StreamSkipsNothing, NothingSkipped
<1>. QED
  BY <1>5, <1>6, <1>7, <1>8, <1>9, <1>10

LEMMA AttemptFailsKeepsInvariant == ASSUME KInv, AttemptFails PROVE KInv'
<1>. USE EndedAttempt DEF KInv, AttemptFails, brokerVars, bindingVars, historyVars
<1>1. TypeOK' /\ LookupOK' /\ OffsetsOK'
  BY Bounds DEF TypeOK, LookupOK, OffsetsOK, Fault
<1>2. AttemptProgress'
  BY DEF AttemptProgress, Running
<1>3. AnswerFollowsPolicy'
  BY DEF AnswerFollowsPolicy, FromLatest, CanResolveFromLatest
<1>4. OwedFollowsPolicy' /\ FrozenCoversOwed' /\ FirstResolutionIsFresh'
  BY DEF OwedFollowsPolicy, FrozenCoversOwed, FirstResolutionIsFresh, FromLatest,
     CanResolveFromLatest, FixedStart
<1>5. RecordInStream' /\ CommitsAreHandled' /\ StreamSkipsNothing'
  BY DEF RecordInStream, CommitsAreHandled, StreamSkipsNothing, NothingSkipped
<1>. QED
  BY <1>1, <1>2, <1>3, <1>4, <1>5

-----------------------------------------------------------------------------
(* The stream *)

LEMMA GroupJoinKeepsInvariant == ASSUME KInv, GroupJoin PROVE KInv'
<1>. USE DEF KInv, GroupJoin, unchangedByLookup, brokerVars, streamVars
<1>1. PICK joined \in SUBSET (Existing \ DOMAIN position) :
          pending' = [p \in DOMAIN pending \union joined |->
                         IF p \in DOMAIN pending THEN pending[p] ELSE Unknown]
  OBVIOUS
<1>2. /\ DOMAIN pending' = DOMAIN pending \union joined
      /\ \A p \in DOMAIN pending' :
            pending'[p] = IF p \in DOMAIN pending THEN pending[p] ELSE Unknown
      /\ joined \subseteq Partitions
  BY <1>1, ExistingArePartitions
<1>3. /\ lookup.stage = "none" => /\ lookup'.stage = "latest" /\ lookup'.resolution = 1
                                 /\ lookup'.count = 0 /\ DOMAIN lookup'.offsets = {}
                                 /\ DOMAIN lookup' = {"stage", "resolution", "count", "offsets", "latest"}
      /\ lookup.stage # "none" => lookup' = lookup /\ lookup.resolution > 0
      /\ Running
  BY DEF NoLookup, NoOffsets, Running
<1>4. TypeOK' /\ LookupOK' /\ OffsetsOK'
  <2>1. TypeOK'
    BY <1>2 DEF TypeOK
  <2>2. LookupOK'
    BY <1>3, Bounds DEF LookupOK
  <2>3. OffsetsOK'
    BY <1>2 DEF OffsetsOK
  <2>. QED
    BY <2>1, <2>2, <2>3
<1>5. AttemptProgress'
  BY <1>3 DEF AttemptProgress, Running, LookupOK
<1>6. AnswerFollowsPolicy'
  BY <1>3 DEF AnswerFollowsPolicy, Conservative, FromLatest, CanResolveFromLatest, FixedStart
<1>7. OwedFollowsPolicy' /\ FrozenCoversOwed'
  BY <1>2 DEF OwedFollowsPolicy, FrozenCoversOwed, FromLatest, CanResolveFromLatest, FixedStart
<1>8. FirstResolutionIsFresh'
  <2>1. ASSUME lookup'.resolution = 1, NEW p \in DOMAIN pending' \ DOMAIN initial.offsets,
               pending'[p] = Unknown
        PROVE  owed[p] = NotOwed
    <3>1. CASE p \in DOMAIN pending
      BY <2>1, <3>1, <1>2, <1>3 DEF FirstResolutionIsFresh, AttemptProgress
    <3>2. CASE p \notin DOMAIN pending
      BY <2>1, <3>2, <1>2 DEF OwedFollowsPolicy
    <3>. QED
      BY <3>1, <3>2
  <2>. QED
    BY <2>1 DEF FirstResolutionIsFresh
<1>9. RecordInStream' /\ CommitsAreHandled' /\ StreamSkipsNothing'
  BY DEF RecordInStream, CommitsAreHandled, StreamSkipsNothing, NothingSkipped
<1>. QED
  BY <1>4, <1>5, <1>6, <1>7, <1>8, <1>9

\* A record of an unresolved partition ends the attempt, and what it owes may be
\* earlier than where it is frozen: then that record is pending.
LEMMA ExposeKeepsInvariant == ASSUME KInv, Expose PROVE KInv'
<1>. USE EndedAttempt DEF KInv, unchangedByLookup, brokerVars
<1>1. PICK q \in Existing \ DOMAIN position : \E offset \in 0..(end[q] - 1) :
          /\ ReadsFromJoin => offset <= owed[q]
          /\ LET known == IF CanResolveFromLatest THEN offset
                          ELSE IF q \in DOMAIN pending THEN pending[q] ELSE Unknown
             IN  /\ pending' = [p \in DOMAIN pending \union {q} |->
                                   IF p = q THEN known ELSE pending[p]]
                 /\ owed' = IF FromLatest(q) /\ offset < owed[q]
                            THEN [owed EXCEPT ![q] = offset] ELSE owed
  BY DEF Expose
<1>2. PICK offset \in 0..(end[q] - 1) :
          /\ ReadsFromJoin => offset <= owed[q]
          /\ pending' = [p \in DOMAIN pending \union {q} |->
                            IF p = q THEN IF CanResolveFromLatest THEN offset
                                          ELSE IF q \in DOMAIN pending THEN pending[q] ELSE Unknown
                            ELSE pending[p]]
          /\ owed' = IF FromLatest(q) /\ offset < owed[q] THEN [owed EXCEPT ![q] = offset] ELSE owed
  BY <1>1
<1>3. q \in Partitions /\ q \notin DOMAIN position
  BY ExistingArePartitions
<1>4. offset \in Offsets /\ offset \in Nat /\ offset < NotOwed /\ NotOwed \in Nat
  <2>1. end[q] \in Offsets /\ end[q] \in Nat /\ 0..end[q] \subseteq Offsets
    BY <1>3, OffsetsAreClosed DEF TypeOK
  <2>. QED
    BY <2>1, NotOwedIsNoOffset
<1>5. /\ DOMAIN pending' = DOMAIN pending \union {q}
      /\ CanResolveFromLatest => pending'[q] = offset
      /\ pending'[q] \in Offsets \union {Unknown}
      /\ \A p \in DOMAIN pending' : p # q => p \in DOMAIN pending /\ pending'[p] = pending[p]
  BY <1>2, <1>4 DEF OffsetsOK
<1>6. /\ owed' \in [Partitions -> 0..NotOwed]
      /\ \A p \in Partitions : p # q \/ ~FromLatest(q) => owed'[p] = owed[p]
      /\ FromLatest(q) => owed'[q] <= offset /\ (ReadsFromJoin => owed'[q] = offset)
  <2>1. owed[q] \in Nat
    BY <1>3, NotOwedIsNoOffset DEF TypeOK
  <2>. QED
    BY <1>2, <1>3, <1>4, <2>1 DEF TypeOK
<1>7. /\ initial' = initial /\ start' = start /\ end' = end /\ committed' = committed
      /\ existing' = existing /\ faults' = faults /\ handled' = handled
      /\ committedPartitions' = committedPartitions /\ Running /\ EndAttempt
  BY DEF Expose
<1>8. initial.known /\ committedPartitions \subseteq DOMAIN position
  BY <1>7 DEF AttemptProgress
<1>9. \A p : FromLatest(p)' = FromLatest(p) /\ FixedStart(p)' = FixedStart(p)
  BY <1>7 DEF FromLatest, CanResolveFromLatest, FixedStart
<1>10. \A p : FromLatest(p) => CanResolveFromLatest
  BY DEF FromLatest
<1>11. TypeOK' /\ LookupOK' /\ OffsetsOK'
  <2>1. TypeOK'
    BY <1>3, <1>5, <1>6, <1>7 DEF TypeOK
  <2>2. LookupOK'
    BY <1>7, Bounds DEF LookupOK
  <2>3. OffsetsOK'
    BY <1>3, <1>5, <1>7 DEF OffsetsOK
  <2>. QED
    BY <2>1, <2>2, <2>3
<1>12. AttemptProgress'
  BY <1>7, <1>8 DEF AttemptProgress, Running
<1>13. AnswerFollowsPolicy'
  BY <1>7, <1>9 DEF AnswerFollowsPolicy
<1>14. OwedFollowsPolicy'
  <2>1. ASSUME NEW p \in Partitions, p # q PROVE owed'[p] = owed[p]
    BY <2>1, <1>6
  <2>2. ~FromLatest(q) => owed'[q] = owed[q]
    BY <1>3, <1>6
  <2>3. FromLatest(q) => pending'[q] = offset /\ owed'[q] # NotOwed
                              /\ (ReadsFromJoin => owed'[q] = offset)
    BY <1>4, <1>5, <1>6, <1>10
  <2>. QED
    BY <2>1, <2>2, <2>3, <1>4, <1>5, <1>7, <1>9 DEF OwedFollowsPolicy
<1>15. FrozenCoversOwed'
  <2>1. ASSUME ReadsFromJoin, NEW p \in DOMAIN initial.offsets, initial.offsets[p] > owed'[p]
        PROVE  FromLatest(p) /\ p \in DOMAIN pending' /\ pending'[p] # Unknown
    <3>1. CASE p = q /\ FromLatest(q)
      BY <3>1, <1>4, <1>5, <1>10 DEF Unknown
    <3>2. CASE ~(p = q /\ FromLatest(q))
      <4>1. p \in Partitions /\ owed'[p] = owed[p]
        BY <3>2, <1>6 DEF OffsetsOK
      <4>2. FromLatest(p) /\ p \in DOMAIN pending /\ pending[p] # Unknown
        BY <2>1, <4>1 DEF FrozenCoversOwed
      <4>. QED
        BY <3>2, <4>2, <1>5
    <3>. QED
      BY <3>1, <3>2
  <2>. QED
    BY <2>1, <1>7, <1>9 DEF FrozenCoversOwed
<1>16. FirstResolutionIsFresh' /\ RecordInStream' /\ StreamSkipsNothing'
  BY <1>7 DEF FirstResolutionIsFresh, RecordInStream, StreamSkipsNothing, NothingSkipped
<1>17. CommitsAreHandled'
  <2>1. ASSUME NEW p \in committedPartitions PROVE owed'[p] = owed[p]
    BY <1>3, <1>6, <1>8 DEF TypeOK
  <2>. QED
    BY <2>1, <1>7 DEF CommitsAreHandled
<1>. QED
  BY <1>11, <1>12, <1>13, <1>14, <1>15, <1>16, <1>17

LEMMA PullKeepsInvariant == ASSUME KInv, Pull PROVE KInv'
<1>. USE DEF KInv, unchangedByRecord
<1>1. PICK q \in DOMAIN position :
          /\ position[q] < end[q]
          /\ record' = [partition |-> q, offset |-> position[q]]
          /\ position' = [position EXCEPT ![q] = position[q] + 1]
  BY DEF Pull
<1>2. /\ initial' = initial /\ pending' = pending /\ start' = start /\ end' = end /\ owed' = owed
      /\ existing' = existing /\ faults' = faults /\ handled' = handled /\ lookup' = lookup
      /\ committed' = committed /\ committedPartitions' = committedPartitions
      /\ Running /\ recordStage = "none" /\ recordStage' = "pulled"
  BY DEF Pull
<1>3. /\ q \in Partitions /\ position[q] \in Nat /\ position[q] + 1 \in Offsets
      /\ DOMAIN position' = DOMAIN position /\ position'[q] = position[q] + 1
      /\ \A p \in DOMAIN position : p # q => position'[p] = position[p]
  <2>1. q \in Partitions /\ position[q] \in Nat
    BY NumbersAreNat
  <2>2. end[q] \in Nat /\ 0..end[q] \subseteq Offsets
    BY <2>1, OffsetsAreClosed DEF TypeOK
  <2>. QED
    BY <2>1, <2>2, <1>1
<1>4. TypeOK' /\ LookupOK' /\ OffsetsOK'
  BY <1>2, <1>3 DEF TypeOK, LookupOK, OffsetsOK
<1>5. AttemptProgress' /\ AnswerFollowsPolicy'
  BY <1>2, <1>3 DEF AttemptProgress, Running, AnswerFollowsPolicy, Conservative, FromLatest,
     CanResolveFromLatest, FixedStart
<1>6. OwedFollowsPolicy' /\ FrozenCoversOwed' /\ FirstResolutionIsFresh'
  BY <1>2 DEF OwedFollowsPolicy, FrozenCoversOwed, FirstResolutionIsFresh, FromLatest,
     CanResolveFromLatest, FixedStart
<1>7. RecordInStream'
  BY <1>1, <1>2, <1>3 DEF RecordInStream
<1>8. CommitsAreHandled'
  BY <1>2 DEF CommitsAreHandled
<1>9. StreamSkipsNothing'
  <2>1. ASSUME ReadsFromJoin, NEW p \in DOMAIN position', NEW offset \in owed[p]..(position'[p] - 1)
        PROVE  \/ offset \in handled[p]
               \/ record' = [partition |-> p, offset |-> offset]
    <3>1. CASE p = q /\ offset = position[q]
      BY <3>1, <1>1
    <3>2. CASE ~(p = q /\ offset = position[q])
      <4>1. offset \in owed[p]..(position[p] - 1)
        <5>1. position[p] \in Nat /\ owed[p] \in Nat
          BY <2>1, <1>3, NumbersAreNat
        <5>. QED
          BY <2>1, <3>2, <5>1, <1>3
      <4>. QED
        BY <4>1, <2>1, <1>2, <1>3 DEF StreamSkipsNothing, NothingSkipped
    <3>. QED
      BY <3>1, <3>2
  <2>. QED
    BY <2>1, <1>2 DEF StreamSkipsNothing, NothingSkipped
<1>. QED
  BY <1>4, <1>5, <1>6, <1>7, <1>8, <1>9

\* A record that is in hand is the last one its stream has behind it.
LEMMA RecordInHand ==
    ASSUME KInv, recordStage # "none"
    PROVE  /\ record.partition \in DOMAIN position /\ record.partition \in Partitions
           /\ record.partition \in DOMAIN initial.offsets
           /\ record.offset \in Nat /\ record.offset \in Offsets /\ record.offset + 1 \in Offsets
           /\ position[record.partition] = record.offset + 1
<1>. USE DEF KInv
<1>1. /\ record.partition \in DOMAIN position /\ record.offset \in Nat
      /\ position[record.partition] = record.offset + 1
      /\ record.offset < end[record.partition]
  BY DEF RecordInStream
<1>2. record.partition \in Partitions /\ record.partition \in DOMAIN initial.offsets
  BY <1>1 DEF TypeOK, AttemptProgress
<1>3. end[record.partition] \in Nat /\ 0..end[record.partition] \subseteq Offsets
  BY <1>2, OffsetsAreClosed DEF TypeOK
<1>. QED
  BY <1>1, <1>2, <1>3

LEMMA HandleKeepsInvariant == ASSUME KInv, Handle PROVE KInv'
<1>. USE RecordInHand DEF KInv, Handle, unchangedByRecord
<1>1. /\ handled' \in [Partitions -> SUBSET Offsets]
      /\ \A p \in Partitions : handled[p] \subseteq handled'[p]
      /\ record.offset \in handled'[record.partition]
  BY DEF TypeOK
<1>2. TypeOK' /\ LookupOK' /\ OffsetsOK'
  BY <1>1 DEF TypeOK, LookupOK, OffsetsOK
<1>3. AttemptProgress' /\ AnswerFollowsPolicy'
  BY DEF AttemptProgress, Running, AnswerFollowsPolicy, Conservative, FromLatest,
     CanResolveFromLatest, FixedStart
<1>4. OwedFollowsPolicy' /\ FrozenCoversOwed' /\ FirstResolutionIsFresh'
  BY DEF OwedFollowsPolicy, FrozenCoversOwed, FirstResolutionIsFresh, FromLatest,
     CanResolveFromLatest, FixedStart
<1>5. RecordInStream'
  BY <1>1 DEF RecordInStream
<1>6. CommitsAreHandled'
  BY <1>1 DEF CommitsAreHandled, TypeOK
<1>7. StreamSkipsNothing'
  <2>1. ASSUME ReadsFromJoin, NEW p \in DOMAIN position, NEW offset \in owed[p]..(position[p] - 1)
        PROVE  offset \in handled'[p]
    <3>1. p \in Partitions /\ handled[p] \subseteq handled'[p]
      BY <1>1 DEF TypeOK
    <3>2. CASE offset \in handled[p]
      BY <3>1, <3>2
    <3>3. CASE record = [partition |-> p, offset |-> offset]
      BY <3>3, <1>1
    <3>. QED
      BY <2>1, <3>2, <3>3 DEF StreamSkipsNothing, NothingSkipped
  <2>. QED
    BY <1>3, <2>1 DEF StreamSkipsNothing, NothingSkipped
<1>. QED
  BY <1>2, <1>3, <1>4, <1>5, <1>6, <1>7

\* A commit that arrives is of a partition whose records were all handled.
LEMMA ArrivedCommit ==
    ASSUME KInv, recordStage = "handled", CommitArrives
    PROVE  /\ committed' \in [Partitions -> Offsets \union {Missing}]
           /\ \A p \in Partitions : p # record.partition => committed'[p] = committed[p]
           /\ committed'[record.partition] = record.offset + 1
           /\ record.offset + 1 # Missing
           /\ ReadsFromJoin => \A offset \in owed[record.partition]..record.offset :
                                  offset \in handled[record.partition]
<1>. USE RecordInHand DEF KInv
<1>1. /\ committed' \in [Partitions -> Offsets \union {Missing}]
      /\ \A p \in Partitions : p # record.partition => committed'[p] = committed[p]
      /\ committed'[record.partition] = record.offset + 1
  BY DEF CommitArrives, TypeOK
<1>2. record.offset + 1 # Missing
  BY DEF Missing
<1>3. ASSUME ReadsFromJoin, NEW offset \in owed[record.partition]..record.offset
      PROVE  offset \in handled[record.partition]
  <2>1. offset \in owed[record.partition]..(position[record.partition] - 1)
    BY NumbersAreNat
  <2>. QED
    BY <1>3, <2>1 DEF StreamSkipsNothing, NothingSkipped
<1>. QED
  BY <1>1, <1>2, <1>3

LEMMA CommitKeepsInvariant == ASSUME KInv, Commit PROVE KInv'
<1>. USE RecordInHand, ArrivedCommit DEF KInv, Commit, unchangedByRecord
<1>1. TypeOK' /\ LookupOK' /\ OffsetsOK'
  BY DEF TypeOK, LookupOK, OffsetsOK
<1>2. AttemptProgress' /\ AnswerFollowsPolicy'
  BY DEF AttemptProgress, Running, AnswerFollowsPolicy, Conservative, FromLatest,
     CanResolveFromLatest, FixedStart
<1>3. OwedFollowsPolicy' /\ FrozenCoversOwed' /\ FirstResolutionIsFresh'
  BY DEF OwedFollowsPolicy, FrozenCoversOwed, FirstResolutionIsFresh, FromLatest,
     CanResolveFromLatest, FixedStart
<1>4. RecordInStream' /\ StreamSkipsNothing'
  BY DEF RecordInStream, StreamSkipsNothing, NothingSkipped
<1>5. CommitsAreHandled'
  <2>1. ASSUME NEW p \in committedPartitions', p # record.partition
        PROVE  p \in committedPartitions /\ p \in Partitions /\ committed'[p] = committed[p]
    BY <2>1 DEF TypeOK
  <2>2. (committed'[record.partition] - 1) = record.offset
    OBVIOUS
  <2>. QED
    BY <2>1, <2>2 DEF CommitsAreHandled
<1>. QED
  BY <1>1, <1>2, <1>3, <1>4, <1>5

LEMMA CommitAnswerLostKeepsInvariant == ASSUME KInv, CommitAnswerLost PROVE KInv'
<1>. USE RecordInHand, ArrivedCommit, EndedAttempt DEF KInv, CommitAnswerLost, unchangedByRecord
<1>1. TypeOK' /\ LookupOK' /\ OffsetsOK'
  BY Bounds DEF TypeOK, LookupOK, OffsetsOK, Fault
<1>2. AttemptProgress' /\ AnswerFollowsPolicy'
  BY DEF AttemptProgress, Running, AnswerFollowsPolicy, FromLatest, CanResolveFromLatest
<1>3. OwedFollowsPolicy' /\ FrozenCoversOwed' /\ FirstResolutionIsFresh'
  BY DEF OwedFollowsPolicy, FrozenCoversOwed, FirstResolutionIsFresh, FromLatest,
     CanResolveFromLatest, FixedStart
<1>4. RecordInStream' /\ StreamSkipsNothing'
  BY DEF RecordInStream, StreamSkipsNothing, NothingSkipped
<1>5. CommitsAreHandled'
  <2>1. \A p \in committedPartitions : p # record.partition => committed'[p] = committed[p]
    BY DEF TypeOK
  <2>2. (committed'[record.partition] - 1) = record.offset
    OBVIOUS
  <2>. QED
    BY <2>1, <2>2 DEF CommitsAreHandled
<1>. QED
  BY <1>1, <1>2, <1>3, <1>4, <1>5

-----------------------------------------------------------------------------
(* Resolving the start position *)

\* An answer that starts every partition it has where the policy does, at the
\* latest at what is its end by now.
PolicyAnswer(offsets, latest) ==
    /\ DOMAIN offsets \subseteq Partitions
    /\ \A p \in DOMAIN offsets :
          /\ offsets[p] \in Offsets
          /\ IF FromLatest(p) THEN offsets[p] <= end[p] ELSE offsets[p] = FixedStart(p)
    /\ latest = {p \in DOMAIN offsets : FromLatest(p)}

\* Offsets below which no pending partition is frozen: what is pending, with the
\* earliest offset for some that are unknown.
Floors(floors, latest) ==
    /\ DOMAIN floors = DOMAIN pending
    /\ \A p \in DOMAIN pending :
          floors[p] = IF pending[p] = Unknown /\ p \in latest /\ floors[p] # Unknown THEN 0
                      ELSE pending[p]

\* Merging an answer lowers what is frozen, and freezes what the answer adds.
LEMMA MergedFreezes ==
    ASSUME KInv, NEW offsets, NEW latest, NEW floors,
           PolicyAnswer(offsets, latest), Floors(floors, latest),
           initial' = Merged(offsets, latest, floors)
    PROVE  /\ initial'.known = TRUE
           /\ DOMAIN initial'.offsets = DOMAIN initial.offsets \union DOMAIN offsets
           /\ initial'.latest = {p \in DOMAIN initial'.offsets : FromLatest(p)}
           /\ \A p \in DOMAIN initial.offsets :
                 /\ initial'.offsets[p] \in Offsets /\ initial'.offsets[p] <= initial.offsets[p]
                 /\ FromLatest(p) /\ p \in DOMAIN pending /\ pending[p] # Unknown
                       => initial'.offsets[p] <= pending[p]
           /\ \A p \in DOMAIN offsets \ DOMAIN initial.offsets :
                 initial'.offsets[p] =
                    IF FromLatest(p) /\ p \in DOMAIN pending /\ floors[p] # Unknown
                    THEN floors[p] ELSE offsets[p]
<1>. USE DEF KInv
<1>. DEFINE old == initial.offsets
            Floor(p, resolved, fromLatest) ==
               IF p \in DOMAIN floors /\ fromLatest /\ floors[p] # Unknown THEN floors[p] ELSE resolved
<1>1. /\ initial'.known = TRUE
      /\ initial'.offsets = [p \in DOMAIN old \union DOMAIN offsets |->
                                IF p \notin DOMAIN old THEN Floor(p, offsets[p], p \in latest)
                                ELSE IF Floor(p, old[p], p \in initial.latest) < old[p]
                                THEN floors[p] ELSE old[p]]
      /\ initial'.latest = initial.latest \union (latest \ DOMAIN old)
  BY DEF Merged, Frozen
<1>2. DOMAIN initial'.offsets = DOMAIN old \union DOMAIN offsets
  BY <1>1
<1>3. initial.latest = {p \in DOMAIN old : FromLatest(p)}
  BY DEF AnswerFollowsPolicy
<1>4. latest = {p \in DOMAIN offsets : FromLatest(p)}
  BY DEF PolicyAnswer
<1>5. initial'.latest = {p \in DOMAIN initial'.offsets : FromLatest(p)}
  BY <1>1, <1>2, <1>3, <1>4
<1>6. ASSUME NEW p \in DOMAIN old
      PROVE  /\ initial'.offsets[p] \in Offsets /\ initial'.offsets[p] <= old[p]
             /\ FromLatest(p) /\ p \in DOMAIN pending /\ pending[p] # Unknown
                   => initial'.offsets[p] <= pending[p]
  <2>1. initial'.offsets[p] = IF Floor(p, old[p], FromLatest(p)) < old[p] THEN floors[p] ELSE old[p]
    BY <1>1, <1>3
  <2>2. old[p] \in Offsets /\ old[p] \in Nat
    BY OffsetsAreClosed DEF OffsetsOK
  <2>3. CASE FromLatest(p) /\ p \in DOMAIN pending /\ floors[p] # Unknown
    <3>1. floors[p] \in Offsets
      BY <2>3, OffsetsAreClosed DEF Floors, OffsetsOK
    <3>2. floors[p] \in Nat
      BY <3>1, OffsetsAreClosed
    <3>3. pending[p] # Unknown => floors[p] = pending[p]
      BY <2>3 DEF Floors
    <3>4. initial'.offsets[p] = IF floors[p] < old[p] THEN floors[p] ELSE old[p]
      BY <2>1, <2>3 DEF Floors
    <3>. QED
      BY <2>2, <3>1, <3>2, <3>3, <3>4
  <2>4. CASE ~(FromLatest(p) /\ p \in DOMAIN pending /\ floors[p] # Unknown)
    <3>1. initial'.offsets[p] = old[p]
      BY <2>1, <2>2, <2>4 DEF Floors
    <3>2. FromLatest(p) /\ p \in DOMAIN pending => pending[p] = Unknown
      BY <2>4 DEF Floors
    <3>. QED
      BY <2>2, <3>1, <3>2
  <2>. QED
    BY <2>3, <2>4
<1>7. ASSUME NEW p \in DOMAIN offsets \ DOMAIN old
      PROVE  initial'.offsets[p] =
                IF FromLatest(p) /\ p \in DOMAIN pending /\ floors[p] # Unknown
                THEN floors[p] ELSE offsets[p]
  <2>1. p \in latest <=> FromLatest(p)
    BY <1>4
  <2>2. DOMAIN floors = DOMAIN pending
    BY DEF Floors
  <2>3. initial'.offsets[p] = Floor(p, offsets[p], p \in latest)
    BY <1>1
  <2>. QED
    BY <2>1, <2>2, <2>3
<1>. QED
  BY <1>1, <1>2, <1>5, <1>6, <1>7

LEMMA FixedStartIsOffset == ASSUME NEW p \in Partitions PROVE FixedStart(p) \in Offsets
BY UsableIsOffset, OffsetsAreClosed DEF FixedStart

\* What a partition owes is settled once, when it is discovered or frozen.
LEMMA OweSettles ==
    ASSUME KInv, Owe,
           \A p \in DOMAIN initial'.offsets \ DOMAIN initial.offsets :
              p \in Partitions /\ initial'.offsets[p] \in Offsets
    PROVE  /\ owed' \in [Partitions -> 0..NotOwed]
           /\ \A p \in Partitions :
                 /\ owed[p] # NotOwed => owed'[p] = owed[p]
                 /\ p \in DOMAIN pending \union DOMAIN initial'.offsets => owed'[p] # NotOwed
                 /\ owed'[p] # NotOwed
                       => p \in DOMAIN pending \union DOMAIN initial'.offsets \union DOMAIN initial.offsets
           /\ \A p \in Partitions : owed[p] = NotOwed =>
                 /\ p \in DOMAIN pending => owed'[p] = FirstOwed(p)
                 /\ p \notin DOMAIN pending /\ p \in DOMAIN initial'.offsets
                       => owed'[p] = initial'.offsets[p]
<1>. USE DEF KInv
<1>1. \A p \in Partitions :
         owed'[p] = IF owed[p] # NotOwed THEN owed[p]
                    ELSE IF p \in DOMAIN pending THEN FirstOwed(p)
                    ELSE IF p \in DOMAIN initial'.offsets THEN initial'.offsets[p]
                    ELSE NotOwed
  BY DEF Owe
<1>2. \A p \in Partitions : FirstOwed(p) \in Offsets
  BY FixedStartIsOffset DEF FirstOwed, TypeOK
<1>3. \A o \in Offsets : o \in 0..NotOwed /\ o # NotOwed
  BY OffsetsAreClosed, NotOwedIsNoOffset
<1>4. ASSUME NEW p \in Partitions, owed[p] = NotOwed, p \in DOMAIN initial'.offsets
      PROVE  initial'.offsets[p] \in Offsets
  BY <1>4 DEF OwedFollowsPolicy
<1>5. owed' \in [Partitions -> 0..NotOwed]
  <2>1. \A p \in Partitions : owed'[p] \in 0..NotOwed
    BY <1>1, <1>2, <1>3, <1>4, NotOwedIsNoOffset DEF TypeOK
  <2>. QED
    BY <2>1 DEF Owe
<1>6. ASSUME NEW p \in Partitions
      PROVE  /\ p \in DOMAIN pending \union DOMAIN initial'.offsets => owed'[p] # NotOwed
             /\ owed'[p] # NotOwed
                   => p \in DOMAIN pending \union DOMAIN initial'.offsets \union DOMAIN initial.offsets
  BY <1>1, <1>2, <1>3, <1>4 DEF OwedFollowsPolicy
<1>. QED
  BY <1>1, <1>5, <1>6

\* So it stays what the policy says, and what a lookup leaves behind is sound.
LEMMA OweFollowsPolicy ==
    ASSUME KInv, Owe, start' = start,
           DOMAIN initial.offsets \subseteq DOMAIN initial'.offsets,
           \A p \in DOMAIN initial'.offsets \ DOMAIN initial.offsets :
              /\ p \in Partitions /\ initial'.offsets[p] \in Offsets
              /\ ~FromLatest(p) => initial'.offsets[p] = FixedStart(p),
           DOMAIN pending \subseteq DOMAIN pending' \union DOMAIN initial'.offsets,
           \A p \in DOMAIN pending' : p \in DOMAIN pending /\ pending'[p] = pending[p]
    PROVE  OwedFollowsPolicy'
<1>. USE DEF KInv
<1>1. \A p : FromLatest(p)' = FromLatest(p) /\ FixedStart(p)' = FixedStart(p)
  BY DEF FromLatest, CanResolveFromLatest, FixedStart
<1>2. ASSUME NEW p \in Partitions
      PROVE  /\ owed'[p] # NotOwed => p \in DOMAIN initial'.offsets \union DOMAIN pending'
             /\ p \in DOMAIN initial'.offsets => owed'[p] # NotOwed
  BY OweSettles
<1>3. ASSUME NEW p \in Partitions, ~FromLatest(p) PROVE owed'[p] \in {FixedStart(p), NotOwed}
  <2>1. CASE owed[p] # NotOwed
    BY <1>3, <2>1, OweSettles DEF OwedFollowsPolicy
  <2>2. CASE owed[p] = NotOwed /\ p \in DOMAIN pending
    BY <1>3, <2>2, OweSettles DEF FirstOwed
  <2>3. CASE owed[p] = NotOwed /\ p \notin DOMAIN pending
    <3>1. p \notin DOMAIN initial.offsets
      BY <2>3 DEF OwedFollowsPolicy
    <3>. QED
      BY <1>3, <2>3, <3>1, OweSettles
  <2>. QED
    BY <2>1, <2>2, <2>3
<1>4. ASSUME ReadsFromJoin, NEW p \in Partitions, FromLatest(p), p \in DOMAIN pending', pending'[p] # Unknown
      PROVE  pending'[p] <= owed'[p] /\ owed'[p] # NotOwed
  <2>1. pending[p] <= owed[p] /\ owed[p] # NotOwed
    BY <1>4 DEF OwedFollowsPolicy
  <2>. QED
    BY <1>4, <2>1, OweSettles
<1>. QED
  BY <1>1, <1>2, <1>3, <1>4 DEF OwedFollowsPolicy

\* A merged answer covers what is owed, unless the floor of a partition that owed
\* something before is unknown.
LEMMA MergedCoversOwed ==
    ASSUME KInv, ReadsFromJoin, NEW offsets, NEW latest, NEW floors,
           PolicyAnswer(offsets, latest), Floors(floors, latest),
           initial' = Merged(offsets, latest, floors), Owe,
           \A p \in DOMAIN offsets \ DOMAIN initial.offsets :
              FromLatest(p) /\ p \in DOMAIN pending /\ floors[p] = Unknown => owed[p] = NotOwed,
           NEW q \in DOMAIN initial'.offsets
    PROVE  initial'.offsets[q] <= owed'[q]
<1>. USE DEF KInv
<1>0. /\ DOMAIN initial'.offsets = DOMAIN initial.offsets \union DOMAIN offsets
      /\ \A p \in DOMAIN offsets \ DOMAIN initial.offsets :
            initial'.offsets[p] = IF FromLatest(p) /\ p \in DOMAIN pending /\ floors[p] # Unknown
                                  THEN floors[p] ELSE offsets[p]
  BY MergedFreezes
<1>1. \A p \in DOMAIN initial'.offsets \ DOMAIN initial.offsets :
         p \in Partitions /\ initial'.offsets[p] \in Offsets
  <2>1. ASSUME NEW p \in DOMAIN offsets \ DOMAIN initial.offsets
        PROVE  initial'.offsets[p] \in Offsets
    <3>1. offsets[p] \in Offsets
      BY DEF PolicyAnswer
    <3>2. p \in DOMAIN pending /\ floors[p] # Unknown => floors[p] \in Offsets
      BY OffsetsAreClosed DEF Floors, OffsetsOK
    <3>. QED
      BY <1>0, <3>1, <3>2
  <2>. QED
    BY <1>0, <2>1 DEF PolicyAnswer
<1>2. q \in Partitions
  BY <1>1 DEF OffsetsOK
<1>3. owed[q] \in Nat /\ end[q] \in Nat /\ owed'[q] \in Nat
  BY <1>1, <1>2, OweSettles, NumbersAreNat, NotOwedIsNoOffset
<1>4. CASE q \in DOMAIN initial.offsets
  <2>1. owed'[q] = owed[q]
    BY <1>1, <1>2, <1>4, OweSettles DEF OwedFollowsPolicy
  <2>2. initial'.offsets[q] <= initial.offsets[q] /\ initial'.offsets[q] \in Nat
        /\ initial.offsets[q] \in Nat
    BY <1>4, MergedFreezes, OffsetsAreClosed, NumbersAreNat
  <2>3. CASE initial.offsets[q] <= owed[q]
    BY <1>3, <2>1, <2>2, <2>3
  <2>4. CASE initial.offsets[q] > owed[q]
    <3>1. FromLatest(q) /\ q \in DOMAIN pending /\ pending[q] # Unknown
      BY <1>4, <2>4 DEF FrozenCoversOwed
    <3>2. initial'.offsets[q] <= pending[q] /\ pending[q] <= owed[q] /\ pending[q] \in Nat
      BY <1>2, <1>4, <3>1, MergedFreezes, OffsetsAreClosed DEF OwedFollowsPolicy, OffsetsOK
    <3>. QED
      BY <1>3, <2>1, <2>2, <3>2
  <2>. QED
    BY <1>3, <2>2, <2>3, <2>4
<1>5. CASE q \notin DOMAIN initial.offsets
  <2>1. /\ q \in DOMAIN offsets
        /\ initial'.offsets[q] = IF FromLatest(q) /\ q \in DOMAIN pending /\ floors[q] # Unknown
                                 THEN floors[q] ELSE offsets[q]
    BY <1>0, <1>5
  <2>2. /\ offsets[q] \in Nat
        /\ IF FromLatest(q) THEN offsets[q] <= end[q] ELSE offsets[q] = FixedStart(q)
    BY <2>1, OffsetsAreClosed DEF PolicyAnswer
  <2>3. owed'[q] # NotOwed
    BY <1>1, <1>2, OweSettles
  <2>4. CASE ~FromLatest(q)
    <3>1. initial'.offsets[q] = FixedStart(q)
      BY <2>1, <2>2, <2>4
    <3>2. owed'[q] = FixedStart(q)
      <4>1. CASE owed[q] # NotOwed
        BY <1>1, <1>2, <2>4, <4>1, OweSettles DEF OwedFollowsPolicy
      <4>2. CASE owed[q] = NotOwed /\ q \in DOMAIN pending
        BY <1>1, <1>2, <2>4, <4>2, OweSettles DEF FirstOwed
      <4>3. CASE owed[q] = NotOwed /\ q \notin DOMAIN pending
        BY <1>1, <1>2, <3>1, <4>3, OweSettles
      <4>. QED
        BY <4>1, <4>2, <4>3
    <3>. QED
      BY <1>3, <3>1, <3>2
  <2>5. CASE FromLatest(q) /\ q \in DOMAIN pending /\ floors[q] # Unknown
    <3>1. CASE pending[q] # Unknown
      <4>1. floors[q] = pending[q] /\ pending[q] <= owed[q] /\ owed[q] # NotOwed
        BY <1>2, <2>5, <3>1 DEF Floors, OwedFollowsPolicy
      <4>. QED
        BY <1>1, <1>2, <2>1, <2>5, <4>1, OweSettles
    <3>2. CASE pending[q] = Unknown
      <4>1. floors[q] = 0
        BY <2>5, <3>2 DEF Floors
      <4>. QED
        BY <1>3, <2>1, <2>5, <4>1
    <3>. QED
      BY <3>1, <3>2
  <2>6. CASE FromLatest(q) /\ q \in DOMAIN pending /\ floors[q] = Unknown
    <3>1. owed[q] = NotOwed
      BY <1>5, <2>1, <2>6
    <3>2. owed'[q] = end[q] /\ initial'.offsets[q] = offsets[q]
      BY <1>1, <1>2, <2>1, <2>6, <3>1, OweSettles DEF FirstOwed
    <3>. QED
      BY <2>2, <2>6, <3>2
  <2>7. CASE FromLatest(q) /\ q \notin DOMAIN pending
    <3>1. owed[q] = NotOwed
      BY <1>2, <1>5, <2>7 DEF OwedFollowsPolicy
    <3>2. owed'[q] = initial'.offsets[q]
      BY <1>1, <1>2, <2>7, <3>1, OweSettles
    <3>. QED
      BY <1>3, <3>2
  <2>. QED
    BY <2>4, <2>5, <2>6, <2>7
<1>. QED
  BY <1>4, <1>5

\* What a resolution under way leaves to the stream.
LookingUp == lookup.stage \in {"latest", "start", "fallback", "floor"}

\* Freezing what an answer adds, and what becomes of the attempt.
LEMMA ExpandKeepsInvariant ==
    ASSUME KInv, NEW offsets, NEW latest, NEW floors,
           PolicyAnswer(offsets, latest), Floors(floors, latest), LookingUp,
           Expand(offsets, latest, floors), Owe,
           UNCHANGED unchangedByLookup, faults' \in 0..MaxFaults,
           \A p \in DOMAIN offsets \ DOMAIN initial.offsets :
              FromLatest(p) /\ p \in DOMAIN pending /\ floors[p] = Unknown => owed[p] = NotOwed
    PROVE  KInv'
<1>. USE DEF KInv, unchangedByLookup, brokerVars
<1>1. /\ initial' = Merged(offsets, latest, floors)
      /\ committedPartitions' = committedPartitions
  BY DEF Expand
<1>2. /\ initial'.known = TRUE
      /\ DOMAIN initial'.offsets = DOMAIN initial.offsets \union DOMAIN offsets
      /\ initial'.latest = {p \in DOMAIN initial'.offsets : FromLatest(p)}
      /\ \A p \in DOMAIN initial.offsets : initial'.offsets[p] \in Offsets
      /\ \A p \in DOMAIN offsets \ DOMAIN initial.offsets :
            initial'.offsets[p] = IF FromLatest(p) /\ p \in DOMAIN pending /\ floors[p] # Unknown
                                  THEN floors[p] ELSE offsets[p]
  BY <1>1, MergedFreezes
<1>3. ASSUME NEW p \in DOMAIN initial'.offsets \ DOMAIN initial.offsets
      PROVE  /\ p \in Partitions /\ initial'.offsets[p] \in Offsets
             /\ ~FromLatest(p) => initial'.offsets[p] = FixedStart(p)
  <2>1. p \in DOMAIN offsets \ DOMAIN initial.offsets
    BY <1>2
  <2>2. /\ offsets[p] \in Offsets /\ p \in Partitions
        /\ ~FromLatest(p) => offsets[p] = FixedStart(p)
    BY <2>1 DEF PolicyAnswer
  <2>3. p \in DOMAIN pending /\ floors[p] # Unknown => floors[p] \in Offsets
    BY OffsetsAreClosed DEF Floors, OffsetsOK
  <2>. QED
    BY <1>2, <2>1, <2>2, <2>3
<1>4. /\ DOMAIN pending' = DOMAIN pending \ DOMAIN offsets
      /\ \A p \in DOMAIN pending' : p \in DOMAIN pending /\ pending'[p] = pending[p]
  BY DEF Expand
<1>5. \A p : FromLatest(p)' = FromLatest(p) /\ FixedStart(p)' = FixedStart(p)
  BY DEF FromLatest, CanResolveFromLatest, FixedStart
<1>6. Running <=> lookup.resolution > 0
  BY DEF Running, LookingUp
<1>7. /\ DOMAIN lookup' = {"stage", "resolution", "count", "offsets", "latest"}
      /\ lookup'.count = 0 /\ DOMAIN lookup'.offsets = {}
      /\ \/ /\ lookup'.stage = "open" /\ lookup'.resolution = 0 /\ DOMAIN pending' = {}
            /\ ~Running /\ UNCHANGED streamVars
         \/ /\ lookup'.stage = "latest" /\ lookup'.resolution \in 2..ResolutionAttempts
            /\ Running /\ UNCHANGED streamVars
         \/ /\ lookup'.stage = "waiting" /\ lookup'.resolution = 0
            /\ DOMAIN position' = {} /\ recordStage' = "none"
  <2>. DEFINE unresolved == [p \in DOMAIN pending \ DOMAIN offsets |-> pending[p]]
  <2>1. CASE lookup.resolution = 0 /\ unresolved = NoOffsets
    <3>1. lookup' = [NoLookup EXCEPT !.stage = "open"] /\ UNCHANGED streamVars
      BY <2>1 DEF Expand
    <3>2. pending' = NoOffsets
      BY <2>1 DEF Expand
    <3>. QED
      BY <1>6, <2>1, <3>1, <3>2 DEF NoLookup, NoOffsets
  <2>2. CASE /\ ~(lookup.resolution = 0 /\ unresolved = NoOffsets)
             /\ lookup.resolution \in 1..(ResolutionAttempts - 1) /\ unresolved # NoOffsets
    <3>1. /\ lookup' = [NoLookup EXCEPT !.stage = "latest", !.resolution = lookup.resolution + 1]
          /\ UNCHANGED streamVars
      BY <2>2 DEF Expand
    <3>. QED
      BY <1>6, <2>2, <3>1, Bounds DEF NoLookup, NoOffsets
  <2>3. CASE /\ ~(lookup.resolution = 0 /\ unresolved = NoOffsets)
             /\ ~(lookup.resolution \in 1..(ResolutionAttempts - 1) /\ unresolved # NoOffsets)
    <3>1. EndAttempt
      BY <2>3 DEF Expand
    <3>. QED
      BY <3>1, EndedAttempt
  <2>. QED
    BY <2>1, <2>2, <2>3
<1>8. /\ owed' \in [Partitions -> 0..NotOwed]
      /\ \A p \in Partitions : owed[p] # NotOwed => owed'[p] = owed[p]
  BY <1>3, OweSettles
<1>9. \A p \in DOMAIN initial.offsets : p \in Partitions /\ owed'[p] = owed[p]
  BY <1>8 DEF OwedFollowsPolicy, OffsetsOK
<1>10. DOMAIN position' \subseteq DOMAIN position /\ (\A p \in DOMAIN position' : position'[p] = position[p])
  BY <1>7 DEF streamVars
<1>11. TypeOK'
  <2>1. recordStage' \in {"none", "pulled", "handled"}
    BY <1>7 DEF TypeOK, streamVars
  <2>2. DOMAIN pending' \subseteq Partitions /\ DOMAIN position' \subseteq Partitions
    BY <1>4, <1>10 DEF TypeOK
  <2>3. committedPartitions' \subseteq Partitions
    BY <1>1 DEF TypeOK
  <2>. QED
    BY <1>8, <2>1, <2>2, <2>3 DEF TypeOK
<1>12. LookupOK'
  BY <1>7, Bounds DEF LookupOK
<1>13. OffsetsOK'
  <2>1. \A p \in DOMAIN initial'.offsets : p \in Partitions /\ initial'.offsets[p] \in Offsets
    BY <1>2, <1>3 DEF OffsetsOK
  <2>2. \A p \in DOMAIN pending' : p \in Partitions /\ pending'[p] \in Offsets \union {Unknown}
    BY <1>4 DEF OffsetsOK
  <2>3. \A p \in DOMAIN position' : position'[p] \in Offsets
    BY <1>10 DEF OffsetsOK
  <2>. QED
    BY <1>2, <2>1, <2>2, <2>3 DEF OffsetsOK
<1>14. AttemptProgress'
  <2>1. CASE ~Running /\ lookup'.stage = "open" /\ lookup'.resolution = 0 /\ UNCHANGED streamVars
    BY <1>1, <1>2, <1>7, <2>1 DEF AttemptProgress, Running, streamVars
  <2>2. CASE Running /\ lookup'.stage = "latest" /\ lookup'.resolution \in 2..ResolutionAttempts /\ UNCHANGED streamVars
    BY <1>1, <1>2, <2>2 DEF AttemptProgress, Running, streamVars
  <2>3. CASE lookup'.stage = "waiting" /\ lookup'.resolution = 0 /\ DOMAIN position' = {} /\ recordStage' = "none"
    BY <1>1, <1>2, <2>3 DEF AttemptProgress, Running
  <2>. QED
    BY <1>7, <2>1, <2>2, <2>3
<1>15. AnswerFollowsPolicy'
  BY <1>2, <1>5, <1>7 DEF AnswerFollowsPolicy
<1>16. OwedFollowsPolicy'
  <2>1. DOMAIN pending \subseteq DOMAIN pending' \union DOMAIN initial'.offsets
    BY <1>2, <1>4
  <2>. QED
    BY <1>2, <1>3, <1>4, <2>1, OweFollowsPolicy
<1>17. FrozenCoversOwed'
  <2>1. ASSUME ReadsFromJoin, NEW q \in DOMAIN initial'.offsets PROVE initial'.offsets[q] <= owed'[q]
    BY <1>1, <2>1, MergedCoversOwed
  <2>2. \A q \in DOMAIN initial'.offsets : q \in Partitions /\ initial'.offsets[q] \in Nat
    BY <1>13, OffsetsAreClosed DEF OffsetsOK
  <2>3. \A q \in Partitions : owed'[q] \in Nat
    BY <1>8, NotOwedIsNoOffset
  <2>. QED
    BY <2>1, <2>2, <2>3 DEF FrozenCoversOwed
<1>18. FirstResolutionIsFresh'
  BY <1>7 DEF FirstResolutionIsFresh
<1>19. RecordInStream'
  BY <1>7 DEF RecordInStream, streamVars
<1>20. CommitsAreHandled'
  BY <1>1, <1>9 DEF CommitsAreHandled, AttemptProgress
<1>21. StreamSkipsNothing'
  <2>1. CASE UNCHANGED streamVars /\ Running
    BY <1>9, <2>1 DEF StreamSkipsNothing, NothingSkipped, AttemptProgress, streamVars
  <2>2. CASE DOMAIN position' = {}
    BY <2>2 DEF StreamSkipsNothing, NothingSkipped
  <2>. QED
    BY <1>7, <2>1, <2>2 DEF AttemptProgress, streamVars
<1>. QED
  BY <1>11, <1>12, <1>13, <1>14, <1>15, <1>16, <1>17, <1>18, <1>19, <1>20, <1>21

\* A lookup that goes on, or fails, without freezing anything.
LEMMA LookingOnKeepsInvariant ==
    ASSUME KInv, LookingUp, Owe \/ owed' = owed,
           UNCHANGED <<unchangedByLookup, bindingVars>>, faults' \in 0..MaxFaults,
           \/ LookingUp' /\ lookup'.resolution = lookup.resolution /\ UNCHANGED streamVars
           \/ EndAttempt,
           LookupOK', AnswerFollowsPolicy', FirstResolutionIsFresh'
    PROVE  KInv'
<1>. USE DEF KInv, unchangedByLookup, brokerVars, bindingVars
<1>1. \/ LookingUp' /\ lookup'.resolution = lookup.resolution /\ UNCHANGED streamVars
      \/ /\ lookup'.stage = "waiting" /\ lookup'.resolution = 0
         /\ DOMAIN position' = {} /\ recordStage' = "none"
  BY EndedAttempt
<1>2. /\ owed' \in [Partitions -> 0..NotOwed]
      /\ \A p \in Partitions : owed[p] # NotOwed => owed'[p] = owed[p]
  BY OweSettles DEF TypeOK
<1>3. \A p \in DOMAIN initial.offsets : p \in Partitions /\ owed'[p] = owed[p]
  BY <1>2 DEF OwedFollowsPolicy, OffsetsOK
<1>4. DOMAIN position' \subseteq DOMAIN position /\ (\A p \in DOMAIN position' : position'[p] = position[p])
  BY <1>1 DEF streamVars
<1>5. TypeOK'
  <2>1. recordStage' \in {"none", "pulled", "handled"}
    BY <1>1 DEF TypeOK, streamVars
  <2>2. DOMAIN position' \subseteq Partitions
    BY <1>4 DEF TypeOK
  <2>. QED
    BY <1>2, <2>1, <2>2 DEF TypeOK
<1>6. OffsetsOK'
  BY <1>4 DEF OffsetsOK
<1>7. AttemptProgress'
  BY <1>1 DEF AttemptProgress, Running, LookingUp, streamVars
<1>8. OwedFollowsPolicy'
  <2>1. CASE Owe
    BY <2>1, OweFollowsPolicy
  <2>2. CASE owed' = owed
    BY <2>2 DEF OwedFollowsPolicy, FromLatest, CanResolveFromLatest, FixedStart
  <2>. QED
    BY <2>1, <2>2
<1>9. FrozenCoversOwed'
  BY <1>3 DEF FrozenCoversOwed, FromLatest, CanResolveFromLatest
<1>10. RecordInStream'
  BY <1>1 DEF RecordInStream, streamVars
<1>11. CommitsAreHandled'
  BY <1>3 DEF CommitsAreHandled, AttemptProgress
<1>12. StreamSkipsNothing'
  <2>1. CASE UNCHANGED streamVars /\ Running
    BY <1>3, <2>1 DEF StreamSkipsNothing, NothingSkipped, AttemptProgress, streamVars
  <2>2. CASE DOMAIN position' = {}
    BY <2>2 DEF StreamSkipsNothing, NothingSkipped
  <2>. QED
    BY <1>1, <2>1, <2>2 DEF AttemptProgress, streamVars
<1>. QED
  BY <1>5, <1>6, <1>7, <1>8, <1>9, <1>10, <1>11, <1>12

\* The first resolution of a binding: nothing was frozen, nothing owed.
LEMMA FreezingKeepsInvariant ==
    ASSUME KInv, NEW offsets, NEW latest, PolicyAnswer(offsets, latest), LookingUp, ~initial.known,
           Resolved(offsets, latest), Owe, UNCHANGED unchangedByLookup, faults' \in 0..MaxFaults
    PROVE  KInv'
<1>. USE DEF KInv, unchangedByLookup, brokerVars
<1>1. /\ initial'.known = TRUE /\ initial'.offsets = offsets /\ initial'.latest = latest
      /\ lookup' = [NoLookup EXCEPT !.stage = "open"]
      /\ UNCHANGED <<committedPartitions, pending, streamVars>>
  BY DEF Resolved, Frozen
<1>2. /\ lookup'.stage = "open" /\ lookup'.resolution = 0 /\ lookup'.count = 0
      /\ DOMAIN lookup'.offsets = {}
      /\ DOMAIN lookup' = {"stage", "resolution", "count", "offsets", "latest"}
  BY <1>1 DEF NoLookup, NoOffsets
<1>3. /\ DOMAIN pending = {} /\ DOMAIN initial.offsets = {} /\ committedPartitions = {}
      /\ DOMAIN position = {} /\ recordStage = "none"
  BY DEF AttemptProgress
<1>4. /\ \A p \in DOMAIN offsets :
            p \in Partitions /\ offsets[p] \in Offsets /\ (~FromLatest(p) => offsets[p] = FixedStart(p))
      /\ latest = {p \in DOMAIN offsets : FromLatest(p)}
  BY DEF PolicyAnswer
<1>5. \A p : FromLatest(p)' = FromLatest(p) /\ FixedStart(p)' = FixedStart(p)
  BY DEF FromLatest, CanResolveFromLatest, FixedStart
<1>6. /\ owed' \in [Partitions -> 0..NotOwed]
      /\ \A p \in DOMAIN offsets : owed'[p] = offsets[p]
  <2>1. \A p \in Partitions : owed[p] = NotOwed
    BY <1>3 DEF OwedFollowsPolicy
  <2>. QED
    BY <1>1, <1>3, <1>4, <2>1, OweSettles
<1>7. TypeOK'
  BY <1>1, <1>6 DEF TypeOK, streamVars
<1>8. LookupOK'
  BY <1>2, Bounds DEF LookupOK
<1>9. OffsetsOK'
  BY <1>1, <1>4 DEF OffsetsOK, streamVars
<1>10. AttemptProgress'
  BY <1>1, <1>2, <1>3 DEF AttemptProgress, Running, streamVars
<1>11. AnswerFollowsPolicy'
  BY <1>1, <1>2, <1>4, <1>5 DEF AnswerFollowsPolicy
<1>12. OwedFollowsPolicy'
  BY <1>1, <1>3, <1>4, OweFollowsPolicy
<1>13. FrozenCoversOwed'
  <2>1. \A p \in DOMAIN initial'.offsets : initial'.offsets[p] = owed'[p] /\ owed'[p] \in Nat
    BY <1>1, <1>4, <1>6, OffsetsAreClosed
  <2>. QED
    BY <2>1 DEF FrozenCoversOwed
<1>14. FirstResolutionIsFresh' /\ RecordInStream'
  BY <1>1, <1>2, <1>3 DEF FirstResolutionIsFresh, RecordInStream, streamVars
<1>15. CommitsAreHandled' /\ StreamSkipsNothing'
  BY <1>1, <1>3 DEF CommitsAreHandled, StreamSkipsNothing, NothingSkipped, streamVars
<1>. QED
  BY <1>7, <1>8, <1>9, <1>10, <1>11, <1>12, <1>13, <1>14, <1>15

\* All offsets of an answer are known.
LEMMA ResolvedKeepsInvariant ==
    ASSUME KInv, NEW offsets, NEW latest, PolicyAnswer(offsets, latest), LookingUp,
           Resolved(offsets, latest), Owe, UNCHANGED unchangedByLookup, faults' \in 0..MaxFaults
    PROVE  KInv'
<1>. USE DEF KInv
<1>1. CASE ~initial.known
  BY <1>1, FreezingKeepsInvariant
<1>2. CASE initial.known /\ NeedsFloor(latest)
  <2>1. /\ lookup' = [lookup EXCEPT !.stage = "floor", !.offsets = offsets, !.latest = latest]
        /\ UNCHANGED <<bindingVars, streamVars>>
    BY <1>2 DEF Resolved
  <2>2. /\ DOMAIN lookup' = DOMAIN lookup /\ lookup'.stage = "floor"
        /\ lookup'.offsets = offsets /\ lookup'.latest = latest
        /\ lookup'.resolution = lookup.resolution /\ lookup'.count = lookup.count
    BY <2>1 DEF LookupOK
  <2>3. LookupOK'
    BY <2>2 DEF LookupOK, PolicyAnswer
  <2>4. \A p : FromLatest(p)' = FromLatest(p) /\ FixedStart(p)' = FixedStart(p)
    BY DEF FromLatest, CanResolveFromLatest, FixedStart, unchangedByLookup
  <2>5. AnswerFollowsPolicy'
    <3>1. initial' = initial /\ end' = end
      BY <2>1 DEF bindingVars, unchangedByLookup, brokerVars
    <3>2. lookup.resolution # 1
      BY <1>2 DEF NeedsFloor, Conservative
    <3>3. \A p \in DOMAIN offsets :
             IF FromLatest(p) THEN offsets[p] \in 0..end[p] ELSE offsets[p] = FixedStart(p)
      <4>1. ASSUME NEW p \in DOMAIN offsets
            PROVE  /\ offsets[p] \in Nat /\ end[p] \in Nat
                   /\ IF FromLatest(p) THEN offsets[p] <= end[p] ELSE offsets[p] = FixedStart(p)
        BY OffsetsAreClosed DEF PolicyAnswer, TypeOK
      <4>. QED
        BY <4>1
    <3>. QED
      BY <1>2, <2>2, <2>4, <3>1, <3>2, <3>3 DEF AnswerFollowsPolicy, Conservative, PolicyAnswer
  <2>6. FirstResolutionIsFresh'
    BY <1>2, <2>2 DEF FirstResolutionIsFresh, NeedsFloor, Conservative
  <2>7. LookingUp'
    BY <2>2 DEF LookingUp
  <2>. QED
    BY <2>1, <2>2, <2>3, <2>5, <2>6, <2>7, LookingOnKeepsInvariant
<1>3. CASE initial.known /\ ~NeedsFloor(latest)
  <2>1. Expand(offsets, latest, pending)
    BY <1>3 DEF Resolved
  <2>2. Floors(pending, latest)
    BY DEF Floors
  <2>3. ASSUME NEW p \in DOMAIN offsets \ DOMAIN initial.offsets,
               FromLatest(p), p \in DOMAIN pending, pending[p] = Unknown
        PROVE  owed[p] = NotOwed
    <3>1. p \in latest
      BY <2>3 DEF PolicyAnswer
    <3>2. lookup.resolution = 1
      BY <1>3, <2>3, <3>1 DEF NeedsFloor, Conservative
    <3>. QED
      BY <2>3, <3>2 DEF FirstResolutionIsFresh
  <2>. QED
    BY <2>1, <2>2, <2>3, ExpandKeepsInvariant
<1>. QED
  BY <1>1, <1>2, <1>3

LEMMA AnsweredFaults ==
    ASSUME TypeOK, NEW n \in 0..existing, Answered(n)
    PROVE  faults' \in 0..MaxFaults /\ 0..(n - 1) \subseteq Partitions /\ n \in 0..PartitionCount
BY Bounds DEF TypeOK, Answered, Fault, Partitions

LEMMA EndsAreOffsets ==
    ASSUME TypeOK PROVE \A p \in Partitions : end[p] \in Offsets /\ end[p] <= end[p]
<1>. SUFFICES ASSUME NEW p \in Partitions PROVE end[p] \in Offsets /\ end[p] <= end[p]
  OBVIOUS
<1>1. end[p] \in Offsets
  BY DEF TypeOK
<1>2. end[p] \in Nat
  BY <1>1, OffsetsAreClosed
<1>. QED
  BY <1>1, <1>2

LEMMA CompleteKeepsInvariant ==
    ASSUME KInv, NEW offsets, NEW latest, LookingUp, Complete(offsets, latest),
           (\A p \in DOMAIN offsets : offsets[p] # Missing) => PolicyAnswer(offsets, latest),
           UNCHANGED unchangedByLookup, faults' \in 0..MaxFaults
    PROVE  KInv'
<1>. USE DEF KInv
<1>1. CASE DOMAIN offsets = 0..(lookup.count - 1) /\ \A p \in DOMAIN offsets : offsets[p] # Missing
  <2>1. Resolved(offsets, latest) /\ Owe
    BY <1>1 DEF Complete
  <2>. QED
    BY <1>1, <2>1, ResolvedKeepsInvariant
<1>2. CASE ~(DOMAIN offsets = 0..(lookup.count - 1) /\ \A p \in DOMAIN offsets : offsets[p] # Missing)
  <2>1. EndAttempt /\ UNCHANGED <<bindingVars, owed>>
    BY <1>2 DEF Complete
  <2>2. LookupOK'
    BY <2>1, EndedAttempt, Bounds DEF LookupOK
  <2>3. AnswerFollowsPolicy' /\ FirstResolutionIsFresh'
    BY <2>1, EndedAttempt DEF AnswerFollowsPolicy, FirstResolutionIsFresh, FromLatest,
       CanResolveFromLatest, FixedStart, unchangedByLookup, brokerVars, bindingVars
  <2>. QED
    BY <2>1, <2>2, <2>3, LookingOnKeepsInvariant
<1>. QED
  BY <1>1, <1>2

\* The modes and fallbacks that a start position has.
LEMMA StartIsMode ==
    ASSUME TypeOK
    PROVE  start.mode \in {"earliest", "latest", "usable"} /\ start.fallback \in {"earliest", "latest"}
BY StartsAreModes DEF TypeOK

LEMMA ListLatestKeepsInvariant == ASSUME KInv, ListLatest PROVE KInv'
<1>. USE DEF KInv
<1>1. PICK n \in 0..existing :
         /\ Answered(n)
         /\ IF start.mode = "latest"
            THEN Resolved(AnswerFor(n, end), 0..(n - 1)) /\ Owe
            ELSE /\ lookup' = [lookup EXCEPT !.stage = "start", !.count = n]
                 /\ UNCHANGED <<bindingVars, streamVars, owed>>
  BY DEF ListLatest
<1>2. UNCHANGED unchangedByLookup /\ lookup.stage = "latest"
  BY DEF ListLatest
<1>3. LookingUp /\ faults' \in 0..MaxFaults /\ 0..(n - 1) \subseteq Partitions /\ n \in 0..PartitionCount
  BY <1>1, <1>2, AnsweredFaults DEF LookingUp
<1>4. CASE start.mode = "latest"
  <2>. DEFINE offsets == AnswerFor(n, end)
  <2>1. \A p : FromLatest(p)
    BY <1>4 DEF FromLatest, CanResolveFromLatest
  <2>2. \A p \in 0..(n - 1) : end[p] \in Offsets /\ end[p] <= end[p]
    BY <1>3, EndsAreOffsets
  <2>3. PolicyAnswer(offsets, 0..(n - 1))
    BY <1>3, <2>1, <2>2 DEF PolicyAnswer, AnswerFor
  <2>4. Resolved(offsets, 0..(n - 1)) /\ Owe
    BY <1>1, <1>4
  <2>. QED
    BY <1>2, <1>3, <2>3, <2>4, ResolvedKeepsInvariant
<1>5. CASE start.mode # "latest"
  <2>1. /\ lookup' = [lookup EXCEPT !.stage = "start", !.count = n]
        /\ UNCHANGED <<bindingVars, streamVars, owed>>
    BY <1>1, <1>5
  <2>2. /\ DOMAIN lookup' = DOMAIN lookup /\ lookup'.stage = "start" /\ lookup'.count = n
        /\ lookup'.offsets = lookup.offsets /\ lookup'.resolution = lookup.resolution
    BY <2>1 DEF LookupOK
  <2>3. LookupOK' /\ LookingUp'
    BY <1>3, <2>2 DEF LookupOK, LookingUp
  <2>4. AnswerFollowsPolicy' /\ FirstResolutionIsFresh'
    BY <1>2, <1>5, <2>1, <2>2 DEF AnswerFollowsPolicy, FirstResolutionIsFresh, FromLatest,
       CanResolveFromLatest, FixedStart, unchangedByLookup, brokerVars, bindingVars
  <2>. QED
    BY <1>2, <1>3, <2>1, <2>2, <2>3, <2>4, LookingOnKeepsInvariant
<1>. QED
  BY <1>4, <1>5

\* What is missing among the offsets of the mode is left to the fallback.
LEMMA ListStartKeepsInvariant == ASSUME KInv, ListStart PROVE KInv'
<1>. USE DEF KInv
<1>. DEFINE Found == IF start.mode = "earliest" THEN [p \in Partitions |-> 0] ELSE Usable
            offsets(n) == AnswerFor(n, Found)
            missing(n) == {p \in DOMAIN offsets(n) : offsets(n)[p] = Missing}
<1>1. PICK n \in 0..existing :
         /\ Answered(n)
         /\ IF missing(n) = {}
            THEN Complete(offsets(n), {})
            ELSE /\ lookup' = [lookup EXCEPT
                       !.stage = "fallback", !.offsets = offsets(n),
                       !.latest = IF start.fallback = "latest" THEN missing(n) ELSE {}]
                 /\ UNCHANGED <<bindingVars, streamVars, owed>>
  BY DEF ListStart
<1>2. UNCHANGED unchangedByLookup /\ lookup.stage = "start" /\ start.mode # "latest"
  BY DEF ListStart, AnswerFollowsPolicy
<1>3. LookingUp /\ faults' \in 0..MaxFaults /\ 0..(n - 1) \subseteq Partitions /\ n \in 0..PartitionCount
  BY <1>1, <1>2, AnsweredFaults DEF LookingUp
<1>4. /\ DOMAIN offsets(n) = 0..(n - 1)
      /\ \A p \in 0..(n - 1) : offsets(n)[p] = IF start.mode = "earliest" THEN 0 ELSE Usable[p]
  BY <1>3 DEF AnswerFor
<1>5. /\ \A p \in 0..(n - 1) : offsets(n)[p] \in Offsets \union {Missing}
      /\ 0 # Missing /\ \A o \in Offsets : o # Missing
  BY <1>3, <1>4, OffsetsAreClosed, UsableIsOffset DEF Missing
<1>6. \A p : /\ FromLatest(p) <=> start.mode = "usable" /\ start.fallback = "latest" /\ Usable[p] = Missing
             /\ FixedStart(p) = IF start.mode = "usable" /\ Usable[p] # Missing THEN Usable[p] ELSE 0
  BY <1>2 DEF FromLatest, CanResolveFromLatest, FixedStart
<1>7. start.mode \in {"earliest", "usable"}
  BY <1>2, StartIsMode
<1>. HIDE DEF Found, offsets
<1>8. CASE missing(n) = {}
  <2>1. \A p \in 0..(n - 1) : offsets(n)[p] # Missing
    BY <1>4, <1>8
  <2>2. \A p \in 0..(n - 1) : offsets(n)[p] = FixedStart(p) /\ ~FromLatest(p)
    BY <1>4, <1>6, <1>7, <2>1
  <2>3. PolicyAnswer(offsets(n), {})
    BY <1>3, <1>4, <1>5, <2>1, <2>2 DEF PolicyAnswer
  <2>4. Complete(offsets(n), {})
    BY <1>1, <1>8
  <2>. QED
    BY <1>2, <1>3, <2>3, <2>4, CompleteKeepsInvariant
<1>9. CASE missing(n) # {}
  <2>1. /\ lookup' = [lookup EXCEPT
               !.stage = "fallback", !.offsets = offsets(n),
               !.latest = IF start.fallback = "latest" THEN missing(n) ELSE {}]
        /\ UNCHANGED <<bindingVars, streamVars, owed>>
    BY <1>1, <1>9
  <2>2. /\ DOMAIN lookup' = DOMAIN lookup /\ lookup'.stage = "fallback" /\ lookup'.count = lookup.count
        /\ lookup'.offsets = offsets(n) /\ lookup'.resolution = lookup.resolution
        /\ lookup'.latest = IF start.fallback = "latest" THEN missing(n) ELSE {}
    BY <2>1 DEF LookupOK
  <2>3. start.mode = "usable"
    BY <1>4, <1>5, <1>7, <1>9
  <2>4. LookupOK' /\ LookingUp'
    BY <1>3, <1>4, <1>5, <2>2 DEF LookupOK, LookingUp
  <2>5. \A p : FromLatest(p)' = FromLatest(p) /\ FixedStart(p)' = FixedStart(p)
    BY <1>2 DEF FromLatest, CanResolveFromLatest, FixedStart, unchangedByLookup
  <2>6. lookup'.latest = {p \in DOMAIN lookup'.offsets : FromLatest(p)}
    BY <1>4, <1>6, <2>2, <2>3
  <2>7. initial' = initial /\ pending' = pending /\ start' = start
    BY <1>2, <2>1 DEF bindingVars, unchangedByLookup
  <2>8. AnswerFollowsPolicy'
    BY <1>4, <2>2, <2>3, <2>5, <2>6, <2>7 DEF AnswerFollowsPolicy
  <2>9. FirstResolutionIsFresh'
    BY <2>1, <2>2, <2>7 DEF FirstResolutionIsFresh
  <2>. QED
    BY <1>2, <1>3, <2>1, <2>2, <2>4, <2>8, <2>9, LookingOnKeepsInvariant
<1>. QED
  BY <1>8, <1>9

LEMMA ListFallbackKeepsInvariant == ASSUME KInv, ListFallback PROVE KInv'
<1>. USE DEF KInv
<1>. DEFINE offsets(n) == [p \in DOMAIN lookup.offsets |->
                              IF lookup.offsets[p] # Missing THEN lookup.offsets[p]
                              ELSE IF p >= n THEN Missing
                              ELSE IF start.fallback = "latest" THEN end[p] ELSE 0]
<1>1. PICK n \in 0..existing : Answered(n) /\ Complete(offsets(n), lookup.latest)
  BY DEF ListFallback
<1>2. /\ UNCHANGED unchangedByLookup /\ lookup.stage = "fallback"
  BY DEF ListFallback
<1>3. LookingUp /\ faults' \in 0..MaxFaults
  BY <1>1, <1>2, AnsweredFaults DEF LookingUp
<1>4. /\ start.mode = "usable" /\ lookup.latest = {p \in DOMAIN lookup.offsets : FromLatest(p)}
      /\ \A p \in DOMAIN lookup.offsets : lookup.offsets[p] = Usable[p]
  BY <1>2 DEF AnswerFollowsPolicy
<1>5. \A p : /\ FromLatest(p) <=> start.fallback = "latest" /\ Usable[p] = Missing
             /\ FixedStart(p) = IF Usable[p] # Missing THEN Usable[p] ELSE 0
  BY <1>4 DEF FromLatest, CanResolveFromLatest, FixedStart
<1>6. ASSUME \A p \in DOMAIN offsets(n) : offsets(n)[p] # Missing
      PROVE  PolicyAnswer(offsets(n), lookup.latest)
  <2>1. DOMAIN offsets(n) = DOMAIN lookup.offsets /\ DOMAIN lookup.offsets \subseteq Partitions
    BY DEF LookupOK
  <2>2. ASSUME NEW p \in DOMAIN lookup.offsets
        PROVE  /\ offsets(n)[p] \in Offsets
               /\ IF FromLatest(p) THEN offsets(n)[p] <= end[p] ELSE offsets(n)[p] = FixedStart(p)
    <3>1. end[p] \in Offsets /\ end[p] <= end[p]
      BY <2>1, EndsAreOffsets
    <3>2. offsets(n)[p] = IF Usable[p] # Missing THEN Usable[p]
                          ELSE IF start.fallback = "latest" THEN end[p] ELSE 0
      BY <1>4, <1>6
    <3>3. Usable[p] # Missing => Usable[p] \in Offsets
      BY <2>1, UsableIsOffset
    <3>. QED
      BY <1>5, <3>1, <3>2, <3>3, OffsetsAreClosed
  <2>. QED
    BY <1>4, <2>1, <2>2 DEF PolicyAnswer
<1>. HIDE DEF offsets
<1>. QED
  BY <1>1, <1>2, <1>3, <1>6, CompleteKeepsInvariant

LEMMA ListFloorKeepsInvariant == ASSUME KInv, ListFloor PROVE KInv'
<1>. USE DEF KInv
<1>. DEFINE unknown == {p \in DOMAIN pending : pending[p] = Unknown /\ p \in lookup.latest}
            floors == [p \in DOMAIN pending |-> IF p \in unknown THEN 0 ELSE pending[p]]
<1>1. PICK n \in 0..existing :
         /\ Answered(n)
         /\ IF \E p \in unknown : p >= n
            THEN EndAttempt /\ UNCHANGED bindingVars
            ELSE Expand(lookup.offsets, lookup.latest, floors)
  BY DEF ListFloor
<1>2. UNCHANGED unchangedByLookup /\ lookup.stage = "floor" /\ Owe
  BY DEF ListFloor
<1>3. LookingUp /\ faults' \in 0..MaxFaults
  BY <1>1, <1>2, AnsweredFaults DEF LookingUp
<1>4. CASE \E p \in unknown : p >= n
  <2>1. EndAttempt /\ UNCHANGED bindingVars
    BY <1>1, <1>4
  <2>2. LookupOK'
    BY <2>1, EndedAttempt, Bounds DEF LookupOK
  <2>3. AnswerFollowsPolicy' /\ FirstResolutionIsFresh'
    BY <1>2, <2>1, EndedAttempt DEF AnswerFollowsPolicy, FirstResolutionIsFresh, FromLatest,
       CanResolveFromLatest, FixedStart, unchangedByLookup, brokerVars, bindingVars
  <2>. QED
    BY <1>2, <1>3, <2>1, <2>2, <2>3, LookingOnKeepsInvariant
<1>5. CASE ~\E p \in unknown : p >= n
  <2>1. Expand(lookup.offsets, lookup.latest, floors)
    BY <1>1, <1>5
  <2>2. lookup.latest = {p \in DOMAIN lookup.offsets : FromLatest(p)}
    BY <1>2 DEF AnswerFollowsPolicy
  <2>3. PolicyAnswer(lookup.offsets, lookup.latest)
    <3>1. \A p \in DOMAIN lookup.offsets :
             IF FromLatest(p) THEN lookup.offsets[p] \in 0..end[p] ELSE lookup.offsets[p] = FixedStart(p)
      BY <1>2 DEF AnswerFollowsPolicy
    <3>2. DOMAIN lookup.offsets \subseteq Partitions
      BY DEF LookupOK
    <3>3. ASSUME NEW p \in DOMAIN lookup.offsets
          PROVE  /\ lookup.offsets[p] \in Offsets
                 /\ IF FromLatest(p) THEN lookup.offsets[p] <= end[p] ELSE lookup.offsets[p] = FixedStart(p)
      <4>1. end[p] \in Offsets
        BY <3>2 DEF TypeOK
      <4>2. FixedStart(p) \in Offsets
        BY <3>2, FixedStartIsOffset
      <4>3. FromLatest(p) => lookup.offsets[p] \in 0..end[p] /\ end[p] \in Nat
        BY <3>1, <4>1, OffsetsAreClosed
      <4>4. FromLatest(p) => lookup.offsets[p] \in Offsets
        BY <4>1, <4>3, OffsetsAreClosed
      <4>5. ~FromLatest(p) => lookup.offsets[p] = FixedStart(p)
        BY <3>1
      <4>. QED
        BY <4>2, <4>3, <4>4, <4>5
    <3>. QED
      BY <2>2, <3>2, <3>3 DEF PolicyAnswer
  <2>4. Floors(floors, lookup.latest)
    BY DEF Floors
  <2>5. ASSUME NEW p \in DOMAIN lookup.offsets \ DOMAIN initial.offsets,
               FromLatest(p), p \in DOMAIN pending, floors[p] = Unknown
        PROVE  FALSE
    <3>1. p \in lookup.latest
      BY <2>2, <2>5
    <3>2. floors[p] = IF pending[p] = Unknown THEN 0 ELSE pending[p]
      BY <2>5, <3>1
    <3>. QED
      BY <2>5, <3>2 DEF Unknown
  <2>. HIDE DEF floors
  <2>. QED
    BY <1>2, <1>3, <2>1, <2>3, <2>4, <2>5, ExpandKeepsInvariant
<1>. QED
  BY <1>4, <1>5

-----------------------------------------------------------------------------
(* What is frozen *)

\* What one step does to what is frozen.
OnlyLowers ==
    initial.known => \A p \in DOMAIN initial.offsets :
        p \in DOMAIN initial'.offsets /\ initial'.offsets[p] <= initial.offsets[p]

LEMMA SameOnlyLowers == ASSUME TypeOK, OffsetsOK, initial' = initial PROVE OnlyLowers
BY NumbersAreNat DEF OnlyLowers

LEMMA ExpandOnlyLowers ==
    ASSUME TypeOK, OffsetsOK, NEW offsets, NEW latest, NEW floors, Expand(offsets, latest, floors),
           \A p \in DOMAIN floors : floors[p] \in Int
    PROVE  OnlyLowers
<1>. SUFFICES ASSUME NEW p \in DOMAIN initial.offsets
              PROVE  p \in DOMAIN initial'.offsets /\ initial'.offsets[p] <= initial.offsets[p]
  BY DEF OnlyLowers
<1>. DEFINE old == initial.offsets
            Floor(q, resolved, fromLatest) ==
               IF q \in DOMAIN floors /\ fromLatest /\ floors[q] # Unknown THEN floors[q] ELSE resolved
<1>1. initial'.offsets = [q \in DOMAIN old \union DOMAIN offsets |->
                             IF q \notin DOMAIN old THEN Floor(q, offsets[q], q \in latest)
                             ELSE IF Floor(q, old[q], q \in initial.latest) < old[q]
                             THEN floors[q] ELSE old[q]]
  BY DEF Expand, Merged, Frozen
<1>2. old[p] \in Nat
  BY NumbersAreNat
<1>3. initial'.offsets[p] = IF Floor(p, old[p], p \in initial.latest) < old[p] THEN floors[p] ELSE old[p]
  BY <1>1
<1>4. CASE p \in DOMAIN floors /\ p \in initial.latest /\ floors[p] # Unknown
  BY <1>1, <1>2, <1>3, <1>4
<1>5. CASE ~(p \in DOMAIN floors /\ p \in initial.latest /\ floors[p] # Unknown)
  BY <1>1, <1>2, <1>3, <1>5
<1>. QED
  BY <1>4, <1>5

LEMMA PendingIsInt == ASSUME OffsetsOK PROVE \A p \in DOMAIN pending : pending[p] \in Int
<1>. SUFFICES ASSUME NEW p \in DOMAIN pending PROVE pending[p] \in Int
  OBVIOUS
<1>1. pending[p] \in Offsets \/ pending[p] = Unknown
  BY DEF OffsetsOK
<1>2. pending[p] \in Offsets => pending[p] \in Nat
  BY OffsetsAreClosed
<1>3. Unknown \in Int
  BY DEF Unknown
<1>. QED
  BY <1>1, <1>2, <1>3

LEMMA ResolvedOnlyLowers ==
    ASSUME TypeOK, OffsetsOK, NEW offsets, NEW latest, Resolved(offsets, latest)
    PROVE  OnlyLowers
<1>1. CASE ~initial.known
  BY <1>1 DEF OnlyLowers
<1>2. CASE initial.known /\ NeedsFloor(latest)
  BY <1>2, SameOnlyLowers DEF Resolved, bindingVars
<1>3. CASE initial.known /\ ~NeedsFloor(latest)
  <2>1. Expand(offsets, latest, pending)
    BY <1>3 DEF Resolved
  <2>. QED
    BY <2>1, PendingIsInt, ExpandOnlyLowers
<1>. QED
  BY <1>1, <1>2, <1>3

LEMMA CompleteOnlyLowers ==
    ASSUME TypeOK, OffsetsOK, NEW offsets, NEW latest, Complete(offsets, latest)
    PROVE  OnlyLowers
BY ResolvedOnlyLowers, SameOnlyLowers DEF Complete, bindingVars

LEMMA ListFloorOnlyLowers == ASSUME TypeOK, OffsetsOK, ListFloor PROVE OnlyLowers
<1>. DEFINE unknown == {p \in DOMAIN pending : pending[p] = Unknown /\ p \in lookup.latest}
            floors == [p \in DOMAIN pending |-> IF p \in unknown THEN 0 ELSE pending[p]]
<1>1. (EndAttempt /\ UNCHANGED bindingVars) \/ Expand(lookup.offsets, lookup.latest, floors)
  BY DEF ListFloor
<1>2. \A p \in DOMAIN floors : floors[p] \in Int
  BY PendingIsInt
<1>. QED
  BY <1>1, <1>2, ExpandOnlyLowers, SameOnlyLowers DEF bindingVars

\* Only a lookup touches what is frozen.
LEMMA StepOnlyLowers == ASSUME KInv, [Next]_vars PROVE OnlyLowers
<1>. USE DEF KInv
<1>1. CASE UNCHANGED vars
  BY <1>1, SameOnlyLowers DEF vars, bindingVars
<1>2. CASE AddPartition \/ (\E p \in Partitions : Produce(p)) \/ Acquire \/ Open \/ AttemptFails
  BY <1>2, SameOnlyLowers DEF AddPartition, Produce, Acquire, Open, AttemptFails, bindingVars
<1>3. CASE GroupJoin \/ Expose \/ Pull \/ Handle \/ Commit \/ CommitAnswerLost
  BY <1>3, SameOnlyLowers DEF GroupJoin, Expose, Pull, Handle, Commit, CommitAnswerLost, unchangedByRecord
<1>4. CASE ListLatest
  <2>1. initial' = initial \/ \E n \in 0..existing : Resolved(AnswerFor(n, end), 0..(n - 1))
    BY <1>4 DEF ListLatest, bindingVars
  <2>. QED
    BY <2>1, ResolvedOnlyLowers, SameOnlyLowers
<1>5. CASE ListStart
  <2>1. initial' = initial \/ \E offsets : Complete(offsets, {})
    BY <1>5 DEF ListStart, bindingVars
  <2>. QED
    BY <2>1, CompleteOnlyLowers, SameOnlyLowers
<1>6. CASE ListFallback
  <2>1. \E offsets : Complete(offsets, lookup.latest)
    BY <1>6 DEF ListFallback
  <2>. QED
    BY <2>1, CompleteOnlyLowers
<1>7. CASE ListFloor
  BY <1>7, ListFloorOnlyLowers
<1>. QED
  BY <1>1, <1>2, <1>3, <1>4, <1>5, <1>6, <1>7 DEF Next

-----------------------------------------------------------------------------
(* The invariant of the specification *)

LEMMA StutterKeepsInvariant == ASSUME KInv, UNCHANGED vars PROVE KInv'
<1>. USE DEF KInv, vars, brokerVars, bindingVars, streamVars, historyVars
<1>1. TypeOK' /\ LookupOK' /\ OffsetsOK'
  BY DEF TypeOK, LookupOK, OffsetsOK
<1>2. AttemptProgress' /\ FirstResolutionIsFresh' /\ RecordInStream'
  BY DEF AttemptProgress, Running, FirstResolutionIsFresh, RecordInStream
<1>3. AnswerFollowsPolicy' /\ OwedFollowsPolicy' /\ FrozenCoversOwed'
  BY DEF AnswerFollowsPolicy, OwedFollowsPolicy, FrozenCoversOwed, FromLatest, CanResolveFromLatest,
     FixedStart, Conservative
<1>4. CommitsAreHandled' /\ StreamSkipsNothing'
  BY DEF CommitsAreHandled, StreamSkipsNothing, NothingSkipped
<1>. QED
  BY <1>1, <1>2, <1>3, <1>4

LEMMA InvariantHolds == Spec => []KInv
<1>1. Init => KInv
  BY InitEstablishesInvariant
<1>2. KInv /\ [Next]_vars => KInv'
  <2>. SUFFICES ASSUME KInv, [Next]_vars PROVE KInv'
    OBVIOUS
  <2>1. CASE AddPartition \/ \E p \in Partitions : Produce(p)
    BY <2>1, AddPartitionKeepsInvariant, ProduceKeepsInvariant
  <2>2. CASE Acquire \/ Open
    BY <2>2, AcquireKeepsInvariant, OpenKeepsInvariant
  <2>3. CASE ListLatest \/ ListStart
    BY <2>3, ListLatestKeepsInvariant, ListStartKeepsInvariant
  <2>4. CASE ListFallback \/ ListFloor
    BY <2>4, ListFallbackKeepsInvariant, ListFloorKeepsInvariant
  <2>5. CASE GroupJoin \/ Expose
    BY <2>5, GroupJoinKeepsInvariant, ExposeKeepsInvariant
  <2>6. CASE Pull \/ Handle \/ Commit
    BY <2>6, PullKeepsInvariant, HandleKeepsInvariant, CommitKeepsInvariant
  <2>7. CASE CommitAnswerLost \/ AttemptFails
    BY <2>7, CommitAnswerLostKeepsInvariant, AttemptFailsKeepsInvariant
  <2>8. CASE UNCHANGED vars
    BY <2>8, StutterKeepsInvariant
  <2>. QED
    BY <2>1, <2>2, <2>3, <2>4, <2>5, <2>6, <2>7, <2>8 DEF Next
<1>. QED
  BY <1>1, <1>2, PTL DEF Spec

\* The state of a region has its types, for every topic and start position.
THEOREM TypesHold == Spec => []TypeOK
<1>1. KInv => TypeOK
  BY DEF KInv
<1>. QED
  BY <1>1, InvariantHolds, PTL

\* No record is skipped, whichever attempts end, answers are lost or outdated
\* and partitions appear, when the client library reads a partition from where
\* it was when the group joined (activeOffsets, mergeInitialPartitions,
\* conservativeLatestGrowthOffsets).
THEOREM RecordsAreNotSkipped ==
    ASSUME ReadsFromJoin = TRUE
    PROVE  Spec => []NothingSkipped
<1>1. KInv => NothingSkipped
  BY DEF KInv, StreamSkipsNothing
<1>. QED
  BY <1>1, InvariantHolds, PTL

\* A frozen partition stays frozen and its offset is only ever lowered, whatever
\* the client library does (mergeInitialPartitions).
THEOREM FrozenIsFinal == Spec => FrozenStays
<1>1. KInv /\ [Next]_vars => [OnlyLowers]_vars
  BY StepOnlyLowers
<1>2. [OnlyLowers]_vars => [initial.known => \A p \in DOMAIN initial.offsets :
          p \in DOMAIN initial'.offsets /\ initial'.offsets[p] <= initial.offsets[p]]_vars
  BY DEF OnlyLowers
<1>. QED
  BY <1>1, <1>2, InvariantHolds, PTL DEF Spec, FrozenStays

=============================================================================
