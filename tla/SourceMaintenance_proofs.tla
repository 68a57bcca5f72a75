-------------------------- MODULE SourceMaintenance_proofs --------------------------
(***************************************************************************)
(* Proofs about the retention of a Kafka source, for any keys, lanes and   *)
(* bounds.                                                                 *)
(***************************************************************************)
EXTENDS SourceMaintenance, FiniteSetTheorems, FunctionTheorems, SequenceTheorems, TLAPS

Work == Keys \X Generations
Tags == {"AppliedUpsert", "AppliedDelete"}
Commands == {NoCommand}
              \union [tag : {"AppliedUpsert"}, id : Keys, deadlineNanos : 0..MaxTime, cancelled : SUBSET Work]
              \union [tag : {"AppliedDelete"}, id : Keys, cancelled : SUBSET Work]
Publications == [tag : {"None", "Ready", "Degraded"}, rejections : Nat, maintenance : BOOLEAN]

\* Types of what TypeOK leaves open.
PreparedOK == command \in [Lanes -> Commands] /\ pending \in [Processes -> Publications]

\* Rows and deadlines agree, whoever holds the gate.
RowsHaveDeadlines ==
    \A k \in Keys :
        /\ rows[k] = NoRow <=> deadlines[k] = NoDeadline
        /\ rows[k] # NoRow => deadlines[k] = rows[k]
        /\ deadlines[k] # NoDeadline => deadlines[k].id = k /\ deadlines[k].generation <= nextGeneration

RowsOf(l) == {k \in Keys : LaneOf[k] = l /\ rows[k] # NoRow}

RowsCounted == \A l \in Lanes : IsFiniteSet(RowsOf(l)) /\ trackedRows[l] = Cardinality(RowsOf(l))

\* A candidate was due, and is what its key has now if the generation says so.
CandidateOK(d) ==
    /\ d.generation <= nextGeneration /\ d.deadlineNanos <= now
    /\ IsCurrent(d) => deadlines[d.id] = d

CandidatesWereDue ==
    /\ \A d \in candidates : CandidateOK(d)
    /\ candidate # NoDeadline => CandidateOK(candidate)

SweepProgress ==
    /\ phase[Sweeper] \notin {"pulling", "rejecting"}
    /\ IF phase[Sweeper] \in {"waiting", "leased", "publishing"}
       THEN candidate # NoDeadline /\ want[Sweeper] = candidate.id
       ELSE want[Sweeper] = NoKey

\* What a lane has prepared, and the key it has or waits for.
LaneProgress ==
    \A l \in Lanes :
        /\ phase[l] \notin {"sleeping", "sweeping"}
        /\ phase[l] \in {"waiting", "leased"} => command[l] # NoCommand /\ want[l] = command[l].id
        /\ phase[l] \in {"pulling", "publishing", "rejecting"} => want[l] = NoKey
        /\ phase[l] \notin {"waiting", "leased"} => command[l] = NoCommand

\* A key's work was read when its command was prepared; since then, only the
\* sweep may have removed the deadline.
CancelsTheWork ==
    \A l \in Lanes : command[l] # NoCommand =>
        /\ LaneOf[command[l].id] = l
        /\ \A w \in command[l].cancelled : w[1] = command[l].id
        /\ deadlines[command[l].id] # NoDeadline => command[l].cancelled = WorkForId(command[l].id)

Upserts == {l \in Lanes : command[l].tag = "AppliedUpsert"}

GenerationsSuffice == IsFiniteSet(Upserts) /\ nextGeneration + Cardinality(Upserts) <= MaxRecords

\* A source that is down or closing has no lane that goes on.
AttemptProgress ==
    /\ source \in {"down", "closing"} => ~active /\ \A l \in Lanes : phase[l] = "ended"
    /\ source = "down" => \A l \in Lanes : want[l] = NoKey

\* The gate is held for a publication, and a sweep's keeps the source up.
GateIsHeld ==
    /\ \A p \in Processes : gate = p <=> phase[p] = "publishing"
    /\ gate = Sweeper => active /\ IsOperational

\* Failed work is work of a current deadline, on both sides.
WorkIsCurrent ==
    /\ failedMaintenanceWork = failedWork
    /\ \A w \in failedWork : deadlines[w[1]] # NoDeadline /\ w = WorkId(deadlines[w[1]])

\* What is computed under the gate is still so when it is published, and a
\* rejection degrades the source by itself.
PublicationsShowBacklog ==
    /\ gate = Nobody /\ active /\ ~closing /\ failedWork # {} => status.tag = "Degraded"
    /\ \A p \in Processes : phase[p] = "publishing" =>
          /\ pending[p].tag # "None"
          /\ failedWork # {} => pending[p].tag = "Degraded"
    /\ \A l \in Lanes : phase[l] = "rejecting" => pending[l].tag = "Degraded"

Owns(p, k) == want[p] = k /\ ~Contains(queue[k], p)

\* The registry of one key: its waiters wait for it and are queued once, and it
\* is held by the one process that has it.
LeaseOK(k) ==
    /\ \A i, j \in 1..Len(queue[k]) : queue[k][i] = queue[k][j] => i = j
    /\ \A i \in 1..Len(queue[k]) : want[queue[k][i]] = k /\ phase[queue[k][i]] = "waiting"
    /\ \A p, q \in Processes : Owns(p, k) /\ Owns(q, k) => p = q
    /\ held[k] <=> \E p \in Processes : Owns(p, k)
    /\ ~held[k] => Len(queue[k]) = 0
    /\ users[k] = Len(queue[k]) + (IF held[k] THEN 1 ELSE 0)

LeasesOK == \A k \in Keys : LeaseOK(k)

\* The inductive invariant of the retention.
MInv ==
    /\ TypeOK /\ PreparedOK
    /\ RowsHaveDeadlines /\ RowsCounted /\ CandidatesWereDue
    /\ SweepProgress /\ LaneProgress /\ AttemptProgress
    /\ CancelsTheWork /\ GenerationsSuffice
    /\ GateIsHeld /\ WorkIsCurrent /\ PublicationsShowBacklog
    /\ LeasesOK

-----------------------------------------------------------------------------
(* Queues *)

LEMMA RemovedAt ==
    ASSUME NEW S, NEW s \in Seq(S), NEW i \in 1..Len(s)
    PROVE  /\ RemoveAt(s, i) \in Seq(S)
           /\ Len(RemoveAt(s, i)) = Len(s) - 1
           /\ \A j \in 1..(Len(s) - 1) : RemoveAt(s, i)[j] = IF j < i THEN s[j] ELSE s[j + 1]
<1>. DEFINE before == SubSeq(s, 1, i - 1)
            after == SubSeq(s, i + 1, Len(s))
<1>1. Len(s) \in Nat /\ \A j \in 1..Len(s) : s[j] \in S
  BY LenProperties, ElementOfSeq
<1>2. /\ before \in Seq(S) /\ Len(before) = i - 1
      /\ \A j \in 1..(i - 1) : before[j] = s[j]
  <2>1. \A j \in 1..(i - 1) : s[j] \in S
    BY <1>1
  <2>. QED
    BY <1>1, <2>1, SubSeqProperties
<1>3. /\ after \in Seq(S) /\ Len(after) = Len(s) - i
      /\ \A j \in 1..(Len(s) - i) : after[j] = s[i + j]
  <2>1. \A j \in (i + 1)..Len(s) : s[j] \in S
    BY <1>1
  <2>2. /\ after \in Seq(S)
        /\ Len(after) = IF i + 1 <= Len(s) THEN Len(s) - (i + 1) + 1 ELSE 0
        /\ \A j \in 1..(Len(s) - (i + 1) + 1) : after[j] = s[(i + 1) + j - 1]
    BY <1>1, <2>1, SubSeqProperties
  <2>. QED
    BY <1>1, <2>2
<1>. HIDE DEF before, after
<1>4. /\ before \o after \in Seq(S) /\ Len(before \o after) = Len(before) + Len(after)
      /\ \A j \in 1..(Len(before) + Len(after)) :
            (before \o after)[j] = IF j <= Len(before) THEN before[j] ELSE after[j - Len(before)]
  BY <1>2, <1>3, ConcatProperties
<1>5. RemoveAt(s, i) = before \o after
  BY DEF RemoveAt, before, after
<1>6. Len(before) + Len(after) = Len(s) - 1
  BY <1>1, <1>2, <1>3
<1>7. ASSUME NEW j \in 1..(Len(s) - 1)
      PROVE  RemoveAt(s, i)[j] = IF j < i THEN s[j] ELSE s[j + 1]
  <2>1. RemoveAt(s, i)[j] = IF j <= i - 1 THEN before[j] ELSE after[j - (i - 1)]
    BY <1>2, <1>4, <1>5, <1>6
  <2>2. CASE j < i
    BY <1>1, <1>2, <2>1, <2>2
  <2>3. CASE j >= i
    <3>1. j - (i - 1) \in 1..(Len(s) - i) /\ i + (j - (i - 1)) = j + 1
      BY <1>1, <2>3
    <3>. QED
      BY <1>1, <1>3, <2>1, <2>3, <3>1
  <2>. QED
    BY <1>1, <2>2, <2>3
<1>. QED
  BY <1>4, <1>5, <1>6, <1>7

\* What a queue without duplicates holds when one of its elements has left it.
LEMMA LeftQueue ==
    ASSUME NEW S, NEW s \in Seq(S), NEW i \in 1..Len(s),
           \A m, n \in 1..Len(s) : s[m] = s[n] => m = n
    PROVE  /\ \A x : Contains(RemoveAt(s, i), x) <=> x # s[i] /\ Contains(s, x)
           /\ \A m, n \in 1..Len(RemoveAt(s, i)) : RemoveAt(s, i)[m] = RemoveAt(s, i)[n] => m = n
<1>. DEFINE t == RemoveAt(s, i)
<1>1. Len(s) \in Nat /\ Len(t) = Len(s) - 1
  BY RemovedAt, LenProperties
<1>2. \A j \in 1..(Len(s) - 1) : t[j] = IF j < i THEN s[j] ELSE s[j + 1]
  BY RemovedAt
<1>. HIDE DEF t
<1>3. ASSUME NEW x, Contains(t, x) PROVE x # s[i] /\ Contains(s, x)
  <2>1. PICK j \in 1..Len(t) : t[j] = x
    BY <1>3 DEF Contains
  <2>2. CASE j < i
    BY <1>1, <1>2, <2>1, <2>2 DEF Contains
  <2>3. CASE j >= i
    BY <1>1, <1>2, <2>1, <2>3 DEF Contains
  <2>. QED
    BY <1>1, <2>1, <2>2, <2>3
<1>4. ASSUME NEW x, x # s[i], Contains(s, x) PROVE Contains(t, x)
  <2>1. PICK j \in 1..Len(s) : s[j] = x
    BY <1>4 DEF Contains
  <2>2. CASE j < i
    BY <1>1, <1>2, <2>1, <2>2 DEF Contains
  <2>3. CASE j > i
    <3>1. j - 1 \in 1..(Len(s) - 1) /\ t[j - 1] = s[j]
      BY <1>1, <1>2, <2>1, <2>3
    <3>. QED
      BY <1>1, <2>1, <3>1 DEF Contains
  <2>. QED
    BY <1>1, <1>4, <2>1, <2>2, <2>3
<1>5. \A m, n \in 1..Len(t) : t[m] = t[n] => m = n
  BY <1>1, <1>2
<1>. QED
  BY <1>3, <1>4, <1>5 DEF t

\* The first waiter leaves the queue at its head.
LEMMA HeadLeaves ==
    ASSUME NEW S, NEW s \in Seq(S), s # <<>>,
           \A m, n \in 1..Len(s) : s[m] = s[n] => m = n
    PROVE  /\ Tail(s) \in Seq(S) /\ Len(Tail(s)) = Len(s) - 1 /\ Len(s) >= 1
           /\ \A x : Contains(Tail(s), x) <=> x # s[1] /\ Contains(s, x)
           /\ \A m, n \in 1..Len(Tail(s)) : Tail(s)[m] = Tail(s)[n] => m = n
           /\ \A m \in 1..Len(Tail(s)) : Tail(s)[m] = s[m + 1]
<1>. DEFINE t == Tail(s)
<1>1. t \in Seq(S) /\ Len(t) = Len(s) - 1 /\ \A m \in 1..Len(t) : t[m] = s[m + 1]
  BY HeadTailProperties
<1>2. Len(s) \in Nat /\ Len(s) >= 1
  BY EmptySeq, LenProperties
<1>. HIDE DEF t
<1>3. ASSUME NEW x, Contains(t, x) PROVE x # s[1] /\ Contains(s, x)
  BY <1>1, <1>2, <1>3 DEF Contains
<1>4. ASSUME NEW x, x # s[1], Contains(s, x) PROVE Contains(t, x)
  <2>1. PICK j \in 1..Len(s) : s[j] = x
    BY <1>4 DEF Contains
  <2>2. j - 1 \in 1..Len(t) /\ t[j - 1] = s[j]
    BY <1>1, <1>2, <1>4, <2>1
  <2>. QED
    BY <2>1, <2>2 DEF Contains
<1>5. \A m, n \in 1..Len(t) : t[m] = t[n] => m = n
  BY <1>1, <1>2
<1>. QED
  BY <1>1, <1>2, <1>3, <1>4, <1>5 DEF t

\* The last waiter joins the queue at its tail.
LEMMA TailJoins ==
    ASSUME NEW S, NEW s \in Seq(S), NEW e \in S, ~Contains(s, e),
           \A m, n \in 1..Len(s) : s[m] = s[n] => m = n
    PROVE  /\ Append(s, e) \in Seq(S) /\ Len(Append(s, e)) = Len(s) + 1
           /\ \A x : Contains(Append(s, e), x) <=> x = e \/ Contains(s, x)
           /\ \A m, n \in 1..Len(Append(s, e)) : Append(s, e)[m] = Append(s, e)[n] => m = n
<1>. DEFINE t == Append(s, e)
<1>1. /\ t \in Seq(S) /\ Len(t) = Len(s) + 1 /\ Len(s) \in Nat
      /\ \A m \in 1..Len(s) : t[m] = s[m]
      /\ t[Len(s) + 1] = e
  BY AppendProperties, LenProperties
<1>. HIDE DEF t
<1>2. \A m \in 1..Len(s) : s[m] # e
  BY DEF Contains
<1>3. \A x : Contains(t, x) <=> x = e \/ Contains(s, x)
  BY <1>1 DEF Contains
<1>4. \A m, n \in 1..Len(t) : t[m] = t[n] => m = n
  BY <1>1, <1>2
<1>. QED
  BY <1>1, <1>3, <1>4 DEF t

-----------------------------------------------------------------------------
(* The key lease registry *)

LeaseTypes ==
    /\ want \in [Processes -> Keys \union {NoKey}]
    /\ held \in [Keys -> BOOLEAN]
    /\ queue \in [Keys -> Seq(Processes)]
    /\ users \in [Keys -> Nat]

\* Whoever is queued for a key waits for it.
LEMMA QueuedWaits ==
    ASSUME LeaseTypes, LeasesOK
    PROVE  \A j \in Keys : \A x : Contains(queue[j], x) =>
              x \in Processes /\ want[x] = j /\ phase[x] = "waiting"
<1>. SUFFICES ASSUME NEW j \in Keys, NEW x, Contains(queue[j], x)
              PROVE  x \in Processes /\ want[x] = j /\ phase[x] = "waiting"
  OBVIOUS
<1>1. PICK i \in 1..Len(queue[j]) : queue[j][i] = x
  BY DEF Contains
<1>2. queue[j] \in Seq(Processes) /\ LeaseOK(j)
  BY DEF LeaseTypes, LeasesOK
<1>3. x \in Processes
  BY <1>1, <1>2, ElementOfSeq
<1>4. want[x] = j /\ phase[x] = "waiting"
  BY <1>1, <1>2 DEF LeaseOK
<1>. QED
  BY <1>3, <1>4

\* Who acquires a lease has it, or is queued behind the others.
LEMMA AcquireKeepsLeases ==
    ASSUME LeaseTypes, LeasesOK, NEW p \in Processes, NEW k \in Keys, want[p] = NoKey,
           Acquires(p, k),
           phase'[p] = (IF held[k] THEN "waiting" ELSE "leased"),
           \A q \in Processes \ {p} : phase'[q] = phase[q]
    PROVE  LeaseTypes' /\ LeasesOK'
<1>1. /\ users' = [users EXCEPT ![k] = @ + 1]
      /\ want' = [want EXCEPT ![p] = k]
  BY DEF Acquires
<1>2. want' \in [Processes -> Keys \union {NoKey}] /\ users' \in [Keys -> Nat]
  BY <1>1 DEF LeaseTypes
<1>3. queue[k] \in Seq(Processes) /\ Len(queue[k]) \in Nat /\ LeaseOK(k)
  BY LenProperties DEF LeaseTypes, LeasesOK
<1>4. \A j \in Keys : ~Contains(queue[j], p)
  BY NoKeyIsNoKey, QueuedWaits
<1>5. ASSUME NEW j \in Keys \ {k}, queue'[j] = queue[j], held'[j] = held[j] PROVE LeaseOK(j)'
  <2>1. LeaseOK(j) /\ users'[j] = users[j]
    BY <1>1 DEF LeasesOK, LeaseTypes
  <2>2. \A q \in Processes : Owns(q, j)' <=> Owns(q, j)
    BY <1>1, <1>5, NoKeyIsNoKey DEF Owns, LeaseTypes
  <2>3. \A i \in 1..Len(queue[j]) : queue[j][i] \in Processes \ {p}
    BY <1>4, ElementOfSeq DEF Contains, LeaseTypes
  <2>4. \A i \in 1..Len(queue'[j]) : want'[queue'[j][i]] = j /\ phase'[queue'[j][i]] = "waiting"
    BY <1>1, <1>5, <2>1, <2>3 DEF LeaseOK, LeaseTypes
  <2>. QED
    BY <1>5, <2>1, <2>2, <2>4 DEF LeaseOK
<1>6. CASE held[k]
  <2>1. queue' = [queue EXCEPT ![k] = Append(queue[k], p)] /\ held' = held
    BY <1>6 DEF Acquires
  <2>2. /\ Append(queue[k], p) \in Seq(Processes) /\ Len(Append(queue[k], p)) = Len(queue[k]) + 1
        /\ \A x : Contains(Append(queue[k], p), x) <=> x = p \/ Contains(queue[k], x)
        /\ \A m, n \in 1..Len(Append(queue[k], p)) :
              Append(queue[k], p)[m] = Append(queue[k], p)[n] => m = n
    BY <1>3, <1>4, TailJoins DEF LeaseOK
  <2>3. queue'[k] = Append(queue[k], p) /\ held'[k] = held[k] /\ users'[k] = users[k] + 1
    BY <1>1, <2>1 DEF LeaseTypes
  <2>4. LeaseTypes'
    BY <1>2, <2>1, <2>2 DEF LeaseTypes
  <2>5. \A q \in Processes : Owns(q, k)' <=> Owns(q, k)
    BY <1>1, <2>2, <2>3, NoKeyIsNoKey DEF Owns, LeaseTypes
  <2>6. \A x : Contains(queue[k], x) => x \in Processes \ {p} /\ want[x] = k /\ phase[x] = "waiting"
    BY <1>3, <1>4, ElementOfSeq DEF Contains, LeaseOK
  <2>7. \A x : Contains(queue'[k], x) => want'[x] = k /\ phase'[x] = "waiting"
    BY <1>1, <1>6, <2>2, <2>3, <2>6 DEF LeaseTypes
  <2>8. \A i \in 1..Len(queue'[k]) : want'[queue'[k][i]] = k /\ phase'[queue'[k][i]] = "waiting"
    BY <2>7 DEF Contains
  <2>9. users'[k] = Len(queue'[k]) + (IF held'[k] THEN 1 ELSE 0)
    BY <1>3, <1>6, <2>2, <2>3 DEF LeaseOK
  <2>10. LeaseOK(k)'
    BY <1>3, <1>6, <2>2, <2>3, <2>5, <2>8, <2>9 DEF LeaseOK
  <2>. QED
    BY <1>5, <2>1, <2>4, <2>10 DEF LeasesOK, LeaseTypes
<1>7. CASE ~held[k]
  <2>1. held' = [held EXCEPT ![k] = TRUE] /\ queue' = queue
    BY <1>7 DEF Acquires
  <2>2. LeaseTypes'
    BY <1>2, <2>1 DEF LeaseTypes
  <2>3. held'[k] = TRUE /\ Len(queue[k]) = 0 /\ users'[k] = 1
    BY <1>1, <1>3, <1>7, <2>1 DEF LeaseTypes, LeaseOK
  <2>4. \A q \in Processes : Owns(q, k)' <=> q = p
    <3>1. \A q \in Processes : ~Owns(q, k)
      BY <1>3, <1>7 DEF LeaseOK
    <3>. QED
      BY <1>1, <1>4, <2>1, <3>1 DEF Owns, LeaseTypes
  <2>5. LeaseOK(k)'
    BY <2>1, <2>3, <2>4 DEF LeaseOK
  <2>. QED
    BY <1>5, <2>1, <2>2, <2>5 DEF LeasesOK, LeaseTypes
<1>. QED
  BY <1>6, <1>7

\* The owner gives its lease to the first waiter, or back.
LEMMA ReleaseKeepsLeases ==
    ASSUME LeaseTypes, LeasesOK, NEW p \in Processes, NEW k \in Keys, want[p] = k, ~Queued(p),
           ReleasesOwnership(p),
           \A q \in Processes \ {p} : phase'[q] = phase[q]
    PROVE  LeaseTypes' /\ LeasesOK' /\ want' = [want EXCEPT ![p] = NoKey]
<1>0. k # NoKey
  BY NoKeyIsNoKey
<1>1. /\ users' = [users EXCEPT ![k] = @ - 1]
      /\ want' = [want EXCEPT ![p] = NoKey]
  BY DEF ReleasesOwnership
<1>2. Owns(p, k)
  BY <1>0 DEF Owns, Queued
<1>3. queue[k] \in Seq(Processes) /\ Len(queue[k]) \in Nat /\ LeaseOK(k)
  BY <1>0, LenProperties DEF LeaseTypes, LeasesOK
<1>4. \A j \in Keys : ~Contains(queue[j], p)
  BY <1>2, QueuedWaits DEF Owns
<1>5. held[k] = TRUE /\ users[k] = Len(queue[k]) + 1
  BY <1>0, <1>2, <1>3 DEF LeaseOK, LeaseTypes
<1>6. users'[k] = Len(queue[k]) /\ want' \in [Processes -> Keys \union {NoKey}] /\ users' \in [Keys -> Nat]
  BY <1>0, <1>1, <1>3, <1>5 DEF LeaseTypes
<1>7. ASSUME NEW j \in Keys \ {k}, queue'[j] = queue[j], held'[j] = held[j] PROVE LeaseOK(j)'
  <2>1. LeaseOK(j) /\ users'[j] = users[j]
    BY <1>0, <1>1 DEF LeasesOK, LeaseTypes
  <2>2. \A q \in Processes : Owns(q, j)' <=> Owns(q, j)
    BY <1>1, <1>7, NoKeyIsNoKey DEF Owns, LeaseTypes
  <2>3. \A i \in 1..Len(queue[j]) : queue[j][i] \in Processes \ {p}
    BY <1>4, ElementOfSeq DEF Contains, LeaseTypes
  <2>4. \A i \in 1..Len(queue'[j]) : want'[queue'[j][i]] = j /\ phase'[queue'[j][i]] = "waiting"
    BY <1>1, <1>7, <2>1, <2>3 DEF LeaseOK, LeaseTypes
  <2>. QED
    BY <1>7, <2>1, <2>2, <2>4 DEF LeaseOK
<1>8. CASE queue[k] = <<>>
  <2>1. held' = [held EXCEPT ![k] = FALSE] /\ queue' = queue
    BY <1>8 DEF ReleasesOwnership
  <2>2. LeaseTypes'
    BY <1>6, <2>1 DEF LeaseTypes
  <2>3. held'[k] = FALSE /\ Len(queue[k]) = 0 /\ users'[k] = 0
    BY <1>0, <1>6, <1>8, <2>1 DEF LeaseTypes
  <2>4. \A q \in Processes : ~Owns(q, k)'
    <3>1. \A q \in Processes : Owns(q, k) => q = p
      BY <1>2, <1>3 DEF LeaseOK
    <3>2. want'[p] = NoKey /\ \A q \in Processes \ {p} : want'[q] = want[q]
      BY <1>1 DEF LeaseTypes
    <3>. QED
      BY <1>0, <2>1, <3>1, <3>2 DEF Owns
  <2>5. LeaseOK(k)'
    <3>1. Len(queue'[k]) = 0 /\ users'[k] = 0
      BY <2>1, <2>3
    <3>2. ~held'[k] /\ ~\E q \in Processes : Owns(q, k)'
      BY <2>3, <2>4
    <3>3. users'[k] = Len(queue'[k]) + (IF held'[k] THEN 1 ELSE 0)
      BY <3>1, <3>2
    <3>4. \A m \in 1..Len(queue'[k]) : FALSE
      BY <3>1
    <3>. QED
      BY <2>4, <3>1, <3>2, <3>3, <3>4 DEF LeaseOK
  <2>6. \A j \in Keys \ {k} : LeaseOK(j)'
    BY <1>7, <2>1 DEF LeaseTypes
  <2>. QED
    BY <1>1, <2>2, <2>5, <2>6 DEF LeasesOK
<1>9. CASE queue[k] # <<>>
  <2>. DEFINE t == Tail(queue[k])
              next == queue[k][1]
  <2>1. queue' = [queue EXCEPT ![k] = t] /\ held' = held
    BY <1>9 DEF ReleasesOwnership
  <2>2. /\ t \in Seq(Processes) /\ Len(t) = Len(queue[k]) - 1 /\ Len(queue[k]) >= 1
        /\ \A x : Contains(t, x) <=> x # next /\ Contains(queue[k], x)
        /\ \A m, n \in 1..Len(t) : t[m] = t[n] => m = n
    BY <1>3, <1>9, HeadLeaves DEF LeaseOK
  <2>3. queue'[k] = t /\ held'[k] = TRUE
    BY <1>0, <1>5, <2>1 DEF LeaseTypes
  <2>4. LeaseTypes'
    BY <1>6, <2>1, <2>2 DEF LeaseTypes
  <2>5. \A x : Contains(queue[k], x) => x \in Processes \ {p} /\ want[x] = k /\ phase[x] = "waiting"
    BY <1>4, QueuedWaits
  <2>6. Contains(queue[k], next)
    BY <1>3, <2>2 DEF Contains
  <2>7. \A q \in Processes : Owns(q, k)' <=> q = next
    <3>1. \A q \in Processes : Owns(q, k) <=> q = p
      BY <1>2, <1>3 DEF LeaseOK
    <3>2. want'[p] = NoKey /\ \A q \in Processes \ {p} : want'[q] = want[q]
      BY <1>1 DEF LeaseTypes
    <3>. HIDE DEF t, next
    <3>. QED
      BY <1>0, <2>2, <2>3, <2>5, <2>6, <3>1, <3>2, NoKeyIsNoKey DEF Owns
  <2>8. \A x : Contains(queue'[k], x) => want'[x] = k /\ phase'[x] = "waiting"
    BY <1>1, <2>2, <2>3, <2>5 DEF LeaseTypes
  <2>9. \A i \in 1..Len(queue'[k]) : want'[queue'[k][i]] = k /\ phase'[queue'[k][i]] = "waiting"
    BY <2>8 DEF Contains
  <2>10. next \in Processes
    BY <2>5, <2>6
  <2>. HIDE DEF t, next
  <2>11. users'[k] = Len(queue'[k]) + (IF held'[k] THEN 1 ELSE 0)
    BY <1>3, <1>6, <2>2, <2>3
  <2>12. LeaseOK(k)'
    <3>1. held'[k] <=> \E q \in Processes : Owns(q, k)'
      BY <2>3, <2>7, <2>10
    <3>2. \A p1, q \in Processes : Owns(p1, k)' /\ Owns(q, k)' => p1 = q
      BY <2>7
    <3>3. \A m, n \in 1..Len(queue'[k]) : queue'[k][m] = queue'[k][n] => m = n
      BY <2>2, <2>3
    <3>. QED
      BY <2>3, <2>9, <2>11, <3>1, <3>2, <3>3 DEF LeaseOK
  <2>. QED
    <3>1. \A j \in Keys \ {k} : LeaseOK(j)'
      BY <1>7, <2>1 DEF LeaseTypes
    <3>. QED
      BY <1>1, <2>4, <2>12, <3>1 DEF LeasesOK
<1>. QED
  BY <1>8, <1>9

\* A waiter that is interrupted leaves the queue.
LEMMA LeaveKeepsLeases ==
    ASSUME LeaseTypes, LeasesOK, NEW p \in Processes, NEW k \in Keys, want[p] = k, Queued(p), LeavesQueue(p),
           \A q \in Processes \ {p} : phase'[q] = phase[q]
    PROVE  LeaseTypes' /\ LeasesOK' /\ want' = [want EXCEPT ![p] = NoKey]
<1>0. k # NoKey /\ Contains(queue[k], p)
  BY NoKeyIsNoKey DEF Queued
<1>1. /\ users' = [users EXCEPT ![k] = @ - 1]
      /\ want' = [want EXCEPT ![p] = NoKey]
      /\ held' = held
  BY DEF LeavesQueue
<1>2. queue[k] \in Seq(Processes) /\ Len(queue[k]) \in Nat /\ LeaseOK(k)
  BY <1>0, LenProperties DEF LeaseTypes, LeasesOK
<1>3. PICK i \in 1..Len(queue[k]) : queue[k][i] = p /\ queue' = [queue EXCEPT ![k] = RemoveAt(@, i)]
  BY <1>2, LenProperties DEF LeavesQueue
<1>. DEFINE t == RemoveAt(queue[k], i)
<1>4. /\ t \in Seq(Processes) /\ Len(t) = Len(queue[k]) - 1 /\ Len(queue[k]) >= 1
      /\ \A x : Contains(t, x) <=> x # p /\ Contains(queue[k], x)
      /\ \A m, n \in 1..Len(t) : t[m] = t[n] => m = n
  <2>1. \A m, n \in 1..Len(queue[k]) : queue[k][m] = queue[k][n] => m = n
    BY <1>2 DEF LeaseOK
  <2>2. t \in Seq(Processes) /\ Len(t) = Len(queue[k]) - 1
    BY <1>2, RemovedAt
  <2>3. /\ \A x : Contains(t, x) <=> x # queue[k][i] /\ Contains(queue[k], x)
        /\ \A m, n \in 1..Len(t) : t[m] = t[n] => m = n
    BY <1>2, <2>1, LeftQueue
  <2>. QED
    BY <1>2, <1>3, <2>2, <2>3
<1>5. queue'[k] = t /\ held'[k] = held[k] /\ users'[k] = users[k] - 1
  BY <1>0, <1>1, <1>3 DEF LeaseTypes
<1>6. held[k] /\ users[k] = Len(queue[k]) + 1
  <2>1. held[k]
    BY <1>2, <1>4 DEF LeaseOK
  <2>. QED
    BY <1>2, <2>1 DEF LeaseOK
<1>. HIDE DEF t
<1>7. LeaseTypes'
  <2>1. users'[k] \in Nat
    BY <1>2, <1>5, <1>6
  <2>2. users' \in [Keys -> Nat]
    BY <1>1, <2>1 DEF LeaseTypes
  <2>. QED
    BY <1>1, <1>3, <1>4, <2>2 DEF LeaseTypes, t
<1>8. want'[p] = NoKey /\ \A q \in Processes \ {p} : want'[q] = want[q]
  BY <1>1 DEF LeaseTypes
<1>9. \A j \in Keys \ {k} : ~Contains(queue[j], p)
  BY QueuedWaits
<1>10. ASSUME NEW j \in Keys \ {k} PROVE LeaseOK(j)'
  <2>1. LeaseOK(j) /\ users'[j] = users[j] /\ held'[j] = held[j] /\ queue'[j] = queue[j]
    BY <1>1, <1>3 DEF LeasesOK, LeaseTypes
  <2>2. \A q \in Processes : Owns(q, j)' <=> Owns(q, j)
    BY <1>8, <2>1, NoKeyIsNoKey DEF Owns
  <2>3. \A m \in 1..Len(queue[j]) : queue[j][m] \in Processes \ {p}
    BY <1>9, ElementOfSeq DEF Contains, LeaseTypes
  <2>4. \A m \in 1..Len(queue'[j]) : want'[queue'[j][m]] = j /\ phase'[queue'[j][m]] = "waiting"
    BY <1>8, <2>1, <2>3 DEF LeaseOK
  <2>. QED
    BY <2>1, <2>2, <2>4 DEF LeaseOK
<1>11. LeaseOK(k)'
  <2>1. \A q \in Processes : Owns(q, k)' <=> Owns(q, k)
    BY <1>0, <1>4, <1>5, <1>8, NoKeyIsNoKey DEF Owns
  <2>2. \A x : Contains(queue[k], x) => x \in Processes /\ want[x] = k /\ phase[x] = "waiting"
    BY QueuedWaits
  <2>3. \A x : Contains(queue'[k], x) => want'[x] = k /\ phase'[x] = "waiting"
    BY <1>4, <1>5, <1>8, <2>2
  <2>4. \A m \in 1..Len(queue'[k]) : want'[queue'[k][m]] = k /\ phase'[queue'[k][m]] = "waiting"
    BY <2>3 DEF Contains
  <2>5. users'[k] = Len(queue'[k]) + (IF held'[k] THEN 1 ELSE 0)
    BY <1>2, <1>4, <1>5, <1>6
  <2>. QED
    BY <1>2, <1>4, <1>5, <1>6, <2>1, <2>4, <2>5 DEF LeaseOK
<1>. QED
  BY <1>1, <1>7, <1>10, <1>11 DEF LeasesOK

\* Whatever else happens, no queued waiter may stop waiting.
LEMMA OthersKeepLeases ==
    ASSUME LeaseTypes, LeasesOK, UNCHANGED <<want, leaseVars>>,
           \A q \in Processes : phase[q] = "waiting" /\ Queued(q) => phase'[q] = "waiting"
    PROVE  LeaseTypes' /\ LeasesOK'
<1>1. want' = want /\ held' = held /\ queue' = queue /\ users' = users
  BY DEF leaseVars
<1>2. ASSUME NEW k \in Keys PROVE LeaseOK(k)'
  <2>1. LeaseOK(k)
    BY DEF LeasesOK
  <2>2. ASSUME NEW i \in 1..Len(queue[k]) PROVE phase'[queue[k][i]] = "waiting"
    <3>1. /\ queue[k][i] \in Processes /\ want[queue[k][i]] = k /\ phase[queue[k][i]] = "waiting"
          /\ Contains(queue[k], queue[k][i])
      BY <2>1, ElementOfSeq DEF LeaseOK, LeaseTypes, Contains
    <3>. QED
      BY <3>1, NoKeyIsNoKey DEF Queued
  <2>3. \A q \in Processes : Owns(q, k)' <=> Owns(q, k)
    BY <1>1 DEF Owns
  <2>. QED
    BY <1>1, <2>1, <2>2, <2>3 DEF LeaseOK
<1>. QED
  BY <1>1, <1>2 DEF LeasesOK, LeaseTypes

\* A process that does not wait is not queued.
LEMMA OnlyWaitersAreQueued ==
    ASSUME LeaseTypes, LeasesOK, NEW p \in Processes, Queued(p)
    PROVE  phase[p] = "waiting" /\ want[p] \in Keys
BY QueuedWaits DEF Queued, LeaseTypes

-----------------------------------------------------------------------------
(* Shared by the steps *)

LEMMA LanesAreProcesses ==
    /\ Lanes \subseteq Processes /\ Sweeper \in Processes /\ Nobody \notin Processes
    /\ \A l \in Lanes : l # Sweeper /\ l # Nobody
BY SweeperIsNoLane DEF Processes

LEMMA NoDeadlineIsNoDeadline == NoDeadline \notin Deadline
BY NoKeyIsNoKey DEF Deadline, NoDeadline

LEMMA LeasesHaveTypes == ASSUME TypeOK PROVE LeaseTypes
BY DEF TypeOK, LeaseTypes

\* What a process has read of the ledgers, until it publishes.
LEMMA LedgerIsRead ==
    ASSUME PreparedOK, NEW p \in Processes, NEW work, NEW rejections \in Nat,
           ReadsLedger(p, work, rejections)
    PROVE  /\ pending' \in [Processes -> Publications]
           /\ pending'[p].tag # "None"
           /\ (work # {} \/ rejections > 0) => pending'[p].tag = "Degraded"
           /\ \A q \in Processes \ {p} : pending'[q] = pending[q]
<1>1. pending' = [pending EXCEPT ![p] = Operational(work, rejections)]
  BY DEF ReadsLedger
<1>2. (work # {}) \in BOOLEAN
  OBVIOUS
<1>3. Operational(work, rejections) \in Publications
  BY <1>2 DEF Operational, Publications
<1>4. /\ Operational(work, rejections).tag # "None"
      /\ (work # {} \/ rejections > 0) => Operational(work, rejections).tag = "Degraded"
  BY DEF Operational
<1>. QED
  BY <1>1, <1>3, <1>4 DEF PreparedOK

LEMMA NothingToPublish ==
    ASSUME PreparedOK, NEW p \in Processes, pending' = [pending EXCEPT ![p] = NoPublication]
    PROVE  pending' \in [Processes -> Publications] /\ \A q \in Processes \ {p} : pending'[q] = pending[q]
BY DEF PreparedOK, Publications, NoPublication, Status

\* Nothing happens to a command but that it is prepared or gone.
LEMMA CommandGone ==
    ASSUME PreparedOK, NEW l \in Lanes, command' = [command EXCEPT ![l] = NoCommand]
    PROVE  /\ command' \in [Lanes -> Commands] /\ command'[l] = NoCommand
           /\ \A m \in Lanes \ {l} : command'[m] = command[m]
           /\ Upserts' = Upserts \ {l}
<1>1. /\ command' \in [Lanes -> Commands] /\ command'[l] = NoCommand
      /\ \A m \in Lanes \ {l} : command'[m] = command[m]
  BY DEF PreparedOK, Commands
<1>2. NoCommand.tag # "AppliedUpsert"
  BY DEF NoCommand
<1>. QED
  BY <1>1, <1>2 DEF Upserts

LEMMA FewerUpserts ==
    ASSUME GenerationsSuffice, TypeOK, MaxRecords \in Nat, NEW l, Upserts' = Upserts \ {l}, nextGeneration' = nextGeneration
    PROVE  GenerationsSuffice'
<1>1. IsFiniteSet(Upserts \ {l}) /\ Cardinality(Upserts \ {l}) \in Nat
      /\ Cardinality(Upserts) \in Nat /\ Cardinality(Upserts \ {l}) <= Cardinality(Upserts)
  BY FS_RemoveElement, FS_CardinalityType DEF GenerationsSuffice
<1>. QED
  BY <1>1 DEF GenerationsSuffice, TypeOK

LEMMA BoundsAreNat == MaxTime \in Nat /\ MaxRecords \in Nat /\ MaxRejections \in Nat /\ MaxAttempts \in Nat
BY MaintenanceBounds

-----------------------------------------------------------------------------
(* The initial states *)

LEMMA InitEstablishesInvariant == Init => MInv
<1>. SUFFICES ASSUME Init PROVE MInv
  OBVIOUS
<1>. USE DEF Init
<1>1. TypeOK
  <2>1. /\ now \in 0..MaxTime /\ nextGeneration \in 0..MaxRecords
        /\ latestRejection \in 0..MaxRejections /\ attempts \in 0..MaxAttempts
    BY BoundsAreNat
  <2>2. /\ rows \in [Keys -> Deadline \union {NoRow}]
        /\ deadlines \in [Keys -> Deadline \union {NoDeadline}]
        /\ trackedRows \in [Lanes -> Int]
        /\ failedWork \subseteq (Keys \X Generations) /\ failedMaintenanceWork \subseteq (Keys \X Generations)
    OBVIOUS
  <2>3. phase \in [Processes -> {"ended", "pulling", "waiting", "leased", "publishing",
                                 "rejecting", "sleeping", "sweeping"}]
    OBVIOUS
  <2>4. /\ want \in [Processes -> Keys \union {NoKey}] /\ held \in [Keys -> BOOLEAN]
        /\ queue \in [Keys -> Seq(Processes)] /\ users \in [Keys -> Nat]
    OBVIOUS
  <2>. QED
    BY <2>1, <2>2, <2>3, <2>4 DEF TypeOK
<1>2. PreparedOK
  BY DEF PreparedOK, Commands, Publications, NoPublication, Status
<1>3. RowsHaveDeadlines /\ CandidatesWereDue
  BY DEF RowsHaveDeadlines, CandidatesWereDue
<1>4. RowsCounted
  <2>1. \A l \in Lanes : RowsOf(l) = {}
    BY DEF RowsOf
  <2>. QED
    BY <2>1, FS_EmptySet DEF RowsCounted
<1>5. SweepProgress /\ LaneProgress /\ AttemptProgress /\ CancelsTheWork
  BY LanesAreProcesses DEF SweepProgress, LaneProgress, AttemptProgress, CancelsTheWork
<1>6. GenerationsSuffice
  <2>1. Upserts = {}
    BY DEF Upserts, NoCommand
  <2>. QED
    BY <2>1, FS_EmptySet, BoundsAreNat DEF GenerationsSuffice
<1>7. GateIsHeld /\ WorkIsCurrent /\ PublicationsShowBacklog
  BY LanesAreProcesses DEF GateIsHeld, WorkIsCurrent, PublicationsShowBacklog
<1>8. LeasesOK
  <2>1. \A p \in Processes, k \in Keys : ~Owns(p, k)
    BY NoKeyIsNoKey DEF Owns
  <2>2. ASSUME NEW k \in Keys PROVE LeaseOK(k)
    <3>1. Len(queue[k]) = 0 /\ users[k] = 0 /\ held[k] = FALSE
      OBVIOUS
    <3>2. users[k] = Len(queue[k]) + (IF held[k] THEN 1 ELSE 0)
      BY <3>1
    <3>3. \A i \in 1..Len(queue[k]) : FALSE
      BY <3>1
    <3>. QED
      BY <2>1, <3>1, <3>2, <3>3 DEF LeaseOK
  <2>. QED
    BY <2>2 DEF LeasesOK
<1>. QED
  BY <1>1, <1>2, <1>3, <1>4, <1>5, <1>6, <1>7, <1>8 DEF MInv

-----------------------------------------------------------------------------
(* The lanes *)

LEMMA TickKeepsInvariant == ASSUME MInv, Tick PROVE MInv'
<1>. USE DEF MInv, Tick, stateVars, ledgerVars, statusVars, attemptVars, leaseVars
<1>1. now' \in 0..MaxTime /\ now <= now'
  BY BoundsAreNat DEF TypeOK
<1>2. TypeOK' /\ PreparedOK'
  BY <1>1 DEF TypeOK, PreparedOK
<1>3. RowsHaveDeadlines' /\ RowsCounted'
  BY DEF RowsHaveDeadlines, RowsCounted, RowsOf
<1>4. CandidatesWereDue'
  <2>1. \A d \in Deadline : CandidateOK(d) => CandidateOK(d)'
    BY <1>1 DEF CandidateOK, IsCurrent, TypeOK, Deadline
  <2>. QED
    BY <2>1 DEF CandidatesWereDue, TypeOK
<1>5. SweepProgress' /\ LaneProgress' /\ AttemptProgress'
  BY DEF SweepProgress, LaneProgress, AttemptProgress
<1>6. CancelsTheWork' /\ GenerationsSuffice'
  BY DEF CancelsTheWork, GenerationsSuffice, Upserts, WorkForId
<1>7. GateIsHeld' /\ WorkIsCurrent' /\ PublicationsShowBacklog'
  BY DEF GateIsHeld, WorkIsCurrent, PublicationsShowBacklog, IsOperational
<1>8. LeasesOK'
  BY LeasesHaveTypes, OthersKeepLeases
<1>. QED
  BY <1>2, <1>3, <1>4, <1>5, <1>6, <1>7, <1>8

\* A command is prepared with the work of its key, and acquires its lease.
LEMMA PrepareKeepsInvariant ==
    ASSUME MInv, NEW l \in Lanes, NEW k \in Keys, Prepare(l, k) PROVE MInv'
<1>. USE DEF MInv, Prepare, unchangedByLane, stateVars, ledgerVars, statusVars
<1>1. l \in Processes /\ l # Sweeper /\ phase[l] = "pulling" /\ want[l] = NoKey /\ command[l] = NoCommand
  BY LanesAreProcesses DEF LaneProgress
<1>2. PICK deadline \in 1..MaxTime, tombstone \in BOOLEAN :
         command' = [command EXCEPT ![l] =
                        IF tombstone \/ deadline <= now THEN Delete(k, WorkForId(k))
                        ELSE Upsert(k, deadline, WorkForId(k))]
  OBVIOUS
<1>3. WorkForId(k) \subseteq Work /\ \A w \in WorkForId(k) : w[1] = k
  BY DEF WorkForId, WorkId, Work, TypeOK, RowsHaveDeadlines, Deadline
<1>4. /\ command' \in [Lanes -> Commands] /\ command'[l] # NoCommand
      /\ command'[l].id = k /\ command'[l].cancelled = WorkForId(k)
      /\ \A m \in Lanes \ {l} : command'[m] = command[m]
  <2>1. deadline \in 0..MaxTime
    BY BoundsAreNat
  <2>2. CASE tombstone \/ deadline <= now
    BY <1>2, <1>3, <2>2 DEF Delete, Commands, PreparedOK, NoCommand
  <2>3. CASE ~(tombstone \/ deadline <= now)
    BY <1>2, <1>3, <2>1, <2>3 DEF Upsert, Commands, PreparedOK, NoCommand
  <2>. QED
    BY <2>2, <2>3
<1>5. /\ phase'[l] = (IF held[k] THEN "waiting" ELSE "leased")
      /\ \A q \in Processes \ {l} : phase'[q] = phase[q]
      /\ phase' \in [Processes -> {"ended", "pulling", "waiting", "leased", "publishing",
                                   "rejecting", "sleeping", "sweeping"}]
  BY <1>1 DEF TypeOK
<1>6. LeaseTypes' /\ LeasesOK'
  BY <1>1, <1>5, LeasesHaveTypes, AcquireKeepsLeases
<1>7. want' = [want EXCEPT ![l] = k]
  BY DEF Acquires
<1>8. TypeOK'
  BY <1>5, <1>6 DEF TypeOK, LeaseTypes
<1>9. PreparedOK'
  BY <1>4 DEF PreparedOK
<1>10. RowsHaveDeadlines' /\ RowsCounted' /\ CandidatesWereDue'
  BY DEF RowsHaveDeadlines, RowsCounted, RowsOf, CandidatesWereDue, CandidateOK, IsCurrent
<1>11. SweepProgress'
  BY <1>1, <1>5, <1>7, LanesAreProcesses DEF SweepProgress, TypeOK
<1>12. LaneProgress'
  BY <1>1, <1>4, <1>5, <1>7, LanesAreProcesses DEF LaneProgress, TypeOK
<1>13. AttemptProgress'
  BY DEF AttemptProgress
<1>14. CancelsTheWork'
  <2>1. ASSUME NEW m \in Lanes, command'[m] # NoCommand
        PROVE  /\ LaneOf[command'[m].id] = m
               /\ \A w \in command'[m].cancelled : w[1] = command'[m].id
               /\ deadlines[command'[m].id] # NoDeadline => command'[m].cancelled = WorkForId(command'[m].id)
    <3>1. CASE m = l
      BY <1>3, <1>4, <3>1
    <3>2. CASE m # l
      BY <1>4, <2>1, <3>2 DEF CancelsTheWork
    <3>. QED
      BY <3>1, <3>2
  <2>. QED
    BY <2>1 DEF CancelsTheWork, WorkForId
<1>15. GenerationsSuffice'
  <2>1. Upserts' \in {Upserts, Upserts \union {l}}
    BY <1>1, <1>4 DEF Upserts, NoCommand
  <2>2. nextGeneration + Cardinality(Upserts) < MaxRecords
    BY DEF Upserts
  <2>3. IsFiniteSet(Upserts) /\ nextGeneration \in Nat
    BY BoundsAreNat DEF GenerationsSuffice, TypeOK
  <2>4. /\ IsFiniteSet(Upserts \union {l})
        /\ Cardinality(Upserts \union {l}) =
              IF l \in Upserts THEN Cardinality(Upserts) ELSE Cardinality(Upserts) + 1
    BY <2>3, FS_AddElement
  <2>5. Cardinality(Upserts) \in Nat
    BY <2>3, FS_CardinalityType
  <2>6. nextGeneration + Cardinality(Upserts \union {l}) <= MaxRecords
    BY <2>2, <2>3, <2>4, <2>5, BoundsAreNat
  <2>. QED
    BY <2>1, <2>3, <2>4, <2>6 DEF GenerationsSuffice
<1>16. GateIsHeld'
  BY <1>1, <1>5 DEF GateIsHeld, IsOperational
<1>17. WorkIsCurrent' /\ PublicationsShowBacklog'
  BY <1>1, <1>5, LanesAreProcesses DEF WorkIsCurrent, PublicationsShowBacklog, IsOperational
<1>. QED
  BY <1>6, <1>8, <1>9, <1>10, <1>11, <1>12, <1>13, <1>14, <1>15, <1>16, <1>17

\* A rejection degrades the source, whatever was failed.
LEMMA RejectKeepsInvariant == ASSUME MInv, NEW l \in Lanes, Reject(l) PROVE MInv'
<1>. USE DEF MInv, Reject, unchangedByLane, stateVars
<1>1. l \in Processes /\ l # Sweeper /\ phase[l] = "pulling" /\ want[l] = NoKey /\ command[l] = NoCommand
  BY LanesAreProcesses DEF LaneProgress
<1>2. latestRejection' \in 0..MaxRejections /\ latestRejection' \in Nat /\ latestRejection' > 0
  BY BoundsAreNat DEF TypeOK
<1>3. /\ pending' \in [Processes -> Publications]
      /\ pending'[l].tag = "Degraded"
      /\ \A q \in Processes \ {l} : pending'[q] = pending[q]
  BY <1>1, <1>2, LedgerIsRead
<1>4. /\ phase'[l] = "rejecting" /\ \A q \in Processes \ {l} : phase'[q] = phase[q]
      /\ phase' \in [Processes -> {"ended", "pulling", "waiting", "leased", "publishing",
                                   "rejecting", "sleeping", "sweeping"}]
  BY <1>1 DEF TypeOK
<1>5. TypeOK'
  BY <1>2, <1>4 DEF TypeOK, leaseVars
<1>6. PreparedOK'
  BY <1>3 DEF PreparedOK
<1>7. RowsHaveDeadlines' /\ RowsCounted' /\ CandidatesWereDue'
  BY DEF RowsHaveDeadlines, RowsCounted, RowsOf, CandidatesWereDue, CandidateOK, IsCurrent
<1>8. SweepProgress' /\ LaneProgress' /\ AttemptProgress'
  BY <1>1, <1>4, LanesAreProcesses DEF SweepProgress, LaneProgress, AttemptProgress
<1>9. CancelsTheWork' /\ GenerationsSuffice'
  BY DEF CancelsTheWork, GenerationsSuffice, Upserts, WorkForId
<1>10. GateIsHeld' /\ WorkIsCurrent'
  BY <1>1, <1>4 DEF GateIsHeld, WorkIsCurrent, IsOperational
<1>11. PublicationsShowBacklog'
  BY <1>1, <1>3, <1>4, LanesAreProcesses DEF PublicationsShowBacklog
<1>12. LeasesOK'
  BY <1>1, <1>4, LeasesHaveTypes, OthersKeepLeases
<1>. QED
  BY <1>5, <1>6, <1>7, <1>8, <1>9, <1>10, <1>11, <1>12

\* A lane that fails keeps its lease.
LEMMA LaneFailsKeepsInvariant == ASSUME MInv, NEW l \in Lanes, LaneFails(l) PROVE MInv'
<1>. USE DEF MInv, LaneFails, unchangedByLane, stateVars, ledgerVars, statusVars
<1>1. l \in Processes /\ l # Sweeper /\ phase[l] \in {"pulling", "leased"} /\ source = "up"
  BY LanesAreProcesses
<1>2. /\ phase'[l] = "ended" /\ \A q \in Processes \ {l} : phase'[q] = phase[q]
      /\ phase' \in [Processes -> {"ended", "pulling", "waiting", "leased", "publishing",
                                   "rejecting", "sleeping", "sweeping"}]
  BY <1>1 DEF TypeOK
<1>3. /\ command' \in [Lanes -> Commands] /\ command'[l] = NoCommand
      /\ \A m \in Lanes \ {l} : command'[m] = command[m]
      /\ Upserts' = Upserts \ {l}
  BY CommandGone
<1>4. TypeOK' /\ PreparedOK'
  BY <1>2, <1>3 DEF TypeOK, PreparedOK, leaseVars
<1>5. RowsHaveDeadlines' /\ RowsCounted' /\ CandidatesWereDue'
  BY DEF RowsHaveDeadlines, RowsCounted, RowsOf, CandidatesWereDue, CandidateOK, IsCurrent
<1>6. SweepProgress' /\ LaneProgress' /\ AttemptProgress'
  BY <1>1, <1>2, <1>3, LanesAreProcesses DEF SweepProgress, LaneProgress, AttemptProgress
<1>7. CancelsTheWork'
  BY <1>3 DEF CancelsTheWork, WorkForId
<1>8. GenerationsSuffice'
  BY <1>3, FewerUpserts, BoundsAreNat
<1>9. GateIsHeld' /\ WorkIsCurrent' /\ PublicationsShowBacklog'
  BY <1>1, <1>2, LanesAreProcesses DEF GateIsHeld, WorkIsCurrent, PublicationsShowBacklog, IsOperational
<1>10. LeasesOK'
  BY <1>1, <1>2, LeasesHaveTypes, OthersKeepLeases
<1>. QED
  BY <1>4, <1>5, <1>6, <1>7, <1>8, <1>9, <1>10

\* What is published has the tag that was read, or the source is closing.
LEMMA PublishLaneKeepsInvariant == ASSUME MInv, NEW l \in Lanes, PublishLane(l) PROVE MInv'
<1>. USE DEF MInv, PublishLane, unchangedByLane, stateVars, ledgerVars
<1>1. /\ l \in Processes /\ l # Sweeper /\ l # Nobody /\ phase[l] \in {"publishing", "rejecting"}
      /\ want[l] = NoKey /\ command[l] = NoCommand
  BY LanesAreProcesses DEF LaneProgress
<1>2. /\ phase'[l] = "pulling" /\ \A q \in Processes \ {l} : phase'[q] = phase[q]
      /\ phase' \in [Processes -> {"ended", "pulling", "waiting", "leased", "publishing",
                                   "rejecting", "sleeping", "sweeping"}]
  BY <1>1 DEF TypeOK
<1>3. pending' \in [Processes -> Publications] /\ \A q \in Processes \ {l} : pending'[q] = pending[q]
  BY <1>1, NothingToPublish
<1>4. TypeOK' /\ PreparedOK'
  BY <1>2, <1>3 DEF TypeOK, PreparedOK, leaseVars
<1>5. RowsHaveDeadlines' /\ RowsCounted' /\ CandidatesWereDue'
  BY DEF RowsHaveDeadlines, RowsCounted, RowsOf, CandidatesWereDue, CandidateOK, IsCurrent
<1>6. SweepProgress' /\ LaneProgress' /\ AttemptProgress'
  BY <1>1, <1>2, LanesAreProcesses DEF SweepProgress, LaneProgress, AttemptProgress
<1>7. CancelsTheWork' /\ GenerationsSuffice'
  BY DEF CancelsTheWork, GenerationsSuffice, Upserts, WorkForId
<1>8. IF closing THEN status' = status ELSE status' = pending[l]
  BY DEF Published
<1>9. pending[l].tag \in {"Ready", "Degraded"}
  BY <1>1, LanesAreProcesses DEF PublicationsShowBacklog, PreparedOK, Publications
<1>10. gate' = IF gate = l THEN Nobody ELSE gate
  OBVIOUS
<1>11. GateIsHeld'
  BY <1>1, <1>2, <1>8, <1>9, <1>10, LanesAreProcesses DEF GateIsHeld, IsOperational
<1>12. WorkIsCurrent'
  BY DEF WorkIsCurrent
<1>13. PublicationsShowBacklog'
  BY <1>1, <1>2, <1>3, <1>8, <1>10, LanesAreProcesses DEF PublicationsShowBacklog, GateIsHeld
<1>14. LeasesOK'
  BY <1>1, <1>2, LeasesHaveTypes, OthersKeepLeases
<1>. QED
  BY <1>4, <1>5, <1>6, <1>7, <1>11, <1>12, <1>13, <1>14

\* A wait that is abandoned leaves the queue, or gives the lease back.
LEMMA AbandonKeepsLeases ==
    ASSUME LeaseTypes, LeasesOK, NEW p \in Processes, want[p] # NoKey, AbandonsWait(p),
           \A q \in Processes \ {p} : phase'[q] = phase[q]
    PROVE  LeaseTypes' /\ LeasesOK' /\ want' = [want EXCEPT ![p] = NoKey]
<1>1. want[p] \in Keys
  BY DEF LeaseTypes
<1>2. CASE Queued(p)
  BY <1>1, <1>2, LeaveKeepsLeases DEF AbandonsWait
<1>3. CASE ~Queued(p)
  BY <1>1, <1>3, ReleaseKeepsLeases DEF AbandonsWait
<1>. QED
  BY <1>2, <1>3

LEMMA LaneInterruptedKeepsInvariant == ASSUME MInv, NEW l \in Lanes, LaneInterrupted(l) PROVE MInv'
<1>. USE DEF MInv, LaneInterrupted, unchangedByLane, stateVars, ledgerVars
<1>1. /\ l \in Processes /\ l # Sweeper /\ source = "ending"
      /\ phase[l] \in {"pulling", "waiting", "leased", "rejecting"}
  BY LanesAreProcesses
<1>2. /\ phase'[l] = "ended" /\ \A q \in Processes \ {l} : phase'[q] = phase[q]
      /\ phase' \in [Processes -> {"ended", "pulling", "waiting", "leased", "publishing",
                                   "rejecting", "sleeping", "sweeping"}]
  BY <1>1 DEF TypeOK
<1>3. /\ command' \in [Lanes -> Commands] /\ command'[l] = NoCommand
      /\ \A m \in Lanes \ {l} : command'[m] = command[m]
      /\ Upserts' = Upserts \ {l}
  BY CommandGone
<1>4. pending' \in [Processes -> Publications] /\ \A q \in Processes \ {l} : pending'[q] = pending[q]
  BY <1>1, NothingToPublish
<1>5. /\ LeaseTypes' /\ LeasesOK'
      /\ \A q \in Processes \ {l} : want'[q] = want[q]
  <2>1. CASE phase[l] = "waiting"
    <3>1. want[l] # NoKey
      BY <2>1, NoKeyIsNoKey DEF LaneProgress, PreparedOK, Commands, NoCommand
    <3>2. LeaseTypes' /\ LeasesOK' /\ want' = [want EXCEPT ![l] = NoKey]
      BY <1>1, <1>2, <2>1, <3>1, LeasesHaveTypes, AbandonKeepsLeases
    <3>. QED
      BY <3>2 DEF TypeOK
  <2>2. CASE phase[l] # "waiting"
    BY <1>1, <1>2, <2>2, LeasesHaveTypes, OthersKeepLeases
  <2>. QED
    BY <2>1, <2>2
<1>6. TypeOK' /\ PreparedOK'
  BY <1>2, <1>3, <1>4, <1>5 DEF TypeOK, PreparedOK, LeaseTypes
<1>7. RowsHaveDeadlines' /\ RowsCounted' /\ CandidatesWereDue'
  BY DEF RowsHaveDeadlines, RowsCounted, RowsOf, CandidatesWereDue, CandidateOK, IsCurrent
<1>8. SweepProgress' /\ LaneProgress' /\ AttemptProgress'
  BY <1>1, <1>2, <1>3, <1>5, LanesAreProcesses DEF SweepProgress, LaneProgress, AttemptProgress
<1>9. CancelsTheWork'
  BY <1>3 DEF CancelsTheWork, WorkForId
<1>10. GenerationsSuffice'
  BY <1>3, FewerUpserts, BoundsAreNat
<1>11. GateIsHeld' /\ WorkIsCurrent'
  BY <1>1, <1>2, LanesAreProcesses DEF GateIsHeld, WorkIsCurrent, IsOperational
<1>12. PublicationsShowBacklog'
  BY <1>1, <1>2, <1>4, LanesAreProcesses DEF PublicationsShowBacklog
<1>. QED
  BY <1>5, <1>6, <1>7, <1>8, <1>9, <1>10, <1>11, <1>12

LEMMA GrantedKeepsInvariant == ASSUME MInv, NEW p \in Processes, Granted(p) PROVE MInv'
<1>. USE DEF MInv, Granted, stateVars, ledgerVars, statusVars, attemptVars
<1>1. /\ phase[p] = "waiting" /\ ~Queued(p)
      /\ phase'[p] = "leased" /\ \A q \in Processes \ {p} : phase'[q] = phase[q]
      /\ phase' \in [Processes -> {"ended", "pulling", "waiting", "leased", "publishing",
                                   "rejecting", "sleeping", "sweeping"}]
  BY DEF TypeOK
<1>2. TypeOK' /\ PreparedOK'
  BY <1>1 DEF TypeOK, PreparedOK, leaseVars
<1>3. RowsHaveDeadlines' /\ RowsCounted' /\ CandidatesWereDue'
  BY DEF RowsHaveDeadlines, RowsCounted, RowsOf, CandidatesWereDue, CandidateOK, IsCurrent
<1>4. SweepProgress' /\ LaneProgress' /\ AttemptProgress'
  BY <1>1, LanesAreProcesses DEF SweepProgress, LaneProgress, AttemptProgress
<1>5. CancelsTheWork' /\ GenerationsSuffice'
  BY DEF CancelsTheWork, GenerationsSuffice, Upserts, WorkForId
<1>6. GateIsHeld' /\ WorkIsCurrent' /\ PublicationsShowBacklog'
  BY <1>1, LanesAreProcesses DEF GateIsHeld, WorkIsCurrent, PublicationsShowBacklog, IsOperational
<1>7. LeasesOK'
  BY <1>1, LeasesHaveTypes, OthersKeepLeases
<1>. QED
  BY <1>2, <1>3, <1>4, <1>5, <1>6, <1>7

-----------------------------------------------------------------------------
(* The reducer *)

LEMMA RowIsStored ==
    ASSUME TypeOK, RowsHaveDeadlines, RowsCounted, NEW k \in Keys, NEW new, new # NoRow,
           rows' = [rows EXCEPT ![k] = new],
           Tracks(LaneOf[k], IF deadlines[k] = NoDeadline THEN 1 ELSE 0)
    PROVE  RowsCounted' /\ trackedRows' \in [Lanes -> Int]
<1>. DEFINE by == IF deadlines[k] = NoDeadline THEN 1 ELSE 0
<1>1. /\ LaneOf[k] \in Lanes /\ trackedRows' = [trackedRows EXCEPT ![LaneOf[k]] = @ + by]
      /\ by \in {0, 1}
  BY KeysHaveLanes DEF Tracks
<1>2. ASSUME NEW l \in Lanes, l # LaneOf[k]
      PROVE  IsFiniteSet(RowsOf(l)') /\ trackedRows'[l] = Cardinality(RowsOf(l)')
  <2>1. RowsOf(l)' = RowsOf(l)
    BY <1>2 DEF RowsOf, TypeOK
  <2>2. trackedRows'[l] = trackedRows[l]
    BY <1>1, <1>2 DEF TypeOK
  <2>. QED
    BY <2>1, <2>2 DEF RowsCounted
<1>3. ASSUME NEW l \in Lanes, l = LaneOf[k]
      PROVE  IsFiniteSet(RowsOf(l)') /\ trackedRows'[l] = Cardinality(RowsOf(l)')
  <2>1. RowsOf(l)' = RowsOf(l) \union {k}
    BY <1>3 DEF RowsOf, TypeOK
  <2>2. k \in RowsOf(l) <=> deadlines[k] # NoDeadline
    BY <1>3 DEF RowsOf, RowsHaveDeadlines
  <2>3. /\ IsFiniteSet(RowsOf(l) \union {k})
        /\ Cardinality(RowsOf(l) \union {k}) =
              IF k \in RowsOf(l) THEN Cardinality(RowsOf(l)) ELSE Cardinality(RowsOf(l)) + 1
    BY FS_AddElement DEF RowsCounted
  <2>4. Cardinality(RowsOf(l)) \in Nat
    BY FS_CardinalityType DEF RowsCounted
  <2>5. trackedRows'[l] = trackedRows[l] + by
    BY <1>1, <1>3 DEF TypeOK
  <2>. QED
    BY <2>1, <2>2, <2>3, <2>4, <2>5 DEF RowsCounted
<1>4. trackedRows' \in [Lanes -> Int]
  BY <1>1 DEF TypeOK
<1>. QED
  BY <1>2, <1>3, <1>4 DEF RowsCounted

LEMMA RowIsForgotten ==
    ASSUME TypeOK, RowsHaveDeadlines, RowsCounted, NEW k \in Keys,
           rows' = [rows EXCEPT ![k] = NoRow], Forgets(k)
    PROVE  RowsCounted' /\ trackedRows' \in [Lanes -> Int]
<1>. DEFINE by == IF deadlines[k] = NoDeadline THEN 0 ELSE -1
<1>1. /\ LaneOf[k] \in Lanes /\ trackedRows' = [trackedRows EXCEPT ![LaneOf[k]] = @ + by]
      /\ by \in {0, -1}
  BY KeysHaveLanes DEF Tracks, Forgets
<1>2. ASSUME NEW l \in Lanes, l # LaneOf[k]
      PROVE  IsFiniteSet(RowsOf(l)') /\ trackedRows'[l] = Cardinality(RowsOf(l)')
  <2>1. RowsOf(l)' = RowsOf(l)
    BY <1>2 DEF RowsOf, TypeOK
  <2>2. trackedRows'[l] = trackedRows[l]
    BY <1>1, <1>2 DEF TypeOK
  <2>. QED
    BY <2>1, <2>2 DEF RowsCounted
<1>3. ASSUME NEW l \in Lanes, l = LaneOf[k]
      PROVE  IsFiniteSet(RowsOf(l)') /\ trackedRows'[l] = Cardinality(RowsOf(l)')
  <2>1. RowsOf(l)' = RowsOf(l) \ {k}
    BY <1>3 DEF RowsOf, TypeOK
  <2>2. k \in RowsOf(l) <=> deadlines[k] # NoDeadline
    BY <1>3 DEF RowsOf, RowsHaveDeadlines
  <2>3. /\ IsFiniteSet(RowsOf(l) \ {k})
        /\ Cardinality(RowsOf(l) \ {k}) =
              IF k \in RowsOf(l) THEN Cardinality(RowsOf(l)) - 1 ELSE Cardinality(RowsOf(l))
    BY FS_RemoveElement DEF RowsCounted
  <2>4. Cardinality(RowsOf(l)) \in Nat
    BY FS_CardinalityType DEF RowsCounted
  <2>5. trackedRows'[l] = trackedRows[l] + by
    BY <1>1, <1>3 DEF TypeOK
  <2>. QED
    BY <2>1, <2>2, <2>3, <2>4, <2>5 DEF RowsCounted
<1>4. trackedRows' \in [Lanes -> Int]
  BY <1>1 DEF TypeOK
<1>. QED
  BY <1>2, <1>3, <1>4 DEF RowsCounted

\* A candidate whose key has a newer deadline, or none, is not current any more.
LEMMA CandidatesStayDue ==
    ASSUME TypeOK, CandidatesWereDue, now' = now, NEW k \in Keys,
           nextGeneration' \in Nat, nextGeneration <= nextGeneration',
           \A j \in Keys \ {k} : deadlines'[j] = deadlines[j],
           \/ deadlines'[k] = NoDeadline
           \/ deadlines'[k].generation \in Nat /\ deadlines'[k].generation > nextGeneration
    PROVE  \A d \in Deadline : CandidateOK(d) => CandidateOK(d)'
<1>. SUFFICES ASSUME NEW d \in Deadline, CandidateOK(d) PROVE CandidateOK(d)'
  OBVIOUS
<1>1. d.generation \in Nat /\ d.id \in Keys /\ nextGeneration \in Nat
  BY BoundsAreNat DEF Deadline, Generations, TypeOK
<1>2. d.generation <= nextGeneration' /\ d.deadlineNanos <= now'
  BY <1>1 DEF CandidateOK
<1>3. ASSUME IsCurrent(d)' PROVE deadlines'[d.id] = d
  <2>1. CASE d.id = k
    BY <1>1, <1>3, <2>1 DEF IsCurrent, CandidateOK
  <2>2. CASE d.id # k
    BY <1>1, <1>3, <2>2 DEF IsCurrent, CandidateOK
  <2>. QED
    BY <2>1, <2>2
<1>. QED
  BY <1>2, <1>3 DEF CandidateOK

\* The effect of an applied command on the state of the adapter.
LEMMA ReducedCommand ==
    ASSUME MInv, NEW l \in Lanes, ApplyDelivery(l)
    PROVE  LET k == command[l].id
           IN  /\ k \in Keys /\ LaneOf[k] = l /\ want[l] = k
               /\ failedWork' = failedWork \ WorkForId(k)
               /\ nextGeneration' \in 0..MaxRecords /\ nextGeneration <= nextGeneration'
               /\ rows' \in [Keys -> Deadline \union {NoRow}]
               /\ deadlines' \in [Keys -> Deadline \union {NoDeadline}]
               /\ \A j \in Keys \ {k} : deadlines'[j] = deadlines[j] /\ rows'[j] = rows[j]
               /\ \/ rows'[k] = NoRow /\ deadlines'[k] = NoDeadline
                  \/ /\ deadlines'[k] \in Deadline /\ rows'[k] = deadlines'[k]
                     /\ deadlines'[k].id = k /\ deadlines'[k].generation = nextGeneration'
                     /\ nextGeneration' = nextGeneration + 1
               /\ RowsCounted' /\ trackedRows' \in [Lanes -> Int]
               /\ GenerationsSuffice'
<1>. USE DEF MInv
<1>1. phase[l] = "leased" /\ l \in Processes
  BY LanesAreProcesses DEF ApplyDelivery
<1>2. command[l] # NoCommand /\ want[l] = command[l].id
  BY <1>1 DEF LaneProgress
<1>3. PICK k : k = command[l].id
  OBVIOUS
<1>4. /\ command[l].tag \in Tags /\ k \in Keys /\ LaneOf[k] = l
      /\ command[l].tag = "AppliedUpsert" => command[l].deadlineNanos \in 0..MaxTime
  BY <1>2, <1>3 DEF PreparedOK, Commands, CancelsTheWork, Tags
<1>5. command' \in [Lanes -> Commands] /\ Upserts' = Upserts \ {l}
  BY CommandGone DEF ApplyDelivery
<1>6. nextGeneration \in Nat /\ MaxRecords \in Nat
  BY BoundsAreNat DEF TypeOK
<1>7. CASE command[l].tag = "AppliedUpsert"
  <2>. DEFINE new == [id |-> k, deadlineNanos |-> command[l].deadlineNanos, generation |-> nextGeneration + 1]
  <2>1. /\ nextGeneration' = nextGeneration + 1
        /\ failedWork' = failedWork \ WorkForId(k)
        /\ deadlines' = [deadlines EXCEPT ![k] = new]
        /\ Tracks(LaneOf[k], IF deadlines[k] = NoDeadline THEN 1 ELSE 0)
        /\ rows' = [rows EXCEPT ![k] = new]
    BY <1>3, <1>7 DEF ApplyDelivery, ReduceUpsert
  <2>2. IsFiniteSet(Upserts) /\ Cardinality(Upserts) \in Nat /\ nextGeneration + Cardinality(Upserts) <= MaxRecords
    BY FS_CardinalityType DEF GenerationsSuffice
  <2>3. l \in Upserts
    BY <1>7 DEF Upserts
  <2>4. IsFiniteSet(Upserts \ {l}) /\ Cardinality(Upserts \ {l}) = Cardinality(Upserts) - 1
    BY <2>2, <2>3, FS_RemoveElement
  <2>5. Cardinality(Upserts \ {l}) \in Nat
    BY <2>4, FS_CardinalityType
  <2>6. nextGeneration + 1 \in 1..MaxRecords /\ nextGeneration + 1 + Cardinality(Upserts \ {l}) <= MaxRecords
    BY <1>6, <2>2, <2>4, <2>5
  <2>7. GenerationsSuffice'
    BY <1>5, <2>1, <2>4, <2>6 DEF GenerationsSuffice
  <2>8. new \in Deadline
    BY <1>4, <1>7, <2>6 DEF Deadline, Generations
  <2>9. RowsCounted' /\ trackedRows' \in [Lanes -> Int]
    BY <1>4, <2>1, <2>8, NoRowIsNoRow, RowIsStored
  <2>. HIDE DEF new
  <2>10. /\ rows' \in [Keys -> Deadline \union {NoRow}] /\ rows'[k] = new /\ deadlines'[k] = new
         /\ deadlines' \in [Keys -> Deadline \union {NoDeadline}]
         /\ \A j \in Keys \ {k} : deadlines'[j] = deadlines[j] /\ rows'[j] = rows[j]
    BY <1>4, <2>1, <2>8 DEF TypeOK
  <2>11. nextGeneration' \in 0..MaxRecords /\ nextGeneration <= nextGeneration'
    BY <1>6, <2>1, <2>6
  <2>12. new.id = k /\ new.generation = nextGeneration + 1
    BY DEF new
  <2>. QED
    BY <1>2, <1>3, <1>4, <2>1, <2>7, <2>8, <2>9, <2>10, <2>11, <2>12
<1>8. CASE command[l].tag = "AppliedDelete"
  <2>1. /\ failedWork' = failedWork \ WorkForId(k) /\ Forgets(k)
        /\ rows' = [rows EXCEPT ![k] = NoRow] /\ nextGeneration' = nextGeneration
    BY <1>3, <1>8 DEF ApplyDelivery, ReduceDelete
  <2>2. RowsCounted' /\ trackedRows' \in [Lanes -> Int]
    BY <1>4, <2>1, RowIsForgotten
  <2>3. GenerationsSuffice'
    BY <1>5, <2>1, FewerUpserts, BoundsAreNat
  <2>4. /\ rows' \in [Keys -> Deadline \union {NoRow}] /\ rows'[k] = NoRow /\ deadlines'[k] = NoDeadline
        /\ deadlines' \in [Keys -> Deadline \union {NoDeadline}]
        /\ \A j \in Keys \ {k} : deadlines'[j] = deadlines[j] /\ rows'[j] = rows[j]
    BY <1>4, <2>1 DEF TypeOK, Forgets
  <2>5. nextGeneration' \in 0..MaxRecords /\ nextGeneration <= nextGeneration'
    BY <1>6, <2>1 DEF TypeOK
  <2>. QED
    BY <1>2, <1>3, <1>4, <2>1, <2>2, <2>3, <2>4, <2>5
<1>. QED
  BY <1>4, <1>7, <1>8 DEF Tags

\* A delivery is applied: the cancelled work that was read before the lease is
\* still all of the failed work of its key.
LEMMA ApplyDeliveryKeepsInvariant == ASSUME MInv, NEW l \in Lanes, ApplyDelivery(l) PROVE MInv'
<1>. USE DEF MInv
<1>1. PICK k : k = command[l].id
  OBVIOUS
<1>2. /\ k \in Keys /\ LaneOf[k] = l /\ want[l] = k
      /\ failedWork' = failedWork \ WorkForId(k)
      /\ nextGeneration' \in 0..MaxRecords /\ nextGeneration <= nextGeneration'
      /\ rows' \in [Keys -> Deadline \union {NoRow}]
      /\ deadlines' \in [Keys -> Deadline \union {NoDeadline}]
      /\ \A j \in Keys \ {k} : deadlines'[j] = deadlines[j] /\ rows'[j] = rows[j]
      /\ RowsCounted' /\ trackedRows' \in [Lanes -> Int]
      /\ GenerationsSuffice'
  BY <1>1, ReducedCommand
<1>3. \/ rows'[k] = NoRow /\ deadlines'[k] = NoDeadline
      \/ /\ deadlines'[k] \in Deadline /\ rows'[k] = deadlines'[k]
         /\ deadlines'[k].id = k /\ deadlines'[k].generation = nextGeneration'
         /\ nextGeneration' = nextGeneration + 1
  BY <1>1, ReducedCommand
<1>4. /\ l \in Processes /\ l # Sweeper /\ l # Nobody /\ phase[l] = "leased" /\ gate = Nobody /\ gate' = l
      /\ command[l] # NoCommand
      /\ failedMaintenanceWork' = failedMaintenanceWork \ command[l].cancelled
      /\ ReadsLedger(l, failedMaintenanceWork', latestRejection)
      /\ ReleasesOwnership(l)
      /\ now' = now /\ status' = status /\ source' = source /\ active' = active /\ closing' = closing
      /\ latestRejection' = latestRejection /\ attempts' = attempts
      /\ candidates' = candidates /\ candidate' = candidate
  BY LanesAreProcesses DEF ApplyDelivery, LaneProgress, unchangedByLane
<1>5. /\ phase'[l] = "publishing" /\ \A q \in Processes \ {l} : phase'[q] = phase[q]
      /\ phase' \in [Processes -> {"ended", "pulling", "waiting", "leased", "publishing",
                                   "rejecting", "sleeping", "sweeping"}]
  BY <1>4 DEF TypeOK, ApplyDelivery
<1>6. /\ command' \in [Lanes -> Commands] /\ command'[l] = NoCommand
      /\ \A m \in Lanes \ {l} : command'[m] = command[m]
  BY CommandGone DEF ApplyDelivery
<1>7. latestRejection \in Nat /\ nextGeneration \in Nat
  BY BoundsAreNat DEF TypeOK
<1>8. /\ pending' \in [Processes -> Publications]
      /\ pending'[l].tag # "None" /\ (failedMaintenanceWork' # {} => pending'[l].tag = "Degraded")
      /\ \A q \in Processes \ {l} : pending'[q] = pending[q]
  BY <1>4, <1>7, LedgerIsRead
<1>9. LeaseTypes' /\ LeasesOK' /\ want' = [want EXCEPT ![l] = NoKey]
  BY <1>2, <1>4, <1>5, LeasesHaveTypes, OnlyWaitersAreQueued, ReleaseKeepsLeases
<1>10. failedWork \intersect command[l].cancelled = failedWork \intersect WorkForId(k)
  <2>1. CASE deadlines[k] # NoDeadline
    BY <1>1, <1>4, <2>1 DEF CancelsTheWork
  <2>2. CASE deadlines[k] = NoDeadline
    BY <1>1, <1>4, <2>2 DEF CancelsTheWork, WorkIsCurrent, WorkForId
  <2>. QED
    BY <2>1, <2>2
<1>11. failedMaintenanceWork' = failedWork'
  BY <1>2, <1>4, <1>10 DEF WorkIsCurrent
<1>12. WorkIsCurrent'
  <2>1. ASSUME NEW w \in failedWork' PROVE deadlines'[w[1]] # NoDeadline /\ w = WorkId(deadlines'[w[1]])
    <3>1. /\ w \in failedWork /\ w \notin WorkForId(k) /\ w[1] \in Keys
          /\ deadlines[w[1]] # NoDeadline /\ w = WorkId(deadlines[w[1]])
      BY <1>2, <2>1 DEF WorkIsCurrent, TypeOK
    <3>2. w[1] # k
      BY <3>1 DEF WorkForId
    <3>. QED
      BY <1>2, <3>1, <3>2
  <2>. QED
    BY <1>11, <2>1 DEF WorkIsCurrent
<1>13. TypeOK'
  <2>1. failedWork' \subseteq (Keys \X Generations) /\ failedMaintenanceWork' \subseteq (Keys \X Generations)
    BY <1>2, <1>4 DEF TypeOK
  <2>2. gate' \in Processes \union {Nobody}
    BY <1>4
  <2>. QED
    BY <1>2, <1>4, <1>5, <1>9, <2>1, <2>2 DEF TypeOK, LeaseTypes
<1>14. PreparedOK'
  BY <1>6, <1>8 DEF PreparedOK
<1>15. RowsHaveDeadlines'
  <2>1. ASSUME NEW j \in Keys
        PROVE  /\ rows'[j] = NoRow <=> deadlines'[j] = NoDeadline
               /\ rows'[j] # NoRow => deadlines'[j] = rows'[j]
               /\ deadlines'[j] # NoDeadline => deadlines'[j].id = j /\ deadlines'[j].generation <= nextGeneration'
    <3>1. CASE j = k
      BY <1>2, <1>3, <1>7, <3>1, NoRowIsNoRow, NoDeadlineIsNoDeadline
    <3>2. CASE j # k
      <4>1. /\ rows[j] = NoRow <=> deadlines[j] = NoDeadline
            /\ rows[j] # NoRow => deadlines[j] = rows[j]
        BY DEF RowsHaveDeadlines
      <4>2. ASSUME deadlines[j] # NoDeadline
            PROVE  deadlines[j].id = j /\ deadlines[j].generation <= nextGeneration'
        <5>1. deadlines[j].generation \in Nat /\ deadlines[j].id = j /\ deadlines[j].generation <= nextGeneration
          BY <4>2, BoundsAreNat DEF RowsHaveDeadlines, TypeOK, Deadline, Generations
        <5>. QED
          BY <1>2, <1>7, <5>1, BoundsAreNat
      <4>. QED
        BY <1>2, <3>2, <4>1, <4>2
    <3>. QED
      BY <3>1, <3>2
  <2>. QED
    BY <2>1 DEF RowsHaveDeadlines
<1>16. CandidatesWereDue'
  <2>1. nextGeneration' \in Nat
    BY <1>2, BoundsAreNat
  <2>2. \/ deadlines'[k] = NoDeadline
        \/ deadlines'[k].generation \in Nat /\ deadlines'[k].generation > nextGeneration
    BY <1>3, <1>7
  <2>3. \A d \in Deadline : CandidateOK(d) => CandidateOK(d)'
    BY <1>2, <1>4, <2>1, <2>2, CandidatesStayDue
  <2>. QED
    BY <1>4, <2>3 DEF CandidatesWereDue, TypeOK
<1>17. SweepProgress' /\ LaneProgress' /\ AttemptProgress'
  <2>1. \A q \in Processes \ {l} : want'[q] = want[q]
    BY <1>9 DEF TypeOK
  <2>2. want'[l] = NoKey
    BY <1>4, <1>9 DEF TypeOK
  <2>. QED
    BY <1>4, <1>5, <1>6, <2>1, <2>2, LanesAreProcesses DEF SweepProgress, LaneProgress, AttemptProgress
<1>18. CancelsTheWork'
  <2>1. ASSUME NEW m \in Lanes, command'[m] # NoCommand
        PROVE  (/\ LaneOf[command[m].id] = m
                /\ \A w \in command[m].cancelled : w[1] = command[m].id
                /\ deadlines[command[m].id] # NoDeadline => command[m].cancelled = WorkForId(command[m].id))'
    <3>1. m # l /\ command'[m] = command[m] /\ command[m].id \in Keys
      BY <1>6, <2>1 DEF PreparedOK, Commands
    <3>2. command[m].id # k
      BY <1>2, <2>1, <3>1 DEF CancelsTheWork
    <3>3. deadlines'[command[m].id] = deadlines[command[m].id]
      BY <1>2, <3>1, <3>2
    <3>4. WorkForId(command[m].id)' = WorkForId(command[m].id)
      BY <3>1, <3>3 DEF WorkForId
    <3>5. /\ LaneOf[command[m].id] = m
          /\ \A w \in command[m].cancelled : w[1] = command[m].id
          /\ deadlines[command[m].id] # NoDeadline => command[m].cancelled = WorkForId(command[m].id)
      BY <2>1, <3>1 DEF CancelsTheWork
    <3>. QED
      BY <3>1, <3>3, <3>4, <3>5
  <2>. QED
    BY <2>1 DEF CancelsTheWork
<1>19. GateIsHeld'
  BY <1>4, <1>5, LanesAreProcesses DEF GateIsHeld
<1>20. PublicationsShowBacklog'
  BY <1>4, <1>5, <1>8, <1>11, LanesAreProcesses DEF PublicationsShowBacklog, GateIsHeld
<1>. QED
  BY <1>2, <1>9, <1>12, <1>13, <1>14, <1>15, <1>16, <1>17, <1>18, <1>19, <1>20

-----------------------------------------------------------------------------
(* The sweep *)

Phases == {"ended", "pulling", "waiting", "leased", "publishing", "rejecting", "sleeping", "sweeping"}

\* A step of the sweep that writes neither rows nor ledgers.
LEMMA SweepOnlyMoves ==
    ASSUME MInv, UNCHANGED <<unchangedBySweep, stateVars, failedMaintenanceWork, statusVars, gate>>,
           phase[Sweeper] # "publishing", phase' = [phase EXCEPT ![Sweeper] = phase'[Sweeper]],
           phase'[Sweeper] \in Phases \ {"pulling", "rejecting", "publishing"},
           LeaseTypes', LeasesOK', \A q \in Processes \ {Sweeper} : want'[q] = want[q],
           IF phase'[Sweeper] \in {"waiting", "leased"}
           THEN candidate' # NoDeadline /\ want'[Sweeper] = candidate'.id
           ELSE want'[Sweeper] = NoKey,
           candidates' \subseteq Deadline, candidate' \in Deadline \union {NoDeadline},
           CandidatesWereDue'
    PROVE  MInv'
<1>. USE DEF MInv, unchangedBySweep, stateVars, statusVars, attemptVars
<1>1. \A q \in Processes \ {Sweeper} : phase'[q] = phase[q]
  BY DEF TypeOK
<1>2. TypeOK'
  <2>1. phase' \in [Processes -> {"ended", "pulling", "waiting", "leased", "publishing",
                                  "rejecting", "sleeping", "sweeping"}]
    BY DEF TypeOK, Phases
  <2>. QED
    BY <2>1 DEF TypeOK, LeaseTypes
<1>3. PreparedOK'
  BY DEF PreparedOK
<1>4. RowsHaveDeadlines' /\ RowsCounted'
  BY DEF RowsHaveDeadlines, RowsCounted, RowsOf
<1>5. SweepProgress'
  BY DEF SweepProgress
<1>6. LaneProgress' /\ AttemptProgress'
  BY <1>1, LanesAreProcesses DEF LaneProgress, AttemptProgress
<1>7. CancelsTheWork' /\ GenerationsSuffice'
  BY DEF CancelsTheWork, GenerationsSuffice, Upserts, WorkForId
<1>8. GateIsHeld' /\ WorkIsCurrent'
  BY <1>1, LanesAreProcesses DEF GateIsHeld, WorkIsCurrent, IsOperational
<1>9. PublicationsShowBacklog'
  BY <1>1, LanesAreProcesses DEF PublicationsShowBacklog
<1>. QED
  BY <1>2, <1>3, <1>4, <1>5, <1>6, <1>7, <1>8, <1>9

\* The candidates of a sweep are the due deadlines of the state it begins with.
LEMMA BeginSweepKeepsInvariant == ASSUME MInv, BeginSweep PROVE MInv'
<1>. USE DEF MInv, BeginSweep
<1>1. phase[Sweeper] = "sleeping" /\ phase' = [phase EXCEPT ![Sweeper] = "sweeping"] /\ phase'[Sweeper] = "sweeping"
  BY LanesAreProcesses DEF TypeOK
<1>2. LeaseTypes' /\ LeasesOK'
  BY <1>1, LeasesHaveTypes, OthersKeepLeases DEF TypeOK
<1>3. ASSUME NEW d \in candidates' PROVE d \in Deadline /\ CandidateOK(d)'
  <2>1. PICK k \in Keys : d = deadlines[k] /\ d # NoDeadline /\ d.deadlineNanos <= now
    BY <1>3
  <2>2. d \in Deadline /\ d.id = k /\ d.generation <= nextGeneration
    BY <2>1 DEF TypeOK, RowsHaveDeadlines
  <2>. QED
    BY <2>1, <2>2 DEF CandidateOK, IsCurrent, unchangedBySweep, stateVars
<1>4. CandidatesWereDue'
  BY <1>3 DEF CandidatesWereDue, CandidateOK, IsCurrent, unchangedBySweep, stateVars
<1>5. want' = want /\ candidate' = candidate
  OBVIOUS
<1>6. want[Sweeper] = NoKey
  BY <1>1 DEF SweepProgress
<1>. QED
  BY <1>1, <1>2, <1>3, <1>4, <1>5, <1>6, SweepOnlyMoves DEF Phases, TypeOK

LEMMA NextCandidateKeepsInvariant == ASSUME MInv, NextCandidate PROVE MInv'
<1>. USE DEF MInv
<1>1. PICK d \in candidates :
         /\ candidates' = candidates \ {d}
         /\ candidate' = d
         /\ Acquires(Sweeper, d.id)
         /\ phase' = [phase EXCEPT ![Sweeper] = IF held[d.id] THEN "waiting" ELSE "leased"]
  BY DEF NextCandidate
<1>2. /\ phase[Sweeper] = "sweeping"
      /\ UNCHANGED <<unchangedBySweep, stateVars, failedMaintenanceWork, statusVars, gate>>
  BY DEF NextCandidate
<1>3. d \in Deadline /\ d.id \in Keys /\ d # NoDeadline
  BY NoDeadlineIsNoDeadline DEF TypeOK, Deadline
<1>4. want[Sweeper] = NoKey
  BY <1>2 DEF SweepProgress
<1>5. /\ phase'[Sweeper] = (IF held[d.id] THEN "waiting" ELSE "leased")
      /\ \A q \in Processes \ {Sweeper} : phase'[q] = phase[q]
  BY <1>1, LanesAreProcesses DEF TypeOK
<1>6. LeaseTypes' /\ LeasesOK'
  BY <1>1, <1>3, <1>4, <1>5, LanesAreProcesses, LeasesHaveTypes, AcquireKeepsLeases
<1>7. want'[Sweeper] = d.id /\ \A q \in Processes \ {Sweeper} : want'[q] = want[q]
  BY <1>1, LanesAreProcesses DEF Acquires, TypeOK
<1>8. CandidatesWereDue'
  <2>1. \A e \in candidates : CandidateOK(e)'
    BY <1>2 DEF CandidatesWereDue, CandidateOK, IsCurrent, unchangedBySweep, stateVars
  <2>. QED
    BY <1>1, <2>1 DEF CandidatesWereDue
<1>9. candidates' \subseteq Deadline /\ candidate' \in Deadline \union {NoDeadline}
  BY <1>1, <1>3 DEF TypeOK
<1>10. phase' = [phase EXCEPT ![Sweeper] = phase'[Sweeper]]
  BY <1>1, <1>5
<1>. QED
  BY <1>1, <1>2, <1>3, <1>5, <1>6, <1>7, <1>8, <1>9, <1>10, SweepOnlyMoves DEF Phases

LEMMA EndSweepKeepsInvariant == ASSUME MInv, EndSweep PROVE MInv'
<1>. USE DEF MInv, EndSweep
<1>1. phase[Sweeper] = "sweeping" /\ phase' = [phase EXCEPT ![Sweeper] = "sleeping"] /\ phase'[Sweeper] = "sleeping"
  BY LanesAreProcesses DEF TypeOK
<1>2. LeaseTypes' /\ LeasesOK'
  BY <1>1, LeasesHaveTypes, OthersKeepLeases DEF TypeOK
<1>3. CandidatesWereDue'
  BY DEF CandidatesWereDue, CandidateOK, IsCurrent, unchangedBySweep, stateVars
<1>4. want[Sweeper] = NoKey
  BY <1>1 DEF SweepProgress
<1>. QED
  BY <1>1, <1>2, <1>3, <1>4, SweepOnlyMoves DEF Phases, TypeOK

\* The sweep gives up.
LEMMA NoCandidates ==
    ASSUME candidates' = {}, candidate' = NoDeadline
    PROVE  candidates' \subseteq Deadline /\ candidate' \in Deadline \union {NoDeadline} /\ CandidatesWereDue'
BY DEF CandidatesWereDue

LEMMA InactiveKeepsInvariant == ASSUME MInv, Inactive PROVE MInv'
<1>. USE DEF MInv, Inactive
<1>1. /\ phase[Sweeper] = "leased" /\ phase' = [phase EXCEPT ![Sweeper] = "sleeping"]
      /\ phase'[Sweeper] = "sleeping" /\ \A q \in Processes \ {Sweeper} : phase'[q] = phase[q]
  BY LanesAreProcesses DEF TypeOK
<1>2. want[Sweeper] \in Keys
  BY <1>1, LanesAreProcesses, NoKeyIsNoKey DEF SweepProgress, TypeOK, Deadline
<1>3. LeaseTypes' /\ LeasesOK' /\ want' = [want EXCEPT ![Sweeper] = NoKey]
  BY <1>1, <1>2, LanesAreProcesses, LeasesHaveTypes, OnlyWaitersAreQueued, ReleaseKeepsLeases
<1>4. want'[Sweeper] = NoKey /\ \A q \in Processes \ {Sweeper} : want'[q] = want[q]
  BY <1>3, LanesAreProcesses DEF TypeOK
<1>. QED
  BY <1>1, <1>3, <1>4, NoCandidates, SweepOnlyMoves DEF Phases

LEMMA SweepInterruptedKeepsInvariant == ASSUME MInv, SweepInterrupted PROVE MInv'
<1>. USE DEF MInv, SweepInterrupted
<1>1. /\ phase[Sweeper] \in {"sleeping", "sweeping", "waiting", "leased"}
      /\ phase' = [phase EXCEPT ![Sweeper] = "ended"]
      /\ phase'[Sweeper] = "ended" /\ \A q \in Processes \ {Sweeper} : phase'[q] = phase[q]
  BY LanesAreProcesses DEF TypeOK
<1>2. /\ LeaseTypes' /\ LeasesOK'
      /\ want'[Sweeper] = NoKey /\ \A q \in Processes \ {Sweeper} : want'[q] = want[q]
  <2>1. CASE phase[Sweeper] \in {"waiting", "leased"}
    <3>1. want[Sweeper] \in Keys /\ want[Sweeper] # NoKey
      BY <2>1, LanesAreProcesses, NoKeyIsNoKey DEF SweepProgress, TypeOK, Deadline
    <3>2. CASE phase[Sweeper] = "waiting"
      <4>1. LeaseTypes' /\ LeasesOK' /\ want' = [want EXCEPT ![Sweeper] = NoKey]
        BY <1>1, <3>1, <3>2, LanesAreProcesses, LeasesHaveTypes, AbandonKeepsLeases
      <4>. QED
        BY <4>1, LanesAreProcesses DEF TypeOK
    <3>3. CASE phase[Sweeper] = "leased"
      <4>1. LeaseTypes' /\ LeasesOK' /\ want' = [want EXCEPT ![Sweeper] = NoKey]
        BY <1>1, <3>1, <3>3, LanesAreProcesses, LeasesHaveTypes, OnlyWaitersAreQueued, ReleaseKeepsLeases
      <4>. QED
        BY <4>1, LanesAreProcesses DEF TypeOK
    <3>. QED
      BY <2>1, <3>2, <3>3
  <2>2. CASE phase[Sweeper] \notin {"waiting", "leased"}
    <3>1. UNCHANGED <<want, leaseVars>>
      BY <2>2
    <3>2. want[Sweeper] = NoKey
      BY <1>1, <2>2 DEF SweepProgress
    <3>3. LeaseTypes' /\ LeasesOK'
      BY <1>1, <2>2, <3>1, LeasesHaveTypes, OthersKeepLeases
    <3>. QED
      BY <3>1, <3>2, <3>3
  <2>. QED
    BY <2>1, <2>2
<1>. QED
  BY <1>1, <1>2, NoCandidates, SweepOnlyMoves DEF Phases

\* What an operation does to rows, deadlines and ledgers.
LEMMA ExecutedCandidate ==
    ASSUME MInv, Execute
    PROVE  LET k == candidate.id
           IN  /\ candidate \in Deadline /\ k \in Keys /\ want[Sweeper] = k
               /\ failedWork' \subseteq Work
               /\ nextGeneration' = nextGeneration
               /\ rows' \in [Keys -> Deadline \union {NoRow}]
               /\ deadlines' \in [Keys -> Deadline \union {NoDeadline}]
               /\ \A j \in Keys \ {k} : deadlines'[j] = deadlines[j] /\ rows'[j] = rows[j]
               /\ \/ rows'[k] = NoRow /\ deadlines'[k] = NoDeadline
                  \/ rows'[k] = rows[k] /\ deadlines'[k] = deadlines[k]
               /\ RowsCounted' /\ trackedRows' \in [Lanes -> Int]
               /\ WorkIsCurrent'
<1>. USE DEF MInv
<1>1. PICK d : d = candidate
  OBVIOUS
<1>2. /\ d \in Deadline /\ d.id \in Keys /\ want[Sweeper] = d.id /\ CandidateOK(d)
  BY <1>1 DEF Execute, SweepProgress, CandidatesWereDue, TypeOK, Deadline
<1>3. WorkId(d) \in Work /\ WorkId(d)[1] = d.id
  BY <1>2 DEF WorkId, Work, Deadline
<1>4. CASE ExpirationSucceeds(d)
  <2>1. deadlines[d.id] = d
    BY <1>2, <1>4 DEF ExpirationSucceeds, CandidateOK
  <2>2. /\ rows' = [rows EXCEPT ![d.id] = NoRow] /\ Forgets(d.id) /\ nextGeneration' = nextGeneration
        /\ failedWork' = failedWork \ {WorkId(d)}
        /\ failedMaintenanceWork' = failedMaintenanceWork \ {WorkId(d)}
    BY <1>4 DEF ExpirationSucceeds
  <2>3. RowsCounted' /\ trackedRows' \in [Lanes -> Int]
    BY <1>2, <2>2, RowIsForgotten
  <2>4. /\ rows' \in [Keys -> Deadline \union {NoRow}] /\ rows'[d.id] = NoRow /\ deadlines'[d.id] = NoDeadline
        /\ deadlines' \in [Keys -> Deadline \union {NoDeadline}]
        /\ \A j \in Keys \ {d.id} : deadlines'[j] = deadlines[j] /\ rows'[j] = rows[j]
    BY <1>2, <2>2 DEF TypeOK, Forgets
  <2>5. failedWork' \subseteq Work
    BY <2>2 DEF TypeOK, Work
  <2>6. ASSUME NEW w \in failedWork' PROVE deadlines'[w[1]] # NoDeadline /\ w = WorkId(deadlines'[w[1]])
    <3>1. /\ w \in failedWork /\ w # WorkId(d) /\ w[1] \in Keys
          /\ deadlines[w[1]] # NoDeadline /\ w = WorkId(deadlines[w[1]])
      BY <2>2, <2>6 DEF WorkIsCurrent, TypeOK
    <3>. QED
      BY <2>1, <2>4, <3>1
  <2>7. WorkIsCurrent'
    BY <2>2, <2>6 DEF WorkIsCurrent
  <2>. QED
    BY <1>1, <1>2, <2>2, <2>3, <2>4, <2>5, <2>7
<1>5. CASE ExpirationFails(d)
  <2>1. deadlines[d.id] = d /\ d # NoDeadline
    BY <1>2, <1>5, NoDeadlineIsNoDeadline DEF ExpirationFails, CandidateOK
  <2>2. /\ failedWork' = failedWork \union {WorkId(d)}
        /\ failedMaintenanceWork' = failedMaintenanceWork \union {WorkId(d)}
        /\ rows' = rows /\ deadlines' = deadlines /\ trackedRows' = trackedRows
        /\ nextGeneration' = nextGeneration
    BY <1>5 DEF ExpirationFails
  <2>3. failedWork' \subseteq Work
    BY <1>3, <2>2 DEF TypeOK, Work
  <2>4. WorkIsCurrent'
    BY <1>3, <2>1, <2>2 DEF WorkIsCurrent
  <2>. QED
    BY <1>1, <1>2, <2>2, <2>3, <2>4 DEF RowsCounted, RowsOf, TypeOK
<1>6. CASE ExpirationStale(d)
  <2>1. /\ failedWork' = failedWork \ {WorkId(d)}
        /\ failedMaintenanceWork' = failedMaintenanceWork \ {WorkId(d)}
        /\ rows' = rows /\ deadlines' = deadlines /\ trackedRows' = trackedRows
        /\ nextGeneration' = nextGeneration
    BY <1>6 DEF ExpirationStale
  <2>2. WorkIsCurrent' /\ failedWork' \subseteq Work
    BY <2>1 DEF WorkIsCurrent, TypeOK, Work
  <2>. QED
    BY <1>1, <1>2, <2>1, <2>2 DEF RowsCounted, RowsOf, TypeOK
<1>. QED
  BY <1>1, <1>4, <1>5, <1>6 DEF Execute

\* Under the gate an operation deletes the row of a due candidate, fails or is
\* stale.
LEMMA ExecuteKeepsInvariant == ASSUME MInv, Execute PROVE MInv'
<1>. USE DEF MInv
<1>1. PICK k : k = candidate.id
  OBVIOUS
<1>2. /\ candidate \in Deadline /\ k \in Keys /\ want[Sweeper] = k
      /\ failedWork' \subseteq Work
      /\ nextGeneration' = nextGeneration
      /\ rows' \in [Keys -> Deadline \union {NoRow}]
      /\ deadlines' \in [Keys -> Deadline \union {NoDeadline}]
      /\ \A j \in Keys \ {k} : deadlines'[j] = deadlines[j] /\ rows'[j] = rows[j]
      /\ RowsCounted' /\ trackedRows' \in [Lanes -> Int]
      /\ WorkIsCurrent'
  BY <1>1, ExecutedCandidate
<1>3. \/ rows'[k] = NoRow /\ deadlines'[k] = NoDeadline
      \/ rows'[k] = rows[k] /\ deadlines'[k] = deadlines[k]
  BY <1>1, ExecutedCandidate
<1>4. /\ phase[Sweeper] = "leased" /\ gate = Nobody /\ gate' = Sweeper
      /\ active /\ IsOperational
      /\ ReadsLedger(Sweeper, failedMaintenanceWork', latestRejection)
      /\ now' = now /\ status' = status /\ source' = source /\ active' = active /\ closing' = closing
      /\ latestRejection' = latestRejection /\ attempts' = attempts /\ command' = command
      /\ candidates' = candidates /\ candidate' = candidate
      /\ UNCHANGED <<want, leaseVars>>
  BY DEF Execute, unchangedBySweep, attemptVars
<1>5. /\ phase'[Sweeper] = "publishing" /\ \A q \in Processes \ {Sweeper} : phase'[q] = phase[q]
      /\ phase' \in [Processes -> {"ended", "pulling", "waiting", "leased", "publishing",
                                   "rejecting", "sleeping", "sweeping"}]
  BY LanesAreProcesses DEF TypeOK, Execute
<1>6. latestRejection \in Nat /\ nextGeneration \in Nat
  BY BoundsAreNat DEF TypeOK
<1>7. /\ pending' \in [Processes -> Publications]
      /\ pending'[Sweeper].tag # "None"
      /\ (failedMaintenanceWork' # {} => pending'[Sweeper].tag = "Degraded")
      /\ \A q \in Processes \ {Sweeper} : pending'[q] = pending[q]
  BY <1>4, <1>6, LanesAreProcesses, LedgerIsRead
<1>8. LeaseTypes' /\ LeasesOK'
  BY <1>4, <1>5, LeasesHaveTypes, OthersKeepLeases
<1>9. failedMaintenanceWork' = failedWork'
  BY <1>2 DEF WorkIsCurrent
<1>10. TypeOK'
  <2>1. gate' \in Processes \union {Nobody}
    BY <1>4, LanesAreProcesses
  <2>. QED
    BY <1>2, <1>4, <1>5, <1>8, <1>9, <2>1 DEF TypeOK, LeaseTypes, Work
<1>11. PreparedOK'
  BY <1>4, <1>7 DEF PreparedOK
<1>12. RowsHaveDeadlines'
  BY <1>2, <1>3 DEF RowsHaveDeadlines
<1>13. CandidatesWereDue'
  <2>1. ASSUME NEW d \in Deadline, CandidateOK(d) PROVE CandidateOK(d)'
    <3>1. d.id \in Keys
      BY DEF Deadline
    <3>. QED
      BY <1>2, <1>3, <1>4, <2>1, <3>1 DEF CandidateOK, IsCurrent
  <2>. QED
    BY <1>4, <2>1 DEF CandidatesWereDue, TypeOK
<1>14. SweepProgress' /\ LaneProgress' /\ AttemptProgress'
  BY <1>4, <1>5, LanesAreProcesses DEF SweepProgress, LaneProgress, AttemptProgress
<1>15. CancelsTheWork'
  <2>1. ASSUME NEW m \in Lanes, command'[m] # NoCommand
        PROVE  (/\ LaneOf[command[m].id] = m
                /\ \A w \in command[m].cancelled : w[1] = command[m].id
                /\ deadlines[command[m].id] # NoDeadline => command[m].cancelled = WorkForId(command[m].id))'
    <3>1. command'[m] = command[m] /\ command[m].id \in Keys
      BY <1>4, <2>1 DEF PreparedOK, Commands
    <3>2. /\ LaneOf[command[m].id] = m
          /\ \A w \in command[m].cancelled : w[1] = command[m].id
          /\ deadlines[command[m].id] # NoDeadline => command[m].cancelled = WorkForId(command[m].id)
      BY <2>1, <3>1 DEF CancelsTheWork
    <3>3. deadlines'[command[m].id] \in {deadlines[command[m].id], NoDeadline}
      BY <1>2, <1>3, <3>1
    <3>. QED
      BY <3>1, <3>2, <3>3 DEF WorkForId
  <2>. QED
    BY <2>1 DEF CancelsTheWork
<1>16. GenerationsSuffice'
  BY <1>2, <1>4 DEF GenerationsSuffice, Upserts
<1>17. GateIsHeld'
  BY <1>4, <1>5, LanesAreProcesses DEF GateIsHeld, IsOperational
<1>18. PublicationsShowBacklog'
  BY <1>4, <1>5, <1>7, <1>9, LanesAreProcesses DEF PublicationsShowBacklog, GateIsHeld
<1>. QED
  BY <1>2, <1>8, <1>10, <1>11, <1>12, <1>13, <1>14, <1>15, <1>16, <1>17, <1>18

LEMMA PublishSweepKeepsInvariant == ASSUME MInv, PublishSweep PROVE MInv'
<1>. USE DEF MInv, PublishSweep, unchangedBySweep, stateVars, attemptVars
<1>1. /\ phase[Sweeper] = "publishing" /\ gate = Sweeper /\ gate' = Nobody
      /\ phase'[Sweeper] = "sweeping" /\ \A q \in Processes \ {Sweeper} : phase'[q] = phase[q]
      /\ phase' \in [Processes -> {"ended", "pulling", "waiting", "leased", "publishing",
                                   "rejecting", "sleeping", "sweeping"}]
  BY LanesAreProcesses DEF TypeOK, GateIsHeld
<1>2. want[Sweeper] \in Keys
  BY <1>1, LanesAreProcesses, NoKeyIsNoKey DEF SweepProgress, TypeOK, Deadline
<1>3. LeaseTypes' /\ LeasesOK' /\ want' = [want EXCEPT ![Sweeper] = NoKey]
  BY <1>1, <1>2, LanesAreProcesses, LeasesHaveTypes, OnlyWaitersAreQueued, ReleaseKeepsLeases
<1>4. want'[Sweeper] = NoKey /\ \A q \in Processes \ {Sweeper} : want'[q] = want[q]
  BY <1>3, LanesAreProcesses DEF TypeOK
<1>5. pending' \in [Processes -> Publications] /\ \A q \in Processes \ {Sweeper} : pending'[q] = pending[q]
  BY LanesAreProcesses, NothingToPublish
<1>6. TypeOK' /\ PreparedOK'
  BY <1>1, <1>3, <1>5 DEF TypeOK, LeaseTypes, PreparedOK
<1>7. RowsHaveDeadlines' /\ RowsCounted' /\ CandidatesWereDue'
  BY DEF RowsHaveDeadlines, RowsCounted, RowsOf, CandidatesWereDue, CandidateOK, IsCurrent
<1>8. SweepProgress' /\ LaneProgress' /\ AttemptProgress'
  BY <1>1, <1>4, LanesAreProcesses DEF SweepProgress, LaneProgress, AttemptProgress
<1>9. CancelsTheWork' /\ GenerationsSuffice'
  BY DEF CancelsTheWork, GenerationsSuffice, Upserts, WorkForId
<1>10. GateIsHeld' /\ WorkIsCurrent'
  BY <1>1, LanesAreProcesses DEF GateIsHeld, WorkIsCurrent
<1>11. PublicationsShowBacklog'
  <2>1. closing \/ status' = pending[Sweeper]
    BY DEF Published
  <2>. QED
    BY <1>1, <1>5, <2>1, LanesAreProcesses DEF PublicationsShowBacklog
<1>. QED
  BY <1>3, <1>6, <1>7, <1>8, <1>9, <1>10, <1>11

-----------------------------------------------------------------------------
(* Attempts and stop() *)

LEMMA BecomeReadyKeepsInvariant == ASSUME MInv, BecomeReady PROVE MInv'
<1>. USE DEF MInv, BecomeReady, unchangedByAttempt, stateVars, ledgerVars
<1>1. /\ source = "down" /\ gate = Nobody /\ ~closing
      /\ \A l \in Lanes : phase[l] = "ended" /\ want[l] = NoKey /\ command[l] = NoCommand
  BY LanesAreProcesses DEF AttemptProgress, LaneProgress
<1>2. /\ phase'[Sweeper] = phase[Sweeper] /\ \A l \in Lanes : phase'[l] = "pulling"
      /\ phase' \in [Processes -> {"ended", "pulling", "waiting", "leased", "publishing",
                                   "rejecting", "sleeping", "sweeping"}]
  BY LanesAreProcesses DEF TypeOK
<1>3. attempts' \in 0..MaxAttempts
  BY BoundsAreNat DEF TypeOK
<1>4. TypeOK' /\ PreparedOK'
  BY <1>2, <1>3 DEF TypeOK, PreparedOK, leaseVars
<1>5. RowsHaveDeadlines' /\ RowsCounted' /\ CandidatesWereDue'
  BY DEF RowsHaveDeadlines, RowsCounted, RowsOf, CandidatesWereDue, CandidateOK, IsCurrent
<1>6. SweepProgress' /\ LaneProgress' /\ AttemptProgress'
  BY <1>1, <1>2, LanesAreProcesses DEF SweepProgress, LaneProgress, AttemptProgress
<1>7. CancelsTheWork' /\ GenerationsSuffice'
  BY DEF CancelsTheWork, GenerationsSuffice, Upserts, WorkForId
<1>8. \A p \in Processes : p \in Lanes \/ p = Sweeper
  BY DEF Processes
<1>9. GateIsHeld' /\ WorkIsCurrent'
  BY <1>1, <1>2, <1>8, LanesAreProcesses DEF GateIsHeld, WorkIsCurrent
<1>10. PublicationsShowBacklog'
  <2>1. failedWork # {} => status'.tag = "Degraded"
    BY <1>1 DEF Published, Operational, WorkIsCurrent
  <2>2. \A p \in Processes : phase[p] # "publishing" /\ phase'[p] # "publishing"
    BY <1>1, <1>2, <1>8, LanesAreProcesses DEF GateIsHeld
  <2>. QED
    BY <1>2, <2>1, <2>2 DEF PublicationsShowBacklog
<1>11. LeasesOK'
  <2>1. \A q \in Processes : phase[q] = "waiting" /\ Queued(q) => phase'[q] = "waiting"
    BY <1>1, <1>2, <1>8
  <2>. QED
    BY <2>1, LeasesHaveTypes, OthersKeepLeases
<1>. QED
  BY <1>4, <1>5, <1>6, <1>7, <1>9, <1>10, <1>11

LEMMA EndAttemptKeepsInvariant == ASSUME MInv, EndAttempt PROVE MInv'
<1>. USE DEF MInv, EndAttempt, unchangedByAttempt, stateVars, ledgerVars
<1>1. TypeOK' /\ PreparedOK'
  BY DEF TypeOK, PreparedOK, leaseVars
<1>2. RowsHaveDeadlines' /\ RowsCounted' /\ CandidatesWereDue'
  BY DEF RowsHaveDeadlines, RowsCounted, RowsOf, CandidatesWereDue, CandidateOK, IsCurrent
<1>3. SweepProgress' /\ LaneProgress' /\ AttemptProgress'
  BY DEF SweepProgress, LaneProgress, AttemptProgress
<1>4. CancelsTheWork' /\ GenerationsSuffice'
  BY DEF CancelsTheWork, GenerationsSuffice, Upserts, WorkForId
<1>5. GateIsHeld' /\ WorkIsCurrent' /\ PublicationsShowBacklog'
  BY LanesAreProcesses DEF GateIsHeld, WorkIsCurrent, PublicationsShowBacklog
<1>6. LeasesOK'
  BY LeasesHaveTypes, OthersKeepLeases
<1>. QED
  BY <1>1, <1>2, <1>3, <1>4, <1>5, <1>6

\* The lanes have ended, so no lease that is given back has a waiting owner.
LEMMA ReleaseTransitionKeepsInvariant == ASSUME MInv, NEW l \in Lanes, ReleaseTransition(l) PROVE MInv'
<1>. USE DEF MInv, ReleaseTransition, unchangedByAttempt, stateVars, ledgerVars, attemptVars
<1>1. l \in Processes /\ l # Sweeper /\ source = "closing" /\ phase[l] = "ended" /\ want[l] \in Keys
  BY LanesAreProcesses DEF AttemptProgress, TypeOK
<1>2. ~Queued(l)
  BY <1>1, LeasesHaveTypes, OnlyWaitersAreQueued
<1>3. LeaseTypes' /\ LeasesOK' /\ want' = [want EXCEPT ![l] = NoKey]
  <2>1. \A q \in Processes \ {l} : phase'[q] = phase[q]
    OBVIOUS
  <2>. QED
    BY <1>1, <1>2, <2>1, LeasesHaveTypes, ReleaseKeepsLeases
<1>4. want'[l] = NoKey /\ \A q \in Processes \ {l} : want'[q] = want[q]
  BY <1>1, <1>3 DEF TypeOK
<1>5. TypeOK' /\ PreparedOK'
  BY <1>3 DEF TypeOK, PreparedOK, LeaseTypes
<1>6. RowsHaveDeadlines' /\ RowsCounted' /\ CandidatesWereDue'
  BY DEF RowsHaveDeadlines, RowsCounted, RowsOf, CandidatesWereDue, CandidateOK, IsCurrent
<1>7. SweepProgress' /\ LaneProgress' /\ AttemptProgress'
  BY <1>1, <1>4, LanesAreProcesses DEF SweepProgress, LaneProgress, AttemptProgress
<1>8. CancelsTheWork' /\ GenerationsSuffice'
  BY DEF CancelsTheWork, GenerationsSuffice, Upserts, WorkForId
<1>9. GateIsHeld' /\ WorkIsCurrent' /\ PublicationsShowBacklog'
  BY DEF GateIsHeld, WorkIsCurrent, PublicationsShowBacklog, IsOperational
<1>. QED
  BY <1>3, <1>5, <1>6, <1>7, <1>8, <1>9

LEMMA AttemptClosedKeepsInvariant == ASSUME MInv, AttemptClosed PROVE MInv'
<1>. USE DEF MInv, AttemptClosed, unchangedByAttempt, stateVars, ledgerVars
<1>1. ~active /\ gate # Sweeper /\ active' = active
  BY LanesAreProcesses DEF AttemptProgress, GateIsHeld
<1>2. TypeOK' /\ PreparedOK'
  BY DEF TypeOK, PreparedOK, leaseVars
<1>3. RowsHaveDeadlines' /\ RowsCounted' /\ CandidatesWereDue'
  BY DEF RowsHaveDeadlines, RowsCounted, RowsOf, CandidatesWereDue, CandidateOK, IsCurrent
<1>4. SweepProgress' /\ LaneProgress' /\ AttemptProgress'
  BY <1>1 DEF SweepProgress, LaneProgress, AttemptProgress
<1>5. CancelsTheWork' /\ GenerationsSuffice'
  BY DEF CancelsTheWork, GenerationsSuffice, Upserts, WorkForId
<1>6. GateIsHeld' /\ WorkIsCurrent' /\ PublicationsShowBacklog'
  BY <1>1 DEF GateIsHeld, WorkIsCurrent, PublicationsShowBacklog
<1>7. LeasesOK'
  BY LeasesHaveTypes, OthersKeepLeases
<1>. QED
  BY <1>2, <1>3, <1>4, <1>5, <1>6, <1>7

LEMMA StopBeginsKeepsInvariant == ASSUME MInv, StopBegins PROVE MInv'
<1>. USE DEF MInv, StopBegins, unchangedByAttempt, stateVars, ledgerVars
<1>1. TypeOK' /\ PreparedOK'
  BY DEF TypeOK, PreparedOK, leaseVars
<1>2. RowsHaveDeadlines' /\ RowsCounted' /\ CandidatesWereDue'
  BY DEF RowsHaveDeadlines, RowsCounted, RowsOf, CandidatesWereDue, CandidateOK, IsCurrent
<1>3. SweepProgress' /\ LaneProgress' /\ AttemptProgress'
  BY DEF SweepProgress, LaneProgress, AttemptProgress
<1>4. CancelsTheWork' /\ GenerationsSuffice'
  BY DEF CancelsTheWork, GenerationsSuffice, Upserts, WorkForId
<1>5. GateIsHeld' /\ WorkIsCurrent' /\ PublicationsShowBacklog'
  BY DEF GateIsHeld, WorkIsCurrent, PublicationsShowBacklog, IsOperational
<1>6. LeasesOK'
  BY LeasesHaveTypes, OthersKeepLeases
<1>. QED
  BY <1>1, <1>2, <1>3, <1>4, <1>5, <1>6

LEMMA StopPublishesKeepsInvariant == ASSUME MInv, StopPublishes PROVE MInv'
<1>. USE DEF MInv, StopPublishes, unchangedByAttempt, stateVars, ledgerVars
<1>1. TypeOK' /\ PreparedOK'
  BY DEF TypeOK, PreparedOK, leaseVars
<1>2. RowsHaveDeadlines' /\ RowsCounted' /\ CandidatesWereDue'
  BY DEF RowsHaveDeadlines, RowsCounted, RowsOf, CandidatesWereDue, CandidateOK, IsCurrent
<1>3. SweepProgress' /\ LaneProgress' /\ AttemptProgress'
  BY DEF SweepProgress, LaneProgress, AttemptProgress
<1>4. CancelsTheWork' /\ GenerationsSuffice'
  BY DEF CancelsTheWork, GenerationsSuffice, Upserts, WorkForId
<1>5. GateIsHeld' /\ WorkIsCurrent' /\ PublicationsShowBacklog'
  BY LanesAreProcesses DEF GateIsHeld, WorkIsCurrent, PublicationsShowBacklog
<1>6. LeasesOK'
  BY LeasesHaveTypes, OthersKeepLeases
<1>. QED
  BY <1>1, <1>2, <1>3, <1>4, <1>5, <1>6

LEMMA StutterKeepsInvariant == ASSUME MInv, UNCHANGED vars PROVE MInv'
<1>. USE DEF MInv, vars, stateVars, ledgerVars, statusVars, attemptVars
<1>1. TypeOK' /\ PreparedOK'
  BY DEF TypeOK, PreparedOK, leaseVars
<1>2. RowsHaveDeadlines' /\ RowsCounted' /\ CandidatesWereDue'
  BY DEF RowsHaveDeadlines, RowsCounted, RowsOf, CandidatesWereDue, CandidateOK, IsCurrent
<1>3. SweepProgress' /\ LaneProgress' /\ AttemptProgress'
  BY DEF SweepProgress, LaneProgress, AttemptProgress
<1>4. CancelsTheWork' /\ GenerationsSuffice'
  BY DEF CancelsTheWork, GenerationsSuffice, Upserts, WorkForId
<1>5. GateIsHeld' /\ WorkIsCurrent' /\ PublicationsShowBacklog'
  BY DEF GateIsHeld, WorkIsCurrent, PublicationsShowBacklog, IsOperational
<1>6. LeasesOK'
  BY LeasesHaveTypes, OthersKeepLeases
<1>. QED
  BY <1>1, <1>2, <1>3, <1>4, <1>5, <1>6

-----------------------------------------------------------------------------
(* The theorems *)

LEMMA InvariantHolds == Spec => []MInv
<1>1. Init => MInv
  BY InitEstablishesInvariant
<1>2. MInv /\ [Next]_vars => MInv'
  <2>. SUFFICES ASSUME MInv, [Next]_vars PROVE MInv'
    OBVIOUS
  <2>1. CASE Tick \/ BeginSweep \/ BecomeReady \/ StopBegins \/ StopPublishes
    BY <2>1, TickKeepsInvariant, BeginSweepKeepsInvariant, BecomeReadyKeepsInvariant,
       StopBeginsKeepsInvariant, StopPublishesKeepsInvariant
  <2>2. CASE SweepStep
    BY <2>2, LanesAreProcesses, NextCandidateKeepsInvariant, EndSweepKeepsInvariant, ExecuteKeepsInvariant,
       PublishSweepKeepsInvariant, InactiveKeepsInvariant, SweepInterruptedKeepsInvariant,
       GrantedKeepsInvariant DEF SweepStep
  <2>3. CASE AttemptStep
    BY <2>3, EndAttemptKeepsInvariant, AttemptClosedKeepsInvariant DEF AttemptStep
  <2>4. ASSUME NEW l \in Lanes, Reject(l) \/ LaneFails(l) \/ \E k \in Keys : Prepare(l, k) PROVE MInv'
    BY <2>4, RejectKeepsInvariant, LaneFailsKeepsInvariant, PrepareKeepsInvariant
  <2>5. ASSUME NEW l \in Lanes, LaneStep(l) PROVE MInv'
    BY <2>5, LanesAreProcesses, ApplyDeliveryKeepsInvariant, PublishLaneKeepsInvariant,
       LaneInterruptedKeepsInvariant, ReleaseTransitionKeepsInvariant, GrantedKeepsInvariant DEF LaneStep
  <2>6. CASE UNCHANGED vars
    BY <2>6, StutterKeepsInvariant
  <2>. QED
    BY <2>1, <2>2, <2>3, <2>4, <2>5, <2>6 DEF Next
<1>. QED
  BY <1>1, <1>2, PTL DEF Spec

\* The rows, the lanes, the sweep and the registry have their types, for any
\* keys, regions and bounds.
THEOREM TypesHold == Spec => []TypeOK
<1>1. MInv => TypeOK
  BY DEF MInv
<1>. QED
  BY <1>1, InvariantHolds, PTL

\* Every row has its deadline, every deadline its row, and each region's count
\* is the number of its rows, although deliveries and expiries of a key are
\* prepared long before they take effect (reduceKafkaRetentionState).
THEOREM DeadlinesAreExact == Spec => []DeadlinesExact
<1>1. ASSUME MInv PROVE DeadlinesExact
  <2>1. \A k \in Keys : IF rows[k] = NoRow THEN deadlines[k] = NoDeadline ELSE deadlines[k] = rows[k]
    BY <1>1 DEF MInv, RowsHaveDeadlines
  <2>2. \A l \in Lanes : trackedRows[l] = Cardinality({k \in Keys : LaneOf[k] = l /\ rows[k] # NoRow})
    BY <1>1 DEF MInv, RowsCounted, RowsOf
  <2>. QED
    BY <2>1, <2>2 DEF DeadlinesExact
<1>. QED
  BY <1>1, InvariantHolds, PTL

\* The two ledgers of failed work agree, hold work of current deadlines only,
\* and degrade the source: work that is cancelled was read before its lease was
\* granted, and rejections publish without the gate (publishDegradationLedger).
THEOREM BacklogIsShown == Spec => []BacklogShown
<1>1. ASSUME MInv PROVE BacklogShown
  <2>1. /\ failedMaintenanceWork = failedWork
        /\ gate = Nobody /\ active /\ ~closing /\ failedWork # {} => status.tag = "Degraded"
    BY <1>1 DEF MInv, WorkIsCurrent, PublicationsShowBacklog
  <2>2. ASSUME NEW w \in failedWork PROVE w \in UNION {WorkForId(k) : k \in Keys}
    <3>1. w[1] \in Keys /\ deadlines[w[1]] # NoDeadline /\ w = WorkId(deadlines[w[1]])
      BY <1>1 DEF MInv, WorkIsCurrent, TypeOK
    <3>2. w \in WorkForId(w[1])
      BY <3>1 DEF WorkForId
    <3>. QED
      BY <3>1, <3>2
  <2>. QED
    BY <2>1, <2>2 DEF BacklogShown
<1>. QED
  BY <1>1, InvariantHolds, PTL

\* A queue without duplicates is as long as the set of its waiters.
LEMMA QueueLength ==
    ASSUME NEW S, NEW s \in Seq(S), \A m, n \in 1..Len(s) : s[m] = s[n] => m = n,
           NEW T, \A x : x \in T <=> Contains(s, x)
    PROVE  IsFiniteSet(T) /\ Cardinality(T) = Len(s)
<1>1. Len(s) \in Nat /\ s \in [1..Len(s) -> S]
  BY LenProperties
<1>2. s \in Surjection(1..Len(s), T)
  <2>1. s \in [1..Len(s) -> T] /\ \A x \in T : \E i \in 1..Len(s) : s[i] = x
    BY <1>1 DEF Contains
  <2>. QED
    BY <2>1 DEF Surjection
<1>3. s \in Injection(1..Len(s), T)
  BY <1>2 DEF Injection, Surjection, IsInjective
<1>4. IsFiniteSet(1..Len(s)) /\ Cardinality(1..Len(s)) = Len(s)
  BY <1>1, FS_Interval
<1>. QED
  BY <1>2, <1>3, <1>4, FS_Surjection

\* A lease that is held has one owner; its users are the owner and the waiters,
\* whoever is interrupted before or after it was granted, fails with it or
\* leaves it to the end of the attempt (releaseKafkaKeyLeaseOwnership,
\* removeKafkaKeyLeaseWaiter).
THEOREM LeasesAreExact == Spec => []LeasesExact
<1>1. ASSUME MInv, NEW k \in Keys
      PROVE  LET claimants == {p \in Processes : want[p] = k}
                 owners == {p \in claimants : ~Queued(p)}
             IN  /\ users[k] = Cardinality(claimants)
                 /\ Cardinality(owners) = IF held[k] THEN 1 ELSE 0
                 /\ Len(queue[k]) = Cardinality(claimants \ owners)
  <2>. DEFINE claimants == {p \in Processes : want[p] = k}
              owners == {p \in claimants : ~Queued(p)}
              waiters == claimants \ owners
  <2>1. LeaseOK(k) /\ queue[k] \in Seq(Processes) /\ k # NoKey
    BY <1>1, NoKeyIsNoKey DEF MInv, LeasesOK, TypeOK
  <2>2. \A p : p \in owners <=> p \in Processes /\ Owns(p, k)
    BY <2>1 DEF Owns, Queued
  <2>3. \A p : Contains(queue[k], p) => p \in Processes /\ want[p] = k
    BY <1>1, LeasesHaveTypes, QueuedWaits DEF MInv
  <2>4. \A p : p \in waiters <=> Contains(queue[k], p)
    BY <2>1, <2>3 DEF Queued
  <2>5. claimants = owners \union waiters /\ owners \intersect waiters = {}
    OBVIOUS
  <2>. HIDE DEF claimants, owners, waiters
  <2>6. IsFiniteSet(waiters) /\ Cardinality(waiters) = Len(queue[k])
    <3>1. \A m, n \in 1..Len(queue[k]) : queue[k][m] = queue[k][n] => m = n
      BY <2>1 DEF LeaseOK
    <3>. QED
      BY <2>1, <2>4, <3>1, QueueLength
  <2>7. IsFiniteSet(owners) /\ Cardinality(owners) = IF held[k] THEN 1 ELSE 0
    <3>1. CASE held[k]
      <4>1. PICK p \in Processes : Owns(p, k)
        BY <2>1, <3>1 DEF LeaseOK
      <4>2. owners = {p}
        BY <2>1, <2>2, <4>1 DEF LeaseOK
      <4>. QED
        BY <3>1, <4>2, FS_Singleton
    <3>2. CASE ~held[k]
      <4>1. owners = {}
        BY <2>1, <2>2, <3>2 DEF LeaseOK
      <4>. QED
        BY <3>2, <4>1, FS_EmptySet
    <3>. QED
      BY <3>1, <3>2
  <2>8. Cardinality(claimants) = Cardinality(owners) + Cardinality(waiters)
    <3>1. Cardinality(claimants) = Cardinality(owners) + Cardinality(waiters) - Cardinality({})
      BY <2>5, <2>6, <2>7, FS_Union
    <3>2. Cardinality(owners) \in Nat /\ Cardinality(waiters) \in Nat
      BY <2>6, <2>7, FS_CardinalityType
    <3>. QED
      BY <3>1, <3>2, FS_EmptySet
  <2>9. Len(queue[k]) \in Nat /\ users[k] = Len(queue[k]) + (IF held[k] THEN 1 ELSE 0)
    BY <2>1, LenProperties DEF LeaseOK
  <2>10. users[k] = Cardinality(claimants)
    <3>1. users[k] = Cardinality(waiters) + Cardinality(owners)
      BY <2>6, <2>7, <2>9
    <3>2. Cardinality(owners) \in Nat /\ Cardinality(waiters) \in Nat
      BY <2>6, <2>7, FS_CardinalityType
    <3>. QED
      BY <2>8, <3>1, <3>2
  <2>. QED
    BY <2>6, <2>7, <2>10 DEF claimants, owners, waiters
<1>2. MInv => LeasesExact
  BY <1>1 DEF LeasesExact
<1>. QED
  BY <1>2, InvariantHolds, PTL

\* What a step does under the gate of the sweep.
ExpiresItsRow ==
    gate' = Sweeper =>
        /\ active /\ IsOperational
        /\ \A k \in Keys : rows'[k] # rows[k] => rows[k] = candidate /\ candidate.deadlineNanos <= now

LEMMA StepExpiresItsRow == ASSUME MInv, [Next]_vars PROVE [ExpiresItsRow]_vars
<1>. SUFFICES ASSUME gate' = Sweeper, Next
              PROVE  /\ active /\ IsOperational
                     /\ \A k \in Keys : rows'[k] # rows[k] =>
                           rows[k] = candidate /\ candidate.deadlineNanos <= now
  BY DEF ExpiresItsRow
<1>1. Execute \/ (gate = Sweeper /\ rows' = rows)
  <2>1. CASE Tick \/ BeginSweep \/ BecomeReady \/ StopBegins \/ StopPublishes
    BY <2>1 DEF Tick, BeginSweep, BecomeReady, StopBegins, StopPublishes, stateVars, unchangedByAttempt
  <2>2. CASE SweepStep
    BY <2>2, LanesAreProcesses DEF SweepStep, NextCandidate, EndSweep, PublishSweep, Inactive, SweepInterrupted,
       Granted, stateVars
  <2>3. CASE AttemptStep
    BY <2>3 DEF AttemptStep, EndAttempt, AttemptClosed, unchangedByAttempt, stateVars
  <2>4. ASSUME NEW l \in Lanes, Reject(l) \/ LaneFails(l) \/ \E k \in Keys : Prepare(l, k)
        PROVE  gate = Sweeper /\ rows' = rows
    BY <2>4 DEF Reject, LaneFails, Prepare, stateVars
  <2>5. ASSUME NEW l \in Lanes, LaneStep(l) PROVE gate = Sweeper /\ rows' = rows
    BY <2>5, LanesAreProcesses DEF LaneStep, ApplyDelivery, PublishLane, LaneInterrupted, ReleaseTransition,
       Granted, stateVars, unchangedByAttempt, attemptVars
  <2>. QED
    BY <2>1, <2>2, <2>3, <2>4, <2>5 DEF Next
<1>2. CASE gate = Sweeper /\ rows' = rows
  BY <1>2 DEF MInv, GateIsHeld
<1>3. CASE Execute
  <2>1. active /\ IsOperational /\ phase[Sweeper] = "leased"
    BY <1>3 DEF Execute
  <2>2. candidate \in Deadline /\ CandidateOK(candidate)
    BY <2>1 DEF MInv, SweepProgress, CandidatesWereDue, TypeOK
  <2>3. ASSUME NEW k \in Keys, rows'[k] # rows[k]
        PROVE  rows[k] = candidate /\ candidate.deadlineNanos <= now
    <3>1. ExpirationSucceeds(candidate)
      BY <1>3, <2>3 DEF Execute, ExpirationFails, ExpirationStale
    <3>2. k = candidate.id
      BY <2>3, <3>1 DEF ExpirationSucceeds, MInv, TypeOK
    <3>3. deadlines[k] = candidate /\ deadlines[k] # NoDeadline
      BY <2>2, <3>1, <3>2 DEF ExpirationSucceeds, CandidateOK, IsCurrent
    <3>. QED
      BY <2>2, <3>3 DEF MInv, RowsHaveDeadlines, CandidateOK
  <2>. QED
    BY <2>1, <2>3
<1>. QED
  BY <1>1, <1>2, <1>3

\* Whoever publishes, fails or stops meanwhile, a maintenance operation deletes
\* the row whose deadline was found due, or no row, and only while the source
\* is operational (isCurrent and runMaintenance under the lifecycle gate).
THEOREM ExpiryHitsRow == Spec => ExpiryHitsItsRow
<1>1. MInv /\ [Next]_vars => [ExpiresItsRow]_vars
  BY StepExpiresItsRow
<1>2. [ExpiresItsRow]_vars =>
         [gate' = Sweeper =>
             /\ active /\ IsOperational
             /\ \A k \in Keys : rows'[k] # rows[k] => rows[k] = candidate /\ candidate.deadlineNanos <= now]_vars
  BY DEF ExpiresItsRow
<1>. QED
  BY <1>1, <1>2, InvariantHolds, PTL DEF Spec, ExpiryHitsItsRow

=============================================================================
