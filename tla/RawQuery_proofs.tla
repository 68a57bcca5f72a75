-------------------------- MODULE RawQuery_proofs ---------------------------
(***************************************************************************)
(* Proofs about the two parts of a raw query's live execution: the row     *)
(* change journal it catches up from (TopicRowChangeJournal) and the       *)
(* window of rows it retains (RetainedWindow).  Both rest on the same      *)
(* recursions, from the well-foundedness of the naturals.                  *)
(***************************************************************************)
EXTENDS TopicRowChangeJournal, RetainedWindow,
        FiniteSetTheorems, SequenceTheorems, WellFoundedInduction, TLAPS

-----------------------------------------------------------------------------
(* Induction and recursion, from the well-foundedness of the naturals *)

\* A set of numbers that is not empty has a least one.
LEMMA LeastNumber ==
  ASSUME NEW T \in SUBSET Nat, T # {}
  PROVE \E x \in T : \A y \in T : x <= y
<1>. DEFINE R == {ss \in Nat \X Nat : ss[1] < ss[2]}
<1>1. R = OpToRel(<,Nat)
  BY DEF OpToRel
<1>2. IsWellFoundedOn(R, Nat)
  BY <1>1, NatLessThanWellFounded
<1>3. \A x, y \in Nat : y < x => <<y, x>> \in R
  OBVIOUS
<1>. HIDE DEF R
<1>4. \E x \in T : \A y \in T : ~ (<<y, x>> \in R)
  BY <1>2, WFMin
<1>5. PICK x \in T : \A y \in T : ~ (<<y, x>> \in R)
  BY <1>4
<1>6. \A y \in T : ~(y < x)
  BY <1>3, <1>5
<1>7. \A y \in T : x <= y
  BY <1>6
<1>. QED
  BY <1>7

\* Induction from 0 to n.
LEMMA Induction ==
  ASSUME NEW n \in Nat, NEW P, 0 \in P, \A i \in 1..n : i - 1 \in P => i \in P
  PROVE  \A i \in 0..n : i \in P
<1>. DEFINE T == {i \in 0..n : i \notin P}
<1>. SUFFICES ASSUME T # {} PROVE FALSE
  OBVIOUS
<1>0. T \in SUBSET Nat
  OBVIOUS
<1>1. PICK x \in T : \A y \in T : x <= y
  <2>. HIDE DEF T
  <2>. QED BY <1>0, LeastNumber
<1>2. x \in 1..n /\ x - 1 \in 0..n
  BY <1>1
<1>3. x - 1 \in P
  BY <1>1, <1>2
<1>. QED
  BY <1>1, <1>2, <1>3

\* The function f of 0..n is defined from first and, by g, from its value before.
IsRecursive(f, S, first, n, g) ==
  f \in [0..n -> S] /\ f[0] = first /\ \A i \in 1..n : f[i] = g[<<f[i - 1], i>>]

\* Such a function exists.
LEMMA Recursion ==
  ASSUME NEW S, NEW first \in S, NEW n \in Nat, NEW g \in [S \X (1..n) -> S]
  PROVE  \E f : IsRecursive(f, S, first, n, g)
<1>. DEFINE IsUpTo(f, k) == f[0] = first /\ \A i \in 1..k : f[i] = g[<<f[i - 1], i>>]
            P == {k \in 0..n : \E f \in [0..k -> S] : IsUpTo(f, k)}
<1>1. 0 \in P
  <2>1. [i \in 0..0 |-> first] \in [0..0 -> S] /\ IsUpTo([i \in 0..0 |-> first], 0)
    OBVIOUS
  <2>. HIDE DEF IsUpTo
  <2>. QED
    BY <2>1
<1>2. ASSUME NEW k \in 1..n, k - 1 \in P
      PROVE  k \in P
  <2>1. PICK f \in [0..(k - 1) -> S] : IsUpTo(f, k - 1)
    BY <1>2
  <2>. DEFINE h == [i \in 0..k |-> IF i = k THEN g[<<f[k - 1], k>>] ELSE f[i]]
  <2>2. f[k - 1] \in S /\ g[<<f[k - 1], k>>] \in S
    OBVIOUS
  <2>3. h \in [0..k -> S]
    BY <2>2
  <2>4. h[0] = first
    BY <2>1
  <2>5. \A i \in 1..(k - 1) : h[i] = f[i] /\ h[i - 1] = f[i - 1]
    OBVIOUS
  <2>6. h[k] = g[<<f[k - 1], k>>] /\ h[k - 1] = f[k - 1]
    OBVIOUS
  <2>. HIDE DEF h
  <2>7. \A i \in 1..(k - 1) : h[i] = g[<<h[i - 1], i>>]
    BY <2>1, <2>5
  <2>8. IsUpTo(h, k)
    BY <2>4, <2>6, <2>7
  <2>. HIDE DEF IsUpTo
  <2>. QED
    BY <2>3, <2>8
<1>. HIDE DEF P
<1>3. n \in P
  BY <1>1, <1>2, Induction
<1>. QED
  BY <1>3 DEF P, IsRecursive
-----------------------------------------------------------------------------
(* The inductive invariant *)

Increasing(batches) ==
    \A i, k \in DOMAIN batches : i < k => batches[i].version < batches[k].version

\* A journal that nobody retains is empty.
UnusedIsEmpty(j) ==
    journal[j].refs = 0 =>
        journal[j].batches = <<>> /\ journal[j].pending = <<>> /\ ~journal[j].overflowed

\* One that overflowed hears the mutation under way, and is valid after it only.
OverflowIsNow(j) ==
    journal[j].overflowed =>
        /\ batch # Idle /\ Hears(j, batch.route)
        /\ journal[j].batches = <<>> /\ journal[j].pending = <<>>
        /\ journal[j].invalidBefore = version + 1

\* Otherwise it has what it heard of the mutation under way.
PendingIsHeard(j) ==
    journal[j].refs > 0 /\ ~journal[j].overflowed =>
        journal[j].pending = IF Hears(j, batch.route) THEN batch.changes ELSE <<>>

\* The batches of a journal are committed ones that it was to hear, in their order.
BatchesAreLogged(j) ==
    /\ Increasing(journal[j].batches)
    /\ \A i \in DOMAIN journal[j].batches :
        LET b == journal[j].batches[i]
        IN  /\ b.version \in DOMAIN batchLog
            /\ Hears(j, batchLog[b.version].route)
            /\ b.changes = batchLog[b.version].changes

\* From where a journal answers, no batch that it was to hear is missing.
Covers(j, u) ==
    /\ u > journal[j].invalidBefore
    /\ Sparse(j) \/ (journal[j].batches # <<>> /\ u >= Head(journal[j].batches).version)

NoneIsMissing(j) ==
    journal[j].refs > 0 =>
        \A u \in DOMAIN batchLog : Hears(j, batchLog[u].route) /\ Covers(j, u) =>
            \E i \in DOMAIN journal[j].batches : journal[j].batches[i].version = u

ChangesAreCounted(j) == journal[j].changeCount = ChangesIn(journal[j].batches)

\* Within its limits a journal has dropped nothing since it was retained.
NothingIsDropped(j) ==
    journal[j].refs > 0 =>
        /\ retainedAt[j] <= version
        /\ WithinLimits(j) =>
            /\ ~journal[j].overflowed
            /\ journal[j].invalidBefore = retainedAt[j]
            /\ journal[j].batches = Heard(batchLog, j, retainedAt[j])

\* Versions number the log, and a mutation under way has changed something.
LogIsNumbered == Len(batchLog) = version /\ (batch = Idle \/ batch.changes # <<>>)

JournalExact(j) ==
    /\ UnusedIsEmpty(j)
    /\ OverflowIsNow(j)
    /\ PendingIsHeard(j)
    /\ BatchesAreLogged(j)
    /\ NoneIsMissing(j)
    /\ ChangesAreCounted(j)
    /\ NothingIsDropped(j)

JInv == JournalTypeOK /\ LogIsNumbered /\ \A j \in Journals : JournalExact(j)

-----------------------------------------------------------------------------
(* Sequences of batches *)

\* r lists the batches of W by their versions.
IsBatchListing(r, W) ==
    /\ r \in Seq(Batch)
    /\ Increasing(r)
    /\ \A k \in DOMAIN r : r[k] \in W
    /\ \A b \in W : \E k \in DOMAIN r : r[k] = b

\* There is one such list.
LEMMA ListingDetermined ==
    ASSUME NEW s, NEW t, NEW W, IsBatchListing(s, W), IsBatchListing(t, W)
    PROVE  s = t
<1>. DEFINE m == Len(s)
            n == Len(t)
            T == {i \in 1..m : i > n \/ s[i] # t[i]}
<1>0. s \in Seq(Batch) /\ t \in Seq(Batch)
  BY DEF IsBatchListing
<1>1. m \in Nat /\ n \in Nat /\ DOMAIN s = 1..m /\ DOMAIN t = 1..n
  BY <1>0
<1>2. /\ \A i \in 1..m : s[i] \in Batch
      /\ \A i \in 1..n : t[i] \in Batch
  BY <1>0
<1>3. /\ \A i \in 1..m : s[i].version \in Nat
      /\ \A i \in 1..n : t[i].version \in Nat
  BY <1>2 DEF Batch
<1>4. /\ \A i, k \in 1..m : i < k => s[i].version < s[k].version
      /\ \A i, k \in 1..n : i < k => t[i].version < t[k].version
  BY <1>1 DEF IsBatchListing, Increasing
<1>5. /\ \A i \in 1..m : \E k \in 1..n : t[k] = s[i]
      /\ \A k \in 1..n : \E i \in 1..m : s[i] = t[k]
  BY <1>1 DEF IsBatchListing
<1>6. m = n /\ (\A i \in 1..m : s[i] = t[i]) => s = t
  BY <1>0, SeqEqual
<1>. HIDE DEF m, n
<1>7. T = {}
  <2>. SUFFICES ASSUME T # {} PROVE FALSE
    OBVIOUS
  <2>1. PICK x \in T : \A y \in T : x <= y
    <3>1. T \in SUBSET Nat
      BY <1>1
    <3>. HIDE DEF T
    <3>. QED
      BY <3>1, LeastNumber
  <2>2. x \in 1..m /\ (x > n \/ s[x] # t[x]) /\ \A i \in 1..m : i < x => i <= n /\ s[i] = t[i]
    BY <1>1, <2>1
  <2>. HIDE DEF T
  <2>3. PICK k \in 1..n : t[k] = s[x]
    BY <1>5, <2>2
  <2>4. x <= k
    <3>. SUFFICES ASSUME k < x PROVE FALSE
      BY <1>1, <2>2
    <3>1. k \in 1..m /\ s[k] = t[k]
      BY <1>1, <2>2
    <3>2. s[k].version < s[x].version
      BY <1>4, <2>2, <3>1
    <3>. QED
      BY <1>3, <2>2, <2>3, <3>1, <3>2
  <2>5. x \in 1..n /\ s[x] # t[x] /\ x < k
    BY <1>1, <2>2, <2>3, <2>4
  <2>6. PICK i \in 1..m : s[i] = t[x]
    BY <1>5, <2>5
  <2>7. t[x].version < t[k].version
    BY <1>4, <2>5
  <2>8. i < x
    <3>. SUFFICES ASSUME x <= i PROVE FALSE
      BY <1>1, <2>2
    <3>1. x = i \/ s[x].version < s[i].version
      BY <1>1, <1>4, <2>2
    <3>2. x # i
      BY <2>5, <2>6
    <3>3. s[x].version = t[k].version /\ s[i].version = t[x].version
      BY <2>3, <2>6
    <3>4. s[x].version < s[i].version
      BY <3>1, <3>2
    <3>5. s[x].version \in Nat /\ s[i].version \in Nat
      BY <1>3, <2>2, <2>6
    <3>6. s[i].version < s[x].version
      BY <2>7, <3>3
    <3>7. \A a, b \in Nat : ~(a < b /\ b < a)
      OBVIOUS
    <3>. QED
      BY <3>4, <3>5, <3>6, <3>7, Zenon
  <2>9. i \in 1..n /\ t[i] = t[x] /\ t[i].version < t[x].version
    <3>1. i \in 1..n /\ s[i] = t[i]
      BY <1>1, <2>2, <2>8
    <3>. QED
      BY <1>4, <2>5, <2>6, <2>8, <3>1
  <2>. QED
    BY <1>3, <2>5, <2>9
<1>8. m <= n /\ \A i \in 1..m : s[i] = t[i]
  <2>1. \A i \in 1..m : ~(i > n) /\ s[i] = t[i]
    BY <1>7
  <2>. QED
    BY <1>1, <2>1
<1>9. n <= m
  <2>. SUFFICES ASSUME m < n PROVE FALSE
    BY <1>1
  <2>1. m + 1 \in 1..n
    BY <1>1
  <2>2. PICK i \in 1..m : s[i] = t[m + 1]
    BY <1>5, <2>1
  <2>3. i \in 1..n /\ i < m + 1 /\ t[i] = t[m + 1]
    BY <1>1, <1>8, <2>1, <2>2
  <2>4. t[i].version < t[m + 1].version
    BY <1>4, <2>1, <2>3
  <2>. QED
    BY <1>3, <2>1, <2>3, <2>4
<1>. QED
  BY <1>1, <1>6, <1>8, <1>9

\* A batch of a later version comes last.
LEMMA ListingAppend ==
    ASSUME NEW r, NEW W, IsBatchListing(r, W), NEW b \in Batch, \A c \in W : c.version < b.version
    PROVE  IsBatchListing(Append(r, b), W \union {b})
<1>. DEFINE a == Append(r, b)
<1>0. r \in Seq(Batch) /\ Increasing(r) /\ \A k \in DOMAIN r : r[k].version < b.version
  BY DEF IsBatchListing
<1>1. /\ a \in Seq(Batch) /\ Len(a) = Len(r) + 1 /\ Len(r) \in Nat /\ DOMAIN a = 1..(Len(r) + 1)
      /\ DOMAIN r = 1..Len(r) /\ a[Len(r) + 1] = b /\ \A k \in 1..Len(r) : a[k] = r[k]
  BY <1>0, AppendProperties
<1>. HIDE DEF a
<1>2. Increasing(a)
  BY <1>0, <1>1 DEF Increasing
<1>3. \A k \in DOMAIN a : a[k] \in W \union {b}
  BY <1>1 DEF IsBatchListing
<1>4. \A c \in W : \E k \in DOMAIN a : a[k] = c
  <2>1. \A k \in DOMAIN r : k \in DOMAIN a /\ a[k] = r[k]
    BY <1>1
  <2>. QED
    BY <2>1 DEF IsBatchListing
<1>5. Len(r) + 1 \in DOMAIN a
  BY <1>1
<1>. QED
  BY <1>1, <1>2, <1>3, <1>4, <1>5 DEF IsBatchListing, a

\* Nothing is listed by the empty sequence only.
LEMMA ListingOfNone ==
    /\ IsBatchListing(<<>>, {})
    /\ \A r : IsBatchListing(r, {}) => r = <<>>
<1>1. IsBatchListing(<<>>, {})
  BY DEF IsBatchListing, Increasing
<1>. QED
  BY <1>1, ListingDetermined

\* What the loop of changesSince has collected after each batch.
IsCollected(newer, batches, v) ==
    /\ newer \in [0..Len(batches) -> Seq(Batch)]
    /\ newer[0] = <<>>
    /\ \A i \in 1..Len(batches) :
        newer[i] = IF batches[i].version > v THEN Append(newer[i - 1], batches[i])
                   ELSE newer[i - 1]

\* What ChangesSince computes is the last of these.
LEMMA ChangesSinceIsLast ==
    ASSUME NEW j, j.batches \in Seq(Batch), NEW v
    PROVE  \E newer : /\ IsCollected(newer, j.batches, v)
                      /\ ChangesSince(j, v) = newer[Len(j.batches)]
<1>. DEFINE s == j.batches
            n == Len(s)
            Next1(r, i) == IF s[i].version > v THEN Append(r, s[i]) ELSE r
            Step(f) == [i \in 0..n |-> IF i = 0 THEN <<>> ELSE Next1(f[i - 1], i)]
            g == [x \in Seq(Batch) \X (1..n) |-> Next1(x[1], x[2])]
<1>0. n \in Nat /\ \A i \in 1..n : s[i] \in Batch
  OBVIOUS
<1>1. \A r \in Seq(Batch), i \in 1..n : Next1(r, i) \in Seq(Batch)
  BY <1>0, AppendProperties
<1>2. g \in [Seq(Batch) \X (1..n) -> Seq(Batch)]
  BY <1>1
<1>3. \A r \in Seq(Batch), i \in 1..n : g[<<r, i>>] = Next1(r, i)
  OBVIOUS
<1>4. \E f : IsRecursive(f, Seq(Batch), <<>>, n, g)
  <2>1. <<>> \in Seq(Batch)
    OBVIOUS
  <2>. HIDE DEF g, n
  <2>. QED
    BY <1>0, <1>2, <2>1, Recursion
<1>. HIDE DEF g
<1>5. PICK f \in [0..n -> Seq(Batch)] :
          f[0] = <<>> /\ \A i \in 1..n : f[i] = g[<<f[i - 1], i>>]
  BY <1>4 DEF IsRecursive
<1>6. f = Step(f)
  <2>1. \A i \in 1..n : f[i - 1] \in Seq(Batch)
    <3>. HIDE DEF n, Step
    <3>. QED BY <1>0, <1>5
  <2>2. \A i \in 1..n : f[i] = Next1(f[i - 1], i)
    <3>. HIDE DEF Next1, n
    <3>. QED BY <1>3, <1>5, <2>1
  <2>. HIDE DEF n, Next1
  <2>3. \A i \in 0..n : f[i] = IF i = 0 THEN <<>> ELSE Next1(f[i - 1], i)
    BY <1>0, <1>5, <2>2
  <2>. QED
    BY <1>5, <2>3
<1>. DEFINE newer == CHOOSE a : a = Step(a)
<1>7. newer = Step(newer)
  BY <1>6
<1>8. ChangesSince(j, v) = newer[n]
  BY DEF ChangesSince
<1>. HIDE DEF newer
<1>9. newer[0] = <<>>
  BY <1>0, <1>7
<1>10. \A i \in 1..n : newer[i] = Next1(newer[i - 1], i)
  <2>. HIDE DEF n, Next1
  <2>. QED BY <1>0, <1>7
<1>11. \A i \in 0..n : newer[i] \in Seq(Batch)
  <2>. DEFINE P == {i \in 0..n : newer[i] \in Seq(Batch)}
  <2>. HIDE DEF n, Next1
  <2>1. 0 \in P
    <3>1. <<>> \in Seq(Batch)
      OBVIOUS
    <3>2. newer[0] \in Seq(Batch)
      BY <1>9, <3>1, Zenon
    <3>3. 0 \in 0..n
      BY <1>0
    <3>. QED
      BY <3>2, <3>3
  <2>2. ASSUME NEW i \in 1..n, i - 1 \in P
        PROVE  i \in P
    <3>1. newer[i] \in Seq(Batch)
      BY <1>1, <1>10, <2>2
    <3>. QED
      BY <1>0, <3>1
  <2>. HIDE DEF P
  <2>3. \A i \in 0..n : i \in P
    BY <1>0, <2>1, <2>2, Induction
  <2>. QED
    BY <2>3 DEF P
<1>12. newer \in [0..n -> Seq(Batch)]
  BY <1>7, <1>11
<1>. QED
  BY <1>8, <1>9, <1>10, <1>12 DEF IsCollected

LaterBatches(batches, m, v) == {batches[i] : i \in {i \in 1..m : batches[i].version > v}}

\* ChangesSince keeps the batches of later versions, in their order.
LEMMA ChangesSinceLists ==
    ASSUME NEW j, j.batches \in Seq(Batch), Increasing(j.batches), NEW v
    PROVE  IsBatchListing(ChangesSince(j, v), LaterBatches(j.batches, Len(j.batches), v))
<1>. DEFINE s == j.batches
            n == Len(s)
            W(m) == LaterBatches(s, m, v)
<1>1. PICK newer : IsCollected(newer, s, v) /\ ChangesSince(j, v) = newer[n]
  BY ChangesSinceIsLast
<1>2. n \in Nat /\ DOMAIN s = 1..n /\ \A i \in 1..n : s[i] \in Batch
  OBVIOUS
<1>. DEFINE P == {m \in 0..n : IsBatchListing(newer[m], W(m))}
<1>. HIDE DEF n
<1>3. 0 \in P
  <2>1. W(0) = {}
    BY DEF LaterBatches
  <2>2. newer[0] = <<>> /\ 0 \in 0..n
    BY <1>1, <1>2 DEF IsCollected
  <2>. HIDE DEF W
  <2>3. IsBatchListing(newer[0], W(0))
    BY <2>1, <2>2, ListingOfNone
  <2>. QED
    BY <2>2, <2>3
<1>4. ASSUME NEW m \in 1..n, m - 1 \in P
      PROVE  m \in P
  <2>1. m \in 0..n /\ m - 1 \in Nat /\ s[m] \in Batch
    BY <1>2
  <2>2. newer[m] = IF s[m].version > v THEN Append(newer[m - 1], s[m]) ELSE newer[m - 1]
    BY <1>1, <1>2 DEF IsCollected, n
  <2>3. W(m) = IF s[m].version > v THEN W(m - 1) \union {s[m]} ELSE W(m - 1)
    <3>1. 1..m = 1..(m - 1) \union {m}
      BY <2>1
    <3>. QED
      BY <3>1 DEF LaterBatches
  <2>4. \A c \in W(m - 1) : c.version < s[m].version
    BY <1>2, <2>1 DEF LaterBatches, Increasing
  <2>. HIDE DEF W, s
  <2>5. IsBatchListing(newer[m - 1], W(m - 1))
    BY <1>4
  <2>6. s[m].version > v => IsBatchListing(Append(newer[m - 1], s[m]), W(m - 1) \union {s[m]})
    BY <2>1, <2>4, <2>5, ListingAppend
  <2>7. IsBatchListing(newer[m], W(m))
    BY <2>2, <2>3, <2>5, <2>6, Zenon
  <2>. QED
    BY <2>1, <2>7
<1>5. IsBatchListing(newer[n], W(n))
  <2>. HIDE DEF P
  <2>1. \A m \in 0..n : m \in P
    BY <1>2, <1>3, <1>4, Induction
  <2>2. n \in P
    BY <1>2, <2>1
  <2>. QED
    BY <2>2 DEF P
<1>. QED
  BY <1>1, <1>5 DEF n

Logged == [route : Journals, changes : Changes]

\* The batch that version u of a history committed, as a journal records it.
BatchOf(history, u) == [version |-> u, changes |-> history[u].changes]

LEMMA BatchOfType ==
    ASSUME NEW history \in Seq(Logged), NEW u \in 1..Len(history)
    PROVE  BatchOf(history, u) \in Batch /\ BatchOf(history, u).version = u
<1>1. u \in Nat /\ history[u] \in Logged
  OBVIOUS
<1>2. history[u].changes \in Changes
  BY <1>1 DEF Logged
<1>. HIDE DEF Changes
<1>. QED
  BY <1>1, <1>2 DEF BatchOf, Batch

\* What Heard has collected after each version.
IsHeard(heard, history, j, v) ==
    /\ heard \in [0..Len(history) -> Seq(Batch)]
    /\ heard[0] = <<>>
    /\ \A u \in 1..Len(history) :
        heard[u] = IF u > v /\ Hears(j, history[u].route)
                   THEN Append(heard[u - 1], BatchOf(history, u))
                   ELSE heard[u - 1]

\* What Heard computes is the last of these.
LEMMA HeardIsLast ==
    ASSUME NEW history \in Seq(Logged), NEW j, NEW v
    PROVE  \E heard : /\ IsHeard(heard, history, j, v)
                      /\ Heard(history, j, v) = heard[Len(history)]
<1>. DEFINE n == Len(history)
            Next1(r, u) == IF u > v /\ Hears(j, history[u].route)
                           THEN Append(r, [version |-> u, changes |-> history[u].changes])
                           ELSE r
            Step(f) == [u \in 0..n |-> IF u = 0 THEN <<>> ELSE Next1(f[u - 1], u)]
            g == [x \in Seq(Batch) \X (1..n) |-> Next1(x[1], x[2])]
<1>0. n \in Nat /\ \A u \in 1..n : BatchOf(history, u) \in Batch
  BY BatchOfType
<1>1. \A r \in Seq(Batch), u \in 1..n : Next1(r, u) \in Seq(Batch)
  BY <1>0, AppendProperties DEF BatchOf
<1>2. g \in [Seq(Batch) \X (1..n) -> Seq(Batch)]
  BY <1>1
<1>3. \A r \in Seq(Batch), u \in 1..n : g[<<r, u>>] = Next1(r, u)
  OBVIOUS
<1>4. \E f : IsRecursive(f, Seq(Batch), <<>>, n, g)
  <2>1. <<>> \in Seq(Batch)
    OBVIOUS
  <2>. HIDE DEF g, n
  <2>. QED
    BY <1>0, <1>2, <2>1, Recursion
<1>. HIDE DEF g
<1>5. PICK f \in [0..n -> Seq(Batch)] :
          f[0] = <<>> /\ \A u \in 1..n : f[u] = g[<<f[u - 1], u>>]
  BY <1>4 DEF IsRecursive
<1>6. f = Step(f)
  <2>1. \A u \in 1..n : f[u - 1] \in Seq(Batch)
    BY <1>0, <1>5
  <2>. HIDE DEF n, Next1
  <2>2. \A u \in 1..n : f[u] = Next1(f[u - 1], u)
    BY <1>3, <1>5, <2>1
  <2>3. \A u \in 0..n : f[u] = IF u = 0 THEN <<>> ELSE Next1(f[u - 1], u)
    BY <1>0, <1>5, <2>2
  <2>. QED
    BY <1>5, <2>3
<1>. DEFINE heard == CHOOSE a : a = Step(a)
<1>7. heard = Step(heard)
  BY <1>6
<1>8. Heard(history, j, v) = heard[n]
  BY DEF Heard
<1>. HIDE DEF heard
<1>9. heard[0] = <<>>
  BY <1>0, <1>7
<1>10. \A u \in 1..n : heard[u] = Next1(heard[u - 1], u)
  <2>. HIDE DEF n, Next1
  <2>. QED BY <1>0, <1>7
<1>11. \A u \in 0..n : heard[u] \in Seq(Batch)
  <2>. DEFINE P == {u \in 0..n : heard[u] \in Seq(Batch)}
  <2>. HIDE DEF n, Next1
  <2>1. 0 \in P
    <3>1. <<>> \in Seq(Batch)
      OBVIOUS
    <3>2. heard[0] \in Seq(Batch)
      BY <1>9, <3>1, Zenon
    <3>3. 0 \in 0..n
      BY <1>0
    <3>. QED
      BY <3>2, <3>3
  <2>2. ASSUME NEW u \in 1..n, u - 1 \in P
        PROVE  u \in P
    <3>1. heard[u] \in Seq(Batch)
      BY <1>1, <1>10, <2>2
    <3>. QED
      BY <1>0, <3>1
  <2>. HIDE DEF P
  <2>3. \A u \in 0..n : u \in P
    BY <1>0, <2>1, <2>2, Induction
  <2>. QED
    BY <2>3 DEF P
<1>12. heard \in [0..n -> Seq(Batch)]
  BY <1>7, <1>11
<1>. QED
  BY <1>8, <1>9, <1>10, <1>12 DEF IsHeard, BatchOf

HeardBatches(history, m, j, v) ==
    {BatchOf(history, u) : u \in {u \in 1..m : u > v /\ Hears(j, history[u].route)}}

\* Heard has the batches a journal hears of later versions, in their order.
LEMMA HeardLists ==
    ASSUME NEW history \in Seq(Logged), NEW j, NEW v
    PROVE  IsBatchListing(Heard(history, j, v), HeardBatches(history, Len(history), j, v))
<1>. DEFINE n == Len(history)
            W(m) == HeardBatches(history, m, j, v)
            Wanted(u) == u > v /\ Hears(j, history[u].route)
            b(u) == BatchOf(history, u)
<1>1. PICK heard : IsHeard(heard, history, j, v) /\ Heard(history, j, v) = heard[n]
  BY HeardIsLast
<1>2. n \in Nat /\ \A u \in 1..n : b(u) \in Batch /\ b(u).version = u
  BY BatchOfType
<1>. DEFINE P == {m \in 0..n : IsBatchListing(heard[m], W(m))}
<1>. HIDE DEF n
<1>3. 0 \in P
  <2>1. W(0) = {}
    BY DEF HeardBatches
  <2>2. heard[0] = <<>> /\ 0 \in 0..n
    BY <1>1, <1>2 DEF IsHeard
  <2>. HIDE DEF W
  <2>3. IsBatchListing(heard[0], W(0))
    BY <2>1, <2>2, ListingOfNone
  <2>. QED
    BY <2>2, <2>3
<1>4. ASSUME NEW m \in 1..n, m - 1 \in P
      PROVE  m \in P
  <2>1. m \in 0..n /\ m - 1 \in Nat /\ b(m) \in Batch
    BY <1>2
  <2>2. heard[m] = IF Wanted(m) THEN Append(heard[m - 1], b(m)) ELSE heard[m - 1]
    BY <1>1, <1>2 DEF IsHeard, n
  <2>3. W(m) = IF Wanted(m) THEN W(m - 1) \union {b(m)} ELSE W(m - 1)
    <3>1. 1..m = 1..(m - 1) \union {m}
      BY <2>1
    <3>. QED
      BY <3>1 DEF HeardBatches
  <2>4. \A c \in W(m - 1) : c.version < b(m).version
    BY <1>2, <2>1 DEF HeardBatches
  <2>. HIDE DEF W, b, Wanted
  <2>5. IsBatchListing(heard[m - 1], W(m - 1))
    BY <1>4
  <2>6. IsBatchListing(Append(heard[m - 1], b(m)), W(m - 1) \union {b(m)})
    BY <2>1, <2>4, <2>5, ListingAppend
  <2>7. IsBatchListing(heard[m], W(m))
    BY <2>2, <2>3, <2>5, <2>6, Zenon
  <2>. QED
    BY <2>1, <2>7
<1>5. IsBatchListing(heard[n], W(n))
  <2>. HIDE DEF P
  <2>1. \A m \in 0..n : m \in P
    BY <1>2, <1>3, <1>4, Induction
  <2>2. n \in P
    BY <1>2, <2>1
  <2>. QED
    BY <2>2 DEF P
<1>. QED
  BY <1>1, <1>5 DEF n

\* A count that every batch adds its changes to.
IsCount(count, batches) ==
    /\ count \in [0..Len(batches) -> Nat]
    /\ \A i \in 1..Len(batches) : count[i] = count[i - 1] + Len(batches[i].changes)

\* What ChangesIn computes is the last of these counts.
LEMMA ChangesInIsLast ==
    ASSUME NEW batches \in Seq(Batch)
    PROVE  \E count : /\ IsCount(count, batches) /\ count[0] = 0
                      /\ ChangesIn(batches) = count[Len(batches)]
<1>. DEFINE n == Len(batches)
            More(i) == Len(batches[i].changes)
            Step(f) == [i \in 0..n |-> IF i = 0 THEN 0 ELSE f[i - 1] + More(i)]
            g == [x \in Nat \X (1..n) |-> x[1] + More(x[2])]
<1>0. n \in Nat /\ \A i \in 1..n : More(i) \in Nat
  <2>1. \A i \in 1..n : batches[i] \in Batch
    OBVIOUS
  <2>. QED
    BY <2>1 DEF Batch, Changes
<1>. HIDE DEF More
<1>2. g \in [Nat \X (1..n) -> Nat]
  BY <1>0
<1>3. \A r \in Nat, i \in 1..n : g[<<r, i>>] = r + More(i)
  OBVIOUS
<1>4. \E f : IsRecursive(f, Nat, 0, n, g)
  <2>. HIDE DEF g, n
  <2>. QED
    BY <1>0, <1>2, Recursion
<1>. HIDE DEF g
<1>5. PICK f \in [0..n -> Nat] :
          f[0] = 0 /\ \A i \in 1..n : f[i] = g[<<f[i - 1], i>>]
  BY <1>4 DEF IsRecursive
<1>6. f = Step(f)
  <2>. HIDE DEF n
  <2>1. \A i \in 1..n : f[i - 1] \in Nat
    <3>. HIDE DEF Step
    <3>. QED BY <1>0, <1>5
  <2>2. \A i \in 1..n : f[i] = f[i - 1] + More(i)
    BY <1>3, <1>5, <2>1
  <2>3. \A i \in 0..n : f[i] = IF i = 0 THEN 0 ELSE f[i - 1] + More(i)
    BY <1>0, <1>5, <2>2
  <2>. QED
    BY <1>5, <2>3
<1>. DEFINE count == CHOOSE a : a = Step(a)
<1>7. count = Step(count)
  BY <1>6
<1>8. ChangesIn(batches) = count[n]
  BY DEF ChangesIn, More
<1>. HIDE DEF count
<1>9. count[0] = 0
  BY <1>0, <1>7
<1>10. \A i \in 1..n : count[i] = count[i - 1] + More(i)
  <2>. HIDE DEF n
  <2>. QED BY <1>0, <1>7
<1>11. \A i \in 0..n : count[i] \in Nat
  <2>. DEFINE P == {i \in 0..n : count[i] \in Nat}
  <2>. HIDE DEF n
  <2>1. 0 \in P
    BY <1>0, <1>9
  <2>2. ASSUME NEW i \in 1..n, i - 1 \in P
        PROVE  i \in P
    BY <1>0, <1>10, <2>2
  <2>. HIDE DEF P
  <2>3. \A i \in 0..n : i \in P
    BY <1>0, <2>1, <2>2, Induction
  <2>. QED
    BY <2>3 DEF P
<1>12. count \in [0..n -> Nat]
  BY <1>7, <1>11
<1>. QED
  BY <1>8, <1>9, <1>10, <1>12 DEF IsCount, More

\* Two counts that begin apart stay as far apart.
LEMMA CountsAgree ==
    ASSUME NEW batches \in Seq(Batch), NEW a, NEW b, NEW d \in Nat,
           IsCount(a, batches), IsCount(b, batches), a[0] = b[0] + d
    PROVE  a[Len(batches)] = b[Len(batches)] + d
<1>. DEFINE n == Len(batches)
            More(i) == Len(batches[i].changes)
            P == {i \in 0..n : a[i] = b[i] + d}
<1>0. n \in Nat /\ \A i \in 1..n : More(i) \in Nat
  <2>1. \A i \in 1..n : batches[i] \in Batch
    OBVIOUS
  <2>. QED
    BY <2>1 DEF Batch, Changes
<1>1. 0 \in P
  BY <1>0
<1>2. /\ \A i \in 0..n : a[i] \in Nat /\ b[i] \in Nat
      /\ \A i \in 1..n : a[i] = a[i - 1] + More(i) /\ b[i] = b[i - 1] + More(i)
  BY DEF IsCount
<1>. HIDE DEF n, More
<1>3. ASSUME NEW i \in 1..n, i - 1 \in P
      PROVE  i \in P
  <2>1. a[i - 1] \in Nat /\ b[i - 1] \in Nat /\ More(i) \in Nat
    BY <1>0, <1>2
  <2>. QED
    BY <1>0, <1>2, <1>3, <2>1
<1>4. n \in P
  <2>. HIDE DEF P
  <2>1. \A i \in 0..n : i \in P
    BY <1>0, <1>1, <1>3, Induction
  <2>. QED
    BY <1>0, <2>1
<1>. QED
  BY <1>4 DEF n

LEMMA ChangesInType ==
    ASSUME NEW batches \in Seq(Batch)
    PROVE  ChangesIn(batches) \in Nat /\ (batches = <<>> => ChangesIn(batches) = 0)
<1>1. PICK c : IsCount(c, batches) /\ c[0] = 0 /\ ChangesIn(batches) = c[Len(batches)]
  BY ChangesInIsLast
<1>. QED
  BY <1>1 DEF IsCount

\* A batch that is appended adds its changes.
LEMMA ChangesInAppend ==
    ASSUME NEW batches \in Seq(Batch), NEW b \in Batch
    PROVE  ChangesIn(Append(batches, b)) = ChangesIn(batches) + Len(b.changes)
<1>. DEFINE n == Len(batches)
            more == Append(batches, b)
<1>1. /\ more \in Seq(Batch) /\ Len(more) = n + 1 /\ n \in Nat
      /\ more[n + 1] = b /\ \A i \in 1..n : more[i] = batches[i]
  BY AppendProperties
<1>. HIDE DEF more
<1>2. PICK a : IsCount(a, batches) /\ a[0] = 0 /\ ChangesIn(batches) = a[n]
  BY ChangesInIsLast
<1>3. PICK c : IsCount(c, more) /\ c[0] = 0 /\ ChangesIn(more) = c[n + 1]
  BY <1>1, ChangesInIsLast
<1>. DEFINE low == [i \in 0..n |-> c[i]]
<1>4. IsCount(low, batches) /\ low[0] = 0 /\ low[n] = c[n]
  BY <1>1, <1>3 DEF IsCount
<1>5. a[n] = c[n]
  <2>. HIDE DEF low
  <2>1. a[0] = low[0] + 0 /\ 0 \in Nat
    BY <1>2, <1>4
  <2>2. a[n] = low[n] + 0
    BY <1>2, <1>4, <2>1, CountsAgree
  <2>3. c[n] \in Nat
    BY <1>1, <1>3 DEF IsCount
  <2>. QED
    BY <1>4, <2>2, <2>3
<1>6. c[n + 1] = c[n] + Len(b.changes)
  BY <1>1, <1>3 DEF IsCount
<1>. QED
  BY <1>2, <1>3, <1>5, <1>6 DEF more

\* Without the first batch its changes are missing.
LEMMA ChangesInTail ==
    ASSUME NEW batches \in Seq(Batch), batches # <<>>
    PROVE  ChangesIn(batches) = ChangesIn(Tail(batches)) + Len(Head(batches).changes)
<1>. DEFINE n == Len(batches)
            rest == Tail(batches)
            d == Len(Head(batches).changes)
<1>1. /\ rest \in Seq(Batch) /\ Len(rest) = n - 1 /\ n \in Nat \ {0}
      /\ Head(batches) = batches[1] /\ Head(batches) \in Batch
      /\ \A i \in 1..(n - 1) : rest[i] = batches[i + 1]
  BY HeadTailProperties
<1>2. d \in Nat
  BY <1>1 DEF Batch, Changes
<1>. HIDE DEF rest
<1>3. PICK a : IsCount(a, rest) /\ a[0] = 0 /\ ChangesIn(rest) = a[n - 1]
  BY <1>1, ChangesInIsLast
<1>4. PICK c : IsCount(c, batches) /\ c[0] = 0 /\ ChangesIn(batches) = c[n]
  BY ChangesInIsLast
<1>. DEFINE k == Len(rest)
            high == [i \in 0..k |-> c[i + 1]]
<1>5. high \in [0..k -> Nat] /\ high[0] = c[1] /\ high[k] = c[n]
  BY <1>1, <1>4 DEF IsCount
<1>6. c[1] = 0 + d
  BY <1>1, <1>4 DEF IsCount
<1>7. \A i \in 1..k : high[i] = high[i - 1] + Len(rest[i].changes)
  <2>. TAKE i \in 1..k
  <2>1. i + 1 \in 1..n /\ rest[i] = batches[i + 1] /\ i \in 0..k /\ i - 1 \in 0..k
        /\ (i - 1) + 1 = i /\ (i + 1) - 1 = i
    BY <1>1
  <2>2. c[i + 1] = c[(i + 1) - 1] + Len(batches[i + 1].changes)
    BY <1>4, <2>1 DEF IsCount
  <2>. HIDE DEF k
  <2>. QED
    BY <2>1, <2>2
<1>8. high[k] = a[k] + d
  <2>1. IsCount(high, rest)
    BY <1>5, <1>7 DEF IsCount
  <2>. HIDE DEF high, d
  <2>2. high[0] = a[0] + d
    BY <1>2, <1>3, <1>5, <1>6
  <2>. QED
    BY <1>1, <1>2, <1>3, <2>1, <2>2, CountsAgree
<1>. QED
  BY <1>1, <1>3, <1>4, <1>5, <1>8 DEF rest

\* A journal hears nothing of later versions than the last.
LEMMA HeardNothing ==
    ASSUME NEW history \in Seq(Logged), NEW j, NEW v \in Nat, v >= Len(history)
    PROVE  Heard(history, j, v) = <<>>
<1>1. HeardBatches(history, Len(history), j, v) = {}
  BY DEF HeardBatches
<1>. QED
  BY <1>1, HeardLists, ListingOfNone

\* A batch that commits is heard after the earlier ones, by who is to hear it.
LEMMA HeardAppend ==
    ASSUME NEW history \in Seq(Logged), NEW e \in Logged, NEW j, NEW v \in 0..Len(history)
    PROVE  Heard(Append(history, e), j, v) =
               IF Hears(j, e.route)
               THEN Append(Heard(history, j, v),
                           [version |-> Len(history) + 1, changes |-> e.changes])
               ELSE Heard(history, j, v)
<1>. DEFINE n == Len(history)
            longer == Append(history, e)
            b == [version |-> n + 1, changes |-> e.changes]
            W == HeardBatches(history, n, j, v)
            X == HeardBatches(longer, n + 1, j, v)
<1>1. /\ longer \in Seq(Logged) /\ Len(longer) = n + 1 /\ n \in Nat
      /\ longer[n + 1] = e /\ \A u \in 1..n : longer[u] = history[u]
  BY AppendProperties
<1>2. IsBatchListing(Heard(history, j, v), W)
  BY HeardLists
<1>3. IsBatchListing(Heard(longer, j, v), X)
  <2>. HIDE DEF longer, n
  <2>. QED
    BY <1>1, HeardLists
<1>4. b \in Batch
  BY <1>1 DEF Batch, Logged
<1>5. \A c \in W : c.version < b.version
  BY <1>1 DEF HeardBatches, BatchOf
<1>6. X = IF Hears(j, e.route) THEN W \union {b} ELSE W
  <2>1. /\ \A u \in 1..n : BatchOf(longer, u) = BatchOf(history, u) /\ longer[u] = history[u]
        /\ BatchOf(longer, n + 1) = b /\ longer[n + 1] = e
    BY <1>1 DEF BatchOf
  <2>2. n + 1 > v /\ 1..(n + 1) = 1..n \union {n + 1}
    BY <1>1
  <2>. HIDE DEF n, longer, b
  <2>. QED
    BY <2>1, <2>2 DEF HeardBatches
<1>. HIDE DEF W, X, b, longer
<1>7. IsBatchListing(Append(Heard(history, j, v), b), W \union {b})
  BY <1>2, <1>4, <1>5, ListingAppend
<1>8. Heard(longer, j, v) = IF Hears(j, e.route) THEN Append(Heard(history, j, v), b)
                            ELSE Heard(history, j, v)
  BY <1>2, <1>3, <1>6, <1>7, ListingDetermined, Zenon
<1>. QED
  BY <1>8 DEF longer, b

-----------------------------------------------------------------------------
(* What the invariant says of a journal *)

JournalRecord ==
    [refs : Nat, batches : Seq(Batch), pending : Changes,
     overflowed : BOOLEAN, changeCount : Nat, invalidBefore : Nat]

\* A batch of a journal is the one that the log has under its version.
LEMMA BatchIsLogged ==
    ASSUME JInv, NEW j \in Journals, NEW i \in DOMAIN journal[j].batches
    PROVE  LET u == journal[j].batches[i].version
           IN  u \in DOMAIN batchLog /\ Hears(j, batchLog[u].route) /\ journal[j].batches[i] = BatchOf(batchLog, u)
<1>. DEFINE b == journal[j].batches[i]
<1>1. b \in Batch
  BY DEF JInv, JournalTypeOK
<1>2. b.version \in DOMAIN batchLog /\ Hears(j, batchLog[b.version].route) /\ b.changes = batchLog[b.version].changes
  BY DEF JInv, JournalExact, BatchesAreLogged
<1>. HIDE DEF b
<1>3. b = BatchOf(batchLog, b.version)
  BY <1>1, <1>2 DEF BatchOf, Batch
<1>. QED
  BY <1>2, <1>3 DEF b

LEMMA JInvTypes ==
    ASSUME JInv
    PROVE  /\ version \in Nat /\ batchLog \in Seq(Logged) /\ DOMAIN batchLog = 1..version
           /\ batch \in Logged /\ journal \in [Journals -> JournalRecord]
           /\ retainedAt \in [Journals -> Nat]
BY DEF JInv, JournalTypeOK, LogIsNumbered, Logged, JournalRecord

LEMMA JInvExact == JInv => ExactOrUnknown
<1>. SUFFICES ASSUME JInv, NEW j \in Journals, NEW v \in 0..version,
                     journal[j].refs > 0, Knows(journal[j], v, version, Sparse(j))
              PROVE  ChangesSince(journal[j], v) = Heard(batchLog, j, v)
  BY DEF ExactOrUnknown
<1>. DEFINE s == journal[j].batches
            n == Len(s)
<1>1. /\ version \in Nat /\ batchLog \in Seq(Logged) /\ DOMAIN batchLog = 1..version /\ Len(batchLog) = version
      /\ s \in Seq(Batch) /\ v \in Nat /\ v <= version /\ journal[j].invalidBefore \in Nat
      /\ DOMAIN s = 1..n
  BY JInvTypes DEF JournalRecord
<1>2. Increasing(s)
  BY DEF JInv, JournalExact, BatchesAreLogged
<1>3. IsBatchListing(ChangesSince(journal[j], v), LaterBatches(s, n, v))
  BY <1>1, <1>2, ChangesSinceLists
<1>4. IsBatchListing(Heard(batchLog, j, v), HeardBatches(batchLog, version, j, v))
  BY <1>1, HeardLists
<1>5. \A i \in 1..n : /\ s[i].version \in 1..version
                      /\ Hears(j, batchLog[s[i].version].route)
                      /\ s[i] = BatchOf(batchLog, s[i].version)
  BY <1>1, BatchIsLogged
<1>6. ASSUME NEW u \in 1..version, u > v, Hears(j, batchLog[u].route)
      PROVE  \E i \in 1..n : s[i].version = u
  <2>1. v < version /\ v >= journal[j].invalidBefore
    BY <1>1, <1>6 DEF Knows
  <2>2. Sparse(j) \/ (s # <<>> /\ v >= Head(s).version - 1)
    BY <1>1, <1>6 DEF Knows
  <2>3. u > journal[j].invalidBefore
    BY <1>1, <1>6, <2>1
  <2>4. s # <<>> /\ v >= Head(s).version - 1 => u >= Head(s).version
    <3>. SUFFICES ASSUME s # <<>>, v >= Head(s).version - 1 PROVE u >= Head(s).version
      OBVIOUS
    <3>1. Head(s) \in Batch
      BY <1>1
    <3>2. Head(s).version \in Nat
      BY <3>1 DEF Batch
    <3>. QED
      BY <1>1, <1>6, <3>2
  <2>5. Covers(j, u)
    BY <2>2, <2>3, <2>4 DEF Covers
  <2>. QED
    BY <1>1, <1>6, <2>5 DEF JInv, JournalExact, NoneIsMissing
<1>. HIDE DEF s, n
<1>7. LaterBatches(s, n, v) = HeardBatches(batchLog, version, j, v)
  BY <1>5, <1>6 DEF LaterBatches, HeardBatches
<1>. QED
  BY <1>3, <1>4, <1>7, ListingDetermined

LEMMA JInvKnows == JInv => KnowsWithinLimits
<1>. SUFFICES ASSUME JInv, NEW j \in Journals, journal[j].refs > 0, WithinLimits(j),
                     NEW v \in retainedAt[j]..version
              PROVE  Knows(journal[j], v, version, Sparse(j))
  BY DEF KnowsWithinLimits
<1>. DEFINE r == retainedAt[j]
            s == journal[j].batches
<1>1. /\ version \in Nat /\ batchLog \in Seq(Logged) /\ DOMAIN batchLog = 1..version
      /\ s \in Seq(Batch) /\ r \in Nat
  BY JInvTypes DEF JournalRecord
<1>2. r <= version /\ journal[j].invalidBefore = r /\ s = Heard(batchLog, j, r)
  BY DEF JInv, JournalExact, NothingIsDropped
<1>. SUFFICES ASSUME v < version, ~Sparse(j)
              PROVE  s # <<>> /\ v >= Head(s).version - 1
  BY <1>1, <1>2 DEF Knows
<1>3. IsBatchListing(s, HeardBatches(batchLog, Len(batchLog), j, r))
  BY <1>1, <1>2, HeardLists
<1>4. BatchOf(batchLog, r + 1) \in HeardBatches(batchLog, Len(batchLog), j, r)
  BY <1>1, <1>2 DEF Sparse, Hears, HeardBatches
<1>. HIDE DEF r, s
<1>5. PICK k \in DOMAIN s : s[k] = BatchOf(batchLog, r + 1)
  BY <1>3, <1>4 DEF IsBatchListing
<1>6. s[k].version = r + 1
  BY <1>5 DEF BatchOf
<1>7. DOMAIN s = 1..Len(s) /\ Len(s) \in Nat /\ s[1] = Head(s) /\ s # <<>>
  BY <1>1, <1>5
<1>8. s[1].version <= r + 1 /\ s[1].version \in Nat
  <2>1. s[1] \in Batch
    BY <1>1, <1>7
  <2>2. s[1].version \in Nat
    BY <2>1 DEF Batch
  <2>3. k = 1 \/ s[1].version < s[k].version
    BY <1>3, <1>7 DEF IsBatchListing, Increasing
  <2>. QED
    BY <1>1, <1>6, <2>2, <2>3
<1>. QED
  BY <1>1, <1>7, <1>8 DEF r

-----------------------------------------------------------------------------
(* Each action keeps each journal exact *)

\* The first batch of increasing batches is older than the others, which are increasing.
LEMMA IncreasingTail ==
    ASSUME NEW s \in Seq(Batch), s # <<>>, Increasing(s)
    PROVE  /\ Tail(s) \in Seq(Batch) /\ Increasing(Tail(s)) /\ Head(s) \in Batch
           /\ \A i \in DOMAIN Tail(s) : i + 1 \in DOMAIN s /\ Tail(s)[i] = s[i + 1]
           /\ \A i \in DOMAIN s : s[i] = Head(s) \/ \E k \in DOMAIN Tail(s) : Tail(s)[k] = s[i]
           /\ \A i \in DOMAIN Tail(s) : Tail(s)[i].version > Head(s).version
<1>. DEFINE t == Tail(s)
<1>1. /\ t \in Seq(Batch) /\ Len(t) = Len(s) - 1 /\ Len(s) \in Nat \ {0}
      /\ Head(s) = s[1] /\ Head(s) \in Batch
      /\ \A i \in 1..Len(t) : t[i] = s[i + 1]
      /\ DOMAIN t = 1..Len(t) /\ DOMAIN s = 1..Len(s)
  BY HeadTailProperties
<1>. HIDE DEF t
<1>2. \A i \in DOMAIN t : i + 1 \in DOMAIN s /\ t[i] = s[i + 1] /\ i \in Nat
  BY <1>1
<1>3. Increasing(t)
  <2>. SUFFICES ASSUME NEW i \in DOMAIN t, NEW k \in DOMAIN t, i < k
                PROVE  t[i].version < t[k].version
    BY DEF Increasing
  <2>1. i + 1 < k + 1
    BY <1>2
  <2>2. s[i + 1].version < s[k + 1].version
    BY <1>2, <2>1 DEF Increasing
  <2>. QED
    BY <1>2, <2>2
<1>4. ASSUME NEW i \in DOMAIN s
      PROVE  s[i] = Head(s) \/ \E k \in DOMAIN t : t[k] = s[i]
  <2>1. i = 1 \/ (i - 1 \in 1..Len(t) /\ (i - 1) + 1 = i)
    BY <1>1
  <2>. QED
    BY <1>1, <2>1
<1>5. \A i \in DOMAIN t : t[i].version > Head(s).version
  <2>1. \A i \in DOMAIN t : s[1].version < s[i + 1].version
    BY <1>1, <1>2 DEF Increasing
  <2>. QED
    BY <1>1, <1>2, <2>1
<1>. QED
  BY <1>1, <1>3, <1>2, <1>4, <1>5 DEF t

\* What a journal in use, that has not overflowed, is after a commit: it has the
\* batch; or the batch and not the oldest one; or none, and is valid from now on.
CommittedAs(new, j, v, sparse) ==
    LET all == Append(j.batches, [version |-> v, changes |-> j.pending])
        count == j.changeCount + Len(j.pending)
    IN  /\ new.refs = j.refs /\ new.pending = <<>> /\ new.overflowed = FALSE
        /\ \/ /\ new.batches = all /\ new.changeCount = count
              /\ new.invalidBefore = j.invalidBefore
           \/ /\ Len(all) > MaxVersions
              /\ new.batches = Tail(all)
              /\ new.changeCount = count - Len(Head(all).changes)
              /\ new.invalidBefore = IF sparse /\ Head(all).version > j.invalidBefore
                                     THEN Head(all).version ELSE j.invalidBefore
           \/ /\ Len(all) > MaxVersions \/ count > MaxEntries
              /\ new.batches = <<>> /\ new.changeCount = 0 /\ new.invalidBefore = v

LEMMA CommittedCases ==
    ASSUME NEW j \in JournalRecord, j.refs # 0, ~j.overflowed, NEW v \in Nat, NEW sparse \in BOOLEAN
    PROVE  CommittedAs(Committed(j, v, sparse), j, v, sparse)
<1>. USE DEF CommittedAs
<1>. DEFINE b == [version |-> v, changes |-> j.pending]
            all == Append(j.batches, b)
            count == j.changeCount + Len(j.pending)
            more == [j EXCEPT !.batches = Append(@, b), !.pending = <<>>,
                              !.changeCount = @ + Len(j.pending)]
<1>1. Committed(j, v, sparse) = Trimmed(more, v, sparse)
  BY DEF Committed
<1>2. /\ more.batches = all /\ more.pending = <<>> /\ more.changeCount = count
      /\ more.refs = j.refs /\ more.overflowed = FALSE /\ more.invalidBefore = j.invalidBefore
      /\ more \in [refs : Nat, batches : {all}, pending : {<<>>}, overflowed : BOOLEAN,
                   changeCount : {count}, invalidBefore : Nat]
  BY DEF JournalRecord
<1>3. b \in Batch /\ j.batches \in Seq(Batch) /\ j.changeCount \in Nat /\ Len(j.pending) \in Nat
  BY DEF JournalRecord, Batch, Changes
<1>4. all \in Seq(Batch) /\ Len(all) \in Nat /\ count \in Nat /\ all # <<>>
  BY <1>3, AppendProperties
<1>5. Head(all) \in Batch
  BY <1>4
<1>6. Len(Head(all).changes) \in Nat
  BY <1>5 DEF Batch, Changes
<1>. HIDE DEF more, all, count, b
<1>7. CASE ~(Len(all) > MaxVersions)
  <2>1. Trimmed(more, v, sparse) = IF count > MaxEntries THEN Cleared(more, v) ELSE more
    BY <1>2, <1>7 DEF Trimmed
  <2>2. CASE count > MaxEntries
    BY <1>1, <1>2, <2>1, <2>2 DEF Cleared, b, all, count
  <2>3. CASE ~(count > MaxEntries)
    BY <1>1, <1>2, <2>1, <2>3 DEF b, all, count
  <2>. QED
    BY <2>2, <2>3
<1>8. CASE Len(all) > MaxVersions
  <2>. DEFINE kept == [more EXCEPT !.batches = Tail(@),
                                   !.changeCount = @ - Len(Head(all).changes),
                                   !.invalidBefore = IF sparse /\ Head(all).version > @
                                                     THEN Head(all).version ELSE @]
  <2>1. Trimmed(more, v, sparse) = IF kept.changeCount > MaxEntries THEN Cleared(kept, v) ELSE kept
    BY <1>2, <1>8 DEF Trimmed
  <2>2. /\ kept.batches = Tail(all) /\ kept.pending = <<>>
        /\ kept.changeCount = count - Len(Head(all).changes)
        /\ kept.refs = j.refs /\ kept.overflowed = FALSE
        /\ kept.invalidBefore = IF sparse /\ Head(all).version > j.invalidBefore
                                THEN Head(all).version ELSE j.invalidBefore
        /\ DOMAIN kept = {"refs", "batches", "pending", "overflowed", "changeCount", "invalidBefore"}
    BY <1>2
  <2>. HIDE DEF kept
  <2>3. CASE kept.changeCount > MaxEntries
    <3>1. Trimmed(more, v, sparse) = Cleared(kept, v)
      BY <2>1, <2>3
    <3>2. LET new == Cleared(kept, v)
          IN  /\ new.refs = j.refs /\ new.pending = <<>> /\ new.overflowed = FALSE
              /\ new.batches = <<>> /\ new.changeCount = 0 /\ new.invalidBefore = v
      BY <2>2 DEF Cleared
    <3>. QED
      BY <1>1, <1>8, <3>1, <3>2 DEF b, all, count
  <2>4. CASE ~(kept.changeCount > MaxEntries)
    <3>1. Trimmed(more, v, sparse) = kept
      BY <2>1, <2>4
    <3>. QED
      BY <1>1, <1>8, <2>2, <3>1 DEF b, all, count
  <2>. QED
    BY <2>3, <2>4
<1>. QED
  BY <1>7, <1>8

\* recordRowChange: a journal appends the change, or overflows.
RecordedAs(new, j, change, v) ==
    /\ new.refs = j.refs
    /\ \/ (j.refs = 0 \/ j.overflowed) /\ new = j
       \/ /\ j.refs # 0 /\ Len(j.pending) + 1 > MaxEntries
          /\ new.batches = <<>> /\ new.pending = <<>> /\ new.overflowed = TRUE
          /\ new.changeCount = 0 /\ new.invalidBefore = v + 1
       \/ /\ j.refs # 0 /\ ~j.overflowed
          /\ new.pending = Append(j.pending, change)
          /\ new.batches = j.batches /\ new.overflowed = j.overflowed
          /\ new.changeCount = j.changeCount /\ new.invalidBefore = j.invalidBefore

LEMMA RecordedCases ==
    ASSUME NEW j \in JournalRecord, NEW change \in Nat \X Nat, NEW v \in Nat,
           NEW new, new = Recorded(j, change, v)
    PROVE  new \in JournalRecord /\ RecordedAs(new, j, change, v)
<1>. USE DEF RecordedAs
<1>1. CASE j.refs = 0 \/ j.overflowed
  BY <1>1 DEF Recorded
<1>2. CASE ~(j.refs = 0 \/ j.overflowed) /\ Len(j.pending) + 1 > MaxEntries
  <2>1. new = [Cleared(j, v + 1) EXCEPT !.overflowed = TRUE]
    BY <1>2 DEF Recorded
  <2>2. <<>> \in Seq(Batch) /\ <<>> \in Changes
    BY DEF Changes
  <2>3. new = [refs |-> j.refs, batches |-> <<>>, pending |-> <<>>, overflowed |-> TRUE,
               changeCount |-> 0, invalidBefore |-> v + 1]
    BY <2>1 DEF Cleared, JournalRecord
  <2>4. j.refs \in Nat /\ v + 1 \in Nat
    BY DEF JournalRecord
  <2>5. new \in JournalRecord
    BY <2>2, <2>3, <2>4 DEF JournalRecord
  <2>6. /\ new.refs = j.refs /\ new.batches = <<>> /\ new.pending = <<>>
        /\ new.overflowed = TRUE /\ new.changeCount = 0 /\ new.invalidBefore = v + 1
    BY <2>3
  <2>. QED
    BY <1>2, <2>5, <2>6
<1>3. CASE ~(j.refs = 0 \/ j.overflowed) /\ ~(Len(j.pending) + 1 > MaxEntries)
  <2>1. new = [j EXCEPT !.pending = Append(@, change)]
    BY <1>3 DEF Recorded
  <2>2. j.pending \in Changes /\ Len(j.pending) \in Nat
    BY DEF JournalRecord, Changes
  <2>3. Append(j.pending, change) \in Changes
    BY <2>2 DEF Changes
  <2>. QED
    BY <1>3, <2>1, <2>3 DEF JournalRecord
<1>. QED
  BY <1>1, <1>2, <1>3

LEMMA RecordKeepsTypes ==
    ASSUME JInv, NEW route \in Journals, RecordRowChange(route)
    PROVE  JournalTypeOK' /\ LogIsNumbered'
<1>. DEFINE change == <<version + 1, Len(batch.changes) + 1>>
<1>1. /\ version \in Nat /\ batch \in Logged /\ batch.changes \in Changes
      /\ journal \in [Journals -> JournalRecord]
  BY JInvTypes DEF Logged
<1>2. change \in Nat \X Nat
  BY <1>1 DEF Changes
<1>3. /\ batch' = [route |-> route, changes |-> Append(batch.changes, change)]
      /\ journal' = [j \in Journals |->
            IF Hears(j, route) THEN Recorded(journal[j], change, version) ELSE journal[j]]
      /\ version' = version /\ batchLog' = batchLog /\ retainedAt' = retainedAt
  BY DEF RecordRowChange
<1>4. Append(batch.changes, change) \in Changes /\ Append(batch.changes, change) # <<>>
  BY <1>1, <1>2 DEF Changes
<1>. HIDE DEF change
<1>5. batch' \in Logged /\ batch'.changes # <<>>
  BY <1>3, <1>4 DEF Logged
<1>6. journal' \in [Journals -> JournalRecord]
  <2>1. \A j \in Journals : Recorded(journal[j], change, version) \in JournalRecord
    BY <1>1, <1>2, RecordedCases
  <2>. QED
    BY <1>1, <1>3, <2>1
<1>. QED
  BY <1>3, <1>5, <1>6 DEF JInv, JournalTypeOK, LogIsNumbered, Logged, JournalRecord

LEMMA RecordKeepsExact ==
    ASSUME JInv, NEW route \in Journals, RecordRowChange(route), NEW j \in Journals
    PROVE  JournalExact(j)'
<1>. DEFINE change == <<version + 1, Len(batch.changes) + 1>>
            old == journal[j]
            new == journal'[j]
<1>1. /\ version \in Nat /\ batchLog \in Seq(Logged) /\ DOMAIN batchLog = 1..version
      /\ batch \in Logged /\ batch.changes \in Changes
      /\ old \in JournalRecord /\ retainedAt[j] \in Nat
      /\ old.pending \in Changes /\ old.batches \in Seq(Batch)
  BY JInvTypes DEF Logged, JournalRecord
<1>2. change \in Nat \X Nat
  BY <1>1 DEF Changes
<1>3. /\ batch'.route = route /\ batch'.changes = Append(batch.changes, change)
      /\ new = IF Hears(j, route) THEN Recorded(old, change, version) ELSE old
      /\ version' = version /\ batchLog' = batchLog /\ retainedAt' = retainedAt
      /\ batch = Idle \/ batch.route = route
  BY DEF RecordRowChange
<1>4. batch' # Idle /\ Len(batch'.changes) = Len(batch.changes) + 1
  BY <1>1, <1>2, <1>3 DEF Idle, Changes
<1>. HIDE DEF change
<1>5. /\ UnusedIsEmpty(j) /\ OverflowIsNow(j) /\ PendingIsHeard(j) /\ BatchesAreLogged(j)
      /\ NoneIsMissing(j) /\ ChangesAreCounted(j) /\ NothingIsDropped(j)
  BY DEF JInv, JournalExact
<1>6. /\ new.refs = old.refs
      /\ (Hears(j, route) => RecordedAs(new, old, change, version))
  <2>1. CASE ~Hears(j, route)
    BY <1>3, <2>1
  <2>2. CASE Hears(j, route)
    <3>1. new = Recorded(old, change, version)
      BY <1>3, <2>2
    <3>2. old \in JournalRecord /\ version \in Nat
      BY <1>1
    <3>. HIDE DEF new, old
    <3>3. RecordedAs(new, old, change, version)
      BY <1>2, <3>1, <3>2, RecordedCases
    <3>. QED
      BY <3>3 DEF RecordedAs
  <2>. QED
    BY <2>1, <2>2
<1>7. WithinLimits(j)' => WithinLimits(j) /\
          (Hears(j, route) => ChangesIn(Heard(batchLog, j, retainedAt[j])) + Len(batch.changes) + 1 <= MaxEntries)
  <2>. DEFINE h == Heard(batchLog, j, retainedAt[j])
  <2>1. h \in Seq(Batch)
    BY <1>1, HeardLists DEF IsBatchListing
  <2>2. ChangesIn(h) \in Nat /\ Len(batch.changes) \in Nat
    BY <1>1, <2>1, ChangesInType DEF Changes
  <2>3. Heard(batchLog, j, retainedAt[j])' = h
    BY <1>3
  <2>4. WithinLimits(j) <=> /\ Len(h) <= MaxVersions
                            /\ ChangesIn(h) + (IF Hears(j, batch.route)
                                                THEN Len(batch.changes) ELSE 0) <= MaxEntries
    BY DEF WithinLimits
  <2>5. WithinLimits(j)' <=> /\ Len(h) <= MaxVersions
                             /\ ChangesIn(h) + (IF Hears(j, route)
                                                 THEN Len(batch.changes) + 1 ELSE 0) <= MaxEntries
    BY <1>3, <1>4, <2>3 DEF WithinLimits
  <2>6. batch = Idle => Len(batch.changes) = 0
    BY DEF Idle
  <2>. HIDE DEF h
  <2>7. MaxEntries \in Nat
    BY LimitsArePositive
  <2>8. CASE Hears(j, route)
    BY <1>3, <2>2, <2>4, <2>5, <2>6, <2>7, <2>8 DEF h
  <2>9. CASE ~Hears(j, route)
    BY <1>3, <2>2, <2>4, <2>5, <2>6, <2>7, <2>9 DEF h
  <2>. QED
    BY <2>8, <2>9
<1>8. CASE new = old /\ (old.refs = 0 \/ old.overflowed \/ ~Hears(j, route))
  <2>1. old.overflowed => batch # Idle /\ batch.route = route
    BY <1>3, <1>5 DEF OverflowIsNow
  <2>2. old.refs > 0 /\ ~old.overflowed => ~Hears(j, route) /\ old.pending = <<>>
    BY <1>1, <1>3, <1>5, <1>8 DEF PendingIsHeard, Idle, JournalRecord
  <2>3. UnusedIsEmpty(j)' /\ BatchesAreLogged(j)' /\ ChangesAreCounted(j)'
    BY <1>3, <1>5, <1>8 DEF UnusedIsEmpty, BatchesAreLogged, ChangesAreCounted
  <2>4. OverflowIsNow(j)'
    BY <1>3, <1>4, <1>5, <1>8, <2>1 DEF OverflowIsNow
  <2>5. PendingIsHeard(j)'
    BY <1>3, <1>8, <2>2 DEF PendingIsHeard
  <2>6. NoneIsMissing(j)'
    BY <1>3, <1>5, <1>8 DEF NoneIsMissing, Covers
  <2>7. NothingIsDropped(j)'
    BY <1>3, <1>5, <1>7, <1>8 DEF NothingIsDropped
  <2>. QED
    BY <2>3, <2>4, <2>5, <2>6, <2>7 DEF JournalExact
<1>9. CASE /\ Hears(j, route) /\ old.refs # 0 /\ Len(old.pending) + 1 > MaxEntries
           /\ new.batches = <<>> /\ new.pending = <<>> /\ new.overflowed = TRUE
           /\ new.changeCount = 0 /\ new.invalidBefore = version + 1
  <2>1. UnusedIsEmpty(j)' /\ BatchesAreLogged(j)' /\ PendingIsHeard(j)'
    BY <1>6, <1>9 DEF UnusedIsEmpty, BatchesAreLogged, PendingIsHeard, Increasing
  <2>2. OverflowIsNow(j)'
    BY <1>3, <1>4, <1>9 DEF OverflowIsNow
  <2>3. ChangesAreCounted(j)'
    <3>1. <<>> \in Seq(Batch)
      OBVIOUS
    <3>2. ChangesIn(<<>>) = 0
      BY <3>1, ChangesInType
    <3>. QED
      BY <1>9, <3>2 DEF ChangesAreCounted
  <2>4. NoneIsMissing(j)'
    BY <1>1, <1>3, <1>9 DEF NoneIsMissing, Covers
  <2>5. NothingIsDropped(j)'
    <3>1. ~WithinLimits(j)'
      <4>. SUFFICES ASSUME WithinLimits(j)' PROVE FALSE
        OBVIOUS
      <4>1. ~old.overflowed
        BY <1>1, <1>5, <1>7, <1>9 DEF NothingIsDropped, JournalRecord
      <4>2. Len(old.pending) = Len(batch.changes)
        <5>1. batch = Idle \/ batch.route = route
          BY <1>3
        <5>2. Hears(j, batch.route)
          BY <1>9, <5>1 DEF Hears, Idle
        <5>. QED
          BY <1>1, <1>5, <1>9, <4>1, <5>2 DEF PendingIsHeard, JournalRecord
      <4>3. ChangesIn(Heard(batchLog, j, retainedAt[j])) \in Nat /\ Len(batch.changes) \in Nat
        BY <1>1, HeardLists, ChangesInType DEF IsBatchListing, Changes
      <4>4. ChangesIn(Heard(batchLog, j, retainedAt[j])) + Len(batch.changes) + 1 <= MaxEntries
        BY <1>7, <1>9
      <4>. QED
        BY <1>9, <4>2, <4>3, <4>4, LimitsArePositive
    <3>. QED
      BY <1>3, <1>5, <1>6, <3>1 DEF NothingIsDropped
  <2>. QED
    BY <2>1, <2>2, <2>3, <2>4, <2>5 DEF JournalExact
<1>10. CASE /\ Hears(j, route) /\ old.refs # 0 /\ ~old.overflowed
            /\ new.pending = Append(old.pending, change)
            /\ new.batches = old.batches /\ new.overflowed = old.overflowed
            /\ new.changeCount = old.changeCount /\ new.invalidBefore = old.invalidBefore
  <2>1. UnusedIsEmpty(j)' /\ BatchesAreLogged(j)' /\ OverflowIsNow(j)' /\ ChangesAreCounted(j)'
    BY <1>3, <1>5, <1>6, <1>10 DEF UnusedIsEmpty, BatchesAreLogged, OverflowIsNow, ChangesAreCounted
  <2>2. PendingIsHeard(j)'
    <3>1. old.pending = batch.changes
      BY <1>1, <1>3, <1>5, <1>10 DEF PendingIsHeard, Hears, Idle, JournalRecord
    <3>. QED
      BY <1>3, <1>10, <3>1 DEF PendingIsHeard
  <2>3. NoneIsMissing(j)'
    BY <1>3, <1>5, <1>6, <1>10 DEF NoneIsMissing, Covers
  <2>4. NothingIsDropped(j)'
    BY <1>3, <1>5, <1>6, <1>7, <1>10 DEF NothingIsDropped
  <2>. QED
    BY <2>1, <2>2, <2>3, <2>4 DEF JournalExact
<1>11. Hears(j, route) \/ new = old
  BY <1>3
<1>. QED
  BY <1>6, <1>8, <1>9, <1>10, <1>11 DEF RecordedAs

\* The batches of a journal, of a later version each, with the batch that commits.
LEMMA CommitKeepsExact ==
    ASSUME JInv, AdvanceVersion, NEW j \in Journals
    PROVE  JournalExact(j)'
<1>. DEFINE old == journal[j]
            new == journal'[j]
            b == [version |-> version + 1, changes |-> old.pending]
            all == Append(old.batches, b)
            h == Heard(batchLog, j, retainedAt[j])
            h2 == Heard(batchLog', j, retainedAt[j])
<1>1. /\ version \in Nat /\ batchLog \in Seq(Logged) /\ DOMAIN batchLog = 1..version /\ Len(batchLog) = version
      /\ batch \in Logged /\ batch.changes \in Changes
      /\ old \in JournalRecord /\ retainedAt[j] \in Nat /\ old.refs \in Nat
      /\ old.pending \in Changes /\ old.batches \in Seq(Batch)
      /\ old.changeCount \in Nat /\ old.invalidBefore \in Nat /\ old.overflowed \in BOOLEAN
  BY JInvTypes DEF Logged, JournalRecord
<1>2. /\ batch # Idle /\ version' = version + 1 /\ batchLog' = Append(batchLog, batch) /\ batch' = Idle
      /\ retainedAt' = retainedAt
      /\ new = IF Hears(j, batch.route) THEN Committed(old, version + 1, Sparse(j)) ELSE old
  BY DEF AdvanceVersion
<1>3. /\ UnusedIsEmpty(j) /\ OverflowIsNow(j) /\ PendingIsHeard(j) /\ BatchesAreLogged(j)
      /\ NoneIsMissing(j) /\ ChangesAreCounted(j) /\ NothingIsDropped(j)
  BY DEF JInv, JournalExact
<1>4. /\ batchLog' \in Seq(Logged) /\ DOMAIN batchLog' = 1..(version + 1)
      /\ batchLog'[version + 1] = batch /\ \A u \in 1..version : batchLog'[u] = batchLog[u]
  BY <1>1, <1>2, AppendProperties
<1>5. Hears(j, batch'.route) /\ batch'.changes = <<>>
  BY <1>2 DEF Hears, Idle
<1>6. h \in Seq(Batch) /\ ChangesIn(h) \in Nat /\ Len(batch.changes) \in Nat
  BY <1>1, HeardLists, ChangesInType DEF IsBatchListing, Changes
<1>7. old.refs > 0 =>
          h2 = IF Hears(j, batch.route)
               THEN Append(h, [version |-> version + 1, changes |-> batch.changes]) ELSE h
  <2>. SUFFICES ASSUME old.refs > 0
                PROVE  h2 = IF Hears(j, batch.route)
                            THEN Append(h, [version |-> version + 1, changes |-> batch.changes])
                            ELSE h
    OBVIOUS
  <2>1. retainedAt[j] \in 0..Len(batchLog)
    BY <1>1, <1>3 DEF NothingIsDropped
  <2>. QED
    BY <1>1, <1>2, <2>1, HeardAppend
<1>8. WithinLimits(j)' <=> Len(h2) <= MaxVersions /\ ChangesIn(h2) + 0 <= MaxEntries
  BY <1>2, <1>5 DEF WithinLimits
<1>. HIDE DEF h, h2
<1>9. old.refs > 0 /\ WithinLimits(j)' =>
          /\ WithinLimits(j)
          /\ Hears(j, batch.route) => /\ Len(h) + 1 <= MaxVersions
                                     /\ ChangesIn(h) + Len(batch.changes) <= MaxEntries
  <2>. SUFFICES ASSUME old.refs > 0, WithinLimits(j)'
                PROVE  /\ WithinLimits(j)
                       /\ Hears(j, batch.route) => /\ Len(h) + 1 <= MaxVersions
                                                  /\ ChangesIn(h) + Len(batch.changes) <= MaxEntries
    OBVIOUS
  <2>0. MaxVersions \in Nat /\ MaxEntries \in Nat /\ Len(h) \in Nat
    BY <1>6, LimitsArePositive
  <2>1. CASE ~Hears(j, batch.route)
    BY <1>6, <1>7, <1>8, <2>1 DEF WithinLimits, h
  <2>2. CASE Hears(j, batch.route)
    <3>1. [version |-> version + 1, changes |-> batch.changes] \in Batch
      BY <1>1 DEF Batch
    <3>2. h2 = Append(h, [version |-> version + 1, changes |-> batch.changes])
      BY <1>7, <2>2
    <3>3. Len(h2) = Len(h) + 1 /\ ChangesIn(h2) = ChangesIn(h) + Len(batch.changes)
      BY <1>6, <3>1, <3>2, ChangesInAppend
    <3>4. Len(h) + 1 <= MaxVersions /\ ChangesIn(h) + Len(batch.changes) <= MaxEntries
      BY <1>6, <1>8, <3>3
    <3>5. Len(h) <= MaxVersions
      BY <2>0, <3>4
    <3>. QED
      BY <2>2, <3>4, <3>5 DEF WithinLimits, h
  <2>. QED
    BY <2>1, <2>2
<1>10. CASE new = old /\ (old.refs = 0 \/ ~Hears(j, batch.route))
  <2>1. old.refs > 0 => ~Hears(j, batch.route) /\ ~old.overflowed /\ old.pending = <<>> /\ h2 = h
    BY <1>1, <1>3, <1>7, <1>10 DEF OverflowIsNow, PendingIsHeard
  <2>2. UnusedIsEmpty(j)' /\ ChangesAreCounted(j)'
    BY <1>3, <1>10 DEF UnusedIsEmpty, ChangesAreCounted
  <2>3. OverflowIsNow(j)'
    BY <1>1, <1>3, <1>10, <2>1 DEF OverflowIsNow, UnusedIsEmpty
  <2>4. PendingIsHeard(j)'
    BY <1>5, <1>10, <2>1 DEF PendingIsHeard
  <2>5. BatchesAreLogged(j)'
    BY <1>1, <1>3, <1>4, <1>10 DEF BatchesAreLogged
  <2>6. NoneIsMissing(j)'
    BY <1>1, <1>3, <1>4, <1>10, <2>1 DEF NoneIsMissing, Covers
  <2>7. NothingIsDropped(j)'
    <3>. SUFFICES ASSUME old.refs > 0
                  PROVE  /\ retainedAt[j] <= version + 1
                         /\ WithinLimits(j)' => /\ ~old.overflowed
                                                /\ old.invalidBefore = retainedAt[j]
                                                /\ old.batches = h
      BY <1>2, <1>10, <2>1 DEF NothingIsDropped, h, h2
    <3>. QED
      BY <1>1, <1>3, <1>9 DEF NothingIsDropped, h
  <2>. QED
    BY <2>2, <2>3, <2>4, <2>5, <2>6, <2>7 DEF JournalExact
<1>11. CASE Hears(j, batch.route) /\ old.refs # 0 /\ old.overflowed
  <2>1. new = [old EXCEPT !.pending = <<>>, !.overflowed = FALSE]
    BY <1>2, <1>11 DEF Committed
  <2>2. /\ new.refs = old.refs /\ new.batches = <<>> /\ new.pending = <<>> /\ new.overflowed = FALSE
        /\ new.changeCount = old.changeCount /\ new.invalidBefore = version + 1
        /\ old.batches = <<>>
    BY <1>1, <1>3, <1>11, <2>1 DEF OverflowIsNow, JournalRecord
  <2>3. UnusedIsEmpty(j)' /\ OverflowIsNow(j)' /\ PendingIsHeard(j)' /\ BatchesAreLogged(j)'
        /\ ChangesAreCounted(j)'
    BY <1>3, <1>5, <2>2
       DEF UnusedIsEmpty, OverflowIsNow, PendingIsHeard, BatchesAreLogged, ChangesAreCounted, Increasing
  <2>4. NoneIsMissing(j)'
    BY <1>1, <1>4, <2>2 DEF NoneIsMissing, Covers
  <2>5. NothingIsDropped(j)'
    <3>1. ~WithinLimits(j)
      BY <1>1, <1>3, <1>11 DEF NothingIsDropped
    <3>. QED
      BY <1>1, <1>2, <1>3, <1>11, <1>9, <2>2, <3>1 DEF NothingIsDropped
  <2>. QED
    BY <2>3, <2>4, <2>5 DEF JournalExact
<1>12. CASE Hears(j, batch.route) /\ old.refs # 0 /\ ~old.overflowed
  <2>1. CommittedAs(new, old, version + 1, Sparse(j))
    <3>1. new = Committed(old, version + 1, Sparse(j)) /\ version + 1 \in Nat /\ Sparse(j) \in BOOLEAN
      BY <1>1, <1>2, <1>12 DEF Sparse
    <3>. HIDE DEF new, old
    <3>. QED
      BY <1>1, <1>12, <3>1, CommittedCases
  <2>2. old.pending = batch.changes
    BY <1>1, <1>3, <1>12 DEF PendingIsHeard
  <2>3. b \in Batch /\ b.version = version + 1 /\ b.changes = batch.changes
    BY <1>1, <2>2 DEF Batch
  <2>4. /\ all \in Seq(Batch) /\ Len(all) = Len(old.batches) + 1 /\ all # <<>>
        /\ DOMAIN all = 1..(Len(old.batches) + 1) /\ DOMAIN old.batches = 1..Len(old.batches)
        /\ Len(old.batches) \in Nat
        /\ all[Len(old.batches) + 1] = b /\ \A i \in 1..Len(old.batches) : all[i] = old.batches[i]
    BY <1>1, <2>3, AppendProperties
  <2>5. ChangesIn(all) = old.changeCount + Len(old.pending)
    BY <1>1, <1>3, <2>3, ChangesInAppend DEF ChangesAreCounted
  <2>6. /\ new.refs = old.refs /\ new.pending = <<>> /\ new.overflowed = FALSE
        /\ \/ /\ new.batches = all /\ new.changeCount = ChangesIn(all)
              /\ new.invalidBefore = old.invalidBefore
           \/ /\ Len(all) > MaxVersions
              /\ new.batches = Tail(all)
              /\ new.changeCount = ChangesIn(all) - Len(Head(all).changes)
              /\ new.invalidBefore = IF Sparse(j) /\ Head(all).version > old.invalidBefore
                                     THEN Head(all).version ELSE old.invalidBefore
           \/ /\ Len(all) > MaxVersions \/ ChangesIn(all) > MaxEntries
              /\ new.batches = <<>> /\ new.changeCount = 0 /\ new.invalidBefore = version + 1
    <3>. HIDE DEF new, old
    <3>. QED
      BY <2>1, <2>5 DEF CommittedAs
  <2>. DEFINE Logs(s) == \A i \in DOMAIN s : /\ s[i].version \in 1..(version + 1)
                                             /\ Hears(j, batchLog'[s[i].version].route)
                                             /\ s[i].changes = batchLog'[s[i].version].changes
  <2>7. Logs(all)
    <3>1. ASSUME NEW i \in 1..Len(old.batches)
          PROVE  /\ all[i].version \in 1..version
                 /\ Hears(j, batchLog'[all[i].version].route)
                 /\ all[i].changes = batchLog'[all[i].version].changes
      <4>1. i \in DOMAIN old.batches /\ all[i] = old.batches[i]
        BY <2>4
      <4>2. /\ old.batches[i].version \in DOMAIN batchLog
            /\ Hears(j, batchLog[old.batches[i].version].route)
            /\ old.batches[i].changes = batchLog[old.batches[i].version].changes
        BY <1>3, <4>1 DEF BatchesAreLogged
      <4>. QED
        BY <1>1, <1>4, <4>1, <4>2
    <3>2. all[Len(old.batches) + 1] = b /\ batchLog'[b.version] = batch
      BY <1>4, <2>3, <2>4
    <3>3. \A i \in DOMAIN all : i \in 1..Len(old.batches) \/ i = Len(old.batches) + 1
      BY <2>4
    <3>4. version + 1 \in 1..(version + 1) /\ \A x \in 1..version : x \in 1..(version + 1)
      BY <1>1
    <3>. HIDE DEF all, b, old
    <3>. QED
      BY <1>12, <2>3, <3>1, <3>2, <3>3, <3>4
  <2>8. Increasing(all)
    <3>. DEFINE W == {old.batches[i] : i \in DOMAIN old.batches}
    <3>1. IsBatchListing(old.batches, W)
      BY <1>1, <1>3 DEF IsBatchListing, BatchesAreLogged
    <3>2. \A c \in W : c.version < b.version
      BY <1>1, <1>3, <2>3 DEF BatchesAreLogged
    <3>. HIDE DEF W, b, old
    <3>3. IsBatchListing(Append(old.batches, b), W \union {b})
      BY <2>3, <3>1, <3>2, ListingAppend
    <3>. QED
      BY <3>3 DEF IsBatchListing
  <2>9. ASSUME NEW u \in 1..(version + 1), Hears(j, batchLog'[u].route), u > old.invalidBefore,
               Sparse(j) \/ u >= Head(all).version
        PROVE  \E i \in DOMAIN all : all[i].version = u
    <3>1. CASE u = version + 1
      <4>1. Len(old.batches) + 1 \in DOMAIN all
        BY <2>4
      <4>. QED
        BY <2>3, <2>4, <3>1, <4>1
    <3>2. CASE u \in 1..version
      <4>1. Hears(j, batchLog[u].route)
        BY <1>4, <2>9, <3>2
      <4>2. Sparse(j) \/ (old.batches # <<>> /\ u >= Head(old.batches).version)
        <5>1. CASE old.batches = <<>>
          <6>1. Head(all) = b
            BY <2>4, <5>1
          <6>. QED
            BY <1>1, <2>3, <2>9, <3>2, <6>1
        <5>2. CASE old.batches # <<>>
          <6>1. Head(all) = Head(old.batches)
            BY <1>1, <2>4, <5>2
          <6>. QED
            BY <2>9, <5>2, <6>1
        <5>. QED
          BY <5>1, <5>2
      <4>3. \E i \in DOMAIN old.batches : old.batches[i].version = u
        <5>1. Covers(j, u)
          BY <2>9, <4>2 DEF Covers
        <5>2. old.refs > 0 /\ u \in DOMAIN batchLog
          BY <1>1, <1>12, <3>2
        <5>. QED
          BY <1>3, <4>1, <5>1, <5>2 DEF NoneIsMissing
      <4>. QED
        BY <2>4, <4>3
    <3>3. u = version + 1 \/ u \in 1..version
      <4>1. version \in Nat
        BY <1>1
      <4>. QED
        BY <4>1
    <3>. QED
      BY <3>1, <3>2, <3>3
  <2>10. WithinLimits(j)' =>
            /\ Len(all) <= MaxVersions /\ ChangesIn(all) <= MaxEntries
            /\ old.invalidBefore = retainedAt[j] /\ all = h2
    <3>. SUFFICES ASSUME WithinLimits(j)'
                  PROVE  /\ Len(all) <= MaxVersions /\ ChangesIn(all) <= MaxEntries
                         /\ old.invalidBefore = retainedAt[j] /\ all = h2
      OBVIOUS
    <3>0. old.refs > 0
      BY <1>1, <1>12
    <3>1. old.invalidBefore = retainedAt[j] /\ old.batches = h
      BY <1>3, <1>9, <3>0 DEF NothingIsDropped, h
    <3>2. all = h2
      BY <1>7, <1>12, <2>2, <3>0, <3>1
    <3>3. Len(all) <= MaxVersions
      BY <1>12, <1>9, <2>4, <3>0, <3>1
    <3>4. ChangesIn(all) <= MaxEntries
      BY <1>3, <1>12, <1>9, <2>2, <2>5, <3>0, <3>1 DEF ChangesAreCounted
    <3>. QED
      BY <3>1, <3>2, <3>3, <3>4
  <2>11. UnusedIsEmpty(j)' /\ OverflowIsNow(j)' /\ PendingIsHeard(j)'
    BY <1>5, <1>12, <2>6 DEF UnusedIsEmpty, OverflowIsNow, PendingIsHeard
  <2>12. retainedAt[j] <= version + 1
    BY <1>1, <1>3, <1>12 DEF NothingIsDropped
  <2>13. Head(all) \in Batch /\ ChangesIn(all) \in Nat
    <3>. HIDE DEF all
    <3>. QED
      BY <2>4, ChangesInType
  <2>14. Head(all).version \in Nat /\ Len(Head(all).changes) \in Nat
    BY <2>13 DEF Batch, Changes
  <2>. HIDE DEF all, b, Logs
  <2>15. CASE new.batches = all /\ new.changeCount = ChangesIn(all) /\ new.invalidBefore = old.invalidBefore
    <3>1. BatchesAreLogged(j)'
      BY <1>4, <2>7, <2>8, <2>15 DEF BatchesAreLogged, Logs
    <3>2. NoneIsMissing(j)'
      BY <1>4, <2>9, <2>15 DEF NoneIsMissing, Covers
    <3>3. ChangesAreCounted(j)'
      BY <2>15 DEF ChangesAreCounted
    <3>4. NothingIsDropped(j)'
      BY <1>2, <2>6, <2>10, <2>12, <2>15 DEF NothingIsDropped, h2
    <3>. QED
      BY <2>11, <3>1, <3>2, <3>3, <3>4 DEF JournalExact
  <2>16. CASE /\ Len(all) > MaxVersions
              /\ new.batches = Tail(all)
              /\ new.changeCount = ChangesIn(all) - Len(Head(all).changes)
              /\ new.invalidBefore = IF Sparse(j) /\ Head(all).version > old.invalidBefore
                                     THEN Head(all).version ELSE old.invalidBefore
    <3>. DEFINE rest == Tail(all)
    <3>1. /\ rest \in Seq(Batch) /\ Increasing(rest)
          /\ \A i \in DOMAIN rest : i + 1 \in DOMAIN all /\ rest[i] = all[i + 1]
          /\ \A i \in DOMAIN all : all[i] = Head(all) \/ \E k \in DOMAIN rest : rest[k] = all[i]
          /\ \A i \in DOMAIN rest : rest[i].version > Head(all).version
      BY <2>4, <2>8, IncreasingTail
    <3>2. new.batches = rest /\ ChangesIn(all) = ChangesIn(rest) + Len(Head(all).changes)
           /\ (rest # <<>> => Head(rest) = rest[1] /\ 1 \in DOMAIN rest)
      BY <2>4, <2>16, <3>1, ChangesInTail
    <3>. HIDE DEF rest
    <3>3. BatchesAreLogged(j)'
      <4>1. Logs(rest)
        BY <2>7, <3>1 DEF Logs
      <4>. QED
        BY <1>4, <3>1, <3>2, <4>1 DEF BatchesAreLogged, Logs
    <3>4. NoneIsMissing(j)'
      <4>. SUFFICES ASSUME NEW u \in 1..(version + 1), Hears(j, batchLog'[u].route),
                           u > new.invalidBefore,
                           Sparse(j) \/ (rest # <<>> /\ u >= Head(rest).version)
                    PROVE  \E i \in DOMAIN rest : rest[i].version = u
        BY <1>4, <3>2 DEF NoneIsMissing, Covers
      <4>1. u > old.invalidBefore /\ u > Head(all).version
        <5>1. CASE Sparse(j)
          BY <1>1, <2>14, <2>16, <5>1
        <5>2. CASE ~Sparse(j)
          <6>1. Head(rest).version > Head(all).version /\ u >= Head(rest).version
            BY <3>1, <3>2, <5>2
          <6>2. Head(rest) \in Batch
            BY <3>1, <5>2
          <6>3. Head(rest).version \in Nat
            BY <6>2 DEF Batch
          <6>4. u > Head(all).version
            BY <1>1, <2>14, <6>1, <6>3
          <6>. QED
            BY <2>16, <5>2, <6>4
        <5>. QED
          BY <5>1, <5>2
      <4>2. PICK i \in DOMAIN all : all[i].version = u
        BY <1>1, <2>9, <2>14, <4>1
      <4>3. all[i] # Head(all)
        BY <1>1, <2>14, <4>1, <4>2
      <4>. QED
        BY <3>1, <4>2, <4>3
    <3>5. ChangesAreCounted(j)'
      <4>1. ChangesIn(rest) \in Nat
        BY <3>1, ChangesInType
      <4>2. new.changeCount = ChangesIn(rest)
        <5>. HIDE DEF new
        <5>. QED
          BY <2>14, <2>16, <3>2, <4>1
      <4>. QED
        BY <3>2, <4>2 DEF ChangesAreCounted
    <3>6. NothingIsDropped(j)'
      <4>1. ~WithinLimits(j)'
        BY <2>4, <2>10, <2>16, LimitsArePositive
      <4>. QED
        BY <1>2, <2>12, <4>1 DEF NothingIsDropped
    <3>. QED
      BY <2>11, <3>3, <3>4, <3>5, <3>6 DEF JournalExact
  <2>17. CASE /\ Len(all) > MaxVersions \/ ChangesIn(all) > MaxEntries
              /\ new.batches = <<>> /\ new.changeCount = 0 /\ new.invalidBefore = version + 1
    <3>1. BatchesAreLogged(j)'
      BY <2>17 DEF BatchesAreLogged, Increasing
    <3>2. NoneIsMissing(j)'
      BY <1>1, <1>4, <2>17 DEF NoneIsMissing, Covers
    <3>3. ChangesAreCounted(j)'
      <4>1. <<>> \in Seq(Batch)
        OBVIOUS
      <4>2. ChangesIn(<<>>) = 0
        BY <4>1, ChangesInType
      <4>. QED
        BY <2>17, <4>2 DEF ChangesAreCounted
    <3>4. NothingIsDropped(j)'
      <4>1. ~WithinLimits(j)'
        BY <2>4, <2>10, <2>13, <2>17, LimitsArePositive
      <4>. QED
        BY <1>2, <2>12, <4>1 DEF NothingIsDropped
    <3>. QED
      BY <2>11, <3>1, <3>2, <3>3, <3>4 DEF JournalExact
  <2>. QED
    BY <2>6, <2>15, <2>16, <2>17
<1>13. Hears(j, batch.route) \/ new = old
  BY <1>2
<1>14. old.refs = 0 => new = old
  BY <1>2 DEF Committed
<1>. QED
  BY <1>10, <1>11, <1>12, <1>13, <1>14

\* A journal with another number of executions that retain it.
SameBatches(new, j) ==
    /\ new.batches = j.batches /\ new.pending = j.pending /\ new.overflowed = j.overflowed
    /\ new.changeCount = j.changeCount /\ new.invalidBefore = j.invalidBefore

LEMMA RefsFields ==
    ASSUME NEW j \in JournalRecord, NEW r \in Nat
    PROVE  LET new == [j EXCEPT !.refs = r]
           IN  new \in JournalRecord /\ new.refs = r /\ SameBatches(new, j)
BY DEF JournalRecord, SameBatches

\* A journal whose count may be any number.
CountedRecord ==
    [refs : Nat, batches : Seq(Batch), pending : Changes,
     overflowed : BOOLEAN, changeCount : Int, invalidBefore : Nat]

LEMMA JournalsAreCounted == JournalRecord \subseteq CountedRecord
BY DEF JournalRecord, CountedRecord

\* clear, and a journal that is new: they are empty.
IsEmpty(j) ==
    /\ j.batches = <<>> /\ j.pending = <<>> /\ j.overflowed = FALSE /\ j.changeCount = 0

LEMMA ClearedFields ==
    ASSUME NEW j \in CountedRecord, NEW v \in Nat
    PROVE  LET new == Cleared(j, v)
           IN  new \in JournalRecord /\ IsEmpty(new) /\ new.refs = j.refs /\ new.invalidBefore = v
<1>. DEFINE new == Cleared(j, v)
<1>1. <<>> \in Seq(Batch) /\ <<>> \in Changes /\ j.refs \in Nat
  BY DEF Changes, CountedRecord
<1>2. new = [refs |-> j.refs, batches |-> <<>>, pending |-> <<>>, overflowed |-> FALSE,
             changeCount |-> 0, invalidBefore |-> v]
  <2>1. new = Cleared(j, v)
    OBVIOUS
  <2>. HIDE DEF new
  <2>. QED
    BY <2>1 DEF Cleared, CountedRecord
<1>. HIDE DEF new
<1>3. new \in JournalRecord
  BY <1>1, <1>2 DEF JournalRecord
<1>4. IsEmpty(new) /\ new.refs = j.refs /\ new.invalidBefore = v
  BY <1>2 DEF IsEmpty
<1>. QED
  BY <1>3, <1>4 DEF new

LEMMA NewFields == NewJournal \in JournalRecord /\ IsEmpty(NewJournal) /\ NewJournal.refs = 0
<1>1. <<>> \in Seq(Batch) /\ <<>> \in Changes
  BY DEF Changes
<1>2. NewJournal \in JournalRecord
  BY <1>1 DEF NewJournal, JournalRecord
<1>. QED
  BY <1>2 DEF NewJournal, IsEmpty

\* A commit leaves a journal with every field; that its count is no negative number
\* follows from what it counts.
LEMMA TrimmedType ==
    ASSUME NEW j \in JournalRecord, j.batches # <<>>, NEW v \in Nat, NEW sparse \in BOOLEAN
    PROVE  Trimmed(j, v, sparse) \in CountedRecord
<1>. DEFINE oldest == Head(j.batches)
            valid == IF sparse /\ oldest.version > j.invalidBefore THEN oldest.version
                     ELSE j.invalidBefore
            rest == [j EXCEPT !.batches = Tail(@),
                              !.changeCount = @ - Len(oldest.changes),
                              !.invalidBefore = IF sparse /\ oldest.version > @
                                                THEN oldest.version ELSE @]
            kept == IF ~(Len(j.batches) > MaxVersions) THEN j ELSE rest
<1>1. /\ j.refs \in Nat /\ j.batches \in Seq(Batch) /\ j.pending \in Changes
      /\ j.overflowed \in BOOLEAN /\ j.changeCount \in Nat /\ j.invalidBefore \in Nat
  BY DEF JournalRecord
<1>2. oldest \in Batch /\ Tail(j.batches) \in Seq(Batch)
  BY <1>1
<1>3. oldest.version \in Nat /\ Len(oldest.changes) \in Nat
  BY <1>2 DEF Batch, Changes
<1>. HIDE DEF oldest
<1>4. valid \in Nat /\ j.changeCount - Len(oldest.changes) \in Int
  BY <1>1, <1>3
<1>5. rest = [refs |-> j.refs, batches |-> Tail(j.batches), pending |-> j.pending,
              overflowed |-> j.overflowed, changeCount |-> j.changeCount - Len(oldest.changes),
              invalidBefore |-> valid]
  <2>1. rest = [j EXCEPT !.batches = Tail(@), !.changeCount = @ - Len(oldest.changes),
                         !.invalidBefore = valid]
    OBVIOUS
  <2>. HIDE DEF rest, valid
  <2>. QED
    BY <2>1 DEF JournalRecord
<1>6. rest \in CountedRecord
  <2>. HIDE DEF rest, valid
  <2>. QED
    BY <1>1, <1>2, <1>4, <1>5 DEF CountedRecord
<1>7. kept \in CountedRecord
  BY <1>6, JournalsAreCounted
<1>8. Trimmed(j, v, sparse) = IF kept.changeCount > MaxEntries THEN Cleared(kept, v) ELSE kept
  BY DEF Trimmed, oldest
<1>. HIDE DEF kept
<1>9. Cleared(kept, v) \in CountedRecord
  BY <1>7, ClearedFields, JournalsAreCounted
<1>. QED
  BY <1>7, <1>8, <1>9

LEMMA CommittedType ==
    ASSUME NEW j \in JournalRecord, NEW v \in Nat, NEW sparse \in BOOLEAN
    PROVE  Committed(j, v, sparse) \in CountedRecord
<1>. DEFINE new == Committed(j, v, sparse)
<1>1. /\ j.pending \in Changes /\ Len(j.pending) \in Nat /\ <<>> \in Changes
      /\ j.batches \in Seq(Batch) /\ j.changeCount \in Nat /\ j.refs \in Nat
      /\ j.overflowed \in BOOLEAN /\ j.invalidBefore \in Nat
  BY DEF JournalRecord, Changes
<1>2. CASE j.refs = 0
  BY <1>2, JournalsAreCounted DEF Committed
<1>3. CASE j.refs # 0 /\ j.overflowed
  <2>1. new = [j EXCEPT !.pending = <<>>, !.overflowed = FALSE]
    BY <1>3 DEF Committed
  <2>. HIDE DEF new
  <2>2. new = [refs |-> j.refs, batches |-> j.batches, pending |-> <<>>, overflowed |-> FALSE,
               changeCount |-> j.changeCount, invalidBefore |-> j.invalidBefore]
    BY <2>1 DEF JournalRecord
  <2>3. new \in CountedRecord
    BY <1>1, <2>2 DEF CountedRecord
  <2>. QED
    BY <2>3 DEF new
<1>4. CASE j.refs # 0 /\ ~j.overflowed
  <2>. DEFINE b == [version |-> v, changes |-> j.pending]
              all == Append(j.batches, b)
              more == [j EXCEPT !.batches = Append(@, b), !.pending = <<>>,
                                !.changeCount = @ + Len(j.pending)]
  <2>1. b \in Batch
    BY <1>1 DEF Batch
  <2>2. all \in Seq(Batch) /\ all # <<>>
    BY <1>1, <2>1, AppendProperties
  <2>3. more = [refs |-> j.refs, batches |-> all, pending |-> <<>>, overflowed |-> j.overflowed,
                changeCount |-> j.changeCount + Len(j.pending), invalidBefore |-> j.invalidBefore]
    <3>1. more = [j EXCEPT !.batches = all, !.pending = <<>>, !.changeCount = @ + Len(j.pending)]
      OBVIOUS
    <3>. HIDE DEF more, all
    <3>. QED
      BY <3>1 DEF JournalRecord
  <2>4. new = Trimmed(more, v, sparse)
    BY <1>4 DEF Committed
  <2>. HIDE DEF more, all, new
  <2>5. more \in JournalRecord /\ more.batches # <<>>
    BY <1>1, <2>2, <2>3 DEF JournalRecord
  <2>. QED
    BY <2>4, <2>5, TrimmedType DEF new
<1>. QED
  BY <1>2, <1>3, <1>4

LEMMA CommitKeepsTypes ==
    ASSUME JInv, AdvanceVersion
    PROVE  JournalTypeOK' /\ LogIsNumbered'
<1>1. /\ version \in Nat /\ batchLog \in Seq(Logged) /\ Len(batchLog) = version /\ batch \in Logged
      /\ journal \in [Journals -> JournalRecord] /\ retainedAt \in [Journals -> Nat]
  BY JInvTypes DEF JInv, LogIsNumbered
<1>2. /\ version' = version + 1 /\ batchLog' = Append(batchLog, batch) /\ batch' = Idle
      /\ retainedAt' = retainedAt
      /\ journal' = [j \in Journals |->
            IF Hears(j, batch.route) THEN Committed(journal[j], version + 1, Sparse(j))
            ELSE journal[j]]
  BY DEF AdvanceVersion
<1>3. batchLog' \in Seq(Logged) /\ Len(batchLog') = version'
  BY <1>1, <1>2, AppendProperties
<1>4. batch' \in Logged
  BY <1>2 DEF Idle, Logged, Journals, Changes
<1>5. ASSUME NEW j \in Journals
      PROVE  journal'[j] \in JournalRecord
  <2>. DEFINE new == journal'[j]
  <2>1. journal[j] \in JournalRecord /\ version + 1 \in Nat /\ Sparse(j) \in BOOLEAN
    BY <1>1 DEF Sparse
  <2>2. new = IF Hears(j, batch.route) THEN Committed(journal[j], version + 1, Sparse(j))
              ELSE journal[j]
    BY <1>2
  <2>3. new.changeCount = ChangesIn(new.batches)
    BY CommitKeepsExact DEF JournalExact, ChangesAreCounted
  <2>4. CASE Hears(j, batch.route)
    <3>. HIDE DEF new
    <3>1. new \in CountedRecord
      BY <2>1, <2>2, <2>4, CommittedType
    <3>2. new.batches \in Seq(Batch)
      BY <3>1 DEF CountedRecord
    <3>3. new.changeCount \in Nat
      BY <2>3, <3>2, ChangesInType
    <3>4. new \in JournalRecord
      BY <3>1, <3>3 DEF CountedRecord, JournalRecord
    <3>. QED
      BY <3>4 DEF new
  <2>5. CASE ~Hears(j, batch.route)
    BY <2>1, <2>2, <2>5
  <2>. QED
    BY <2>4, <2>5
<1>6. journal' \in [Journals -> JournalRecord]
  BY <1>1, <1>2, <1>5
<1>. QED
  BY <1>1, <1>2, <1>3, <1>4, <1>6 DEF JournalTypeOK, LogIsNumbered, Logged, JournalRecord

LEMMA RetainKeepsExact ==
    ASSUME JInv, NEW k \in Journals, RetainChanges(k), NEW j \in Journals
    PROVE  journal'[j] \in JournalRecord /\ JournalExact(j)'
<1>. DEFINE old == journal[j]
            new == journal'[j]
<1>1. /\ version \in Nat /\ batchLog \in Seq(Logged) /\ DOMAIN batchLog = 1..version /\ Len(batchLog) = version
      /\ old \in JournalRecord /\ retainedAt \in [Journals -> Nat] /\ old.refs \in Nat
      /\ journal \in [Journals -> JournalRecord]
  BY JInvTypes DEF JournalRecord, JInv, LogIsNumbered
<1>2. /\ batch = Idle /\ version' = version /\ batchLog' = batchLog /\ batch' = batch
      /\ journal' = [journal EXCEPT ![k] = Retained(journal[k], version)]
      /\ retainedAt' = [retainedAt EXCEPT ![k] = IF journal[k].refs = 0 THEN version ELSE @]
  BY DEF RetainChanges
<1>3. /\ UnusedIsEmpty(j) /\ OverflowIsNow(j) /\ PendingIsHeard(j) /\ BatchesAreLogged(j)
      /\ NoneIsMissing(j) /\ ChangesAreCounted(j) /\ NothingIsDropped(j)
  BY DEF JInv, JournalExact
<1>4. old.overflowed = FALSE
  BY <1>1, <1>2, <1>3 DEF OverflowIsNow, JournalRecord
<1>5. CASE j # k
  <2>1. new = old /\ retainedAt'[j] = retainedAt[j]
    BY <1>1, <1>2, <1>5
  <2>2. (UnusedIsEmpty(j) /\ OverflowIsNow(j) /\ PendingIsHeard(j) /\ BatchesAreLogged(j)
         /\ ChangesAreCounted(j))'
    BY <1>2, <1>3, <2>1
       DEF UnusedIsEmpty, OverflowIsNow, PendingIsHeard, BatchesAreLogged, ChangesAreCounted
  <2>3. NoneIsMissing(j)' /\ NothingIsDropped(j)'
    BY <1>2, <1>3, <2>1 DEF NoneIsMissing, Covers, NothingIsDropped, WithinLimits
  <2>. QED
    BY <1>1, <2>1, <2>2, <2>3 DEF JournalExact
<1>6. CASE j = k /\ old.refs # 0
  <2>1. new = [old EXCEPT !.refs = old.refs + 1] /\ retainedAt'[j] = retainedAt[j]
    BY <1>1, <1>2, <1>6 DEF Retained
  <2>2. new \in JournalRecord /\ new.refs = old.refs + 1 /\ SameBatches(new, old)
    <3>1. old \in JournalRecord /\ old.refs + 1 \in Nat
      BY <1>1
    <3>. HIDE DEF old, new
    <3>. QED
      BY <2>1, <3>1, RefsFields
  <2>3. old.refs > 0 /\ new.refs # 0
    BY <1>1, <1>6, <2>2
  <2>4. (UnusedIsEmpty(j) /\ OverflowIsNow(j) /\ PendingIsHeard(j) /\ BatchesAreLogged(j)
         /\ ChangesAreCounted(j))'
    BY <1>2, <1>3, <2>2, <2>3
       DEF UnusedIsEmpty, OverflowIsNow, PendingIsHeard, BatchesAreLogged, ChangesAreCounted,
           SameBatches
  <2>5. NoneIsMissing(j)' /\ NothingIsDropped(j)'
    BY <1>2, <1>3, <2>1, <2>2, <2>3 DEF NoneIsMissing, Covers, NothingIsDropped, WithinLimits,
         SameBatches
  <2>. QED
    BY <2>2, <2>4, <2>5 DEF JournalExact
<1>7. CASE j = k /\ old.refs = 0
  <2>. DEFINE more == [old EXCEPT !.refs = old.refs + 1]
  <2>1. new = Cleared(more, version) /\ retainedAt'[j] = version
    BY <1>1, <1>2, <1>7 DEF Retained, JournalRecord
  <2>2. new \in JournalRecord /\ new.refs = 1 /\ IsEmpty(new) /\ new.invalidBefore = version
    <3>1. more \in JournalRecord /\ more.refs = 1
      <4>1. old \in JournalRecord /\ old.refs + 1 \in Nat /\ old.refs + 1 = 1
        BY <1>1, <1>7
      <4>. HIDE DEF old
      <4>. QED
        BY <4>1, RefsFields
    <3>2. more \in CountedRecord /\ version \in Nat
      BY <1>1, <3>1, JournalsAreCounted
    <3>. HIDE DEF more, new
    <3>. QED
      BY <2>1, <3>1, <3>2, ClearedFields
  <2>3. (UnusedIsEmpty(j) /\ OverflowIsNow(j) /\ BatchesAreLogged(j))'
    BY <1>2, <2>2 DEF UnusedIsEmpty, OverflowIsNow, BatchesAreLogged, Increasing, IsEmpty
  <2>4. PendingIsHeard(j)'
    BY <1>2, <2>2 DEF PendingIsHeard, Idle, IsEmpty
  <2>5. ChangesAreCounted(j)'
    <3>1. <<>> \in Seq(Batch)
      OBVIOUS
    <3>2. ChangesIn(<<>>) = 0
      BY <3>1, ChangesInType
    <3>. QED
      BY <2>2, <3>2 DEF ChangesAreCounted, IsEmpty
  <2>6. NoneIsMissing(j)'
    BY <1>1, <1>2, <2>2 DEF NoneIsMissing, Covers, IsEmpty
  <2>7. NothingIsDropped(j)'
    <3>1. Heard(batchLog, j, version) = <<>>
      BY <1>1, HeardNothing
    <3>. QED
      BY <1>1, <1>2, <2>1, <2>2, <3>1 DEF NothingIsDropped, IsEmpty
  <2>. QED
    BY <2>2, <2>3, <2>4, <2>5, <2>6, <2>7 DEF JournalExact
<1>. QED
  BY <1>5, <1>6, <1>7

\* A journal nobody retains, with nothing in it, is exact.
LEMMA EmptyIsExact ==
    \A j \in Journals : journal[j].refs = 0 /\ IsEmpty(journal[j]) => JournalExact(j)
<1>1. <<>> \in Seq(Batch)
  OBVIOUS
<1>2. ChangesIn(<<>>) = 0
  BY <1>1, ChangesInType
<1>. QED
  BY <1>2 DEF JournalExact, UnusedIsEmpty, OverflowIsNow, PendingIsHeard, BatchesAreLogged,
              NoneIsMissing, ChangesAreCounted, NothingIsDropped, Increasing, IsEmpty

LEMMA EmptyStaysExact ==
    ASSUME NEW j \in Journals, journal'[j].refs = 0, IsEmpty(journal'[j])
    PROVE  JournalExact(j)'
<1>1. <<>> \in Seq(Batch)
  OBVIOUS
<1>2. ChangesIn(<<>>) = 0
  BY <1>1, ChangesInType
<1>. QED
  BY <1>2 DEF JournalExact, UnusedIsEmpty, OverflowIsNow, PendingIsHeard, BatchesAreLogged,
              NoneIsMissing, ChangesAreCounted, NothingIsDropped, Increasing, IsEmpty

LEMMA ReleaseKeepsExact ==
    ASSUME JInv, NEW k \in Journals, ReleaseChanges(k), NEW j \in Journals
    PROVE  journal'[j] \in JournalRecord /\ JournalExact(j)'
<1>. DEFINE old == journal[j]
            new == journal'[j]
<1>1. /\ version \in Nat /\ batchLog \in Seq(Logged)
      /\ old \in JournalRecord /\ retainedAt \in [Journals -> Nat] /\ old.refs \in Nat
      /\ journal \in [Journals -> JournalRecord]
  BY JInvTypes DEF JournalRecord
<1>2. /\ version' = version /\ batchLog' = batchLog /\ batch' = batch /\ retainedAt' = retainedAt
      /\ journal' = [journal EXCEPT ![k] = Released(journal[k], version, Sparse(k))]
      /\ journal[k].refs > 0
  BY DEF ReleaseChanges
<1>3. /\ UnusedIsEmpty(j) /\ OverflowIsNow(j) /\ PendingIsHeard(j) /\ BatchesAreLogged(j)
      /\ NoneIsMissing(j) /\ ChangesAreCounted(j) /\ NothingIsDropped(j)
  BY DEF JInv, JournalExact
<1>4. CASE j # k
  <2>1. new = old
    BY <1>1, <1>2, <1>4
  <2>2. (UnusedIsEmpty(j) /\ OverflowIsNow(j) /\ PendingIsHeard(j) /\ BatchesAreLogged(j)
         /\ ChangesAreCounted(j))'
    BY <1>2, <1>3, <2>1
       DEF UnusedIsEmpty, OverflowIsNow, PendingIsHeard, BatchesAreLogged, ChangesAreCounted
  <2>3. NoneIsMissing(j)' /\ NothingIsDropped(j)'
    BY <1>2, <1>3, <2>1 DEF NoneIsMissing, Covers, NothingIsDropped, WithinLimits
  <2>. QED
    BY <1>1, <2>1, <2>2, <2>3 DEF JournalExact
<1>5. CASE j = k /\ old.refs # 1
  <2>1. new = [old EXCEPT !.refs = old.refs - 1] /\ old.refs - 1 \in Nat
    <3>1. old.refs # 0 /\ old.refs - 1 # 0 /\ old.refs - 1 \in Nat
      BY <1>1, <1>2, <1>5
    <3>2. [old EXCEPT !.refs = old.refs - 1].refs = old.refs - 1
      BY <1>1 DEF JournalRecord
    <3>. QED
      BY <1>1, <1>2, <1>5, <3>1, <3>2 DEF Released
  <2>2. new \in JournalRecord /\ new.refs = old.refs - 1 /\ SameBatches(new, old)
    <3>1. old \in JournalRecord
      BY <1>1
    <3>. HIDE DEF old, new
    <3>. QED
      BY <2>1, <3>1, RefsFields
  <2>3. old.refs > 0 /\ new.refs # 0 /\ new.refs \in Nat
    BY <1>1, <1>2, <1>5, <2>2
  <2>4. (UnusedIsEmpty(j) /\ OverflowIsNow(j) /\ PendingIsHeard(j) /\ BatchesAreLogged(j)
         /\ ChangesAreCounted(j))'
    BY <1>2, <1>3, <2>2, <2>3
       DEF UnusedIsEmpty, OverflowIsNow, PendingIsHeard, BatchesAreLogged, ChangesAreCounted,
           SameBatches
  <2>5. NoneIsMissing(j)' /\ NothingIsDropped(j)'
    BY <1>2, <1>3, <2>2, <2>3 DEF NoneIsMissing, Covers, NothingIsDropped, WithinLimits,
         SameBatches
  <2>. QED
    BY <2>2, <2>4, <2>5 DEF JournalExact
<1>6. CASE j = k /\ old.refs = 1
  <2>. DEFINE less == [old EXCEPT !.refs = 0]
  <2>1. less \in JournalRecord /\ less.refs = 0
    <3>1. old \in JournalRecord /\ 0 \in Nat
      BY <1>1
    <3>. HIDE DEF old
    <3>. QED
      BY <3>1, RefsFields
  <2>2. new = IF Sparse(j) THEN NewJournal ELSE Cleared(less, version)
    <3>1. journal[k].refs = 1
      BY <1>6
    <3>. QED
      BY <1>1, <1>2, <1>6, <2>1, <3>1 DEF Released
  <2>3. new \in JournalRecord /\ new.refs = 0 /\ IsEmpty(new)
    <3>1. less \in CountedRecord /\ version \in Nat
      BY <1>1, <2>1, JournalsAreCounted
    <3>. HIDE DEF less, new
    <3>. QED
      BY <2>1, <2>2, <3>1, NewFields, ClearedFields
  <2>. QED
    BY <2>3, EmptyStaysExact
<1>. QED
  BY <1>4, <1>5, <1>6

LEMMA ResetKeepsExact ==
    ASSUME JInv, Reset, NEW j \in Journals
    PROVE  journal'[j] \in JournalRecord /\ JournalExact(j)'
<1>. DEFINE old == journal[j]
            new == journal'[j]
<1>1. version \in Nat /\ old \in JournalRecord
  BY JInvTypes
<1>2. new = IF old.refs = 0 THEN Cleared(old, version)
            ELSE IF Sparse(j) THEN NewJournal
            ELSE [Cleared(old, 0) EXCEPT !.refs = 0]
  BY DEF Reset
<1>3. Cleared(old, version) \in JournalRecord /\ IsEmpty(Cleared(old, version))
      /\ Cleared(old, version).refs = old.refs /\ Cleared(old, 0) \in JournalRecord
      /\ IsEmpty(Cleared(old, 0))
  <2>1. old \in CountedRecord /\ version \in Nat /\ 0 \in Nat
    BY <1>1, JournalsAreCounted
  <2>. HIDE DEF old
  <2>. QED
    BY <2>1, ClearedFields
<1>4. LET last == [Cleared(old, 0) EXCEPT !.refs = 0]
      IN  last \in JournalRecord /\ last.refs = 0 /\ IsEmpty(last)
  <2>. DEFINE c == Cleared(old, 0)
              last == [c EXCEPT !.refs = 0]
  <2>1. c \in JournalRecord /\ IsEmpty(c) /\ 0 \in Nat
    BY <1>3
  <2>. HIDE DEF c
  <2>2. last \in JournalRecord /\ last.refs = 0 /\ SameBatches(last, c)
    BY <2>1, RefsFields
  <2>. HIDE DEF last
  <2>3. IsEmpty(last)
    BY <2>1, <2>2 DEF IsEmpty, SameBatches
  <2>. QED
    BY <2>2, <2>3 DEF last, c
<1>5. new \in JournalRecord /\ new.refs = 0 /\ IsEmpty(new)
  <2>. HIDE DEF new, old
  <2>. QED
    BY <1>2, <1>3, <1>4, NewFields
<1>. QED
  BY <1>5, EmptyStaysExact

-----------------------------------------------------------------------------
(* The theorems *)

LEMMA JournalInit == InitJournal => JInv
<1>. SUFFICES ASSUME InitJournal PROVE JInv
  OBVIOUS
<1>1. \A j \in Journals : journal[j] = NewJournal
  BY DEF InitJournal
<1>2. \A j \in Journals : JournalExact(j)
  BY <1>1, NewFields, EmptyIsExact
<1>3. batch \in [route : Journals, changes : Changes]
  BY DEF InitJournal, Idle, Journals, Changes
<1>4. journal \in [Journals -> JournalRecord] /\ retainedAt \in [Journals -> Nat]
  BY NewFields DEF InitJournal
<1>5. version = 0 /\ batchLog = <<>> /\ batch = Idle
  BY DEF InitJournal
<1>. QED
  BY <1>2, <1>3, <1>4, <1>5 DEF JInv, JournalTypeOK, LogIsNumbered, JournalRecord

LEMMA JournalStutter == JInv /\ UNCHANGED journalVars => JInv'
<1>. SUFFICES ASSUME JInv, UNCHANGED journalVars PROVE JInv'
  OBVIOUS
<1>1. /\ version' = version /\ journal' = journal /\ batch' = batch /\ batchLog' = batchLog
      /\ retainedAt' = retainedAt
  BY DEF journalVars
<1>2. JournalTypeOK' /\ LogIsNumbered'
  BY <1>1 DEF JInv, JournalTypeOK, LogIsNumbered
<1>3. ASSUME NEW j \in Journals
      PROVE  JournalExact(j)'
  <2>1. JournalExact(j)
    BY DEF JInv
  <2>. QED
    BY <1>1, <2>1
       DEF JournalExact, UnusedIsEmpty, OverflowIsNow, PendingIsHeard, BatchesAreLogged,
           NoneIsMissing, ChangesAreCounted, NothingIsDropped, Covers, WithinLimits
<1>. QED
  BY <1>2, <1>3 DEF JInv

LEMMA JournalStep == JInv /\ [NextJournal]_journalVars => JInv'
<1>. SUFFICES ASSUME JInv, [NextJournal]_journalVars PROVE JInv'
  OBVIOUS
<1>1. /\ version \in Nat /\ batchLog \in Seq(Logged) /\ batch \in Logged
      /\ journal \in [Journals -> JournalRecord] /\ retainedAt \in [Journals -> Nat]
  BY JInvTypes
<1>2. CASE UNCHANGED journalVars
  BY <1>2, JournalStutter
<1>3. ASSUME NEW route \in Journals, RecordRowChange(route)
      PROVE  JInv'
  BY <1>3, RecordKeepsTypes, RecordKeepsExact DEF JInv
<1>4. CASE AdvanceVersion
  BY <1>4, CommitKeepsTypes, CommitKeepsExact DEF JInv
<1>5. ASSUME NEW k \in Journals, RetainChanges(k)
      PROVE  JInv'
  <2>1. \A j \in Journals : journal'[j] \in JournalRecord /\ JournalExact(j)'
    BY <1>5, RetainKeepsExact
  <2>2. DOMAIN journal' = Journals /\ journal' = [j \in Journals |-> journal'[j]]
    BY <1>1, <1>5 DEF RetainChanges
  <2>3. retainedAt' \in [Journals -> Nat] /\ version' = version /\ batchLog' = batchLog /\ batch' = batch
    BY <1>1, <1>5 DEF RetainChanges
  <2>4. JournalTypeOK' /\ LogIsNumbered'
    BY <2>1, <2>2, <2>3 DEF JInv, JournalTypeOK, LogIsNumbered, JournalRecord
  <2>. QED
    BY <2>1, <2>4 DEF JInv
<1>6. ASSUME NEW k \in Journals, ReleaseChanges(k)
      PROVE  JInv'
  <2>1. \A j \in Journals : journal'[j] \in JournalRecord /\ JournalExact(j)'
    BY <1>6, ReleaseKeepsExact
  <2>2. journal' = [j \in Journals |-> journal'[j]]
    BY <1>1, <1>6 DEF ReleaseChanges
  <2>3. retainedAt' = retainedAt /\ version' = version /\ batchLog' = batchLog /\ batch' = batch
    BY <1>6 DEF ReleaseChanges
  <2>4. JournalTypeOK' /\ LogIsNumbered'
    BY <2>1, <2>2, <2>3 DEF JInv, JournalTypeOK, LogIsNumbered, JournalRecord
  <2>. QED
    BY <2>1, <2>4 DEF JInv
<1>7. CASE Reset
  <2>1. \A j \in Journals : journal'[j] \in JournalRecord /\ JournalExact(j)'
    BY <1>7, ResetKeepsExact
  <2>2. journal' = [j \in Journals |-> journal'[j]]
    BY <1>7 DEF Reset
  <2>3. /\ retainedAt' = retainedAt /\ version' = 0 /\ batchLog' = <<>> /\ batch' = batch
        /\ batch = Idle
    BY <1>7 DEF Reset
  <2>4. JournalTypeOK' /\ LogIsNumbered'
    BY <2>1, <2>2, <2>3 DEF JInv, JournalTypeOK, LogIsNumbered, JournalRecord
  <2>. QED
    BY <2>1, <2>4 DEF JInv
<1>. QED
  BY <1>2, <1>3, <1>4, <1>5, <1>6, <1>7 DEF NextJournal

\* The inductive invariant holds always.
THEOREM JournalInvariance == SpecJournal => []JInv
BY JournalInit, JournalStep, PTL DEF SpecJournal

\* The journals, the mutation under way and the log are always well-typed; in
\* particular the count of changes of a journal never falls below zero
\* (TopicRowChangeJournal.trim).
THEOREM JournalTypeCorrect == SpecJournal => []JournalTypeOK
<1>1. JInv => JournalTypeOK
  BY DEF JInv
<1>. QED
  BY <1>1, JournalInvariance, PTL

\* Whatever is retained, released, dropped, overflowed and reset in between, what a
\* journal answers from a version it knows is every batch since that it was to hear,
\* in the order of their versions, and nothing else (changesSince).
THEOREM AnswersAreExact == SpecJournal => []ExactOrUnknown
BY JInvExact, JournalInvariance, PTL

\* A journal that has stayed within its limits since it was retained knows every
\* version since: an active query never rescans the rows for nothing (trim, record).
THEOREM KnownWithinLimits == SpecJournal => []KnowsWithinLimits
BY JInvKnows, JournalInvariance, PTL

-----------------------------------------------------------------------------
(***************************************************************************)
(* The retained window: RetainedWindow.                                    *)
(***************************************************************************)

(* Induction and recursion, from the well-foundedness of the naturals *)

-----------------------------------------------------------------------------
(* Sorting *)

\* before is a strict total order of S.
IsOrder(S, before) ==
    /\ \A x \in S : <<x, x>> \notin before
    /\ \A x, y, z \in S : <<x, y>> \in before /\ <<y, z>> \in before => <<x, z>> \in before
    /\ \A x, y \in S : x # y => <<x, y>> \in before \/ <<y, x>> \in before

\* r has the elements of S, each once, in the order "before".
IsArrangement(r, S, before) ==
    /\ r \in [1..Cardinality(S) -> S]
    /\ \A x \in S : \E n \in 1..Cardinality(S) : r[n] = x
    /\ \A m, n \in 1..Cardinality(S) : m < n => <<r[m], r[n]>> \in before

\* InOrder arranges the elements of a finite set.
LEMMA InOrderArranges ==
    ASSUME NEW S, IsFiniteSet(S), NEW before, IsOrder(S, before)
    PROVE  IsArrangement(InOrder(S, before), S, before)
<1>. DEFINE Below(x) == {y \in S : <<y, x>> \in before}
            n == Cardinality(S)
            rank == [x \in S |-> Cardinality(Below(x))]
            r == InOrder(S, before)
<1>1. n \in Nat
  BY FS_CardinalityType
<1>2. \A x \in S : IsFiniteSet(Below(x)) /\ Cardinality(Below(x)) \in 0..(n - 1)
  <2>. SUFFICES ASSUME NEW x \in S
                PROVE  IsFiniteSet(Below(x)) /\ Cardinality(Below(x)) \in 0..(n - 1)
    OBVIOUS
  <2>1. Below(x) \in SUBSET (S \ {x})
    BY DEF IsOrder
  <2>2. IsFiniteSet(S \ {x}) /\ Cardinality(S \ {x}) = n - 1
    BY FS_RemoveElement
  <2>. HIDE DEF Below
  <2>3. IsFiniteSet(Below(x)) /\ Cardinality(Below(x)) <= n - 1
    BY <2>1, <2>2, FS_Subset
  <2>. QED
    BY <1>1, <2>3, FS_CardinalityType
<1>3. \A x, y \in S : <<x, y>> \in before => rank[x] < rank[y]
  <2>. SUFFICES ASSUME NEW x \in S, NEW y \in S, <<x, y>> \in before
                PROVE  Cardinality(Below(x)) < Cardinality(Below(y))
    OBVIOUS
  <2>1. Below(x) \in SUBSET Below(y) /\ Below(x) # Below(y)
    BY DEF IsOrder
  <2>. HIDE DEF Below
  <2>2. /\ Cardinality(Below(x)) <= Cardinality(Below(y))
        /\ Cardinality(Below(x)) # Cardinality(Below(y))
    BY <1>2, <2>1, FS_Subset
  <2>. QED
    BY <1>1, <1>2, <2>2
<1>4. rank \in [S -> 0..(n - 1)]
  BY <1>2
<1>. HIDE DEF rank
<1>5. rank \in Injection(S, 0..(n - 1))
  <2>1. \A x, y \in S : rank[x] = rank[y] => x = y
    <3>1. \A x, y \in S : rank[x] \in Int /\ rank[y] \in Int
      BY <1>4
    <3>2. \A x, y \in S : x # y => rank[x] < rank[y] \/ rank[y] < rank[x]
      BY <1>3 DEF IsOrder
    <3>. QED
      BY <3>1, <3>2
  <2>. QED
    BY <1>4, <2>1 DEF Injection, IsInjective
<1>6. rank \in Surjection(S, 0..(n - 1))
  <2>1. IsFiniteSet(0..(n - 1)) /\ Cardinality(0..(n - 1)) = n
    BY <1>1, FS_Interval
  <2>. QED
    BY <1>5, <2>1, FS_Injection
<1>7. \A k \in 1..n : r[k] \in S /\ rank[r[k]] = k - 1
  <2>. SUFFICES ASSUME NEW k \in 1..n PROVE r[k] \in S /\ rank[r[k]] = k - 1
    OBVIOUS
  <2>1. k - 1 \in 0..(n - 1)
    BY <1>1
  <2>2. \E x \in S : rank[x] = k - 1
    BY <1>6, <2>1 DEF Surjection
  <2>3. r[k] = CHOOSE x \in S : rank[x] = k - 1
    BY DEF InOrder, rank
  <2>. QED
    BY <2>2, <2>3
<1>8. r \in [1..n -> S]
  <2>. DEFINE Value(k) == CHOOSE x \in S : Cardinality(Below(x)) = k - 1
  <2>1. r = [k \in 1..n |-> Value(k)]
    BY DEF InOrder
  <2>. HIDE DEF r, Value
  <2>2. \A k \in 1..n : Value(k) \in S
    BY <1>7, <2>1
  <2>. QED
    BY <2>1, <2>2
<1>. HIDE DEF r
<1>9. \A x \in S : \E k \in 1..n : r[k] = x
  <2>. SUFFICES ASSUME NEW x \in S PROVE \E k \in 1..n : r[k] = x
    OBVIOUS
  <2>1. rank[x] + 1 \in 1..n
    BY <1>1, <1>4
  <2>2. r[rank[x] + 1] \in S /\ rank[r[rank[x] + 1]] = rank[x]
    BY <1>1, <1>4, <1>7, <2>1
  <2>3. r[rank[x] + 1] = x
    BY <1>4, <1>5, <2>2 DEF Injection, IsInjective
  <2>. QED
    BY <2>1, <2>3
<1>10. \A k, m \in 1..n : k < m => <<r[k], r[m]>> \in before
  <2>. SUFFICES ASSUME NEW k \in 1..n, NEW m \in 1..n, k < m PROVE <<r[k], r[m]>> \in before
    OBVIOUS
  <2>1. rank[r[k]] < rank[r[m]]
    BY <1>7
  <2>2. rank[r[k]] \in Nat /\ rank[r[m]] \in Nat
    BY <1>7
  <2>3. ~(rank[r[m]] < rank[r[k]]) /\ rank[r[m]] # rank[r[k]]
    BY <2>1, <2>2
  <2>. QED
    BY <1>3, <1>7, <2>3 DEF IsOrder
<1>. QED
  BY <1>8, <1>9, <1>10 DEF IsArrangement, r

-----------------------------------------------------------------------------
(* Lists of rows *)

Ordered(window) == \A i, k \in DOMAIN window : i < k => Precedes(window[i], window[k])

RowsIn(window) == {window[i] : i \in DOMAIN window}

\* r lists the rows of W in the query's order.
IsListing(r, W) == r \in Seq(Row) /\ Ordered(r) /\ RowsIn(r) = W

\* W is a beginning of E in that order.
Begins(W, E) == W \subseteq E /\ \A e \in W, x \in E : Precedes(x, e) => x \in W

LEMMA PrecedesIsOrder ==
    /\ \A a \in Row : ~Precedes(a, a)
    /\ \A a, b, c \in Row : Precedes(a, b) /\ Precedes(b, c) => Precedes(a, c)
    /\ \A a, b \in Row : a # b => Precedes(a, b) \/ Precedes(b, a)
<1>1. \A a \in Row : a.key \in Nat /\ a.field \in Nat
  BY KeysAreNumbers, FieldsArePositive DEF Row
<1>2. \A a, b \in Row : a.key = b.key /\ a.field = b.field => a = b
  BY DEF Row
<1>3. \A a, b \in Row : a # b => Precedes(a, b) \/ Precedes(b, a)
  BY <1>1, <1>2 DEF Precedes
<1>4. \A a \in Row : ~Precedes(a, a)
  BY <1>1 DEF Precedes
<1>5. \A a, b, c \in Row : Precedes(a, b) /\ Precedes(b, c) => Precedes(a, c)
  BY <1>1 DEF Precedes
<1>. QED
  BY <1>3, <1>4, <1>5

LEMMA Unordered == \A a, b \in Row : ~(Precedes(a, b) /\ Precedes(b, a))
BY PrecedesIsOrder

\* A list has as many elements as there are rows in it, each once.
LEMMA ListingLength ==
    ASSUME NEW r, NEW W, IsListing(r, W)
    PROVE  /\ IsFiniteSet(W) /\ Cardinality(W) = Len(r)
           /\ Len(r) \in Nat /\ DOMAIN r = 1..Len(r) /\ W \subseteq Row
           /\ \A i, k \in DOMAIN r : r[i] = r[k] => i = k
<1>1. /\ Len(r) \in Nat /\ DOMAIN r = 1..Len(r) /\ \A i \in DOMAIN r : r[i] \in Row
      /\ r \in [1..Len(r) -> Row]
  BY DEF IsListing
<1>2. \A i, k \in DOMAIN r : r[i] = r[k] => i = k
  <2>1. \A i, k \in DOMAIN r : i # k => i < k \/ k < i
    BY <1>1
  <2>2. \A i, k \in DOMAIN r : i < k => r[i] # r[k]
    BY <1>1, PrecedesIsOrder DEF IsListing, Ordered
  <2>. QED
    BY <2>1, <2>2
<1>3. r \in Bijection(1..Len(r), W)
  <2>1. r \in [1..Len(r) -> W] /\ \A e \in W : \E i \in 1..Len(r) : r[i] = e
    BY <1>1 DEF IsListing, RowsIn
  <2>. QED
    BY <1>1, <1>2, <2>1 DEF Bijection, Injection, Surjection, IsInjective
<1>4. IsFiniteSet(1..Len(r)) /\ Cardinality(1..Len(r)) = Len(r)
  BY <1>1, FS_Interval
<1>5. IsFiniteSet(W) /\ Cardinality(W) = Len(r)
  BY <1>3, <1>4, FS_Bijection DEF ExistsBijection
<1>6. W \subseteq Row
  BY <1>1 DEF IsListing, RowsIn
<1>. QED
  BY <1>1, <1>2, <1>5, <1>6

\* The list of a beginning is a prefix.
LEMMA ListingOfBeginning ==
    ASSUME NEW s, NEW W, IsListing(s, W), NEW t, NEW E, IsListing(t, E), Begins(W, E)
    PROVE  Len(s) <= Len(t) /\ \A i \in 1..Len(s) : s[i] = t[i]
<1>. DEFINE m == Len(s)
            n == Len(t)
            T == {i \in 1..m : i > n \/ s[i] # t[i]}
<1>1. /\ m \in Nat /\ n \in Nat /\ DOMAIN s = 1..m /\ DOMAIN t = 1..n
      /\ W \subseteq Row /\ E \subseteq Row
  BY ListingLength
<1>2. /\ \A i, k \in 1..m : i < k => Precedes(s[i], s[k])
      /\ \A i, k \in 1..n : i < k => Precedes(t[i], t[k])
  BY <1>1 DEF IsListing, Ordered
<1>3. /\ \A i \in 1..m : s[i] \in W
      /\ \A e \in W : \E i \in 1..m : s[i] = e
      /\ \A i \in 1..n : t[i] \in E
      /\ \A e \in E : \E i \in 1..n : t[i] = e
  BY <1>1 DEF IsListing, RowsIn
<1>4. W \subseteq E /\ \A e \in W, x \in E : Precedes(x, e) => x \in W
  BY DEF Begins
<1>. HIDE DEF m, n
<1>5. T = {}
  <2>. SUFFICES ASSUME T # {} PROVE FALSE
    OBVIOUS
  <2>1. PICK x \in T : \A y \in T : x <= y
    <3>1. T \in SUBSET Nat
      BY <1>1
    <3>. HIDE DEF T
    <3>. QED
      BY <3>1, LeastNumber
  <2>2. x \in 1..m /\ (x > n \/ s[x] # t[x]) /\ \A i \in 1..m : i < x => i <= n /\ s[i] = t[i]
    BY <1>1, <2>1
  <2>. HIDE DEF T
  <2>3. PICK k \in 1..n : t[k] = s[x]
    BY <1>3, <1>4, <2>2
  <2>4. x < k
    <3>. SUFFICES ASSUME k <= x PROVE FALSE
      BY <1>1, <2>2
    <3>1. k < x
      BY <1>1, <2>2, <2>3
    <3>2. k \in 1..m /\ s[k] = s[x]
      BY <1>1, <2>2, <2>3, <3>1
    <3>. QED
      BY <1>1, <1>2, <1>3, <2>2, <3>1, <3>2, PrecedesIsOrder
  <2>5. x \in 1..n /\ Precedes(t[x], s[x])
    BY <1>1, <1>2, <2>2, <2>3, <2>4
  <2>6. PICK i \in 1..m : s[i] = t[x]
    BY <1>3, <1>4, <2>2, <2>5
  <2>7. i < x
    <3>. SUFFICES ASSUME x <= i PROVE FALSE
      BY <1>1, <2>2
    <3>1. x = i \/ Precedes(s[x], s[i])
      BY <1>1, <1>2, <2>2
    <3>2. s[x] \in Row /\ s[i] \in Row
      BY <1>1, <1>3, <2>2
    <3>. QED
      BY <2>5, <2>6, <3>1, <3>2, PrecedesIsOrder
  <2>8. i \in 1..n /\ t[i] = t[x] /\ t[x] \in Row
    BY <1>1, <1>3, <2>2, <2>5, <2>6, <2>7
  <2>. QED
    BY <1>2, <2>5, <2>7, <2>8, PrecedesIsOrder
<1>6. \A i \in 1..m : ~(i > n) /\ s[i] = t[i]
  BY <1>5
<1>. QED
  BY <1>1, <1>6 DEF m, n

\* The first rows of a list.
LEMMA TruncatedBegins ==
    ASSUME NEW s, NEW W, IsListing(s, W), NEW limit \in Nat \union {Unlimited}
    PROVE  LET t == Truncated(s, limit)
           IN  /\ IsListing(t, RowsIn(t)) /\ Begins(RowsIn(t), W)
               /\ Len(t) = IF limit = Unlimited \/ Len(s) <= limit THEN Len(s) ELSE limit
               /\ \A i \in 1..Len(t) : t[i] = s[i]
<1>1. /\ Len(s) \in Nat /\ DOMAIN s = 1..Len(s) /\ W \subseteq Row /\ s \in Seq(Row)
      /\ W = RowsIn(s) /\ Ordered(s)
  <2>1. s \in Seq(Row) /\ W = RowsIn(s) /\ Ordered(s)
    BY DEF IsListing
  <2>. QED
    BY <2>1, ListingLength
<1>2. CASE limit = Unlimited \/ Len(s) <= limit
  <2>1. Truncated(s, limit) = s
    BY <1>2 DEF Truncated
  <2>2. Begins(W, W)
    BY DEF Begins
  <2>. QED
    BY <1>1, <1>2, <2>1, <2>2
<1>3. CASE ~(limit = Unlimited \/ Len(s) <= limit)
  <2>. DEFINE t == SubSeq(s, 1, limit)
  <2>1. limit \in Nat /\ limit < Len(s) /\ Truncated(s, limit) = t
    BY <1>1, <1>3 DEF Truncated
  <2>2. t \in Seq(Row) /\ Len(t) = limit /\ \A i \in 1..limit : t[i] = s[i]
    BY <1>1, <2>1
  <2>3. DOMAIN t = 1..limit
    BY <2>2
  <2>. HIDE DEF t
  <2>4. Ordered(t)
    BY <1>1, <2>1, <2>2, <2>3 DEF Ordered
  <2>5. RowsIn(t) \subseteq W
    BY <1>1, <2>1, <2>2, <2>3 DEF RowsIn
  <2>6. ASSUME NEW e \in RowsIn(t), NEW x \in W, Precedes(x, e) PROVE x \in RowsIn(t)
    <3>1. PICK i \in 1..limit : e = s[i]
      BY <2>2, <2>3 DEF RowsIn
    <3>2. PICK k \in 1..Len(s) : x = s[k]
      BY <1>1 DEF RowsIn
    <3>3. k < i
      <4>. SUFFICES ASSUME i <= k PROVE FALSE
        BY <1>1, <2>1
      <4>1. i = k \/ Precedes(s[i], s[k])
        BY <1>1, <2>1 DEF Ordered
      <4>2. s[i] \in Row /\ s[k] \in Row
        BY <1>1, <2>1
      <4>. QED
        BY <2>6, <3>1, <3>2, <4>1, <4>2, PrecedesIsOrder
    <3>4. k \in 1..limit /\ t[k] = x
      BY <1>1, <2>1, <2>2, <3>2, <3>3
    <3>. QED
      BY <2>3, <3>4 DEF RowsIn
  <2>. QED
    BY <1>3, <2>1, <2>2, <2>4, <2>5, <2>6 DEF IsListing, Begins
<1>. QED
  BY <1>2, <1>3

\* r has the rows that s has at some positions, in an order of the positions.
Rearranges(r, s, positions, before) ==
    /\ r \in Seq(Row) /\ Len(r) = Cardinality(positions)
    /\ RowsIn(r) = {s[i] : i \in positions}
    /\ \A k, m \in DOMAIN r : k < m =>
          \E i, j \in positions : r[k] = s[i] /\ r[m] = s[j] /\ <<i, j>> \in before

LEMMA ArrangedRows ==
    ASSUME NEW s \in Seq(Row), NEW positions \in SUBSET (DOMAIN s), NEW before,
           IsOrder(positions, before)
    PROVE  Rearranges(Arranged(s, positions, before), s, positions, before)
<1>. DEFINE order == InOrder(positions, before)
            n == Cardinality(positions)
            r == Arranged(s, positions, before)
<1>1. IsFiniteSet(positions) /\ n \in Nat
  <2>1. DOMAIN s = 1..Len(s) /\ Len(s) \in Nat
    OBVIOUS
  <2>2. IsFiniteSet(1..Len(s))
    BY <2>1, FS_Interval
  <2>3. IsFiniteSet(positions)
    BY <2>1, <2>2, FS_Subset
  <2>. QED
    BY <2>3, FS_CardinalityType
<1>2. IsArrangement(order, positions, before)
  BY <1>1, InOrderArranges
<1>3. r = [k \in 1..n |-> s[order[k]]]
  BY DEF Arranged
<1>. HIDE DEF order, r, n
<1>4. /\ order \in [1..n -> positions]
      /\ \A i \in positions : \E k \in 1..n : order[k] = i
      /\ \A k, m \in 1..n : k < m => <<order[k], order[m]>> \in before
  BY <1>2 DEF IsArrangement, n
<1>5. \A k \in 1..n : order[k] \in positions /\ s[order[k]] \in Row
  BY <1>4
<1>6. r \in Seq(Row) /\ Len(r) = n /\ DOMAIN r = 1..n
  BY <1>1, <1>3, <1>5
<1>7. \A k, m \in DOMAIN r : k < m =>
         \E i, j \in positions : r[k] = s[i] /\ r[m] = s[j] /\ <<i, j>> \in before
  BY <1>3, <1>4, <1>5, <1>6
<1>8. RowsIn(r) = {s[i] : i \in positions}
  BY <1>3, <1>4, <1>5, <1>6 DEF RowsIn
<1>. QED
  BY <1>6, <1>7, <1>8 DEF r, n, Rearranges
Distinct(window) == \A i, k \in DOMAIN window : window[i].key = window[k].key => i = k

\* Filtering keeps the order, and the other rows.
LEMMA KeptLists ==
    ASSUME NEW s \in Seq(Row), Distinct(s), NEW removed
    PROVE  LET r == Kept(s, removed)
           IN  /\ r \in Seq(Row) /\ Distinct(r)
               /\ RowsIn(r) = {e \in RowsIn(s) : e.key \notin removed}
               /\ Len(r) <= Len(s)
               /\ Ordered(s) => Ordered(r)
<1>. DEFINE positions == {i \in DOMAIN s : s[i].key \notin removed}
            before == {p \in positions \X positions : p[1] < p[2]}
            r == Kept(s, removed)
<1>1. /\ positions \in SUBSET (DOMAIN s) /\ positions \subseteq Nat
      /\ DOMAIN s = 1..Len(s) /\ Len(s) \in Nat
      /\ \A i \in DOMAIN s : s[i] \in Row
  OBVIOUS
<1>2. \A i, k : <<i, k>> \in before <=> i \in positions /\ k \in positions /\ i < k
  OBVIOUS
<1>3. r = Arranged(s, positions, before)
  BY DEF Kept
<1>4. RowsIn(r) = {s[i] : i \in positions} => RowsIn(r) = {e \in RowsIn(s) : e.key \notin removed}
  BY DEF RowsIn
<1>5. \A i \in positions : s[i].key \notin removed
  OBVIOUS
<1>. HIDE DEF positions, before, r
<1>6. IsOrder(positions, before)
  BY <1>1, <1>2 DEF IsOrder
<1>7. Rearranges(r, s, positions, before)
  BY <1>1, <1>3, <1>6, ArrangedRows
<1>8. Len(r) <= Len(s)
  <2>1. IsFiniteSet(1..Len(s)) /\ Cardinality(1..Len(s)) = Len(s)
    BY <1>1, FS_Interval
  <2>2. positions \in SUBSET (1..Len(s))
    BY <1>1
  <2>3. Cardinality(positions) <= Cardinality(1..Len(s))
    BY <2>1, <2>2, FS_Subset
  <2>. QED
    BY <1>7, <2>1, <2>3 DEF Rearranges
<1>9. ASSUME NEW k \in DOMAIN r, NEW m \in DOMAIN r, k < m
      PROVE  r[k].key # r[m].key /\ (Ordered(s) => Precedes(r[k], r[m]))
  <2>1. PICK i \in positions, j \in positions : r[k] = s[i] /\ r[m] = s[j] /\ <<i, j>> \in before
    BY <1>7, <1>9 DEF Rearranges
  <2>2. i \in DOMAIN s /\ j \in DOMAIN s /\ i < j /\ i # j
    BY <1>1, <1>2, <2>1
  <2>. QED
    BY <2>1, <2>2 DEF Distinct, Ordered
<1>10. Distinct(r)
  <2>1. \A k, m \in DOMAIN r : k # m => k < m \/ m < k
    BY <1>7 DEF Rearranges
  <2>. QED
    BY <1>9, <2>1 DEF Distinct
<1>11. Ordered(s) => Ordered(r)
  BY <1>9 DEF Ordered
<1>. QED
  BY <1>4, <1>7, <1>8, <1>10, <1>11 DEF r, Rearranges

\* The rows that the storage has now.
Current(e) == e \in Row /\ rows[e.key] = e.field

LEMMA PrecedesNowOfCurrent ==
    \A a, b : Current(a) /\ Current(b) => (PrecedesNow(a, b) <=> Precedes(a, b))
<1>. SUFFICES ASSUME NEW a, NEW b, Current(a), Current(b)
              PROVE  PrecedesNow(a, b) <=> Precedes(a, b)
  OBVIOUS
<1>1. a \in Row /\ b \in Row /\ rows[a.key] = a.field /\ rows[b.key] = b.field
  BY DEF Current
<1>2. Entry(a.key, a.field) = a /\ Entry(b.key, b.field) = b
  BY <1>1 DEF Entry, Row
<1>3. a.field # Absent /\ b.field # Absent
  BY <1>1, FieldsArePositive DEF Row, Absent
<1>. QED
  BY <1>1, <1>2, <1>3 DEF PrecedesNow

\* Rows that are as the storage has them are sorted into the query's order.
LEMMA SortedLists ==
    ASSUME NEW s \in Seq(Row), Distinct(s), \A e \in RowsIn(s) : Current(e)
    PROVE  IsListing(Sorted(s), RowsIn(s)) /\ Len(Sorted(s)) = Len(s)
<1>. DEFINE positions == DOMAIN s
            before == {p \in positions \X positions :
                          \/ PrecedesNow(s[p[1]], s[p[2]])
                          \/ p[1] < p[2] /\ ~PrecedesNow(s[p[2]], s[p[1]])}
            r == Sorted(s)
<1>1. positions = 1..Len(s) /\ Len(s) \in Nat /\ \A i \in positions : s[i] \in Row
  OBVIOUS
<1>2. \A i \in positions : Current(s[i])
  BY DEF RowsIn
<1>3. \A i, k \in positions : i # k => s[i] # s[k]
  BY DEF Distinct
<1>4. \A i, k : <<i, k>> \in before <=> i \in positions /\ k \in positions /\ Precedes(s[i], s[k])
  <2>1. \A i, k : <<i, k>> \in before <=>
          /\ i \in positions /\ k \in positions
          /\ PrecedesNow(s[i], s[k]) \/ (i < k /\ ~PrecedesNow(s[k], s[i]))
    OBVIOUS
  <2>. HIDE DEF before, positions
  <2>2. \A i, k : <<i, k>> \in before <=>
          /\ i \in positions /\ k \in positions
          /\ Precedes(s[i], s[k]) \/ (i < k /\ ~Precedes(s[k], s[i]))
    BY <1>2, <2>1, PrecedesNowOfCurrent
  <2>3. \A i, k \in positions : i < k /\ ~Precedes(s[k], s[i]) => Precedes(s[i], s[k])
    BY <1>1, <1>3, PrecedesIsOrder
  <2>. QED
    BY <2>2, <2>3
<1>5. r = Arranged(s, positions, before)
  BY DEF Sorted
<1>6. RowsIn(s) = {s[i] : i \in positions} /\ positions \in SUBSET (DOMAIN s)
  BY DEF RowsIn
<1>. HIDE DEF positions, before, r
<1>7. IsOrder(positions, before)
  <2>1. \A i \in positions : <<i, i>> \notin before
    BY <1>1, <1>4, PrecedesIsOrder
  <2>2. \A i, k, m \in positions : <<i, k>> \in before /\ <<k, m>> \in before => <<i, m>> \in before
    BY <1>1, <1>4, PrecedesIsOrder
  <2>3. \A i, k \in positions : i # k => <<i, k>> \in before \/ <<k, i>> \in before
    BY <1>1, <1>3, <1>4, PrecedesIsOrder
  <2>. QED
    BY <2>1, <2>2, <2>3 DEF IsOrder
<1>8. Rearranges(r, s, positions, before)
  BY <1>5, <1>6, <1>7, ArrangedRows
<1>9. Ordered(r)
  <2>. SUFFICES ASSUME NEW k \in DOMAIN r, NEW m \in DOMAIN r, k < m PROVE Precedes(r[k], r[m])
    BY DEF Ordered
  <2>1. PICK i \in positions, j \in positions : r[k] = s[i] /\ r[m] = s[j] /\ <<i, j>> \in before
    BY <1>8 DEF Rearranges
  <2>. QED
    BY <1>4, <2>1
<1>10. Cardinality(positions) = Len(s)
  <2>1. Len(s) \in Nat
    BY <1>1
  <2>2. IsFiniteSet(1..Len(s)) /\ Cardinality(1..Len(s)) = Len(s)
    BY <2>1, FS_Interval
  <2>. QED
    BY <1>1, <2>2
<1>. QED
  BY <1>6, <1>8, <1>9, <1>10 DEF IsListing, Rearranges, r

-----------------------------------------------------------------------------
(* The rows that answer a query *)

Answering(content) == {k \in Keys : Matches(content[k])}

\* How many they are.
Total(content) == Cardinality(Answering(content))

LEMMA EntryType ==
    /\ \A k \in Keys, f \in Fields : Entry(k, f) \in Row /\ Entry(k, f).key = k /\ Entry(k, f).field = f
    /\ \A e \in Row : Entry(e.key, e.field) = e /\ e.key \in Keys /\ e.field \in Fields
    /\ \A f : Matches(f) => f \in Fields /\ f # Absent
<1>1. \A k \in Keys, f \in Fields : Entry(k, f) \in Row /\ Entry(k, f).key = k /\ Entry(k, f).field = f
  BY DEF Entry, Row
<1>2. \A e \in Row : Entry(e.key, e.field) = e /\ e.key \in Keys /\ e.field \in Fields
  BY DEF Entry, Row
<1>3. \A f : Matches(f) => f \in Fields /\ f # Absent
  BY FieldsArePositive DEF Matches, Absent
<1>. QED
  BY <1>1, <1>2, <1>3

LEMMA EntriesOfType ==
    ASSUME NEW content
    PROVE  /\ EntriesOf(content) \subseteq Row
           /\ \A e : e \in EntriesOf(content) <=>
                e \in Row /\ Matches(e.field) /\ content[e.key] = e.field
           /\ \A k \in Keys : Matches(content[k]) => Entry(k, content[k]) \in EntriesOf(content)
<1>1. \A k \in Keys : Matches(content[k]) => Entry(k, content[k]) \in EntriesOf(content)
  BY DEF EntriesOf
<1>2. \A e \in EntriesOf(content) : e \in Row /\ Matches(e.field) /\ content[e.key] = e.field
  BY EntryType DEF EntriesOf
<1>3. \A e \in Row : Matches(e.field) /\ content[e.key] = e.field => e \in EntriesOf(content)
  BY <1>1, EntryType
<1>. QED
  BY <1>1, <1>2, <1>3

LEMMA EntriesAreCounted ==
    ASSUME NEW content
    PROVE  /\ IsFiniteSet(EntriesOf(content)) /\ Cardinality(EntriesOf(content)) = Total(content)
           /\ Total(content) \in Nat
           /\ IsFiniteSet(Answering(content))
<1>. DEFINE f == [k \in Answering(content) |-> Entry(k, content[k])]
<1>1. IsFiniteSet(Answering(content)) /\ Total(content) \in Nat
  <2>1. Answering(content) \in SUBSET Keys
    BY DEF Answering
  <2>. QED
    BY <2>1, KeysAreNumbers, FS_Subset, FS_CardinalityType DEF Total
<1>2. \A k \in Answering(content) : f[k] = Entry(k, content[k]) /\ f[k].key = k
  BY DEF Answering, Entry
<1>3. f \in [Answering(content) -> EntriesOf(content)]
  BY DEF Answering, EntriesOf
<1>4. \A e \in EntriesOf(content) : \E k \in Answering(content) : f[k] = e
  BY DEF Answering, EntriesOf
<1>. HIDE DEF f
<1>5. f \in Bijection(Answering(content), EntriesOf(content))
  BY <1>2, <1>3, <1>4 DEF Bijection, Injection, Surjection, IsInjective
<1>. QED
  BY <1>1, <1>5, FS_Bijection DEF ExistsBijection, Total

\* The query from scratch lists the rows that answer it.
LEMMA ResultLists ==
    ASSUME NEW content
    PROVE  /\ IsListing(Result(content), EntriesOf(content))
           /\ Len(Result(content)) = Total(content)
<1>. DEFINE E == EntriesOf(content)
            before == {p \in E \X E : Precedes(p[1], p[2])}
            r == Result(content)
<1>1. \A a, b : <<a, b>> \in before <=> a \in E /\ b \in E /\ Precedes(a, b)
  OBVIOUS
<1>2. r = InOrder(E, before)
  BY DEF Result
<1>. HIDE DEF E, before, r
<1>3. E \subseteq Row /\ IsFiniteSet(E) /\ Cardinality(E) = Total(content) /\ Total(content) \in Nat
  BY EntriesOfType, EntriesAreCounted DEF E
<1>4. IsOrder(E, before)
  <2>1. \A a \in E : <<a, a>> \notin before
    BY <1>1, <1>3, PrecedesIsOrder
  <2>2. \A a, b, c \in E : <<a, b>> \in before /\ <<b, c>> \in before => <<a, c>> \in before
    BY <1>1, <1>3, PrecedesIsOrder
  <2>3. \A a, b \in E : a # b => <<a, b>> \in before \/ <<b, a>> \in before
    BY <1>1, <1>3, PrecedesIsOrder
  <2>. QED
    BY <2>1, <2>2, <2>3 DEF IsOrder
<1>5. IsArrangement(r, E, before)
  BY <1>2, <1>3, <1>4, InOrderArranges
<1>6. /\ r \in [1..Total(content) -> E]
      /\ \A x \in E : \E n \in 1..Total(content) : r[n] = x
      /\ \A m, n \in 1..Total(content) : m < n => Precedes(r[m], r[n])
  BY <1>1, <1>3, <1>5 DEF IsArrangement
<1>7. r \in Seq(Row) /\ Len(r) = Total(content) /\ DOMAIN r = 1..Total(content)
  BY <1>3, <1>6
<1>8. Ordered(r) /\ RowsIn(r) = E
  BY <1>6, <1>7 DEF Ordered, RowsIn
<1>. QED
  BY <1>7, <1>8 DEF IsListing, E, r

-----------------------------------------------------------------------------
(* One change *)

Written(content, change) == [content EXCEPT ![change.key] = change.next]

LEMMA WrittenRows ==
    ASSUME NEW c \in Contents, NEW change \in Change
    PROVE  /\ Written(c, change) \in Contents
           /\ \A k \in Keys : Written(c, change)[k] = IF k = change.key THEN change.next ELSE c[k]
           /\ change.key \in Keys
BY DEF Written, Contents, Change

\* What a change does to the number of rows that answer.
LEMMA TotalAfter ==
    ASSUME NEW c \in Contents, NEW change \in Change, c[change.key] = change.previous
    PROVE  Total(Written(c, change)) =
             IF Matches(change.previous)
             THEN IF Matches(change.next) THEN Total(c) ELSE Total(c) - 1
             ELSE IF Matches(change.next) THEN Total(c) + 1 ELSE Total(c)
<1>. DEFINE k == change.key
            d == Written(c, change)
            A == Answering(c)
            B == Answering(d)
<1>1. \A x \in Keys : d[x] = IF x = k THEN change.next ELSE c[x]
  BY WrittenRows
<1>2. k \in Keys
  BY WrittenRows
<1>3. k \in A <=> Matches(change.previous)
  BY <1>2 DEF Answering
<1>4. k \in B <=> Matches(change.next)
  BY <1>1, <1>2 DEF Answering
<1>5. B \ {k} = A \ {k}
  BY <1>1 DEF Answering
<1>6. IsFiniteSet(A) /\ IsFiniteSet(B) /\ Total(c) = Cardinality(A) /\ Total(d) = Cardinality(B)
  BY EntriesAreCounted DEF Total
<1>7. Cardinality(A) \in Nat /\ Cardinality(B) \in Nat
  BY <1>6, FS_CardinalityType
<1>. HIDE DEF A, B, k, d
<1>8. IsFiniteSet(A \ {k}) /\ Cardinality(A \ {k}) = IF k \in A THEN Cardinality(A) - 1 ELSE Cardinality(A)
  BY <1>6, FS_RemoveElement
<1>9. Cardinality(B \ {k}) = IF k \in B THEN Cardinality(B) - 1 ELSE Cardinality(B)
  BY <1>6, FS_RemoveElement
<1>10. Total(d) = IF k \in A THEN IF k \in B THEN Total(c) ELSE Total(c) - 1
                  ELSE IF k \in B THEN Total(c) + 1 ELSE Total(c)
  <2>1. (IF k \in A THEN Cardinality(A) - 1 ELSE Cardinality(A))
        = (IF k \in B THEN Cardinality(B) - 1 ELSE Cardinality(B))
    BY <1>5, <1>8, <1>9
  <2>. QED
    BY <1>6, <1>7, <2>1
<1>. QED
  BY <1>3, <1>4, <1>10 DEF d

-----------------------------------------------------------------------------
(* The loop over the changes *)

Insertions == UNION {[S -> Fields] : S \in SUBSET Keys}

Updates == [window : Seq(Row), totalRows : Int, inserted : Insertions,
            removed : SUBSET Keys, replaced : BOOLEAN, rescan : BOOLEAN]

Evaluations == [window : Seq(Row), totalRows : Int, filled : BOOLEAN]

LEMMA InsertionsType ==
    ASSUME NEW inserted \in Insertions
    PROVE  /\ DOMAIN inserted \subseteq Keys
           /\ \A k \in DOMAIN inserted : inserted[k] \in Fields
           /\ \A key \in Keys, field \in Fields : WithRow(inserted, key, field) \in Insertions
           /\ \A key : WithoutRow(inserted, key) \in Insertions
<1>1. PICK S \in SUBSET Keys : inserted \in [S -> Fields]
  BY DEF Insertions
<1>2. ASSUME NEW key \in Keys, NEW field \in Fields
      PROVE  WithRow(inserted, key, field) \in Insertions
  <2>1. WithRow(inserted, key, field) \in [S \union {key} -> Fields] /\ S \union {key} \in SUBSET Keys
    BY <1>1 DEF WithRow
  <2>. QED
    BY <2>1 DEF Insertions
<1>3. ASSUME NEW key
      PROVE  WithoutRow(inserted, key) \in Insertions
  <2>1. WithoutRow(inserted, key) \in [S \ {key} -> Fields] /\ S \ {key} \in SUBSET Keys
    BY <1>1 DEF WithoutRow
  <2>. QED
    BY <2>1 DEF Insertions
<1>. QED
  BY <1>1, <1>2, <1>3

\* The rows inserted are as the content has them, and answer.
InsertedCurrent(u, c) == \A k \in DOMAIN u.inserted : Matches(c[k]) /\ c[k] = u.inserted[k]

\* A position keeps its key, and without a replacement its row.
SameKeys(u, W) ==
    /\ DOMAIN u.window = DOMAIN W
    /\ \A i \in DOMAIN W : u.window[i].key = W[i].key
    /\ u.removed \subseteq KeysOf(W)
    /\ ~u.replaced => u.window = W

\* So are the rows kept; in a limited window they have not moved down.
KeptCurrent(u, W, c, limit) ==
    \A i \in DOMAIN W : W[i].key \notin u.removed =>
        /\ Matches(c[W[i].key]) /\ c[W[i].key] = u.window[i].field
        /\ W[i].key \notin DOMAIN u.inserted
        /\ limit # Unlimited => ~Precedes(W[i], u.window[i])

\* A row that answers is inserted, or kept, or it was not retained and has not changed.
Covered(u, W, from, c) ==
    \A k \in Keys : Matches(c[k]) =>
        \/ k \in DOMAIN u.inserted
        \/ k \in KeysOf(W) /\ k \notin u.removed
        \/ k \notin KeysOf(W) /\ from[k] = c[k]

\* u is what the loop has made of a window W, exact for the content "from",
\* when it has come to the content c.
Tracks(u, W, from, c, limit) ==
    /\ InsertedCurrent(u, c)
    /\ SameKeys(u, W)
    /\ KeptCurrent(u, W, c, limit)
    /\ Covered(u, W, from, c)

Follows(u, W, from, c, limit) ==
    u.totalRows = Total(c) /\ (limit # 0 => Tracks(u, W, from, c, limit))

LEMMA ApplyType ==
    ASSUME NEW u \in Updates, NEW change \in Change, NEW limit
    PROVE  Apply(u, change, limit) \in Updates
<1>1. /\ u.window \in Seq(Row) /\ u.totalRows \in Int /\ u.inserted \in Insertions
      /\ u.removed \in SUBSET Keys
  BY DEF Updates
<1>2. change.key \in Keys
  BY DEF Change
<1>3. ASSUME Matches(change.next), NEW w \in {u.inserted}
      PROVE  change.next \in Fields /\ WithRow(w, change.key, change.next) \in Insertions
  BY <1>1, <1>2, <1>3, InsertionsType, EntryType
<1>4. WithoutRow(u.inserted, change.key) \in Insertions
  BY <1>1, InsertionsType
<1>5. ASSUME Matches(change.next), NEW i
      PROVE  [u.window EXCEPT ![i] = Entry(change.key, change.next)] \in Seq(Row)
  <2>1. Entry(change.key, change.next) \in Row
    BY <1>2, <1>3, <1>5, EntryType
  <2>2. u.window \in [1..Len(u.window) -> Row] /\ Len(u.window) \in Nat
    BY <1>1
  <2>3. [u.window EXCEPT ![i] = Entry(change.key, change.next)] \in [1..Len(u.window) -> Row]
    BY <2>1, <2>2
  <2>. QED
    BY <2>2, <2>3
<1>6. ASSUME Matches(change.next)
      PROVE  ReplaceRow(u, change.key, change.next, limit) \in Updates
  <2>1. [u EXCEPT !.inserted = WithRow(@, change.key, change.next)] \in Updates
    BY <1>3, <1>6 DEF Updates
  <2>2. [u EXCEPT !.rescan = TRUE] \in Updates
    BY DEF Updates
  <2>3. \A i : [u EXCEPT !.window[i] = Entry(change.key, change.next), !.replaced = TRUE] \in Updates
    BY <1>5, <1>6 DEF Updates
  <2>. QED
    BY <2>1, <2>2, <2>3 DEF ReplaceRow
<1>7. DropRow(u, change.key) \in Updates
  <2>. DEFINE t == u.totalRows - 1
              w == WithoutRow(u.inserted, change.key)
              gone == IF change.key \in KeysOf(evaluation.window) THEN u.removed \union {change.key} ELSE u.removed
  <2>1. t \in Int /\ w \in Insertions /\ gone \in SUBSET Keys
    BY <1>1, <1>2, <1>4
  <2>2. DropRow(u, change.key) = [u EXCEPT !.totalRows = t, !.inserted = w, !.removed = gone]
    BY DEF DropRow
  <2>. HIDE DEF t, w, gone
  <2>. QED
    BY <2>1, <2>2 DEF Updates
<1>8. \A t \in Int : [u EXCEPT !.totalRows = t] \in Updates
  BY DEF Updates
<1>9. ASSUME Matches(change.next)
      PROVE  [u EXCEPT !.totalRows = @ + 1, !.inserted = WithRow(@, change.key, change.next)] \in Updates
  <2>. DEFINE t == u.totalRows + 1
              w == WithRow(u.inserted, change.key, change.next)
  <2>1. t \in Int /\ w \in Insertions
    BY <1>1, <1>3, <1>9
  <2>. HIDE DEF t, w
  <2>2. [u EXCEPT !.totalRows = t, !.inserted = w] \in Updates
    BY <2>1 DEF Updates
  <2>. QED
    BY <2>2 DEF t, w
<1>10. u.totalRows + 1 \in Int /\ u.totalRows - 1 \in Int
  BY <1>1
<1>. QED
  BY <1>1, <1>6, <1>7, <1>8, <1>9, <1>10 DEF Apply

\* A row that did not answer and still does not changes nothing.
LEMMA IgnoredTracks ==
    ASSUME NEW u, NEW W, NEW from, NEW c \in Contents, NEW limit, NEW change \in Change,
           Tracks(u, W, from, c, limit), c[change.key] = change.previous,
           \A i \in DOMAIN W : W[i].key \in Keys, DOMAIN u.inserted \subseteq Keys,
           ~Matches(change.previous), ~Matches(change.next)
    PROVE  Tracks(u, W, from, Written(c, change), limit)
<1>. DEFINE d == Written(c, change)
<1>1. \A k \in Keys : d[k] = IF k = change.key THEN change.next ELSE c[k]
  BY WrittenRows
<1>2. \A k \in Keys : Matches(c[k]) => d[k] = c[k]
  BY <1>1
<1>3. \A k \in Keys : Matches(d[k]) => d[k] = c[k]
  BY <1>1
<1>. HIDE DEF d
<1>4. InsertedCurrent(u, d)
  BY <1>2 DEF Tracks, InsertedCurrent
<1>5. KeptCurrent(u, W, d, limit)
  BY <1>2 DEF Tracks, KeptCurrent
<1>6. Covered(u, W, from, d)
  BY <1>3 DEF Tracks, Covered
<1>. QED
  BY <1>4, <1>5, <1>6 DEF Tracks, d

\* A row that begins to answer is inserted.
LEMMA InsertedTracks ==
    ASSUME NEW u \in Updates, NEW W, NEW from, NEW c \in Contents, NEW limit, NEW change \in Change,
           Tracks(u, W, from, c, limit), c[change.key] = change.previous,
           \A i \in DOMAIN W : W[i].key \in Keys,
           ~Matches(change.previous), Matches(change.next), NEW t
    PROVE  Tracks([u EXCEPT !.totalRows = t, !.inserted = WithRow(@, change.key, change.next)],
                  W, from, Written(c, change), limit)
<1>. DEFINE d == Written(c, change)
            k == change.key
            w == WithRow(u.inserted, k, change.next)
            v == [u EXCEPT !.totalRows = t, !.inserted = w]
<1>1. \A x \in Keys : d[x] = IF x = k THEN change.next ELSE c[x]
  BY WrittenRows
<1>2. DOMAIN w = DOMAIN u.inserted \union {k} /\ \A x \in DOMAIN w : w[x] = IF x = k THEN change.next ELSE u.inserted[x]
  BY DEF WithRow
<1>3. DOMAIN u.inserted \subseteq Keys /\ k \in Keys
  BY InsertionsType, WrittenRows DEF Updates
<1>. HIDE DEF w
<1>4. /\ v.inserted = w /\ v.window = u.window /\ v.removed = u.removed /\ v.replaced = u.replaced
  BY DEF Updates
<1>. HIDE DEF v, d, k
<1>5. InsertedCurrent(v, d)
  BY <1>1, <1>2, <1>3, <1>4 DEF Tracks, InsertedCurrent, k
<1>6. SameKeys(v, W)
  BY <1>4 DEF Tracks, SameKeys
<1>7. KeptCurrent(v, W, d, limit)
  <2>1. \A i \in DOMAIN W : W[i].key \notin u.removed => W[i].key # k
    BY DEF Tracks, KeptCurrent, k
  <2>. QED
    BY <1>1, <1>2, <1>4, <2>1 DEF Tracks, KeptCurrent
<1>8. Covered(v, W, from, d)
  BY <1>1, <1>2, <1>4 DEF Tracks, Covered
<1>. QED
  BY <1>5, <1>6, <1>7, <1>8 DEF Tracks, d, v, w, k

\* A row that stops answering is dropped, and removed from the window.
LEMMA DroppedTracks ==
    ASSUME NEW u \in Updates, NEW from, NEW c \in Contents, NEW limit, NEW change \in Change,
           Tracks(u, evaluation.window, from, c, limit), c[change.key] = change.previous,
           \A i \in DOMAIN evaluation.window : evaluation.window[i].key \in Keys,
           ~Matches(change.next)
    PROVE  Tracks(DropRow(u, change.key), evaluation.window, from, Written(c, change), limit)
<1>. DEFINE d == Written(c, change)
            k == change.key
            W == evaluation.window
            w == WithoutRow(u.inserted, k)
            gone == IF k \in KeysOf(W) THEN u.removed \union {k} ELSE u.removed
            v == DropRow(u, k)
<1>1. \A x \in Keys : d[x] = IF x = k THEN change.next ELSE c[x]
  BY WrittenRows
<1>2. DOMAIN w = DOMAIN u.inserted \ {k} /\ \A x \in DOMAIN w : w[x] = u.inserted[x]
  BY DEF WithoutRow
<1>3. DOMAIN u.inserted \subseteq Keys /\ k \in Keys
  BY InsertionsType, WrittenRows DEF Updates
<1>4. /\ v.inserted = w /\ v.window = u.window /\ v.removed = gone /\ v.replaced = u.replaced
  BY DEF Updates, DropRow
<1>5. u.removed \subseteq gone /\ (k \in KeysOf(W) => k \in gone) /\ (gone \subseteq u.removed \union {k})
  OBVIOUS
<1>6. gone \subseteq KeysOf(W)
  BY DEF Tracks, SameKeys
<1>7. \A i \in DOMAIN W : W[i].key \in KeysOf(W)
  BY DEF KeysOf
<1>. HIDE DEF v, d, k, w, gone, W
<1>8. InsertedCurrent(v, d)
  BY <1>1, <1>2, <1>3, <1>4 DEF Tracks, InsertedCurrent
<1>9. SameKeys(v, W)
  BY <1>4, <1>6 DEF Tracks, SameKeys, W
<1>10. KeptCurrent(v, W, d, limit)
  <2>1. \A i \in DOMAIN W : W[i].key \notin gone => W[i].key # k /\ W[i].key \notin u.removed
    BY <1>5, <1>7
  <2>. QED
    BY <1>1, <1>2, <1>4, <2>1 DEF Tracks, KeptCurrent, W
<1>11. Covered(v, W, from, d)
  <2>. SUFFICES ASSUME NEW x \in Keys, Matches(d[x])
                PROVE  \/ x \in DOMAIN w
                       \/ x \in KeysOf(W) /\ x \notin gone
                       \/ x \notin KeysOf(W) /\ from[x] = d[x]
    BY <1>4 DEF Covered
  <2>1. x # k /\ d[x] = c[x]
    BY <1>1 DEF k
  <2>. QED
    BY <1>2, <1>5, <2>1 DEF Tracks, Covered, W
<1>. QED
  BY <1>8, <1>9, <1>10, <1>11 DEF Tracks, d, v, k, W

\* A row that answered and still does is replaced where it is, or the loop gives up.
LEMMA ReplacedTracks ==
    ASSUME NEW u \in Updates, NEW from, NEW c \in Contents, NEW limit, NEW change \in Change,
           Tracks(u, evaluation.window, from, c, limit), c[change.key] = change.previous,
           evaluation.window \in Seq(Row), Distinct(evaluation.window),
           Matches(change.previous), Matches(change.next),
           ~ReplaceRow(u, change.key, change.next, limit).rescan
    PROVE  Tracks(ReplaceRow(u, change.key, change.next, limit), evaluation.window, from,
                  Written(c, change), limit)
<1>. DEFINE d == Written(c, change)
            k == change.key
            W == evaluation.window
            v == ReplaceRow(u, k, change.next, limit)
<1>1. \A x \in Keys : d[x] = IF x = k THEN change.next ELSE c[x]
  BY WrittenRows
<1>3. DOMAIN u.inserted \subseteq Keys /\ k \in Keys
  BY InsertionsType, WrittenRows DEF Updates
<1>4. \A i \in DOMAIN W : W[i] \in Row /\ W[i].key \in Keys /\ W[i].key \in KeysOf(W)
  BY EntryType DEF KeysOf
<1>5. CASE k \in DOMAIN u.inserted
  <2>. DEFINE w == WithRow(u.inserted, k, change.next)
  <2>1. DOMAIN w = DOMAIN u.inserted /\ \A x \in DOMAIN w : w[x] = IF x = k THEN change.next ELSE u.inserted[x]
    BY <1>5 DEF WithRow
  <2>. HIDE DEF w
  <2>2. v.inserted = w /\ v.window = u.window /\ v.removed = u.removed /\ v.replaced = u.replaced
    BY <1>5 DEF ReplaceRow, Updates, w
  <2>. HIDE DEF v, d, k, W
  <2>3. InsertedCurrent(v, d)
    BY <1>1, <1>3, <2>1, <2>2 DEF Tracks, InsertedCurrent, k
  <2>4. SameKeys(v, W)
    BY <2>2 DEF Tracks, SameKeys, W
  <2>5. KeptCurrent(v, W, d, limit)
    <3>1. \A i \in DOMAIN W : W[i].key \notin u.removed => W[i].key # k
      BY <1>5 DEF Tracks, KeptCurrent, W
    <3>. QED
      BY <1>1, <1>4, <2>1, <2>2, <3>1 DEF Tracks, KeptCurrent, W
  <2>6. Covered(v, W, from, d)
    BY <1>1, <1>5, <2>1, <2>2 DEF Tracks, Covered, W
  <2>. QED
    BY <2>3, <2>4, <2>5, <2>6 DEF Tracks, v, d, k, W
<1>6. CASE k \notin DOMAIN u.inserted
  <2>. DEFINE i == IndexOf(W, k)
              next == Entry(k, change.next)
              s == [u.window EXCEPT ![i] = next]
  <2>1. k \in KeysOf(W) /\ k \notin u.removed
    BY <1>6 DEF ReplaceRow, Updates
  <2>2. i \in DOMAIN W /\ W[i].key = k
    BY <2>1 DEF KeysOf, IndexOf
  <2>3. /\ v.inserted = u.inserted /\ v.window = s /\ v.removed = u.removed /\ v.replaced = TRUE
        /\ ~(limit # Unlimited /\ Precedes(u.window[i], next))
    BY <1>6, <2>1 DEF ReplaceRow, Updates
  <2>4. DOMAIN u.window = DOMAIN W
    BY DEF Tracks, SameKeys
  <2>5. \A j \in DOMAIN W : W[j].key = k => j = i
    BY <2>2 DEF Distinct
  <2>6. next \in Row /\ next.key = k /\ next.field = change.next
    BY <1>3, EntryType
  <2>. HIDE DEF i, next
  <2>7. DOMAIN s = DOMAIN W /\ s[i] = next /\ \A j \in DOMAIN W : j # i => s[j] = u.window[j]
    BY <2>2, <2>4
  <2>8. ~(limit # Unlimited /\ Precedes(W[i], next))
    <3>1. limit # Unlimited => ~Precedes(W[i], u.window[i]) /\ ~Precedes(u.window[i], next)
      BY <2>1, <2>2, <2>3 DEF Tracks, KeptCurrent
    <3>2. u.window[i] \in Row /\ W[i] \in Row
      BY <1>4, <2>2, <2>4 DEF Updates
    <3>. QED
      BY <2>6, <3>1, <3>2, PrecedesIsOrder
  <2>. HIDE DEF v, d, k, W, s
  <2>9. InsertedCurrent(v, d)
    BY <1>1, <1>3, <1>6, <2>3 DEF Tracks, InsertedCurrent
  <2>10. SameKeys(v, W)
    BY <2>2, <2>3, <2>4, <2>6, <2>7 DEF Tracks, SameKeys, W
  <2>11. KeptCurrent(v, W, d, limit)
    <3>. SUFFICES ASSUME NEW j \in DOMAIN W, W[j].key \notin u.removed
                  PROVE  /\ Matches(d[W[j].key]) /\ d[W[j].key] = s[j].field
                         /\ W[j].key \notin DOMAIN u.inserted
                         /\ limit # Unlimited => ~Precedes(W[j], s[j])
      BY <2>3 DEF KeptCurrent
    <3>1. CASE j = i
      BY <1>1, <1>3, <1>6, <2>2, <2>6, <2>7, <2>8, <3>1
    <3>2. CASE j # i
      <4>1. W[j].key # k /\ d[W[j].key] = c[W[j].key] /\ s[j] = u.window[j]
        BY <1>1, <1>4, <2>5, <2>7, <3>2
      <4>. QED
        BY <4>1 DEF Tracks, KeptCurrent, W
    <3>. QED
      BY <3>1, <3>2
  <2>12. Covered(v, W, from, d)
    BY <1>1, <2>1, <2>3 DEF Tracks, Covered, W
  <2>. QED
    BY <2>9, <2>10, <2>11, <2>12 DEF Tracks, v, d, k, W
<1>. QED
  BY <1>5, <1>6

\* One change: the loop gives up, or follows the content.
LEMMA ApplyFollows ==
    ASSUME NEW u \in Updates, NEW from, NEW c \in Contents, NEW limit, NEW change \in Change,
           c[change.key] = change.previous,
           evaluation.window \in Seq(Row), Distinct(evaluation.window),
           ~u.rescan => Follows(u, evaluation.window, from, c, limit),
           ~Apply(u, change, limit).rescan
    PROVE  Follows(Apply(u, change, limit), evaluation.window, from, Written(c, change), limit)
<1>. DEFINE d == Written(c, change)
            W == evaluation.window
            v == Apply(u, change, limit)
            was == Matches(change.previous)
            is == Matches(change.next)
<1>1. \A i \in DOMAIN W : W[i].key \in Keys
  BY EntryType
<1>2. DOMAIN u.inserted \subseteq Keys
  BY InsertionsType DEF Updates
<1>3. Total(d) = IF was THEN IF is THEN Total(c) ELSE Total(c) - 1
                 ELSE IF is THEN Total(c) + 1 ELSE Total(c)
  BY TotalAfter
<1>4. ~u.rescan
  BY DEF Apply
<1>5. u.totalRows = Total(c) /\ (limit # 0 => Tracks(u, W, from, c, limit))
  BY <1>4 DEF Follows
<1>6. CASE ~was /\ ~is
  <2>1. v = u
    BY <1>6 DEF Apply
  <2>2. limit # 0 => Tracks(u, W, from, d, limit)
    BY <1>1, <1>2, <1>5, <1>6, IgnoredTracks
  <2>. QED
    BY <1>3, <1>5, <1>6, <2>1, <2>2 DEF Follows
<1>7. CASE limit = 0 /\ (was \/ is)
  <2>1. v = [u EXCEPT !.totalRows = IF was /\ is THEN @ ELSE IF is THEN @ + 1 ELSE @ - 1]
    BY <1>4, <1>7 DEF Apply
  <2>2. v.totalRows = IF was /\ is THEN u.totalRows ELSE IF is THEN u.totalRows + 1 ELSE u.totalRows - 1
    BY <2>1 DEF Updates
  <2>3. v.totalRows = Total(d)
    BY <1>3, <1>5, <1>7, <2>2
  <2>. QED
    BY <1>7, <2>3 DEF Follows
<1>8. CASE limit # 0 /\ was /\ is
  <2>1. v = ReplaceRow(u, change.key, change.next, limit)
    BY <1>4, <1>8 DEF Apply
  <2>2. Tracks(v, W, from, d, limit)
    BY <1>5, <1>8, <2>1, ReplacedTracks
  <2>3. v.totalRows = u.totalRows
    BY <2>1 DEF ReplaceRow, Updates
  <2>. QED
    BY <1>3, <1>5, <1>8, <2>2, <2>3 DEF Follows
<1>9. CASE limit # 0 /\ was /\ ~is
  <2>1. v = DropRow(u, change.key)
    BY <1>4, <1>9 DEF Apply
  <2>2. Tracks(v, W, from, d, limit)
    BY <1>1, <1>5, <1>9, <2>1, DroppedTracks
  <2>3. v.totalRows = u.totalRows - 1
    BY <2>1 DEF DropRow, Updates
  <2>. QED
    BY <1>3, <1>5, <1>9, <2>2, <2>3 DEF Follows
<1>10. CASE limit # 0 /\ ~was /\ is
  <2>. DEFINE t == u.totalRows + 1
              x == [u EXCEPT !.totalRows = t, !.inserted = WithRow(@, change.key, change.next)]
  <2>1. v = x
    BY <1>4, <1>10 DEF Apply
  <2>. HIDE DEF t
  <2>2. Tracks(x, W, from, d, limit)
    BY <1>1, <1>5, <1>10, InsertedTracks
  <2>3. x.totalRows = t
    BY DEF Updates
  <2>4. t = Total(d)
    BY <1>3, <1>5, <1>10 DEF t
  <2>. HIDE DEF x, v
  <2>. QED
    BY <2>1, <2>2, <2>3, <2>4 DEF Follows, v
<1>. QED
  BY <1>6, <1>7, <1>8, <1>9, <1>10

\* The changes lead from one content to another.
IsPath(path, from, changes, to) ==
    /\ path \in [0..Len(changes) -> Contents]
    /\ path[0] = from /\ path[Len(changes)] = to
    /\ \A i \in 1..Len(changes) :
          /\ path[i] = Written(path[i - 1], changes[i])
          /\ path[i - 1][changes[i].key] = changes[i].previous

Leads(from, changes, to) == \E path : IsPath(path, from, changes, to)

\* The window has rows that answer, in their order, from the first on; the total
\* is exact; the window is long enough for the limit it is read with and, when
\* it claims to be filled, for the limit it is retained with.
Suffices(length, total, limit) == length = total \/ (limit # Unlimited /\ length >= limit)

IsExact(e, content, limit) ==
    /\ e \in Evaluations
    /\ IsListing(e.window, RowsIn(e.window)) /\ Begins(RowsIn(e.window), EntriesOf(content))
    /\ e.totalRows = Total(content)
    /\ limit # Unlimited => Len(e.window) <= RetainedLimit(limit)
    /\ Suffices(Len(e.window), e.totalRows, limit)
    /\ e.filled => Suffices(Len(e.window), e.totalRows, RetainedLimit(limit))

\* Rows that answer in one content have different keys.
LEMMA EntriesDistinct ==
    ASSUME NEW s, NEW W, IsListing(s, W), NEW content, W \subseteq EntriesOf(content)
    PROVE  Distinct(s)
<1>1. /\ \A i \in DOMAIN s : s[i] \in W
      /\ \A i, k \in DOMAIN s : s[i] = s[k] => i = k
  BY ListingLength DEF IsListing, RowsIn
<1>2. \A e \in W : e \in Row /\ content[e.key] = e.field
  BY EntriesOfType
<1>3. \A e, f \in W : e.key = f.key => e = f
  BY <1>2, EntryType
<1>. QED
  BY <1>1, <1>3 DEF Distinct

LEMMA StartFollows ==
    ASSUME NEW from \in Contents, NEW limit, evaluation \in Evaluations,
           evaluation.totalRows = Total(from), RowsIn(evaluation.window) \subseteq EntriesOf(from)
    PROVE  /\ Start \in Updates
           /\ Follows(Start, evaluation.window, from, from, limit)
<1>. DEFINE W == evaluation.window
<1>1. W \in Seq(Row) /\ evaluation.totalRows \in Int
  BY DEF Evaluations
<1>2. <<>> \in Insertions /\ DOMAIN <<>> = {}
  <2>1. <<>> \in [{} -> Fields]
    OBVIOUS
  <2>. QED
    BY <2>1 DEF Insertions
<1>3. Start \in Updates
  BY <1>1, <1>2 DEF Start, Updates
<1>4. /\ Start.window = W /\ Start.inserted = <<>> /\ Start.removed = {} /\ Start.replaced = FALSE
      /\ Start.totalRows = Total(from)
  BY DEF Start
<1>5. \A i \in DOMAIN W : W[i] \in EntriesOf(from) /\ W[i] \in Row
  BY <1>1 DEF RowsIn
<1>6. \A i \in DOMAIN W : Matches(from[W[i].key]) /\ from[W[i].key] = W[i].field
  BY <1>5, EntriesOfType
<1>7. \A i \in DOMAIN W : ~Precedes(W[i], W[i])
  BY <1>5, PrecedesIsOrder
<1>. HIDE DEF W
<1>8. InsertedCurrent(Start, from)
  BY <1>2, <1>4 DEF InsertedCurrent
<1>9. SameKeys(Start, W)
  BY <1>4 DEF SameKeys
<1>10. KeptCurrent(Start, W, from, limit)
  BY <1>2, <1>4, <1>6, <1>7 DEF KeptCurrent
<1>11. Covered(Start, W, from, from)
  BY <1>4 DEF Covered
<1>. QED
  BY <1>3, <1>4, <1>8, <1>9, <1>10, <1>11 DEF Follows, Tracks, W

\* What AfterChanges has computed after each change.
IsLoop(update, limit) ==
    /\ update \in [0..Len(log) -> Updates]
    /\ update[0] = Start
    /\ \A i \in 1..Len(log) : update[i] = Apply(update[i - 1], log[i], limit)

LEMMA AfterChangesIsLast ==
    ASSUME NEW limit, log \in Seq(Change), Start \in Updates
    PROVE  \E update : IsLoop(update, limit) /\ AfterChanges(limit) = update[Len(log)]
<1>. DEFINE n == Len(log)
            Next1(u, i) == Apply(u, log[i], limit)
            Step(f) == [i \in 0..n |-> IF i = 0 THEN Start ELSE Next1(f[i - 1], i)]
            g == [x \in Updates \X (1..n) |-> Next1(x[1], x[2])]
<1>0. n \in Nat /\ \A i \in 1..n : log[i] \in Change
  OBVIOUS
<1>1. \A u \in Updates, i \in 1..n : Next1(u, i) \in Updates
  BY <1>0, ApplyType
<1>2. g \in [Updates \X (1..n) -> Updates]
  BY <1>1
<1>3. \A u \in Updates, i \in 1..n : g[<<u, i>>] = Next1(u, i)
  OBVIOUS
<1>4. \E f : IsRecursive(f, Updates, Start, n, g)
  <2>. HIDE DEF g, n
  <2>. QED
    BY <1>0, <1>2, Recursion
<1>. HIDE DEF g
<1>5. PICK f \in [0..n -> Updates] :
          f[0] = Start /\ \A i \in 1..n : f[i] = g[<<f[i - 1], i>>]
  BY <1>4 DEF IsRecursive
<1>6. f = Step(f)
  <2>1. \A i \in 1..n : f[i - 1] \in Updates
    <3>. HIDE DEF n, Step
    <3>. QED BY <1>0, <1>5
  <2>2. \A i \in 1..n : f[i] = Next1(f[i - 1], i)
    <3>. HIDE DEF Next1, n
    <3>. QED BY <1>3, <1>5, <2>1
  <2>. HIDE DEF n, Next1
  <2>3. \A i \in 0..n : f[i] = IF i = 0 THEN Start ELSE Next1(f[i - 1], i)
    BY <1>0, <1>5, <2>2
  <2>. QED
    BY <1>5, <2>3
<1>. DEFINE update == CHOOSE a : a = Step(a)
<1>7. update = Step(update)
  BY <1>6
<1>8. AfterChanges(limit) = update[n]
  BY DEF AfterChanges
<1>. HIDE DEF update
<1>9. update[0] = Start
  BY <1>0, <1>7
<1>10. \A i \in 1..n : update[i] = Next1(update[i - 1], i)
  <2>. HIDE DEF n, Next1
  <2>. QED BY <1>0, <1>7
<1>11. \A i \in 0..n : update[i] \in Updates
  <2>. DEFINE P == {i \in 0..n : update[i] \in Updates}
  <2>. HIDE DEF n, Next1
  <2>1. 0 \in P
    BY <1>0, <1>9
  <2>2. ASSUME NEW i \in 1..n, i - 1 \in P
        PROVE  i \in P
    <3>1. update[i] \in Updates
      BY <1>1, <1>10, <2>2
    <3>. QED
      BY <1>0, <3>1
  <2>. HIDE DEF P
  <2>3. \A i \in 0..n : i \in P
    BY <1>0, <2>1, <2>2, Induction
  <2>. QED
    BY <2>3 DEF P
<1>12. update \in [0..n -> Updates]
  BY <1>7, <1>11
<1>. QED
  BY <1>8, <1>9, <1>10, <1>12 DEF IsLoop

\* The loop follows the changes to their end.
LEMMA LoopFollows ==
    ASSUME NEW from \in Contents, NEW to, log \in Seq(Change), Leads(from, log, to), NEW limit,
           NEW b, IsExact(evaluation, from, b), ~AfterChanges(limit).rescan
    PROVE  /\ AfterChanges(limit) \in Updates
           /\ Follows(AfterChanges(limit), evaluation.window, from, to, limit)
<1>. DEFINE n == Len(log)
            W == evaluation.window
<1>1. evaluation \in Evaluations /\ RowsIn(W) \subseteq EntriesOf(from) /\ evaluation.totalRows = Total(from)
  BY DEF IsExact, Begins
<1>2. Start \in Updates /\ Follows(Start, W, from, from, limit)
  BY <1>1, StartFollows
<1>3. W \in Seq(Row) /\ Distinct(W)
  BY <1>1, EntriesDistinct DEF IsExact, Evaluations
<1>4. PICK path : IsPath(path, from, log, to)
  BY DEF Leads
<1>5. PICK update : IsLoop(update, limit) /\ AfterChanges(limit) = update[n]
  BY <1>2, AfterChangesIsLast
<1>6. n \in Nat /\ \A i \in 1..n : log[i] \in Change
  OBVIOUS
<1>. DEFINE P == {i \in 0..n : update[i].rescan \/ Follows(update[i], W, from, path[i], limit)}
<1>7. 0 \in P
  BY <1>2, <1>4, <1>5, <1>6 DEF IsPath, IsLoop
<1>8. ASSUME NEW i \in 1..n, i - 1 \in P PROVE i \in P
  <2>1. i \in 0..n /\ i - 1 \in 0..n
    BY <1>6
  <2>2. /\ path[i - 1] \in Contents /\ path[i] = Written(path[i - 1], log[i])
        /\ path[i - 1][log[i].key] = log[i].previous
    BY <1>4, <2>1 DEF IsPath
  <2>3. update[i - 1] \in Updates /\ update[i] = Apply(update[i - 1], log[i], limit)
    BY <1>5, <2>1 DEF IsLoop
  <2>4. ~update[i - 1].rescan => Follows(update[i - 1], W, from, path[i - 1], limit)
    BY <1>8
  <2>5. log[i] \in Change
    BY <1>6
  <2>. HIDE DEF n
  <2>6. ~Apply(update[i - 1], log[i], limit).rescan
        => Follows(Apply(update[i - 1], log[i], limit), W, from, Written(path[i - 1], log[i]), limit)
    BY <1>3, <2>2, <2>3, <2>4, <2>5, ApplyFollows
  <2>7. update[i].rescan \/ Follows(update[i], W, from, path[i], limit)
    BY <2>2, <2>3, <2>6
  <2>. QED
    BY <2>1, <2>7
<1>9. n \in P
  <2>. HIDE DEF P, n
  <2>1. \A i \in 0..n : i \in P
    BY <1>6, <1>7, <1>8, Induction
  <2>. QED
    BY <1>6, <2>1
<1>. QED
  BY <1>4, <1>5, <1>6, <1>9 DEF IsPath, IsLoop
-----------------------------------------------------------------------------
(* Limits *)

Limits == Nat \union {Unlimited}

LEMMA MinOfTwo ==
    ASSUME NEW a \in Int, NEW c \in Int
    PROVE  Min({a, c}) = IF a <= c THEN a ELSE c
<1>. DEFINE m == IF a <= c THEN a ELSE c
<1>1. m \in {a, c} /\ \A y \in {a, c} : m <= y
  OBVIOUS
<1>2. \A x \in {a, c} : (\A y \in {a, c} : x <= y) => x = m
  OBVIOUS
<1>. HIDE DEF m
<1>3. Min({a, c}) = m
  BY <1>1, <1>2 DEF Min
<1>. QED
  BY <1>3 DEF m

LEMMA RetainedLimits ==
    ASSUME NEW limit \in Limits
    PROVE  /\ RetainedLimit(limit) \in Limits
           /\ RetainedLimit(limit) = Unlimited <=> limit = Unlimited
           /\ RetainedLimit(limit) = 0 <=> limit = 0
           /\ limit # Unlimited => RetainedLimit(limit) \in Nat /\ RetainedLimit(limit) >= limit
BY UnlimitedIsNoLimit DEF RetainedLimit, Limits

LEMMA BeginningLength ==
    ASSUME NEW s, IsListing(s, RowsIn(s)), NEW content, Begins(RowsIn(s), EntriesOf(content))
    PROVE  Len(s) \in Nat /\ Total(content) \in Nat /\ Len(s) <= Total(content)
<1>1. IsFiniteSet(RowsIn(s)) /\ Cardinality(RowsIn(s)) = Len(s) /\ Len(s) \in Nat
  BY ListingLength
<1>2. RowsIn(s) \in SUBSET EntriesOf(content)
  BY DEF Begins
<1>3. Cardinality(RowsIn(s)) <= Cardinality(EntriesOf(content))
  BY <1>2, EntriesAreCounted, FS_Subset
<1>. QED
  BY <1>1, <1>3, EntriesAreCounted

\* A beginning that has as many rows as the result is the result.
LEMMA WholeBeginning ==
    ASSUME NEW s, IsListing(s, RowsIn(s)), NEW content, Begins(RowsIn(s), EntriesOf(content)),
           Len(s) = Total(content)
    PROVE  RowsIn(s) = EntriesOf(content)
<1>1. Cardinality(RowsIn(s)) = Len(s)
  BY ListingLength
<1>2. RowsIn(s) \in SUBSET EntriesOf(content)
  BY DEF Begins
<1>. QED
  BY <1>1, <1>2, EntriesAreCounted, FS_Subset

\* What makes an evaluation exact.
LEMMA MadeIsExact ==
    ASSUME NEW w, IsListing(w, RowsIn(w)), NEW content, Begins(RowsIn(w), EntriesOf(content)),
           NEW b \in Limits,
           b # Unlimited => Len(w) <= RetainedLimit(b) /\ Len(w) >= Min({Total(content), b}),
           b = Unlimited => Len(w) = Total(content)
    PROVE  IsExact([window |-> w, totalRows |-> Total(content),
                    filled |-> Filled(w, Total(content), RetainedLimit(b))], content, b)
<1>. DEFINE filled == Filled(w, Total(content), RetainedLimit(b))
            e == [window |-> w, totalRows |-> Total(content), filled |-> filled]
<1>1. Len(w) \in Nat /\ Total(content) \in Nat /\ Len(w) <= Total(content)
  BY BeginningLength
<1>2. filled \in BOOLEAN
  BY DEF Filled
<1>3. w \in Seq(Row)
  BY DEF IsListing
<1>4. CASE b = Unlimited
  <2>1. Len(w) = Total(content)
    BY <1>4
  <2>. HIDE DEF filled
  <2>2. e \in Evaluations /\ e.window = w /\ e.totalRows = Total(content)
    BY <1>1, <1>2, <1>3 DEF Evaluations
  <2>. HIDE DEF e
  <2>3. IsExact(e, content, b)
    BY <1>4, <2>1, <2>2 DEF IsExact, Suffices
  <2>. QED
    BY <2>3 DEF e, filled
<1>5. CASE b # Unlimited
  <2>1. /\ b \in Nat /\ RetainedLimit(b) \in Nat /\ b <= RetainedLimit(b)
        /\ RetainedLimit(b) # Unlimited
    BY <1>5, RetainedLimits DEF Limits
  <2>2. Suffices(Len(w), Total(content), b)
    <3>1. Len(w) >= IF Total(content) <= b THEN Total(content) ELSE b
      BY <1>1, <1>5, <2>1, MinOfTwo
    <3>. QED
      BY <1>1, <1>5, <2>1, <3>1 DEF Suffices
  <2>3. filled => Suffices(Len(w), Total(content), RetainedLimit(b))
    <3>1. filled => Len(w) >= IF Total(content) <= RetainedLimit(b) THEN Total(content) ELSE RetainedLimit(b)
      BY <1>1, <2>1, MinOfTwo DEF Filled
    <3>. HIDE DEF filled
    <3>. QED
      BY <1>1, <2>1, <3>1 DEF Suffices
  <2>. HIDE DEF filled
  <2>4. e \in Evaluations /\ e.window = w /\ e.totalRows = Total(content) /\ e.filled = filled
    BY <1>1, <1>2, <1>3 DEF Evaluations
  <2>. HIDE DEF e
  <2>5. IsExact(e, content, b)
    BY <1>5, <2>2, <2>3, <2>4 DEF IsExact
  <2>. QED
    BY <2>5 DEF e, filled
<1>. QED
  BY <1>4, <1>5

\* A scan is exact.
LEMMA ScanIsExact ==
    ASSUME rows \in Contents, NEW b \in Limits
    PROVE  IsExact(Scan(RetainedLimit(b)), rows, b)
<1>. DEFINE all == Result(rows)
            limit == RetainedLimit(b)
            w == Truncated(all, limit)
<1>1. IsListing(all, EntriesOf(rows)) /\ Len(all) = Total(rows) /\ Total(rows) \in Nat
  BY ResultLists, EntriesAreCounted
<1>2. limit \in Nat \union {Unlimited}
  BY RetainedLimits DEF Limits
<1>. HIDE DEF all, limit
<1>3. /\ IsListing(w, RowsIn(w)) /\ Begins(RowsIn(w), EntriesOf(rows))
      /\ Len(w) = IF limit = Unlimited \/ Len(all) <= limit THEN Len(all) ELSE limit
  BY <1>1, <1>2, TruncatedBegins
<1>4. Scan(limit) = [window |-> w, totalRows |-> Total(rows), filled |-> Filled(w, Total(rows), limit)]
  BY <1>1 DEF Scan, all
<1>5. b = Unlimited => Len(w) = Total(rows)
  BY <1>1, <1>3, RetainedLimits DEF limit
<1>6. ASSUME b # Unlimited PROVE Len(w) <= limit /\ Len(w) >= Min({Total(rows), b})
  <2>1. b \in Nat /\ limit \in Nat /\ limit # Unlimited /\ b <= limit
    BY <1>6, RetainedLimits DEF limit, Limits
  <2>2. Min({Total(rows), b}) = IF Total(rows) <= b THEN Total(rows) ELSE b
    BY <1>1, <2>1, MinOfTwo
  <2>. QED
    BY <1>1, <1>3, <2>1, <2>2
<1>. HIDE DEF w
<1>. QED
  BY <1>3, <1>4, <1>5, <1>6, MadeIsExact DEF limit

-----------------------------------------------------------------------------
(* The window that the loop leads to *)

\* The first rows of a list begin the result, if enough rows of the list come
\* before all that the list leaves out.
LEMMA CutBegins ==
    ASSUME NEW s, NEW S, IsListing(s, S), NEW content, S \subseteq EntriesOf(content),
           NEW limit \in Limits, NEW V \in SUBSET S,
           \/ S = EntriesOf(content)
           \/ /\ limit # Unlimited /\ limit <= Cardinality(V)
              /\ \A e \in V, x \in EntriesOf(content) \ S : Precedes(e, x)
    PROVE  Begins(RowsIn(Truncated(s, limit)), EntriesOf(content))
<1>. DEFINE t == Truncated(s, limit)
            T == RowsIn(t)
            E == EntriesOf(content)
<1>1. /\ IsListing(t, T) /\ Begins(T, S)
      /\ Len(t) = IF limit = Unlimited \/ Len(s) <= limit THEN Len(s) ELSE limit
  BY TruncatedBegins DEF Limits
<1>2. IsFiniteSet(T) /\ Cardinality(T) = Len(t) /\ Len(t) \in Nat
  BY <1>1, ListingLength
<1>3. E \subseteq Row /\ T \subseteq S /\ IsFiniteSet(V) /\ Cardinality(V) \in Nat /\ Len(s) \in Nat
  <2>1. IsFiniteSet(S) /\ Len(s) \in Nat
    BY ListingLength
  <2>2. IsFiniteSet(V) /\ Cardinality(V) \in Nat
    BY <2>1, FS_Subset, FS_CardinalityType
  <2>. QED
    BY <1>1, <2>1, <2>2, EntriesOfType DEF Begins
<1>. HIDE DEF t, T, E
<1>4. CASE S = E
  BY <1>1, <1>4 DEF T, t, E
<1>5. CASE S # E
  <2>1. /\ limit \in Nat /\ limit <= Cardinality(V) /\ Len(t) <= limit
        /\ \A e \in V, x \in E \ S : Precedes(e, x)
    BY <1>1, <1>3, <1>5 DEF E, Limits
  <2>2. ASSUME NEW e \in T, NEW x \in E, Precedes(x, e) PROVE x \in T
    <3>1. CASE x \in S
      BY <1>1, <2>2, <3>1 DEF Begins
    <3>2. CASE x \notin S
      <4>1. \A v \in V : v \in Row /\ Precedes(v, x) /\ x \in Row /\ e \in Row
        BY <1>3, <2>1, <3>2 DEF E
      <4>2. \A v \in V : Precedes(v, e) /\ v # e
        BY <2>2, <4>1, PrecedesIsOrder
      <4>3. V \subseteq T \ {e}
        BY <1>1, <4>2 DEF Begins
      <4>4. IsFiniteSet(T \ {e}) /\ Cardinality(T \ {e}) = Cardinality(T) - 1
        BY <1>2, FS_RemoveElement
      <4>5. Cardinality(V) <= Cardinality(T \ {e})
        BY <4>3, <4>4, FS_Subset
      <4>. QED
        BY <1>2, <1>3, <2>1, <4>4, <4>5
    <3>. QED
      BY <3>1, <3>2
  <2>. QED
    BY <1>3, <2>2 DEF Begins, T, t, E
<1>. QED
  BY <1>4, <1>5

\* The loop has followed the rows from the content that the evaluation is exact for.
Followed(u, from, b) ==
    /\ rows \in Contents /\ u \in Updates /\ b \in Limits /\ b # 0
    /\ IsExact(evaluation, from, b)
    /\ Tracks(u, evaluation.window, from, rows, RetainedLimit(b))

KeptRows(u) == {e \in RowsIn(u.window) : e.key \notin u.removed}
InsertedRows(u) == {Entry(k, u.inserted[k]) : k \in DOMAIN u.inserted}

\* The window without the removed rows, sorted again if a row was replaced.
WindowOf(u) == IF u.replaced THEN Sorted(Kept(u.window, u.removed)) ELSE Kept(u.window, u.removed)

LEMMA FollowedWindow ==
    ASSUME NEW u, NEW from, NEW b, Followed(u, from, b)
    PROVE  LET W == evaluation.window
           IN  /\ W \in Seq(Row) /\ Distinct(W) /\ Ordered(W)
               /\ u.window \in Seq(Row) /\ Distinct(u.window) /\ Len(u.window) = Len(W)
               /\ DOMAIN u.window = DOMAIN W /\ DOMAIN W = 1..Len(W) /\ Len(W) \in Nat
               /\ \A i \in DOMAIN W : u.window[i].key = W[i].key
               /\ \A e \in KeptRows(u) : Current(e) /\ Matches(e.field) /\ e.key \notin DOMAIN u.inserted
<1>. DEFINE W == evaluation.window
<1>1. IsListing(W, RowsIn(W)) /\ RowsIn(W) \subseteq EntriesOf(from)
  BY DEF Followed, IsExact, Begins
<1>2. W \in Seq(Row) /\ Distinct(W) /\ Ordered(W) /\ DOMAIN W = 1..Len(W) /\ Len(W) \in Nat
  BY <1>1, EntriesDistinct, ListingLength DEF IsListing
<1>3. u.window \in Seq(Row)
  BY DEF Followed, Updates
<1>4. DOMAIN u.window = DOMAIN W /\ \A i \in DOMAIN W : u.window[i].key = W[i].key
  BY DEF Followed, Tracks, SameKeys
<1>. HIDE DEF W
<1>5. Distinct(u.window)
  BY <1>2, <1>4 DEF Distinct
<1>6. Len(u.window) = Len(W)
  <2>1. DOMAIN u.window = 1..Len(u.window) /\ Len(u.window) \in Nat
    BY <1>3
  <2>. QED
    BY <1>2, <1>4, <2>1
<1>7. ASSUME NEW e \in KeptRows(u)
      PROVE  Current(e) /\ Matches(e.field) /\ e.key \notin DOMAIN u.inserted
  <2>1. PICK i \in DOMAIN u.window : e = u.window[i] /\ e.key \notin u.removed
    BY DEF KeptRows, RowsIn
  <2>2. e \in Row
    BY <1>3, <2>1
  <2>3. Matches(rows[e.key]) /\ rows[e.key] = e.field /\ e.key \notin DOMAIN u.inserted
    BY <1>4, <2>1 DEF Followed, Tracks, KeptCurrent, W
  <2>. QED
    BY <2>2, <2>3 DEF Current
<1>. QED
  BY <1>2, <1>3, <1>4, <1>5, <1>6, <1>7 DEF W

LEMMA WindowLists ==
    ASSUME NEW u, NEW from, NEW b, Followed(u, from, b)
    PROVE  IsListing(WindowOf(u), KeptRows(u)) /\ Len(WindowOf(u)) <= Len(evaluation.window)
<1>. DEFINE kept == Kept(u.window, u.removed)
<1>1. /\ u.window \in Seq(Row) /\ Distinct(u.window) /\ Len(u.window) = Len(evaluation.window)
      /\ Ordered(evaluation.window) /\ \A e \in KeptRows(u) : Current(e)
  BY FollowedWindow
<1>2. /\ kept \in Seq(Row) /\ Distinct(kept) /\ RowsIn(kept) = KeptRows(u)
      /\ Len(kept) <= Len(u.window) /\ (Ordered(u.window) => Ordered(kept))
  BY <1>1, KeptLists DEF KeptRows
<1>. HIDE DEF kept
<1>3. CASE u.replaced
  <2>1. IsListing(Sorted(kept), KeptRows(u)) /\ Len(Sorted(kept)) = Len(kept)
    BY <1>1, <1>2, SortedLists
  <2>. QED
    BY <1>1, <1>2, <1>3, <2>1 DEF WindowOf, kept
<1>4. CASE ~u.replaced
  <2>1. u.window = evaluation.window
    BY <1>4 DEF Followed, Tracks, SameKeys
  <2>2. WindowOf(u) = kept
    BY <1>4 DEF WindowOf, kept
  <2>. QED
    BY <1>1, <1>2, <2>1, <2>2 DEF IsListing
<1>. QED
  BY <1>3, <1>4

LEMMA InsertedRowsType ==
    ASSUME NEW u, NEW from, NEW b, Followed(u, from, b)
    PROVE  /\ IsFiniteSet(InsertedRows(u)) /\ DOMAIN u.inserted \subseteq Keys
           /\ \A k \in DOMAIN u.inserted :
                 /\ Entry(k, u.inserted[k]) \in InsertedRows(u)
                 /\ Entry(k, u.inserted[k]).key = k
           /\ \A e \in InsertedRows(u) : Current(e) /\ Matches(e.field) /\ e.key \in DOMAIN u.inserted
<1>1. u.inserted \in Insertions
  BY DEF Followed, Updates
<1>2. DOMAIN u.inserted \subseteq Keys /\ \A k \in DOMAIN u.inserted : u.inserted[k] \in Fields
  BY <1>1, InsertionsType
<1>3. \A k \in DOMAIN u.inserted : Entry(k, u.inserted[k]) \in InsertedRows(u)
  BY DEF InsertedRows
<1>4. \A k \in DOMAIN u.inserted :
         /\ Entry(k, u.inserted[k]) \in Row
         /\ Entry(k, u.inserted[k]).key = k /\ Entry(k, u.inserted[k]).field = u.inserted[k]
  BY <1>2, EntryType
<1>5. ASSUME NEW e \in InsertedRows(u)
      PROVE  Current(e) /\ Matches(e.field) /\ e.key \in DOMAIN u.inserted
  <2>1. PICK k \in DOMAIN u.inserted : e = Entry(k, u.inserted[k])
    BY DEF InsertedRows
  <2>2. e \in Row /\ e.key = k /\ e.field = u.inserted[k]
    BY <1>4, <2>1
  <2>3. Matches(rows[k]) /\ rows[k] = u.inserted[k]
    BY DEF Followed, Tracks, InsertedCurrent
  <2>. QED
    BY <2>2, <2>3 DEF Current
<1>6. IsFiniteSet(InsertedRows(u))
  <2>. DEFINE f == [k \in DOMAIN u.inserted |-> Entry(k, u.inserted[k])]
  <2>1. f \in Surjection(DOMAIN u.inserted, InsertedRows(u))
    BY DEF InsertedRows, Surjection
  <2>2. IsFiniteSet(DOMAIN u.inserted)
    BY <1>2, KeysAreNumbers, FS_Subset
  <2>. QED
    BY <2>1, <2>2, FS_Surjection DEF ExistsSurjection
<1>. QED
  BY <1>2, <1>3, <1>4, <1>5, <1>6

\* The rows inserted, as a sequence of the window's rows with other keys.
LEMMA EntriesList ==
    ASSUME NEW u, NEW from, NEW b, Followed(u, from, b)
    PROVE  LET s == Entries(u.inserted)
           IN  /\ s \in Seq(Row) /\ Distinct(s) /\ RowsIn(s) = InsertedRows(u)
<1>. DEFINE S == InsertedRows(u)
            n == Cardinality(S)
            s == Entries(u.inserted)
<1>1. IsFiniteSet(S) /\ n \in Nat
  BY InsertedRowsType, FS_CardinalityType
<1>2. s = CHOOSE f \in [1..n -> S] : IsInjective(f)
  BY DEF Entries, SetToSeq, InsertedRows
<1>3. \E f \in [1..n -> S] : IsInjective(f)
  <2>1. ExistsBijection(1..n, S)
    BY <1>1, FS_CardinalityType
  <2>. QED
    BY <2>1 DEF ExistsBijection, Bijection, Injection
<1>4. S \subseteq Row /\ \A e, f \in S : e.key = f.key => e = f
  <2>1. \A e \in S : e \in Row /\ rows[e.key] = e.field
    BY InsertedRowsType DEF Current
  <2>2. \A e, f \in S : e.key = f.key => e = f
    BY <2>1, EntryType
  <2>. QED
    BY <2>1, <2>2
<1>. HIDE DEF S, s
<1>5. s \in [1..n -> S] /\ IsInjective(s)
  BY <1>2, <1>3
<1>6. s \in Injection(1..n, S)
  BY <1>5 DEF Injection
<1>7. s \in Surjection(1..n, S)
  <2>1. IsFiniteSet(1..n) /\ Cardinality(1..n) = n
    BY <1>1, FS_Interval
  <2>. QED
    BY <1>1, <1>6, <2>1, FS_Injection
<1>. HIDE DEF n
<1>8. s \in Seq(Row) /\ DOMAIN s = 1..n
  BY <1>1, <1>4, <1>5
<1>9. RowsIn(s) = S
  BY <1>5, <1>7, <1>8 DEF RowsIn, Surjection
<1>10. Distinct(s)
  BY <1>4, <1>5, <1>8 DEF Distinct, IsInjective
<1>. QED
  BY <1>8, <1>9, <1>10 DEF s, S

\* The kept rows and the inserted rows, in the query's order.
LEMMA MergedLists ==
    ASSUME NEW u, NEW from, NEW b, Followed(u, from, b)
    PROVE  /\ IsListing(Sorted(WindowOf(u) \o Entries(u.inserted)), KeptRows(u) \union InsertedRows(u))
           /\ KeptRows(u) \union InsertedRows(u) \subseteq EntriesOf(rows)
           /\ KeptRows(u) \intersect InsertedRows(u) = {}
<1>. DEFINE s == WindowOf(u)
            t == Entries(u.inserted)
            K == KeptRows(u)
            I == InsertedRows(u)
<1>1. /\ \A e \in K : Current(e) /\ Matches(e.field) /\ e.key \notin DOMAIN u.inserted
      /\ \A e \in I : Current(e) /\ Matches(e.field) /\ e.key \in DOMAIN u.inserted
  BY FollowedWindow, InsertedRowsType
<1>2. IsListing(s, K) /\ s \in Seq(Row) /\ RowsIn(s) = K
  BY WindowLists DEF IsListing
<1>3. t \in Seq(Row) /\ Distinct(t) /\ RowsIn(t) = I
  BY EntriesList
<1>. HIDE DEF s, t, K, I
<1>4. K \union I \subseteq EntriesOf(rows)
  BY <1>1, EntriesOfType DEF Current
<1>5. Distinct(s)
  BY <1>2, <1>4, EntriesDistinct
<1>6. /\ s \o t \in Seq(Row) /\ Len(s) \in Nat /\ Len(t) \in Nat /\ Len(s \o t) = Len(s) + Len(t)
      /\ DOMAIN s = 1..Len(s) /\ DOMAIN t = 1..Len(t) /\ DOMAIN (s \o t) = 1..(Len(s) + Len(t))
      /\ \A i \in 1..(Len(s) + Len(t)) : (s \o t)[i] = IF i <= Len(s) THEN s[i] ELSE t[i - Len(s)]
  BY <1>2, <1>3
<1>7. \A i \in 1..(Len(s) + Len(t)) :
         IF i <= Len(s) THEN (s \o t)[i] = s[i] /\ i \in DOMAIN s
         ELSE (s \o t)[i] = t[i - Len(s)] /\ i - Len(s) \in DOMAIN t
  BY <1>6
<1>8. RowsIn(s \o t) = K \union I
  <2>1. ASSUME NEW e \in RowsIn(s \o t) PROVE e \in K \union I
    <3>1. PICK i \in 1..(Len(s) + Len(t)) : e = (s \o t)[i]
      BY <1>6 DEF RowsIn
    <3>. QED
      BY <1>2, <1>3, <1>7, <3>1 DEF RowsIn
  <2>2. ASSUME NEW e \in K PROVE e \in RowsIn(s \o t)
    <3>1. PICK i \in 1..Len(s) : e = s[i]
      BY <1>2, <1>6 DEF RowsIn
    <3>2. i \in 1..(Len(s) + Len(t)) /\ (s \o t)[i] = e
      BY <1>6, <3>1
    <3>. QED
      BY <1>6, <3>2 DEF RowsIn
  <2>3. ASSUME NEW e \in I PROVE e \in RowsIn(s \o t)
    <3>1. PICK i \in 1..Len(t) : e = t[i]
      BY <1>3, <1>6 DEF RowsIn
    <3>2. i + Len(s) \in 1..(Len(s) + Len(t)) /\ ~(i + Len(s) <= Len(s)) /\ (i + Len(s)) - Len(s) = i
      BY <1>6, <3>1
    <3>3. (s \o t)[i + Len(s)] = e
      BY <1>6, <3>1, <3>2
    <3>. QED
      BY <1>6, <3>2, <3>3 DEF RowsIn
  <2>. QED
    BY <2>1, <2>2, <2>3
<1>9. Distinct(s \o t)
  <2>. SUFFICES ASSUME NEW i \in 1..(Len(s) + Len(t)), NEW k \in 1..(Len(s) + Len(t)),
                       (s \o t)[i].key = (s \o t)[k].key
                PROVE  i = k
    BY <1>6 DEF Distinct
  <2>1. \A x \in DOMAIN s : s[x].key \notin DOMAIN u.inserted
    BY <1>1, <1>2 DEF RowsIn
  <2>2. \A x \in DOMAIN t : t[x].key \in DOMAIN u.inserted
    BY <1>1, <1>3 DEF RowsIn
  <2>3. CASE i <= Len(s) /\ k <= Len(s)
    BY <1>5, <1>7, <2>3 DEF Distinct
  <2>4. CASE ~(i <= Len(s)) /\ ~(k <= Len(s))
    <3>1. i - Len(s) = k - Len(s)
      BY <1>3, <1>7, <2>4 DEF Distinct
    <3>. QED
      BY <1>6, <3>1
  <2>. QED
    BY <1>7, <2>1, <2>2, <2>3, <2>4
<1>10. \A e \in RowsIn(s \o t) : Current(e)
  BY <1>1, <1>8
<1>11. IsListing(Sorted(s \o t), K \union I)
  BY <1>6, <1>8, <1>9, <1>10, SortedLists
<1>12. K \intersect I = {}
  BY <1>1
<1>. QED
  BY <1>4, <1>11, <1>12 DEF s, t, K, I

\* A row of the result that was neither kept nor inserted was left out of the
\* window, and comes after every kept row.
LEMMA LeftOut ==
    ASSUME NEW u, NEW from, NEW b, Followed(u, from, b),
           NEW x \in EntriesOf(rows), x \notin KeptRows(u) \union InsertedRows(u)
    PROVE  /\ x \in EntriesOf(from) /\ x \notin RowsIn(evaluation.window)
           /\ b # Unlimited => \A e \in KeptRows(u) : Precedes(e, x)
<1>. DEFINE W == evaluation.window
<1>1. x \in Row /\ x.key \in Keys /\ Matches(rows[x.key]) /\ rows[x.key] = x.field /\ Entry(x.key, x.field) = x
  BY EntriesOfType, EntryType
<1>2. x.key \notin DOMAIN u.inserted
  <2>. SUFFICES ASSUME x.key \in DOMAIN u.inserted PROVE FALSE
    OBVIOUS
  <2>1. u.inserted[x.key] = x.field
    BY <1>1 DEF Followed, Tracks, InsertedCurrent
  <2>2. x \in InsertedRows(u)
    BY <1>1, <2>1 DEF InsertedRows
  <2>. QED
    BY <2>2
<1>3. x.key \in KeysOf(W) => x.key \in u.removed
  <2>. SUFFICES ASSUME x.key \in KeysOf(W), x.key \notin u.removed PROVE FALSE
    OBVIOUS
  <2>1. PICK i \in DOMAIN W : W[i].key = x.key
    BY DEF KeysOf
  <2>2. rows[x.key] = u.window[i].field
    BY <2>1 DEF Followed, Tracks, KeptCurrent
  <2>3. u.window[i].key = x.key /\ i \in DOMAIN u.window /\ u.window[i] \in Row
    BY <2>1, FollowedWindow
  <2>4. u.window[i] = x
    <3>1. Entry(u.window[i].key, u.window[i].field) = u.window[i]
      BY <2>3, EntryType
    <3>. QED
      BY <1>1, <2>2, <2>3, <3>1
  <2>5. x \in KeptRows(u)
    BY <2>3, <2>4 DEF KeptRows, RowsIn
  <2>. QED
    BY <2>5
<1>4. x.key \notin KeysOf(W) /\ from[x.key] = rows[x.key]
  BY <1>1, <1>2, <1>3 DEF Followed, Tracks, Covered
<1>5. x \in EntriesOf(from)
  BY <1>1, <1>4, EntriesOfType
<1>6. x \notin RowsIn(W)
  BY <1>4 DEF RowsIn, KeysOf
<1>7. ASSUME b # Unlimited, NEW e \in KeptRows(u) PROVE Precedes(e, x)
  <2>1. PICK i \in DOMAIN u.window : e = u.window[i] /\ e.key \notin u.removed
    BY DEF KeptRows, RowsIn
  <2>2. i \in DOMAIN W /\ W[i].key = e.key /\ e \in Row /\ W[i] \in Row
    BY <2>1, FollowedWindow
  <2>3. RetainedLimit(b) # Unlimited
    BY <1>7, RetainedLimits DEF Followed
  <2>4. ~Precedes(W[i], e)
    BY <2>1, <2>2, <2>3 DEF Followed, Tracks, KeptCurrent
  <2>5. W[i] \in RowsIn(W)
    BY <2>2 DEF RowsIn
  <2>6. ~Precedes(x, W[i]) /\ x # W[i]
    BY <1>5, <1>6, <2>5 DEF Followed, IsExact, Begins
  <2>. QED
    BY <1>1, <2>2, <2>4, <2>6, PrecedesIsOrder
<1>. QED
  BY <1>5, <1>6, <1>7 DEF W

\* A window as long as the result leaves out nothing.
LEMMA NothingLeftOut ==
    ASSUME NEW u, NEW from, NEW b, Followed(u, from, b),
           Len(evaluation.window) = evaluation.totalRows
    PROVE  EntriesOf(rows) = KeptRows(u) \union InsertedRows(u)
<1>1. RowsIn(evaluation.window) = EntriesOf(from)
  BY WholeBeginning DEF Followed, IsExact
<1>2. KeptRows(u) \union InsertedRows(u) \subseteq EntriesOf(rows)
  BY MergedLists
<1>. QED
  BY <1>1, <1>2, LeftOut

\* With no insertion the window itself is exact, unless it has become too short.
LEMMA WindowIsExact ==
    ASSUME NEW u, NEW from, NEW b, Followed(u, from, b), DOMAIN u.inserted = {},
           b # Unlimited => Len(WindowOf(u)) >= Min({Total(rows), b})
    PROVE  IsExact([window |-> WindowOf(u), totalRows |-> Total(rows),
                    filled |-> Filled(WindowOf(u), Total(rows), RetainedLimit(b))], rows, b)
<1>. DEFINE w == WindowOf(u)
            K == KeptRows(u)
            E == EntriesOf(rows)
<1>1. InsertedRows(u) = {}
  BY DEF InsertedRows
<1>2. IsListing(w, K) /\ RowsIn(w) = K /\ Len(w) <= Len(evaluation.window)
  BY WindowLists DEF IsListing
<1>3. K \subseteq E /\ E \subseteq Row
  BY <1>1, MergedLists, EntriesOfType
<1>4. b = Unlimited => E = K
  <2>1. b = Unlimited => Len(evaluation.window) = evaluation.totalRows
    BY DEF Followed, IsExact, Suffices
  <2>. QED
    BY <1>1, <2>1, NothingLeftOut
<1>5. \A e \in K, x \in E : Precedes(x, e) => x \in K
  <2>. SUFFICES ASSUME NEW e \in K, NEW x \in E, Precedes(x, e), x \notin K PROVE FALSE
    OBVIOUS
  <2>1. b # Unlimited => Precedes(e, x)
    BY <1>1, LeftOut
  <2>. QED
    BY <1>3, <1>4, <2>1, Unordered
<1>6. Begins(K, E)
  BY <1>3, <1>5 DEF Begins
<1>7. b # Unlimited => Len(w) <= RetainedLimit(b)
  <2>. SUFFICES ASSUME b # Unlimited PROVE Len(w) <= RetainedLimit(b)
    OBVIOUS
  <2>1. RetainedLimit(b) \in Nat /\ Len(evaluation.window) <= RetainedLimit(b)
    BY RetainedLimits DEF Followed, IsExact
  <2>2. Len(w) \in Nat /\ Len(evaluation.window) \in Nat
    BY <1>2, ListingLength, FollowedWindow
  <2>. QED
    BY <1>2, <2>1, <2>2
<1>8. b = Unlimited => Len(w) = Total(rows)
  BY <1>2, <1>4, ListingLength, EntriesAreCounted
<1>9. b \in Limits
  BY DEF Followed
<1>. HIDE DEF w, K, E
<1>10. IsExact([window |-> w, totalRows |-> Total(rows),
                filled |-> Filled(w, Total(rows), RetainedLimit(b))], rows, b)
  BY <1>2, <1>6, <1>7, <1>8, <1>9, MadeIsExact DEF w, E
<1>. QED
  BY <1>10 DEF w

\* Rows with different keys are as many as their positions.
LEMMA DistinctLength ==
    ASSUME NEW s \in Seq(Row), Distinct(s)
    PROVE  IsFiniteSet(RowsIn(s)) /\ Cardinality(RowsIn(s)) = Len(s)
<1>1. DOMAIN s = 1..Len(s) /\ Len(s) \in Nat
  OBVIOUS
<1>2. s \in Bijection(1..Len(s), RowsIn(s))
  BY <1>1 DEF RowsIn, Distinct, Bijection, Injection, Surjection, IsInjective
<1>3. IsFiniteSet(1..Len(s)) /\ Cardinality(1..Len(s)) = Len(s)
  BY <1>1, FS_Interval
<1>. QED
  BY <1>2, <1>3, FS_Bijection DEF ExistsBijection

\* The inserted rows that LimitAfterInserts counts.
SafeKeys(u) == {k \in DOMAIN u.inserted : ~PrecedesNow(Last(WindowOf(u)), Entry(k, u.inserted[k]))}
SafeRows(u) == {Entry(k, u.inserted[k]) : k \in SafeKeys(u)}

LEMMA SafeRowsCounted ==
    ASSUME NEW u, NEW from, NEW b, Followed(u, from, b)
    PROVE  /\ SafeRows(u) \subseteq InsertedRows(u)
           /\ IsFiniteSet(SafeRows(u)) /\ Cardinality(SafeRows(u)) = Cardinality(SafeKeys(u))
           /\ Cardinality(SafeKeys(u)) \in Nat
<1>. DEFINE f == [k \in SafeKeys(u) |-> Entry(k, u.inserted[k])]
<1>1. SafeKeys(u) \subseteq DOMAIN u.inserted /\ SafeKeys(u) \subseteq Keys
  BY InsertedRowsType DEF SafeKeys
<1>2. SafeRows(u) \subseteq InsertedRows(u)
  BY <1>1 DEF SafeRows, InsertedRows
<1>3. \A k \in SafeKeys(u) : f[k].key = k
  BY <1>1, InsertedRowsType
<1>4. f \in [SafeKeys(u) -> SafeRows(u)] /\ \A e \in SafeRows(u) : \E k \in SafeKeys(u) : f[k] = e
  BY DEF SafeRows
<1>. HIDE DEF f
<1>5. f \in Bijection(SafeKeys(u), SafeRows(u))
  BY <1>3, <1>4 DEF Bijection, Injection, Surjection, IsInjective
<1>6. IsFiniteSet(SafeKeys(u)) /\ Cardinality(SafeKeys(u)) \in Nat
  BY <1>1, KeysAreNumbers, FS_Subset, FS_CardinalityType
<1>. QED
  BY <1>2, <1>5, <1>6, FS_Bijection DEF ExistsBijection

\* An inserted row that is counted comes before every row left out.
LEMMA SafeRowsPrecede ==
    ASSUME NEW u, NEW from, NEW b, Followed(u, from, b), b # Unlimited, Len(WindowOf(u)) # 0,
           NEW e \in SafeRows(u), NEW x \in EntriesOf(rows), x \notin KeptRows(u) \union InsertedRows(u)
    PROVE  Precedes(e, x)
<1>. DEFINE last == Last(WindowOf(u))
<1>1. last \in KeptRows(u)
  <2>1. /\ RowsIn(WindowOf(u)) = KeptRows(u) /\ Len(WindowOf(u)) \in Nat
        /\ DOMAIN WindowOf(u) = 1..Len(WindowOf(u))
    BY WindowLists, ListingLength DEF IsListing
  <2>2. Len(WindowOf(u)) \in DOMAIN WindowOf(u)
    BY <2>1
  <2>. QED
    BY <2>1, <2>2 DEF RowsIn, Last
<1>2. Precedes(last, x)
  BY <1>1, LeftOut
<1>3. Current(last) /\ Current(e)
  BY <1>1, FollowedWindow, SafeRowsCounted, InsertedRowsType
<1>4. ~PrecedesNow(last, e)
  BY DEF SafeRows, SafeKeys
<1>. HIDE DEF last
<1>5. ~Precedes(last, e) /\ last \in Row /\ e \in Row /\ x \in Row
  BY <1>3, <1>4, PrecedesNowOfCurrent, EntriesOfType DEF Current
<1>. QED
  BY <1>2, <1>5, PrecedesIsOrder

\* The limit that the merged window is cut at.
LEMMA LimitAfterInsertsIs ==
    ASSUME NEW u, NEW from, NEW b, Followed(u, from, b)
    PROVE  LET limit == RetainedLimit(b)
               cut == LimitAfterInserts(u, WindowOf(u), limit)
               safe == Len(WindowOf(u)) + Cardinality(SafeKeys(u))
           IN  /\ b = Unlimited => cut = Unlimited
               /\ b # Unlimited => cut \in Nat /\ cut <= limit
               /\ b # Unlimited /\ u.removed = {} => cut = limit
               /\ b # Unlimited /\ u.removed # {} => cut = IF limit <= safe THEN limit ELSE safe
<1>. DEFINE limit == RetainedLimit(b)
            safe == Len(WindowOf(u)) + Cardinality(SafeKeys(u))
            cut == LimitAfterInserts(u, WindowOf(u), limit)
<1>1. limit = Unlimited <=> b = Unlimited
  BY RetainedLimits DEF Followed
<1>2. b # Unlimited => limit \in Nat
  BY RetainedLimits DEF Followed
<1>3. safe \in Nat
  <2>1. Len(WindowOf(u)) \in Nat /\ Cardinality(SafeKeys(u)) \in Nat
    BY WindowLists, ListingLength, SafeRowsCounted
  <2>. QED
    BY <2>1
<1>4. cut = IF u.removed = {} \/ limit = Unlimited THEN limit ELSE Min({limit, safe})
  BY DEF LimitAfterInserts, SafeKeys
<1>. HIDE DEF limit, safe, cut
<1>5. b # Unlimited => Min({limit, safe}) = IF limit <= safe THEN limit ELSE safe
  BY <1>2, <1>3, MinOfTwo
<1>6. CASE b = Unlimited
  BY <1>1, <1>4, <1>6 DEF limit, cut, safe
<1>7. CASE b # Unlimited
  <2>1. cut = IF u.removed = {} THEN limit ELSE IF limit <= safe THEN limit ELSE safe
    BY <1>1, <1>4, <1>5, <1>7
  <2>2. cut \in Nat /\ cut <= limit
    BY <1>2, <1>3, <1>7, <2>1
  <2>. QED
    BY <1>7, <2>1, <2>2 DEF limit, cut, safe
<1>. QED
  BY <1>6, <1>7

\* The rows that come before all that are left out are enough to fill the cut.
LEMMA EnoughPrecede ==
    ASSUME NEW u, NEW from, NEW b, Followed(u, from, b), evaluation.filled, Len(WindowOf(u)) # 0
    PROVE  LET S == KeptRows(u) \union InsertedRows(u)
               cut == LimitAfterInserts(u, WindowOf(u), RetainedLimit(b))
           IN  \E V \in SUBSET S :
                  \/ S = EntriesOf(rows)
                  \/ /\ b # Unlimited /\ cut <= Cardinality(V)
                     /\ \A e \in V, x \in EntriesOf(rows) \ S : Precedes(e, x)
<1>. DEFINE W == evaluation.window
            K == KeptRows(u)
            S == K \union InsertedRows(u)
            limit == RetainedLimit(b)
            cut == LimitAfterInserts(u, WindowOf(u), limit)
<1>1. Len(W) = evaluation.totalRows \/ (limit # Unlimited /\ Len(W) >= limit)
  BY DEF Followed, IsExact, Suffices
<1>2. CASE Len(W) = evaluation.totalRows
  <2>1. S = EntriesOf(rows)
    BY <1>2, NothingLeftOut
  <2>. QED
    BY <2>1
<1>3. CASE limit # Unlimited /\ Len(W) >= limit
  <2>1. b # Unlimited /\ limit \in Nat
    BY <1>3, RetainedLimits DEF Followed
  <2>2. \A e \in K, x \in EntriesOf(rows) \ S : Precedes(e, x)
    BY <2>1, LeftOut
  <2>3. IsFiniteSet(K) /\ Cardinality(K) = Len(WindowOf(u)) /\ Len(WindowOf(u)) \in Nat
    BY WindowLists, ListingLength
  <2>4. CASE u.removed = {}
    <3>1. K = RowsIn(u.window)
      BY <2>4 DEF KeptRows
    <3>2. Cardinality(K) = Len(W)
      BY <3>1, FollowedWindow, DistinctLength
    <3>3. cut = limit
      BY <2>1, <2>4, LimitAfterInsertsIs
    <3>4. cut <= Cardinality(K)
      BY <1>3, <2>1, <3>2, <3>3, FollowedWindow
    <3>. HIDE DEF cut
    <3>5. K \in SUBSET S
      OBVIOUS
    <3>. HIDE DEF K, S
    <3>. QED
      BY <2>1, <2>2, <3>4, <3>5 DEF K, S, cut
  <2>5. CASE u.removed # {}
    <3>. DEFINE V == K \union SafeRows(u)
                m == Cardinality(SafeKeys(u))
    <3>1. /\ SafeRows(u) \subseteq InsertedRows(u) /\ IsFiniteSet(SafeRows(u))
          /\ Cardinality(SafeRows(u)) = m /\ m \in Nat
      BY SafeRowsCounted
    <3>2. K \intersect SafeRows(u) = {}
      BY <3>1, MergedLists
    <3>3. Cardinality(V) = Len(WindowOf(u)) + m
      <4>1. Cardinality(K \intersect SafeRows(u)) = 0
        BY <3>2, FS_EmptySet
      <4>. HIDE DEF K, m
      <4>2. Cardinality(V) = Cardinality(K) + Cardinality(SafeRows(u)) - Cardinality(K \intersect SafeRows(u))
        BY <2>3, <3>1, FS_Union
      <4>. HIDE DEF V
      <4>. QED
        BY <2>3, <3>1, <4>1, <4>2
    <3>4. cut <= Cardinality(V)
      <4>1. cut = IF limit <= Len(WindowOf(u)) + m THEN limit ELSE Len(WindowOf(u)) + m
        BY <2>1, <2>5, LimitAfterInsertsIs
      <4>. HIDE DEF cut, V, m, limit
      <4>. QED
        BY <2>1, <2>3, <3>1, <3>3, <4>1
    <3>5. \A e \in V, x \in EntriesOf(rows) \ S : Precedes(e, x)
      <4>1. \A e \in SafeRows(u), x \in EntriesOf(rows) \ S : Precedes(e, x)
        BY <2>1, SafeRowsPrecede
      <4>. QED
        BY <2>2, <4>1
    <3>6. V \in SUBSET S
      BY <3>1
    <3>. HIDE DEF V, S, cut
    <3>. QED
      BY <2>1, <3>4, <3>5, <3>6 DEF S, cut
  <2>. QED
    BY <2>4, <2>5
<1>. QED
  BY <1>1, <1>2, <1>3

\* The merged window is exact.
LEMMA MergedIsExact ==
    ASSUME NEW u, NEW from, NEW b, Followed(u, from, b), evaluation.filled, DOMAIN u.inserted # {},
           b # Unlimited => Len(WindowOf(u)) >= Min({Total(rows), b})
    PROVE  LET limit == RetainedLimit(b)
               w == Truncated(Sorted(WindowOf(u) \o Entries(u.inserted)),
                              LimitAfterInserts(u, WindowOf(u), limit))
           IN  IsExact([window |-> w, totalRows |-> Total(rows), filled |-> Filled(w, Total(rows), limit)],
                       rows, b)
<1>. DEFINE K == KeptRows(u)
            S == K \union InsertedRows(u)
            E == EntriesOf(rows)
            limit == RetainedLimit(b)
            cut == LimitAfterInserts(u, WindowOf(u), limit)
            s == Sorted(WindowOf(u) \o Entries(u.inserted))
            w == Truncated(s, cut)
            kept == Len(WindowOf(u))
            total == Total(rows)
<1>1. IsListing(s, S) /\ S \subseteq E
  BY MergedLists
<1>2. IsFiniteSet(E) /\ Cardinality(E) = total /\ total \in Nat
  BY EntriesAreCounted
<1>3. IsFiniteSet(K) /\ Cardinality(K) = kept /\ kept \in Nat
  BY WindowLists, ListingLength
<1>4. IsFiniteSet(S) /\ Cardinality(S) = Len(s) /\ Len(s) \in Nat /\ Len(s) >= kept
  <2>1. IsFiniteSet(S) /\ Cardinality(S) = Len(s) /\ Len(s) \in Nat
    BY <1>1, ListingLength
  <2>2. K \in SUBSET S
    OBVIOUS
  <2>. HIDE DEF S, K, s, kept
  <2>3. Cardinality(K) <= Cardinality(S)
    BY <2>1, <2>2, FS_Subset
  <2>. QED
    BY <1>3, <2>1, <2>3
<1>5. /\ b \in Limits /\ b # 0
      /\ b # Unlimited => b \in Nat /\ limit \in Nat /\ b <= limit
  BY RetainedLimits DEF Followed, Limits
<1>6. b = Unlimited => S = E
  <2>1. b = Unlimited => Len(evaluation.window) = evaluation.totalRows
    BY DEF Followed, IsExact, Suffices
  <2>. QED
    BY <2>1, NothingLeftOut
<1>7. total # 0
  <2>1. PICK k \in DOMAIN u.inserted : TRUE
    OBVIOUS
  <2>2. Entry(k, u.inserted[k]) \in E
    BY <1>1, InsertedRowsType
  <2>. HIDE DEF E, total
  <2>. QED
    BY <1>2, <2>2, FS_EmptySet
<1>8. b # Unlimited => kept >= IF total <= b THEN total ELSE b
  <2>. HIDE DEF kept, total
  <2>1. b # Unlimited => Min({total, b}) = IF total <= b THEN total ELSE b
    BY <1>2, <1>5, MinOfTwo
  <2>. QED
    BY <2>1 DEF kept, total
<1>9. b # Unlimited => kept # 0
  <2>. HIDE DEF kept, total, E, S, s
  <2>. QED
    BY <1>2, <1>3, <1>5, <1>7, <1>8
<1>10. /\ b = Unlimited => cut = Unlimited
       /\ b # Unlimited => /\ cut \in Nat /\ cut <= limit
                           /\ cut = limit \/ cut >= kept
  <2>1. Cardinality(SafeKeys(u)) \in Nat
    BY SafeRowsCounted
  <2>2. /\ b = Unlimited => cut = Unlimited
        /\ b # Unlimited => cut \in Nat /\ cut <= limit
        /\ b # Unlimited /\ u.removed = {} => cut = limit
        /\ b # Unlimited /\ u.removed # {} =>
             cut = IF limit <= kept + Cardinality(SafeKeys(u)) THEN limit ELSE kept + Cardinality(SafeKeys(u))
    BY LimitAfterInsertsIs
  <2>. HIDE DEF cut, kept, limit
  <2>. QED
    BY <1>3, <2>1, <2>2
<1>11. Begins(RowsIn(w), E)
  <2>1. cut \in Limits
    BY <1>10 DEF Limits
  <2>2. CASE b = Unlimited
    <3>1. {} \in SUBSET S /\ S = E
      BY <1>6, <2>2
    <3>. HIDE DEF S, s, cut
    <3>. QED
      BY <1>1, <2>1, <3>1, CutBegins
  <2>3. CASE b # Unlimited
    <3>1. PICK V \in SUBSET S :
             \/ S = E
             \/ /\ cut <= Cardinality(V)
                /\ \A e \in V, x \in E \ S : Precedes(e, x)
      BY <1>9, <2>3, EnoughPrecede
    <3>2. cut # Unlimited
      BY <1>10, <2>3, UnlimitedIsNoLimit
    <3>. HIDE DEF S, s, cut
    <3>. QED
      BY <1>1, <2>1, <3>1, <3>2, CutBegins
  <2>. QED
    BY <2>2, <2>3
<1>12. /\ IsListing(w, RowsIn(w))
       /\ Len(w) = IF cut = Unlimited \/ Len(s) <= cut THEN Len(s) ELSE cut
  <2>1. cut \in Nat \union {Unlimited}
    BY <1>10
  <2>. HIDE DEF S, s, cut
  <2>. QED
    BY <1>1, <2>1, TruncatedBegins
<1>13. b # Unlimited => Len(w) <= limit /\ Len(w) >= IF total <= b THEN total ELSE b
  <2>. HIDE DEF w, kept, total, cut, s, limit
  <2>1. b # Unlimited => cut # Unlimited
    BY <1>10, UnlimitedIsNoLimit
  <2>. QED
    BY <1>2, <1>3, <1>4, <1>5, <1>8, <1>10, <1>12, <2>1
<1>14. b = Unlimited => Len(w) = total
  <2>. HIDE DEF w, total, cut, s, S, E
  <2>. QED
    BY <1>2, <1>4, <1>6, <1>10, <1>12
<1>. HIDE DEF w, limit
<1>15. b # Unlimited => Len(w) <= limit /\ Len(w) >= Min({total, b})
  <2>1. b # Unlimited => Min({total, b}) = IF total <= b THEN total ELSE b
    <3>. HIDE DEF total
    <3>. QED
      BY <1>2, <1>5, MinOfTwo
  <2>. QED
    BY <1>13, <2>1
<1>16. IsExact([window |-> w, totalRows |-> total, filled |-> Filled(w, total, RetainedLimit(b))], rows, b)
  BY <1>5, <1>11, <1>12, <1>14, <1>15, MadeIsExact DEF limit
<1>. QED
  BY <1>16 DEF w, limit

\* Bringing the evaluation up to date makes it exact for the rows.
LEMMA UpdatedIsExact ==
    ASSUME NEW from \in Contents, rows \in Contents, log \in Seq(Change), Leads(from, log, rows),
           NEW b \in Limits, IsExact(evaluation, from, b)
    PROVE  IsExact(Updated(b), rows, b)
<1>. DEFINE limit == RetainedLimit(b)
            u == AfterChanges(limit)
            w == WindowOf(u)
            merged == Truncated(Sorted(w \o Entries(u.inserted)), LimitAfterInserts(u, w, limit))
            Made(x) == [window |-> x, totalRows |-> u.totalRows, filled |-> Filled(x, u.totalRows, limit)]
            short == b # Unlimited /\ Len(w) < Min({u.totalRows, b})
<1>1. Updated(b) = IF u.rescan THEN Scan(limit)
                   ELSE IF limit = 0 THEN Made(<<>>)
                   ELSE IF short THEN Scan(limit)
                   ELSE IF DOMAIN u.inserted = {} THEN Made(w)
                   ELSE IF ~evaluation.filled THEN Scan(limit)
                   ELSE Made(merged)
  BY DEF Updated, WindowOf
<1>2. IsExact(Scan(limit), rows, b)
  BY ScanIsExact
<1>3. ~u.rescan => u \in Updates /\ Follows(u, evaluation.window, from, rows, limit)
  BY LoopFollows
<1>4. limit = 0 <=> b = 0
  BY RetainedLimits
<1>5. ~u.rescan => u.totalRows = Total(rows)
  BY <1>3 DEF Follows
<1>6. ~u.rescan /\ limit # 0 => Followed(u, from, b)
  BY <1>3, <1>4 DEF Follows, Followed
<1>7. ASSUME ~u.rescan, limit = 0 PROVE IsExact(Made(<<>>), rows, b)
  <2>1. b = 0 /\ b # Unlimited
    BY <1>4, <1>7, UnlimitedIsNoLimit
  <2>2. RowsIn(<<>>) = {} /\ <<>> \in Seq(Row) /\ Ordered(<<>>) /\ Len(<<>>) = 0
    BY DEF RowsIn, Ordered
  <2>3. IsListing(<<>>, RowsIn(<<>>)) /\ Begins(RowsIn(<<>>), EntriesOf(rows))
    BY <2>2 DEF IsListing, Begins
  <2>4. Min({Total(rows), b}) = 0
    <3>1. Total(rows) \in Nat
      BY EntriesAreCounted
    <3>. QED
      BY <2>1, <3>1, MinOfTwo
  <2>5. Len(<<>>) <= RetainedLimit(b) /\ Len(<<>>) >= Min({Total(rows), b})
    BY <1>7, <2>2, <2>4
  <2>. QED
    BY <1>5, <1>7, <2>1, <2>3, <2>5, MadeIsExact
<1>8. ASSUME ~u.rescan, limit # 0, ~short
      PROVE  b # Unlimited => Len(w) >= Min({Total(rows), b})
  <2>1. Len(w) \in Nat
    BY <1>6, <1>8, WindowLists, ListingLength
  <2>2. b # Unlimited => Min({Total(rows), b}) \in Nat
    <3>1. b # Unlimited => b \in Nat
      BY DEF Limits
    <3>. QED
      BY <3>1, MinOfTwo, EntriesAreCounted
  <2>3. b # Unlimited => ~(Len(w) < Min({Total(rows), b}))
    BY <1>5, <1>8
  <2>. HIDE DEF w
  <2>. QED
    BY <2>1, <2>2, <2>3
<1>. HIDE DEF u, w
<1>9. ASSUME ~u.rescan, limit # 0, ~short, DOMAIN u.inserted = {}
      PROVE  IsExact(Made(w), rows, b)
  BY <1>5, <1>6, <1>8, <1>9, WindowIsExact DEF w
<1>10. ASSUME ~u.rescan, limit # 0, ~short, DOMAIN u.inserted # {}, evaluation.filled
       PROVE  IsExact(Made(merged), rows, b)
  BY <1>5, <1>6, <1>8, <1>10, MergedIsExact DEF w
<1>. HIDE DEF Made, merged, short, limit
<1>. QED
  BY <1>1, <1>2, <1>7, <1>9, <1>10

-----------------------------------------------------------------------------
(* Changes that lead from one content to another *)

LEMMA LeadsNowhere ==
    ASSUME NEW from, NEW to, Leads(from, <<>>, to)
    PROVE  from = to
BY DEF Leads, IsPath

LEMMA LeadsByNothing ==
    ASSUME NEW c \in Contents
    PROVE  Leads(c, <<>>, c)
<1>. DEFINE path == [i \in 0..Len(<<>>) |-> c]
<1>1. Len(<<>>) = 0 /\ path \in [0..0 -> Contents] /\ path[0] = c
  OBVIOUS
<1>. HIDE DEF path
<1>2. IsPath(path, c, <<>>, c)
  BY <1>1 DEF IsPath
<1>. QED
  BY <1>2 DEF Leads

LEMMA LeadsAppend ==
    ASSUME NEW from, NEW changes \in Seq(Change), NEW to \in Contents, Leads(from, changes, to),
           NEW change \in Change, to[change.key] = change.previous
    PROVE  Leads(from, Append(changes, change), Written(to, change))
<1>. DEFINE n == Len(changes)
            s == Append(changes, change)
            next == Written(to, change)
<1>1. PICK p : IsPath(p, from, changes, to)
  BY DEF Leads
<1>. DEFINE q == [i \in 0..(n + 1) |-> IF i = n + 1 THEN next ELSE p[i]]
<1>2. /\ n \in Nat /\ Len(s) = n + 1 /\ s[n + 1] = change /\ \A i \in 1..n : s[i] = changes[i]
  BY AppendProperties
<1>3. next \in Contents
  BY WrittenRows
<1>4. /\ p \in [0..n -> Contents] /\ p[0] = from /\ p[n] = to
      /\ \A i \in 1..n : p[i] = Written(p[i - 1], changes[i]) /\ p[i - 1][changes[i].key] = changes[i].previous
  BY <1>1 DEF IsPath
<1>. HIDE DEF n, s, next
<1>5. /\ q \in [0..(n + 1) -> Contents] /\ q[n + 1] = next /\ \A i \in 0..n : q[i] = p[i]
  BY <1>2, <1>3, <1>4
<1>. HIDE DEF q
<1>6. q[0] = from /\ q[n] = to
  BY <1>2, <1>4, <1>5
<1>7. ASSUME NEW i \in 1..(n + 1)
      PROVE  q[i] = Written(q[i - 1], s[i]) /\ q[i - 1][s[i].key] = s[i].previous
  <2>1. CASE i = n + 1
    <3>1. q[i] = next /\ q[i - 1] = to /\ s[i] = change
      BY <1>2, <1>5, <1>6, <2>1
    <3>. QED
      BY <3>1 DEF next
  <2>2. CASE i # n + 1
    <3>1. i \in 1..n /\ i \in 0..n /\ i - 1 \in 0..n
      BY <1>2, <2>2
    <3>2. q[i] = p[i] /\ q[i - 1] = p[i - 1] /\ s[i] = changes[i]
      BY <1>2, <1>5, <3>1
    <3>. QED
      BY <1>4, <3>1, <3>2
  <2>. QED
    BY <2>1, <2>2
<1>8. IsPath(q, from, s, next)
  BY <1>2, <1>5, <1>6, <1>7 DEF IsPath
<1>. QED
  BY <1>8 DEF Leads, s, next

LEMMA LeadsConcat ==
    ASSUME NEW from, NEW first \in Seq(Change), NEW middle, Leads(from, first, middle),
           NEW second \in Seq(Change), NEW to, Leads(middle, second, to)
    PROVE  Leads(from, first \o second, to)
<1>. DEFINE m == Len(first)
            n == Len(second)
            s == first \o second
<1>1. PICK p : IsPath(p, from, first, middle)
  BY DEF Leads
<1>2. PICK q : IsPath(q, middle, second, to)
  BY DEF Leads
<1>. DEFINE r == [i \in 0..(m + n) |-> IF i <= m THEN p[i] ELSE q[i - m]]
<1>3. /\ m \in Nat /\ n \in Nat /\ Len(s) = m + n
      /\ \A i \in 1..(m + n) : s[i] = IF i <= m THEN first[i] ELSE second[i - m]
  OBVIOUS
<1>4. /\ p \in [0..m -> Contents] /\ p[0] = from /\ p[m] = middle
      /\ \A i \in 1..m : p[i] = Written(p[i - 1], first[i]) /\ p[i - 1][first[i].key] = first[i].previous
  BY <1>1 DEF IsPath
<1>5. /\ q \in [0..n -> Contents] /\ q[0] = middle /\ q[n] = to
      /\ \A i \in 1..n : q[i] = Written(q[i - 1], second[i]) /\ q[i - 1][second[i].key] = second[i].previous
  BY <1>2 DEF IsPath
<1>. HIDE DEF m, n, s
<1>6. \A i \in 0..(m + n) : i <= m => r[i] = p[i] /\ i \in 0..m
  BY <1>3
<1>7. \A i \in 0..(m + n) : ~(i <= m) => r[i] = q[i - m] /\ i - m \in 0..n
  BY <1>3
<1>8. r \in [0..(m + n) -> Contents]
  <2>1. \A i \in 0..(m + n) : r[i] \in Contents
    <3>. HIDE DEF r
    <3>. QED
      BY <1>4, <1>5, <1>6, <1>7
  <2>2. r = [i \in 0..(m + n) |-> r[i]]
    OBVIOUS
  <2>. HIDE DEF r
  <2>. QED
    BY <2>1, <2>2
<1>. HIDE DEF r
<1>9. r[0] = from
  BY <1>3, <1>4, <1>6
<1>10. r[m + n] = to
  <2>1. CASE n = 0
    BY <1>3, <1>4, <1>5, <1>6, <2>1
  <2>2. CASE n # 0
    <3>1. m + n \in 0..(m + n) /\ ~(m + n <= m) /\ (m + n) - m = n
      BY <1>3, <2>2
    <3>. QED
      BY <1>5, <1>7, <3>1
  <2>. QED
    BY <2>1, <2>2
<1>11. ASSUME NEW i \in 1..(m + n)
       PROVE  r[i] = Written(r[i - 1], s[i]) /\ r[i - 1][s[i].key] = s[i].previous
  <2>1. i \in 0..(m + n) /\ i - 1 \in 0..(m + n)
    BY <1>3
  <2>2. CASE i <= m
    <3>1. i \in 1..m /\ i - 1 <= m
      BY <1>3, <2>2
    <3>2. r[i] = p[i] /\ r[i - 1] = p[i - 1] /\ s[i] = first[i]
      BY <1>3, <1>6, <2>1, <2>2, <3>1
    <3>. QED
      BY <1>4, <3>1, <3>2
  <2>3. CASE ~(i <= m)
    <3>1. i - m \in 1..n /\ (i - 1) - m = (i - m) - 1
      BY <1>3, <2>3
    <3>2. r[i] = q[i - m] /\ s[i] = second[i - m]
      BY <1>3, <1>7, <2>1, <2>3
    <3>3. r[i - 1] = q[(i - m) - 1]
      <4>1. CASE i - 1 <= m
        <5>1. i - 1 = m /\ (i - m) - 1 = 0
          BY <1>3, <2>3, <4>1
        <5>. QED
          BY <1>4, <1>5, <1>6, <2>1, <4>1, <5>1
      <4>2. CASE ~(i - 1 <= m)
        BY <1>7, <2>1, <3>1, <4>2
      <4>. QED
        BY <4>1, <4>2
    <3>. QED
      BY <1>5, <3>1, <3>2, <3>3
  <2>. QED
    BY <2>2, <2>3
<1>12. IsPath(r, from, s, to)
  BY <1>3, <1>8, <1>9, <1>10, <1>11 DEF IsPath
<1>. QED
  BY <1>12 DEF Leads, s

-----------------------------------------------------------------------------
(* The longest window *)

\* A finite set of naturals has a greatest one.
LEMMA GreatestNumber ==
    ASSUME NEW S \in SUBSET Nat, IsFiniteSet(S), S # {}
    PROVE  \E x \in S : \A y \in S : y <= x
<1>1. PICK n \in Nat : ExistsBijection(1..n, S)
  BY FS_NatBijection
<1>2. PICK f : f \in [1..n -> S] /\ \A x \in S : \E i \in 1..n : f[i] = x
  BY <1>1 DEF ExistsBijection, Bijection, Surjection
<1>. DEFINE P == {i \in 0..n : \E m \in Nat : \A k \in 1..i : f[k] <= m}
<1>3. 0 \in P
  OBVIOUS
<1>4. ASSUME NEW i \in 1..n, i - 1 \in P PROVE i \in P
  <2>1. PICK m \in Nat : \A k \in 1..(i - 1) : f[k] <= m
    BY <1>4
  <2>2. f[i] \in Nat /\ \A k \in 1..n : f[k] \in Nat
    BY <1>2
  <2>. DEFINE h == IF f[i] <= m THEN m ELSE f[i]
  <2>3. h \in Nat /\ f[i] <= h /\ m <= h
    BY <2>2
  <2>. HIDE DEF h
  <2>4. \A k \in 1..i : k \in 1..n /\ (k = i \/ k \in 1..(i - 1))
    OBVIOUS
  <2>5. \A k \in 1..i : f[k] <= h
    BY <2>1, <2>2, <2>3, <2>4
  <2>. QED
    BY <2>3, <2>5
<1>5. n \in P
  <2>. HIDE DEF P
  <2>1. \A i \in 0..n : i \in P
    BY <1>3, <1>4, Induction
  <2>. QED
    BY <2>1
<1>6. PICK m \in Nat : \A x \in S : x <= m
  BY <1>2, <1>5
<1>. DEFINE T == {m - x : x \in S}
<1>7. T \in SUBSET Nat /\ T # {}
  <2>1. \A x \in S : x \in Nat /\ x <= m
    BY <1>6
  <2>2. \A x \in S : m - x \in Nat
    BY <2>1
  <2>. QED
    BY <2>2
<1>8. PICK d \in T : \A e \in T : d <= e
  <2>. HIDE DEF T
  <2>. QED
    BY <1>7, LeastNumber
<1>9. PICK x \in S : d = m - x
  BY <1>8
<1>10. \A y \in S : m - x <= m - y
  BY <1>8, <1>9
<1>11. \A y \in S : y \in Nat /\ x \in Nat
  OBVIOUS
<1>12. \A y \in S : y <= x
  BY <1>10, <1>11
<1>. QED
  BY <1>12

LEMMA LongestEndIs ==
    ASSUME NEW active \in SUBSET Ends, IsFiniteSet(active)
    PROVE  /\ LongestEnd(active) \in Limits
           /\ \A e \in active :
                 \/ LongestEnd(active) = Unlimited
                 \/ e # Unlimited /\ e \in Nat /\ LongestEnd(active) \in Nat /\ e <= LongestEnd(active)
<1>1. CASE Unlimited \in active
  BY <1>1 DEF LongestEnd, Limits
<1>2. CASE Unlimited \notin active
  <2>. DEFINE S == active \union {0}
  <2>1. LongestEnd(active) = Max(S)
    BY <1>2 DEF LongestEnd
  <2>2. S \in SUBSET Nat /\ S # {}
    BY <1>2, EndsAreLimits
  <2>3. IsFiniteSet(S)
    BY FS_AddElement
  <2>4. \A e \in active : e \in S /\ e # Unlimited
    BY <1>2
  <2>. HIDE DEF S
  <2>5. \E x \in S : \A y \in S : x >= y
    <3>1. PICK x \in S : \A y \in S : y <= x
      BY <2>2, <2>3, GreatestNumber
    <3>2. \A y \in S : x >= y
      BY <2>2, <3>1
    <3>. QED
      BY <3>2
  <2>6. Max(S) \in S /\ \A y \in S : Max(S) >= y
    BY <2>5 DEF Max
  <2>7. Max(S) \in Nat /\ \A y \in S : y \in Nat /\ y <= Max(S)
    BY <2>2, <2>6
  <2>. QED
    BY <2>1, <2>4, <2>7 DEF Limits
<1>. QED
  BY <1>1, <1>2

-----------------------------------------------------------------------------
(* The invariant *)

\* While there is a subscriber, the evaluation is exact for some earlier content,
\* from which the changes it has not seen lead to the committed rows; the
\* uncommitted ones lead on to the storage.
ExactForSeen ==
    Active # {} => \E seen \in Contents : Leads(seen, log, committed) /\ IsExact(evaluation, seen, base)

RInv ==
    /\ TypeOK
    /\ IsFiniteSet(Active)
    /\ Leads(committed, pending, rows)
    /\ ~behind => log = <<>>
    /\ Active # {} => base = LongestEnd(Active)
    /\ ExactForSeen

LEMMA InitRInv == Init => RInv
<1>. SUFFICES ASSUME Init PROVE RInv
  OBVIOUS
<1>1. rows \in Contents /\ committed = rows /\ pending = <<>> /\ log = <<>>
  BY DEF Init, Contents
<1>2. Active = {}
  BY DEF Init, Active
<1>3. TypeOK
  <2>1. evaluation \in [window : Seq(Row), totalRows : Int, filled : BOOLEAN]
    BY DEF Init, NoEvaluation
  <2>2. windows \in [Ends -> Nat]
    BY DEF Init
  <2>3. pending \in Seq(Change) /\ log \in Seq(Change)
    BY <1>1
  <2>4. behind \in BOOLEAN /\ known \in BOOLEAN /\ base \in Nat \union {Unlimited}
    BY DEF Init
  <2>. QED
    BY <1>1, <2>1, <2>2, <2>3, <2>4 DEF TypeOK
<1>4. IsFiniteSet(Active)
  BY <1>2, FS_EmptySet
<1>5. Leads(committed, pending, rows)
  BY <1>1, LeadsByNothing
<1>. QED
  BY <1>1, <1>2, <1>3, <1>4, <1>5 DEF RInv, ExactForSeen

LEMMA WriteRInv ==
    ASSUME RInv, NEW key \in Keys, NEW field \in Fields \union {Absent}, Write(key, field)
    PROVE  RInv'
<1>. DEFINE change == [key |-> key, previous |-> rows[key], next |-> field]
<1>1. /\ rows \in Contents /\ pending \in Seq(Change) /\ Leads(committed, pending, rows)
      /\ rows[key] \in Fields \union {Absent}
  BY DEF RInv, TypeOK, Contents
<1>2. change \in Change /\ rows[change.key] = change.previous /\ change.key = key /\ change.next = field
  BY <1>1 DEF Change
<1>3. rows' = Written(rows, change) /\ pending' = Append(pending, change)
  BY DEF Write, Written
<1>4. UNCHANGED <<committed, log, behind, known, windows, base, evaluation>>
  BY DEF Write
<1>. HIDE DEF change
<1>5. Leads(committed, pending', rows')
  BY <1>1, <1>2, <1>3, LeadsAppend
<1>6. rows' \in Contents /\ pending' \in Seq(Change)
  BY <1>1, <1>2, <1>3, WrittenRows, AppendProperties
<1>7. TypeOK'
  BY <1>4, <1>6 DEF RInv, TypeOK
<1>8. Active' = Active
  BY <1>4 DEF Active
<1>9. ExactForSeen'
  BY <1>4, <1>8 DEF RInv, ExactForSeen
<1>. QED
  BY <1>4, <1>5, <1>7, <1>8, <1>9 DEF RInv

LEMMA CommitRInv ==
    ASSUME RInv, Commit
    PROVE  RInv'
<1>1. /\ committed' = rows /\ pending' = <<>> /\ UNCHANGED <<rows, windows, base, evaluation>>
      /\ Active = {} => UNCHANGED <<log, behind, known>>
      /\ Active # {} => behind' = TRUE /\ known' \in {known, FALSE} /\ log' = log \o pending
  BY DEF Commit
<1>2. /\ rows \in Contents /\ pending \in Seq(Change) /\ log \in Seq(Change)
      /\ Leads(committed, pending, rows) /\ known \in BOOLEAN
  BY DEF RInv, TypeOK
<1>3. Active' = Active
  BY <1>1 DEF Active
<1>4. log' \in Seq(Change)
  BY <1>1, <1>2, ConcatProperties
<1>5. TypeOK'
  <2>1. behind' \in BOOLEAN /\ known' \in BOOLEAN
    BY <1>1 DEF RInv, TypeOK
  <2>2. /\ windows' \in [Ends -> Nat] /\ base' \in Nat \union {Unlimited}
        /\ evaluation' \in [window : Seq(Row), totalRows : Int, filled : BOOLEAN]
    BY <1>1 DEF RInv, TypeOK
  <2>3. rows' \in Contents /\ committed' \in Contents /\ pending' \in Seq(Change)
    BY <1>1, <1>2
  <2>. QED
    BY <1>4, <2>1, <2>2, <2>3 DEF TypeOK
<1>6. Leads(committed', pending', rows')
  BY <1>1, <1>2, LeadsByNothing
<1>7. ExactForSeen'
  <2>. SUFFICES ASSUME Active # {}
                PROVE  \E seen \in Contents : Leads(seen, log', committed') /\ IsExact(evaluation', seen, base')
    BY <1>3 DEF ExactForSeen
  <2>1. PICK seen \in Contents : Leads(seen, log, committed) /\ IsExact(evaluation, seen, base)
    BY DEF RInv, ExactForSeen
  <2>2. Leads(seen, log \o pending, rows)
    BY <1>2, <2>1, LeadsConcat
  <2>. QED
    BY <1>1, <2>1, <2>2
<1>8. ~behind' => log' = <<>>
  <2>1. ~behind => log = <<>>
    BY DEF RInv
  <2>2. CASE Active = {}
    BY <1>1, <2>1, <2>2
  <2>3. CASE Active # {}
    BY <1>1, <2>3
  <2>. QED
    BY <2>2, <2>3
<1>9. IsFiniteSet(Active') /\ (Active' # {} => base' = LongestEnd(Active'))
  BY <1>1, <1>3 DEF RInv
<1>. QED
  BY <1>5, <1>6, <1>7, <1>8, <1>9 DEF RInv

\* After latest() the evaluation is exact for the committed rows, if no mutation
\* is under way.
LEMMA LatestIsExact ==
    ASSUME RInv, Active # {}, pending = <<>>, NEW active \in SUBSET Ends, IsFiniteSet(active),
           Latest(active)
    PROVE  /\ base' = LongestEnd(active) /\ base' \in Limits
           /\ behind' = FALSE /\ known' = TRUE /\ log' = <<>>
           /\ IsExact(evaluation', committed, base')
<1>1. /\ base' = LongestEnd(active) /\ behind' = FALSE /\ known' = TRUE /\ log' = <<>>
      /\ evaluation' = IF base' # base \/ (behind /\ ~known) THEN Scan(RetainedLimit(base'))
                       ELSE IF behind THEN Updated(base) ELSE evaluation
  BY DEF Latest
<1>2. base' \in Limits
  BY <1>1, LongestEndIs
<1>3. /\ rows \in Contents /\ log \in Seq(Change) /\ rows = committed /\ base \in Limits
  BY LeadsNowhere DEF RInv, TypeOK, Limits
<1>4. PICK seen \in Contents : Leads(seen, log, committed) /\ IsExact(evaluation, seen, base)
  BY DEF RInv, ExactForSeen
<1>5. CASE base' # base \/ (behind /\ ~known)
  BY <1>1, <1>2, <1>3, <1>5, ScanIsExact
<1>6. CASE base' = base /\ behind /\ known
  <2>1. IsExact(Updated(base), rows, base)
    BY <1>3, <1>4, UpdatedIsExact
  <2>. QED
    BY <1>1, <1>2, <1>3, <1>6, <2>1
<1>7. CASE base' = base /\ ~behind
  <2>1. log = <<>>
    BY <1>7 DEF RInv
  <2>2. seen = committed
    BY <1>4, <2>1, LeadsNowhere
  <2>. QED
    BY <1>1, <1>2, <1>4, <1>7, <2>2
<1>. QED
  BY <1>1, <1>2, <1>5, <1>6, <1>7

\* An exact evaluation with nothing unseen keeps the invariant.
LEMMA ExactRInv ==
    ASSUME RInv, pending = <<>>, UNCHANGED <<rows, pending, committed>>,
           windows' \in [Ends -> Nat], IsFiniteSet(Active'),
           base' \in Limits, behind' = FALSE, known' \in BOOLEAN, log' = <<>>, evaluation' \in Evaluations,
           Active' # {} => base' = LongestEnd(Active') /\ IsExact(evaluation', committed, base')
    PROVE  RInv'
<1>1. TypeOK'
  BY DEF RInv, TypeOK, Limits, Evaluations
<1>2. ExactForSeen'
  <2>1. committed \in Contents
    BY DEF RInv, TypeOK
  <2>2. Leads(committed, <<>>, committed)
    BY <2>1, LeadsByNothing
  <2>. QED
    BY <2>1, <2>2 DEF ExactForSeen
<1>3. Leads(committed', pending', rows')
  BY DEF RInv
<1>. QED
  BY <1>1, <1>2, <1>3 DEF RInv

LEMMA AcquireRInv ==
    ASSUME RInv, NEW end \in Ends, Acquire(end)
    PROVE  RInv'
<1>1. /\ pending = <<>> /\ UNCHANGED <<rows, pending, committed>>
      /\ windows' = [windows EXCEPT ![end] = windows[end] + 1]
      /\ windows \in [Ends -> Nat]
  BY DEF Acquire, RInv, TypeOK
<1>2. windows' \in [Ends -> Nat] /\ \A e \in Ends : windows'[e] = IF e = end THEN windows[e] + 1 ELSE windows[e]
  BY <1>1
<1>3. Active' = Active \union {end}
  <2>1. \A e \in Ends : windows[e] \in Nat
    BY <1>1
  <2>2. \A e \in Ends : windows'[e] > 0 <=> windows[e] > 0 \/ e = end
    BY <1>2, <2>1
  <2>. QED
    BY <2>2 DEF Active
<1>4. IsFiniteSet(Active') /\ Active' # {} /\ Active' \in SUBSET Ends
  <2>1. IsFiniteSet(Active)
    BY DEF RInv
  <2>2. IsFiniteSet(Active \union {end})
    BY <2>1, FS_AddElement
  <2>. QED
    BY <1>3, <2>2 DEF Active
<1>5. /\ base' = LongestEnd(Active') /\ base' \in Limits
      /\ behind' = FALSE /\ known' = TRUE /\ log' = <<>>
      /\ IsExact(evaluation', committed, base')
  <2>1. CASE Active = {}
    <3>1. /\ base' = LongestEnd({end}) /\ evaluation' = Scan(RetainedLimit(base'))
          /\ behind' = FALSE /\ known' = TRUE /\ log' = <<>>
      BY <2>1 DEF Acquire
    <3>2. base' = LongestEnd(Active')
      BY <1>3, <2>1, <3>1
    <3>3. base' \in Limits
      BY <1>4, <3>2, LongestEndIs
    <3>4. rows \in Contents /\ committed = rows
      BY <1>1, LeadsNowhere DEF RInv, TypeOK
    <3>. QED
      BY <3>1, <3>2, <3>3, <3>4, ScanIsExact
  <2>2. CASE Active # {}
    <3>1. Latest(Active')
      BY <1>3, <2>2 DEF Acquire
    <3>. QED
      BY <1>1, <1>4, <2>2, <3>1, LatestIsExact
  <2>. QED
    BY <2>1, <2>2
<1>6. evaluation' \in Evaluations
  BY <1>5 DEF IsExact
<1>. QED
  BY <1>1, <1>2, <1>4, <1>5, <1>6, ExactRInv

LEMMA ReleaseRInv ==
    ASSUME RInv, NEW end \in Ends, Release(end)
    PROVE  RInv'
<1>1. /\ pending = <<>> /\ UNCHANGED <<rows, pending, committed>>
      /\ windows' = [windows EXCEPT ![end] = windows[end] - 1]
      /\ windows \in [Ends -> Nat] /\ windows[end] > 0
  BY DEF Release, RInv, TypeOK
<1>2. windows' \in [Ends -> Nat] /\ \A e \in Ends : windows'[e] = IF e = end THEN windows[e] - 1 ELSE windows[e]
  BY <1>1
<1>3. Active' \in SUBSET Active /\ Active' \in SUBSET Ends /\ Active # {}
  <2>1. \A e \in Ends : windows[e] \in Nat
    BY <1>1
  <2>2. \A e \in Ends : windows'[e] > 0 => windows[e] > 0
    BY <1>1, <1>2, <2>1
  <2>. QED
    BY <1>1, <2>2 DEF Active
<1>4. IsFiniteSet(Active')
  BY <1>3, FS_Subset DEF RInv
<1>5. Active' = {e \in Ends : windows'[e] > 0}
  BY DEF Active
<1>6. CASE Active' # {}
  <2>1. Latest(Active')
    BY <1>5, <1>6 DEF Release
  <2>2. /\ base' = LongestEnd(Active') /\ base' \in Limits
        /\ behind' = FALSE /\ known' = TRUE /\ log' = <<>>
        /\ IsExact(evaluation', committed, base')
    BY <1>1, <1>3, <1>4, <2>1, LatestIsExact
  <2>3. evaluation' \in Evaluations
    BY <2>2 DEF IsExact
  <2>. QED
    BY <1>1, <1>2, <1>4, <2>2, <2>3, ExactRInv
<1>7. CASE Active' = {}
  <2>1. base' = 0 /\ evaluation' = NoEvaluation /\ behind' = FALSE /\ known' = FALSE /\ log' = <<>>
    BY <1>5, <1>7 DEF Release
  <2>2. evaluation' \in Evaluations
    BY <2>1 DEF NoEvaluation, Evaluations
  <2>3. base' \in Limits
    BY <2>1 DEF Limits
  <2>. QED
    BY <1>1, <1>2, <1>4, <1>7, <2>1, <2>2, <2>3, ExactRInv
<1>. QED
  BY <1>6, <1>7

LEMMA NotifyRInv ==
    ASSUME RInv, Preemptible = FALSE, Notify
    PROVE  RInv'
<1>1. /\ pending = <<>> /\ UNCHANGED <<rows, pending, committed, windows>> /\ Active # {} /\ Latest(Active)
  BY DEF Notify
<1>2. Active' = Active /\ Active \in SUBSET Ends /\ IsFiniteSet(Active) /\ windows' \in [Ends -> Nat]
  BY <1>1 DEF Active, RInv, TypeOK
<1>3. /\ base' = LongestEnd(Active) /\ base' \in Limits
      /\ behind' = FALSE /\ known' = TRUE /\ log' = <<>>
      /\ IsExact(evaluation', committed, base')
  BY <1>1, <1>2, LatestIsExact
<1>4. evaluation' \in Evaluations
  BY <1>3 DEF IsExact
<1>. QED
  BY <1>1, <1>2, <1>3, <1>4, ExactRInv

LEMMA StepRInv ==
    ASSUME Preemptible = FALSE, RInv, [Next]_vars
    PROVE  RInv'
<1>1. CASE UNCHANGED vars
  <2>1. Active' = Active
    BY <1>1 DEF vars, Active
  <2>2. ExactForSeen'
    BY <1>1, <2>1 DEF vars, RInv, ExactForSeen
  <2>3. TypeOK'
    BY <1>1 DEF vars, RInv, TypeOK
  <2>. QED
    BY <1>1, <2>1, <2>2, <2>3 DEF vars, RInv
<1>2. CASE Next
  BY <1>2, WriteRInv, CommitRInv, AcquireRInv, ReleaseRInv, NotifyRInv DEF Next
<1>. QED
  BY <1>1, <1>2

THEOREM ExecutionInvariant ==
    ASSUME Preemptible = FALSE
    PROVE  Spec => []RInv
BY InitRInv, StepRInv, PTL DEF Spec

\* When every commit has been told, the evaluation is exact for the committed rows.
LEMMA SettledIsExact ==
    ASSUME RInv, Settled
    PROVE  /\ base = LongestEnd(Active) /\ Active \in SUBSET Ends /\ IsFiniteSet(Active)
           /\ IsExact(evaluation, committed, base)
<1>1. log = <<>> /\ Active # {}
  BY DEF Settled, RInv
<1>2. PICK seen \in Contents : Leads(seen, log, committed) /\ IsExact(evaluation, seen, base)
  BY <1>1 DEF RInv, ExactForSeen
<1>3. seen = committed
  BY <1>1, <1>2, LeadsNowhere
<1>. QED
  BY <1>1, <1>2, <1>3 DEF RInv, Active

\* The window of an exact evaluation is a prefix of the result.
LEMMA ExactIsPrefix ==
    ASSUME NEW e, NEW content, NEW b, IsExact(e, content, b)
    PROVE  LET w == e.window
               all == Result(content)
           IN  /\ w \in Seq(Row) /\ all \in Seq(Row) /\ Len(w) \in Nat /\ Len(all) \in Nat
               /\ Len(w) <= Len(all) /\ e.totalRows = Len(all)
               /\ \A i \in 1..Len(w) : w[i] = all[i]
<1>1. IsListing(e.window, RowsIn(e.window)) /\ Begins(RowsIn(e.window), EntriesOf(content)) /\ e.totalRows = Total(content)
  BY DEF IsExact
<1>2. IsListing(Result(content), EntriesOf(content)) /\ Len(Result(content)) = Total(content)
  BY ResultLists
<1>3. /\ Len(e.window) <= Len(Result(content))
      /\ \A i \in 1..Len(e.window) : e.window[i] = Result(content)[i]
  BY <1>1, <1>2, ListingOfBeginning
<1>. QED
  BY <1>1, <1>2, <1>3, ListingLength DEF IsListing

\* Once every commit has been told, every subscriber's window and total are those of
\* a query of the committed rows, as long as no notification meets an uncommitted
\* mutation (latest, updateBaseEvaluationFromRetainedChanges, projectWindowEvaluation).
THEOREM LeasesAreServed ==
    ASSUME Preemptible = FALSE
    PROVE  Spec => []LeasesSeeTheResult
<1>1. RInv => LeasesSeeTheResult
  <2>. SUFFICES ASSUME RInv, Settled
                PROVE  /\ evaluation.totalRows = Len(Result(committed))
                       /\ \A end \in Active : Truncated(evaluation.window, end) = Truncated(Result(committed), end)
    BY DEF LeasesSeeTheResult
  <2>. DEFINE w == evaluation.window
              all == Result(committed)
  <2>1. /\ base = LongestEnd(Active) /\ Active \in SUBSET Ends /\ IsFiniteSet(Active)
        /\ IsExact(evaluation, committed, base)
    BY SettledIsExact
  <2>2. /\ w \in Seq(Row) /\ all \in Seq(Row) /\ Len(w) \in Nat /\ Len(all) \in Nat
        /\ Len(w) <= Len(all) /\ evaluation.totalRows = Len(all)
        /\ \A i \in 1..Len(w) : w[i] = all[i]
    BY <2>1, ExactIsPrefix
  <2>3. Len(w) = Len(all) \/ (base # Unlimited /\ Len(w) >= base)
    BY <2>1, <2>2 DEF IsExact, Suffices
  <2>. HIDE DEF w, all
  <2>4. Len(w) = Len(all) => w = all
    BY <2>2
  <2>5. ASSUME NEW end \in Active PROVE Truncated(w, end) = Truncated(all, end)
    <3>1. CASE Len(w) = Len(all)
      BY <2>4, <3>1
    <3>2. CASE base # Unlimited /\ Len(w) >= base /\ Len(w) # Len(all)
      <4>1. end # Unlimited /\ end \in Nat /\ base \in Nat /\ end <= base
        BY <2>1, <3>2, LongestEndIs
      <4>2. end <= Len(w) /\ end <= Len(all) /\ end < Len(all)
        BY <2>2, <3>2, <4>1
      <4>3. SubSeq(w, 1, end) = SubSeq(all, 1, end)
        BY <2>2, <4>1, <4>2
      <4>4. Truncated(all, end) = SubSeq(all, 1, end)
        BY <2>2, <4>1, <4>2 DEF Truncated
      <4>5. Truncated(w, end) = SubSeq(w, 1, end)
        <5>1. CASE Len(w) = end
          <6>1. w = SubSeq(w, 1, Len(w))
            BY <2>2
          <6>. QED
            BY <4>1, <5>1, <6>1 DEF Truncated
        <5>2. CASE Len(w) # end
          BY <2>2, <4>1, <4>2, <5>2 DEF Truncated
        <5>. QED
          BY <5>1, <5>2
      <4>. QED
        BY <4>3, <4>4, <4>5
    <3>. QED
      BY <2>3, <3>1, <3>2
  <2>. QED
    BY <2>2, <2>5 DEF w, all
<1>. QED
  BY <1>1, ExecutionInvariant, PTL

\* Then what is retained beyond the windows continues the result as well
\* (retainedWindowLookahead, retainedLimitAfterInsertedChanges).
THEOREM RetainedContinuesTheResult ==
    ASSUME Preemptible = FALSE
    PROVE  Spec => []RetainedIsPrefix
<1>1. RInv => RetainedIsPrefix
  <2>. SUFFICES ASSUME RInv, Settled PROVE IsPrefix(evaluation.window, Result(committed))
    BY DEF RetainedIsPrefix
  <2>. DEFINE w == evaluation.window
              all == Result(committed)
  <2>1. IsExact(evaluation, committed, base)
    BY SettledIsExact
  <2>2. /\ w \in Seq(Row) /\ all \in Seq(Row) /\ Len(w) \in Nat /\ Len(all) \in Nat
        /\ Len(w) <= Len(all)
        /\ \A i \in 1..Len(w) : w[i] = all[i]
    BY <2>1, ExactIsPrefix
  <2>. HIDE DEF w, all
  <2>3. SubSeq(w, 1, Len(w)) = SubSeq(all, 1, Len(w))
    BY <2>2
  <2>. QED
    BY <2>2, <2>3 DEF IsPrefix, w, all
<1>. QED
  BY <1>1, ExecutionInvariant, PTL

=============================================================================
