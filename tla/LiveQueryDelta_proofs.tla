----------------------- MODULE LiveQueryDelta_proofs ------------------------
(***************************************************************************)
(* What deltaOperations returns leads from the one window to the other     *)
(* (DeltaLeads), whichever strategy made it; and what the client makes of  *)
(* any operations in place: an exact index, a range that has every row     *)
(* touched (AppliedIs), and a way back (RolledBackIs).  Together: deltas   *)
(* apply (DeltasApply), and what is refused leaves no trace                *)
(* (RefusedBatchIsUndone).                                                 *)
(***************************************************************************)
EXTENDS LiveQueryState, SequenceTheorems, WellFoundedInduction, FiniteSetTheorems,
        TLAPS

-----------------------------------------------------------------------------
(* Induction, from the well-foundedness of the naturals *)

\* A set of numbers that is not empty has a least one.
LEMMA LeastNumber ==
  ASSUME NEW T \in SUBSET Nat, T # {}
  PROVE \E x \in T : \A y \in T : x <= y
<1>. DEFINE R == {ss \in Nat \X Nat : ss[1] < ss[2]}
<1>1. R = OpToRel(<,Nat)
  BY DEF OpToRel
<1>2. IsWellFoundedOn(R, Nat)
  BY <1>1, NatLessThanWellFounded
<1>3. \A x, y \in Nat : y < x => <<y, x>> \in R
  OBVIOUS
<1>. HIDE DEF R
<1>4. \E x \in T : \A y \in T : ~ (<<y, x>> \in R)
  BY <1>2, WFMin
<1>5. PICK x \in T : \A y \in T : ~ (<<y, x>> \in R)
  BY <1>4
<1>6. \A y \in T : ~(y < x)
  BY <1>3, <1>5
<1>7. \A y \in T : x <= y
  BY <1>6
<1>. QED
  BY <1>7

\* Induction from 0 to n.
LEMMA Induction ==
  ASSUME NEW n \in Nat, NEW P, 0 \in P, \A i \in 1..n : i - 1 \in P => i \in P
  PROVE  \A i \in 0..n : i \in P
<1>. DEFINE T == {i \in 0..n : i \notin P}
<1>. SUFFICES ASSUME T # {} PROVE FALSE
  OBVIOUS
<1>0. T \in SUBSET Nat
  OBVIOUS
<1>1. PICK x \in T : \A y \in T : x <= y
  <2>. HIDE DEF T
  <2>. QED BY <1>0, LeastNumber
<1>2. x \in 1..n /\ x - 1 \in 0..n
  BY <1>1
<1>3. x - 1 \in P
  BY <1>1, <1>2
<1>. QED
  BY <1>1, <1>2, <1>3

-----------------------------------------------------------------------------
(* Sequences, element by element *)

\* s with e at position i.
IsInserted(n, S, s, i, e) ==
    /\ n \in Seq(S)
    /\ Len(n) = Len(s) + 1
    /\ \A j \in 1..(Len(s) + 1) :
            n[j] = IF j < i THEN s[j] ELSE IF j = i THEN e ELSE s[j - 1]

\* InsertAt (splice(i, 0, e)) does that.
LEMMA InsertAtIs ==
  ASSUME NEW S, NEW s \in Seq(S), NEW i \in 1..(Len(s) + 1), NEW e \in S
  PROVE  IsInserted(InsertAt(s, i, e), S, s, i, e)
<1>. DEFINE a == SubSeq(s, 1, i - 1)
            b == SubSeq(s, i, Len(s))
            c == a \o <<e>>
            n == c \o b
<1>0. Len(s) \in Nat /\ \A j \in 1..Len(s) : s[j] \in S
  BY LenProperties, ElementOfSeq
<1>1. a \in Seq(S) /\ Len(a) = i - 1 /\ \A j \in 1..(i - 1) : a[j] = s[j]
  <2>1. \A j \in 1..(i - 1) : s[j] \in S
    BY <1>0
  <2>. QED
    BY <1>0, <2>1, SubSeqProperties
<1>2. b \in Seq(S) /\ Len(b) = Len(s) - i + 1 /\ \A j \in 1..(Len(s) - i + 1) : b[j] = s[i + j - 1]
  <2>1. \A j \in i..Len(s) : s[j] \in S
    BY <1>0
  <2>. QED
    BY <1>0, <2>1, SubSeqProperties
<1>3. <<e>> \in Seq(S) /\ Len(<<e>>) = 1 /\ <<e>>[1] = e
  OBVIOUS
<1>. HIDE DEF a, b
<1>4. /\ c \in Seq(S) /\ Len(c) = i
      /\ \A j \in 1..i : c[j] = IF j < i THEN s[j] ELSE e
  <2>1. /\ c \in Seq(S) /\ Len(c) = Len(a) + Len(<<e>>)
        /\ \A j \in 1..(Len(a) + Len(<<e>>)) :
              c[j] = IF j <= Len(a) THEN a[j] ELSE <<e>>[j - Len(a)]
    BY <1>1, <1>3, ConcatProperties
  <2>. HIDE DEF c
  <2>. QED
    BY <1>0, <1>1, <1>3, <2>1
<1>. HIDE DEF c
<1>5. /\ n \in Seq(S) /\ Len(n) = Len(c) + Len(b)
      /\ \A j \in 1..(Len(c) + Len(b)) : n[j] = IF j <= Len(c) THEN c[j] ELSE b[j - Len(c)]
  BY <1>2, <1>4, ConcatProperties
<1>6. InsertAt(s, i, e) = n
  BY DEF InsertAt, a, b, c, n
<1>. HIDE DEF n
<1>7. Len(c) + Len(b) = Len(s) + 1
  BY <1>0, <1>2, <1>4
<1>8. ASSUME NEW j \in 1..(Len(s) + 1)
      PROVE  n[j] = IF j < i THEN s[j] ELSE IF j = i THEN e ELSE s[j - 1]
  <2>1. CASE j <= i
    BY <1>0, <1>4, <1>5, <1>7, <2>1
  <2>2. CASE j > i
    <3>1. n[j] = b[j - i]
      BY <1>0, <1>4, <1>5, <1>7, <2>2
    <3>2. j - i \in 1..(Len(s) - i + 1) /\ i + (j - i) - 1 = j - 1
      BY <1>0, <2>2
    <3>3. b[j - i] = s[j - 1]
      BY <1>2, <3>2
    <3>. QED
      BY <1>0, <2>2, <3>1, <3>3
  <2>. QED
    BY <1>0, <2>1, <2>2
<1>. QED
  BY <1>5, <1>6, <1>7, <1>8 DEF IsInserted

\* s without its i-th element.
IsRemoved(n, S, s, i) ==
    /\ n \in Seq(S)
    /\ Len(n) = Len(s) - 1
    /\ \A j \in 1..(Len(s) - 1) : n[j] = IF j < i THEN s[j] ELSE s[j + 1]

\* RemoveAt (splice(i, 1)) does that.
LEMMA RemoveAtIs ==
  ASSUME NEW S, NEW s \in Seq(S), NEW i \in 1..Len(s)
  PROVE  IsRemoved(RemoveAt(s, i), S, s, i)
<1>. DEFINE a == SubSeq(s, 1, i - 1)
            b == SubSeq(s, i + 1, Len(s))
            n == a \o b
<1>0. Len(s) \in Nat /\ \A j \in 1..Len(s) : s[j] \in S
  BY LenProperties, ElementOfSeq
<1>1. a \in Seq(S) /\ Len(a) = i - 1 /\ \A j \in 1..(i - 1) : a[j] = s[j]
  <2>1. \A j \in 1..(i - 1) : s[j] \in S
    BY <1>0
  <2>. QED
    BY <1>0, <2>1, SubSeqProperties
<1>2. b \in Seq(S) /\ Len(b) = Len(s) - i /\ \A j \in 1..(Len(s) - i) : b[j] = s[i + j]
  <2>1. \A j \in (i + 1)..Len(s) : s[j] \in S
    BY <1>0
  <2>2. /\ b \in Seq(S)
        /\ Len(b) = IF i + 1 <= Len(s) THEN Len(s) - (i + 1) + 1 ELSE 0
        /\ \A j \in 1..(Len(s) - (i + 1) + 1) : b[j] = s[(i + 1) + j - 1]
    BY <1>0, <2>1, SubSeqProperties
  <2>3. \A j \in 1..(Len(s) - i) : (i + 1) + j - 1 = i + j
    BY <1>0
  <2>. HIDE DEF b
  <2>. QED
    BY <1>0, <2>2, <2>3
<1>. HIDE DEF a, b
<1>5. /\ n \in Seq(S) /\ Len(n) = Len(a) + Len(b)
      /\ \A j \in 1..(Len(a) + Len(b)) : n[j] = IF j <= Len(a) THEN a[j] ELSE b[j - Len(a)]
  BY <1>1, <1>2, ConcatProperties
<1>6. RemoveAt(s, i) = n
  BY DEF RemoveAt, a, b, n
<1>. HIDE DEF n
<1>7. Len(a) + Len(b) = Len(s) - 1
  BY <1>0, <1>1, <1>2
<1>8. ASSUME NEW j \in 1..(Len(s) - 1)
      PROVE  n[j] = IF j < i THEN s[j] ELSE s[j + 1]
  <2>1. CASE j < i
    BY <1>0, <1>1, <1>5, <1>7, <2>1
  <2>2. CASE j >= i
    <3>1. n[j] = b[j - (i - 1)]
      BY <1>0, <1>1, <1>5, <1>7, <2>2
    <3>2. j - (i - 1) \in 1..(Len(s) - i) /\ i + (j - (i - 1)) = j + 1
      BY <1>0, <2>2
    <3>3. b[j - (i - 1)] = s[j + 1]
      BY <1>2, <3>2
    <3>. QED
      BY <1>0, <2>2, <3>1, <3>3
  <2>. QED
    BY <1>0, <2>1, <2>2
<1>. QED
  BY <1>5, <1>6, <1>7, <1>8 DEF IsRemoved

\* The position a moved element comes from.
Origin(from, to, j) ==
    IF j = to THEN from
    ELSE IF from <= j /\ j < to THEN j + 1
    ELSE IF to < j /\ j <= from THEN j - 1
    ELSE j

\* s with its from-th element at to, and those between one further.
IsMoved(n, S, s, from, to) ==
    /\ n \in Seq(S)
    /\ Len(n) = Len(s)
    /\ \A j \in 1..Len(s) :
            Origin(from, to, j) \in 1..Len(s) /\ n[j] = s[Origin(from, to, j)]

\* The two splices of a move do that.
LEMMA MovedIs ==
  ASSUME NEW S, NEW s \in Seq(S), NEW from \in 1..Len(s), NEW to \in 1..Len(s)
  PROVE  IsMoved(Moved(s, from, to), S, s, from, to)
<1>. DEFINE r == RemoveAt(s, from)
<1>0. Len(s) \in Nat /\ s[from] \in S
  BY LenProperties, ElementOfSeq
<1>6. IsRemoved(r, S, s, from)
  BY RemoveAtIs
<1>1. /\ r \in Seq(S) /\ Len(r) = Len(s) - 1
      /\ \A j \in 1..(Len(s) - 1) : r[j] = IF j < from THEN s[j] ELSE s[j + 1]
  BY <1>6 DEF IsRemoved
<1>. HIDE DEF r
<1>2. to \in 1..(Len(r) + 1) /\ Len(r) + 1 = Len(s)
  BY <1>0, <1>1
<1>7. IsInserted(InsertAt(r, to, s[from]), S, r, to, s[from])
  BY <1>0, <1>1, <1>2, InsertAtIs
<1>3. /\ InsertAt(r, to, s[from]) \in Seq(S)
      /\ Len(InsertAt(r, to, s[from])) = Len(r) + 1
      /\ \A j \in 1..(Len(r) + 1) :
            InsertAt(r, to, s[from])[j] =
                IF j < to THEN r[j] ELSE IF j = to THEN s[from] ELSE r[j - 1]
  BY <1>7 DEF IsInserted
<1>4. Moved(s, from, to) = InsertAt(r, to, s[from])
  BY DEF Moved, r
<1>5. ASSUME NEW j \in 1..Len(s)
      PROVE  /\ Origin(from, to, j) \in 1..Len(s)
             /\ InsertAt(r, to, s[from])[j] = s[Origin(from, to, j)]
  <2>1. CASE j < to
    <3>1. InsertAt(r, to, s[from])[j] = r[j]
      BY <1>0, <1>2, <1>3, <2>1
    <3>2. j \in 1..(Len(s) - 1)
      BY <1>0, <2>1
    <3>3. r[j] = IF j < from THEN s[j] ELSE s[j + 1]
      BY <1>1, <3>2
    <3>. QED
      BY <1>0, <2>1, <3>1, <3>2, <3>3 DEF Origin
  <2>2. CASE j = to
    BY <1>0, <1>2, <1>3, <2>2 DEF Origin
  <2>3. CASE j > to
    <3>1. InsertAt(r, to, s[from])[j] = r[j - 1]
      BY <1>0, <1>2, <1>3, <2>3
    <3>2. j - 1 \in 1..(Len(s) - 1)
      BY <1>0, <2>3
    <3>3. r[j - 1] = IF j - 1 < from THEN s[j - 1] ELSE s[(j - 1) + 1]
      BY <1>1, <3>2
    <3>4. (j - 1) + 1 = j
      BY <1>0
    <3>. QED
      BY <1>0, <2>3, <3>1, <3>2, <3>3, <3>4 DEF Origin
  <2>. QED
    BY <1>0, <2>1, <2>2, <2>3
<1>. QED
  BY <1>2, <1>3, <1>4, <1>5 DEF IsMoved

\* A move and back again.
LEMMA MovedBack ==
  ASSUME NEW S, NEW s \in Seq(S), NEW from \in 1..Len(s), NEW to \in 1..Len(s)
  PROVE  Moved(Moved(s, from, to), to, from) = s
<1>. DEFINE m == Moved(s, from, to)
            b == Moved(m, to, from)
<1>7. IsMoved(m, S, s, from, to)
  BY MovedIs
<1>1. /\ m \in Seq(S) /\ Len(m) = Len(s)
      /\ \A j \in 1..Len(s) : Origin(from, to, j) \in 1..Len(s) /\ m[j] = s[Origin(from, to, j)]
  BY <1>7 DEF IsMoved
<1>. HIDE DEF m
<1>8. IsMoved(b, S, m, to, from)
  BY <1>1, MovedIs
<1>2. /\ b \in Seq(S) /\ Len(b) = Len(s)
      /\ \A j \in 1..Len(s) : Origin(to, from, j) \in 1..Len(s) /\ b[j] = m[Origin(to, from, j)]
  BY <1>1, <1>8 DEF IsMoved
<1>. HIDE DEF b
<1>3. Len(s) \in Nat
  BY LenProperties
<1>4. \A j \in 1..Len(s) : Origin(from, to, Origin(to, from, j)) = j
  BY <1>3 DEF Origin
<1>5. \A j \in 1..Len(s) : b[j] = s[j]
  BY <1>1, <1>2, <1>4
<1>6. b = s
  BY <1>2, <1>5, SeqEqual
<1>. QED
  BY <1>6 DEF b, m

\* A row inserted and removed again leaves what was there.
LEMMA InsertedRemoved ==
  ASSUME NEW S, NEW s \in Seq(S), NEW i \in 1..(Len(s) + 1), NEW e \in S
  PROVE  RemoveAt(InsertAt(s, i, e), i) = s
<1>. DEFINE n == InsertAt(s, i, e)
            b == RemoveAt(n, i)
<1>0. Len(s) \in Nat
  BY LenProperties
<1>6. IsInserted(n, S, s, i, e)
  BY InsertAtIs
<1>1. /\ n \in Seq(S) /\ Len(n) = Len(s) + 1
      /\ \A j \in 1..(Len(s) + 1) : n[j] = IF j < i THEN s[j] ELSE IF j = i THEN e ELSE s[j - 1]
  BY <1>6 DEF IsInserted
<1>. HIDE DEF n
<1>2. i \in 1..Len(n) /\ Len(n) - 1 = Len(s)
  BY <1>0, <1>1
<1>7. IsRemoved(b, S, n, i)
  BY <1>1, <1>2, RemoveAtIs
<1>3. /\ b \in Seq(S) /\ Len(b) = Len(n) - 1
      /\ \A j \in 1..(Len(n) - 1) : b[j] = IF j < i THEN n[j] ELSE n[j + 1]
  BY <1>7 DEF IsRemoved
<1>. HIDE DEF b
<1>4. ASSUME NEW j \in 1..Len(s)
      PROVE  b[j] = s[j]
  <2>1. j \in 1..(Len(s) + 1) /\ j + 1 \in 1..(Len(s) + 1) /\ (j + 1) - 1 = j
    BY <1>0
  <2>. QED
    BY <1>0, <1>1, <1>2, <1>3, <2>1
<1>5. b = s
  BY <1>2, <1>3, <1>4, SeqEqual
<1>. QED
  BY <1>5 DEF b, n

\* A row removed and inserted again leaves what was there.
LEMMA RemovedInserted ==
  ASSUME NEW S, NEW s \in Seq(S), NEW i \in 1..Len(s)
  PROVE  InsertAt(RemoveAt(s, i), i, s[i]) = s
<1>. DEFINE n == RemoveAt(s, i)
            b == InsertAt(n, i, s[i])
<1>0. Len(s) \in Nat /\ s[i] \in S
  BY LenProperties, ElementOfSeq
<1>6. IsRemoved(n, S, s, i)
  BY RemoveAtIs
<1>1. /\ n \in Seq(S) /\ Len(n) = Len(s) - 1
      /\ \A j \in 1..(Len(s) - 1) : n[j] = IF j < i THEN s[j] ELSE s[j + 1]
  BY <1>6 DEF IsRemoved
<1>. HIDE DEF n
<1>2. i \in 1..(Len(n) + 1) /\ Len(n) + 1 = Len(s)
  BY <1>0, <1>1
<1>7. IsInserted(b, S, n, i, s[i])
  BY <1>0, <1>1, <1>2, InsertAtIs
<1>3. /\ b \in Seq(S) /\ Len(b) = Len(n) + 1
      /\ \A j \in 1..(Len(n) + 1) : b[j] = IF j < i THEN n[j] ELSE IF j = i THEN s[i] ELSE n[j - 1]
  BY <1>7 DEF IsInserted
<1>. HIDE DEF b
<1>4. ASSUME NEW j \in 1..Len(s)
      PROVE  b[j] = s[j]
  <2>1. CASE j < i
    <3>1. j \in 1..(Len(s) - 1)
      BY <1>0, <2>1
    <3>. QED
      BY <1>1, <1>2, <1>3, <2>1, <3>1
  <2>2. CASE j = i
    BY <1>0, <1>2, <1>3, <2>2
  <2>3. CASE j > i
    <3>1. j - 1 \in 1..(Len(s) - 1) /\ (j - 1) + 1 = j /\ ~(j - 1 < i)
      BY <1>0, <2>3
    <3>2. b[j] = n[j - 1]
      BY <1>0, <1>2, <1>3, <2>3
    <3>. QED
      BY <1>1, <3>1, <3>2
  <2>. QED
    BY <1>0, <2>1, <2>2, <2>3
<1>5. b = s
  BY <1>2, <1>3, <1>4, SeqEqual
<1>. QED
  BY <1>5 DEF b, n

-----------------------------------------------------------------------------
(* Windows, and the index of their keys *)

\* What a window is made of.
Entry == [key : Keys, row : Rows]

\* Entries with distinct keys, as Windows has them, of any number.
IsWindow(w) ==
    /\ w \in Seq(Entry)
    /\ \A i, j \in 1..Len(w) : w[i].key = w[j].key => i = j

\* A key is one of a window's if an entry has it.
LEMMA KeySetIs ==
  ASSUME NEW S, NEW w \in Seq(S), NEW k
  PROVE  k \in KeySet(w) <=> \E i \in 1..Len(w) : w[i].key = k
BY LenProperties DEF KeySet, KeySeq, Range

\* The entries of a window have their two fields.
LEMMA WindowIs ==
  ASSUME NEW w, IsWindow(w)
  PROVE  /\ w \in Seq(Entry) /\ Len(w) \in Nat /\ DOMAIN w = 1..Len(w)
         /\ \A i \in 1..Len(w) : w[i] \in Entry /\ w[i].key \in Keys /\ w[i].row \in Rows
         /\ \A i \in 1..Len(w) : w[i] = [key |-> w[i].key, row |-> w[i].row]
<1>1. w \in Seq(Entry) /\ Len(w) \in Nat /\ DOMAIN w = 1..Len(w)
  BY LenProperties DEF IsWindow
<1>2. \A i \in 1..Len(w) : w[i] \in Entry
  BY <1>1, ElementOfSeq
<1>3. \A e \in Entry : e.key \in Keys /\ e.row \in Rows /\ e = [key |-> e.key, row |-> e.row]
  BY DEF Entry
<1>. QED
  BY <1>1, <1>2, <1>3

\* Keys are distinct, so PositionOf finds the one entry that has a key.
LEMMA PositionIs ==
  ASSUME NEW w, IsWindow(w)
  PROVE  /\ \A i \in 1..Len(w) : PositionOf(w, w[i].key) = i
         /\ \A k \in KeySet(w) : PositionOf(w, k) \in 1..Len(w) /\ w[PositionOf(w, k)].key = k
<1>1. w \in Seq(Entry) /\ DOMAIN w = 1..Len(w)
  BY WindowIs
<1>2. \A k \in KeySet(w) : PositionOf(w, k) \in 1..Len(w) /\ w[PositionOf(w, k)].key = k
  BY <1>1, KeySetIs DEF PositionOf
<1>3. \A i \in 1..Len(w) : w[i].key \in KeySet(w)
  BY <1>1, KeySetIs
<1>. QED
  BY <1>2, <1>3 DEF IsWindow

\* What KeyIndexesExact says of the keys.
LEMMA WindowKeys ==
  ASSUME NEW w, IsWindow(w)
  PROVE  IsInjective(KeySeq(w)) /\ KeySet(w) \subseteq Keys
BY WindowIs, KeySetIs DEF IsInjective, KeySeq, IsWindow

\* Without rows there is nothing to index.
LEMMA EmptyIsWindow == IsWindow(<<>>) /\ IndexesOf(<<>>) = NoIndexes /\ KeySet(<<>>) = {}
<1>1. KeySet(<<>>) = {}
  BY DEF KeySet, KeySeq, Range
<1>. QED
  BY <1>1 DEF IsWindow, IndexesOf, NoIndexes

\* The windows of the specification are those of at most WindowBound entries.
LEMMA WindowsAre ==
  ASSUME NEW w
  PROVE  w \in Windows <=> IsWindow(w) /\ Len(w) <= WindowBound
<1>1. w \in BoundedSeq(Entry, WindowBound) <=> w \in Seq(Entry) /\ Len(w) <= WindowBound
  <2>1. ASSUME w \in BoundedSeq(Entry, WindowBound)
        PROVE  w \in Seq(Entry) /\ Len(w) <= WindowBound
    <3>1. PICK m \in 0..WindowBound : w \in [1..m -> Entry]
      BY <2>1 DEF BoundedSeq, SeqOf
    <3>2. m \in Nat
      BY <3>1, BoundsAreNumbers
    <3>. QED
      BY <3>1, <3>2, BoundsAreNumbers
  <2>2. ASSUME w \in Seq(Entry), Len(w) <= WindowBound
        PROVE  w \in BoundedSeq(Entry, WindowBound)
    <3>1. w \in [1..Len(w) -> Entry] /\ Len(w) \in 0..WindowBound
      BY <2>2, LenProperties, BoundsAreNumbers
    <3>. QED
      BY <3>1 DEF BoundedSeq, SeqOf
  <2>. QED
    BY <2>1, <2>2
<1>2. ASSUME w \in Seq(Entry)
      PROVE  IsInjective(KeySeq(w)) <=> \A i, j \in 1..Len(w) : w[i].key = w[j].key => i = j
  BY <1>2, LenProperties DEF IsInjective, KeySeq
<1>. QED
  BY <1>1, <1>2 DEF Windows, Entry, IsWindow

\* The index of a window has its keys, each at its entry's position.
LEMMA IndexesAre ==
  ASSUME NEW w, IsWindow(w)
  PROVE  /\ DOMAIN IndexesOf(w) = KeySet(w)
         /\ \A i \in 1..Len(w) : w[i].key \in KeySet(w) /\ IndexesOf(w)[w[i].key] = i
BY PositionIs, WindowIs, KeySetIs DEF IndexesOf

\* An index that is right below a position is right when it was rebuilt from there.
LEMMA ReindexedExact ==
  ASSUME NEW n, IsWindow(n), NEW start \in Nat \ {0}, NEW indexes,
         DOMAIN indexes \subseteq KeySet(n),
         \A i \in 1..Len(n) : i < start => n[i].key \in DOMAIN indexes /\ indexes[n[i].key] = i
  PROVE  Reindexed(indexes, n, start) = IndexesOf(n)
<1>. DEFINE D == DOMAIN indexes \union {n[i].key : i \in start..Len(n)}
            F(k) == IF \E i \in start..Len(n) : n[i].key = k THEN PositionOf(n, k) ELSE indexes[k]
<1>0. Len(n) \in Nat /\ n \in Seq(Entry)
  BY WindowIs
<1>1. D = KeySet(n)
  <2>1. \A i \in start..Len(n) : i \in 1..Len(n) /\ n[i].key \in KeySet(n)
    BY <1>0, KeySetIs
  <2>2. ASSUME NEW k \in KeySet(n)
        PROVE  k \in D
    <3>1. PICK i \in 1..Len(n) : n[i].key = k
      BY <1>0, KeySetIs
    <3>2. i < start \/ i \in start..Len(n)
      BY <1>0
    <3>. QED
      BY <3>1, <3>2
  <2>. QED
    BY <2>1, <2>2
<1>2. ASSUME NEW k \in KeySet(n)
      PROVE  F(k) = PositionOf(n, k)
  <2>1. CASE \E i \in start..Len(n) : n[i].key = k
    BY <2>1
  <2>2. CASE ~\E i \in start..Len(n) : n[i].key = k
    <3>1. PICK i \in 1..Len(n) : n[i].key = k
      BY <1>0, KeySetIs
    <3>2. i < start
      BY <1>0, <2>2, <3>1
    <3>3. indexes[k] = i /\ PositionOf(n, k) = i
      BY <3>1, <3>2, PositionIs
    <3>. QED
      BY <2>2, <3>3
  <2>. QED
    BY <2>1, <2>2
<1>3. Reindexed(indexes, n, start) = [k \in D |-> F(k)]
  BY DEF Reindexed
<1>. HIDE DEF D, F
<1>4. [k \in D |-> F(k)] = [k \in KeySet(n) |-> PositionOf(n, k)]
  BY <1>1, <1>2
<1>. QED
  BY <1>3, <1>4 DEF IndexesOf

\* A snapshot's index is built from nothing.
LEMMA IndexedFromNothing ==
  ASSUME NEW n, IsWindow(n)
  PROVE  Reindexed(NoIndexes, n, 1) = IndexesOf(n)
<1>1. DOMAIN NoIndexes = {}
  BY DEF NoIndexes
<1>2. \A i \in 1..Len(n) : ~(i < 1)
  BY WindowIs
<1>. QED
  BY <1>1, <1>2, ReindexedExact

-----------------------------------------------------------------------------
(* One change of a window and of the index *)

\* An insertion where no row has the key: the index, rebuilt from there, is exact.
LEMMA InsertedExact ==
  ASSUME NEW w, IsWindow(w), NEW i \in 1..(Len(w) + 1), NEW e \in Entry, e.key \notin KeySet(w)
  PROVE  /\ IsWindow(InsertAt(w, i, e))
         /\ Reindexed(IndexesOf(w), InsertAt(w, i, e), i) = IndexesOf(InsertAt(w, i, e))
<1>. DEFINE n == InsertAt(w, i, e)
<1>1. w \in Seq(Entry) /\ Len(w) \in Nat
  BY WindowIs
<1>2. IsInserted(n, Entry, w, i, e)
  BY <1>1, InsertAtIs
<1>. HIDE DEF n
<1>3. /\ n \in Seq(Entry) /\ Len(n) = Len(w) + 1
      /\ \A j \in 1..(Len(w) + 1) : n[j] = IF j < i THEN w[j] ELSE IF j = i THEN e ELSE w[j - 1]
  BY <1>2 DEF IsInserted
<1>4. \A j \in 1..Len(w) : w[j].key # e.key
  BY <1>1, KeySetIs
<1>5. ASSUME NEW a \in 1..Len(n), NEW b \in 1..Len(n), n[a].key = n[b].key, a # b
      PROVE  FALSE
  <2>. DEFINE Old(j) == IF j < i THEN j ELSE j - 1
  <2>1. \A j \in 1..Len(n) : j # i => Old(j) \in 1..Len(w) /\ n[j] = w[Old(j)]
    BY <1>1, <1>3
  <2>2. n[i] = e /\ i \in 1..Len(n)
    BY <1>1, <1>3
  <2>3. a # i /\ b # i
    <3>. HIDE DEF Old
    <3>. QED
      BY <1>4, <1>5, <2>1, <2>2
  <2>4. Old(a) = Old(b)
    <3>. HIDE DEF Old
    <3>. QED
      BY <1>5, <2>1, <2>3 DEF IsWindow
  <2>. QED
    BY <1>1, <1>3, <1>5, <2>3, <2>4
<1>6. IsWindow(n)
  BY <1>3, <1>5 DEF IsWindow
<1>7. KeySet(w) \subseteq KeySet(n)
  <2>1. ASSUME NEW j \in 1..Len(w)
        PROVE  \E a \in 1..Len(n) : n[a] = w[j]
    <3>1. CASE j < i
      <4>1. j \in 1..Len(n) /\ n[j] = w[j]
        BY <1>1, <1>3, <3>1
      <4>. QED
        BY <4>1
    <3>2. CASE j >= i
      <4>1. j + 1 \in 1..(Len(w) + 1) /\ ~(j + 1 < i) /\ j + 1 # i /\ (j + 1) - 1 = j
        BY <1>1, <3>2
      <4>2. n[j + 1] = w[j]
        BY <1>3, <4>1
      <4>. QED
        BY <1>3, <4>1, <4>2
    <3>. QED
      BY <1>1, <3>1, <3>2
  <2>. QED
    BY <1>1, <1>3, <2>1, KeySetIs
<1>8. \A j \in 1..Len(n) : j < i => j \in 1..Len(w) /\ n[j] = w[j]
  BY <1>1, <1>3
<1>9. /\ DOMAIN IndexesOf(w) \subseteq KeySet(n)
      /\ \A j \in 1..Len(n) : j < i => n[j].key \in DOMAIN IndexesOf(w) /\ IndexesOf(w)[n[j].key] = j
  BY <1>7, <1>8, IndexesAre
<1>10. i \in Nat \ {0}
  BY <1>1
<1>11. Reindexed(IndexesOf(w), n, i) = IndexesOf(n)
  BY <1>6, <1>9, <1>10, ReindexedExact
<1>. QED
  BY <1>6, <1>11 DEF n

\* A removal: the index without the key, rebuilt from there, is exact.
LEMMA RemovedExact ==
  ASSUME NEW w, IsWindow(w), NEW i \in 1..Len(w)
  PROVE  /\ IsWindow(RemoveAt(w, i))
         /\ Reindexed(Forget(IndexesOf(w), w[i].key), RemoveAt(w, i), i)
                = IndexesOf(RemoveAt(w, i))
         /\ w[i].key \notin KeySet(RemoveAt(w, i))
<1>. DEFINE n == RemoveAt(w, i)
            f == Forget(IndexesOf(w), w[i].key)
<1>1. w \in Seq(Entry) /\ Len(w) \in Nat
  BY WindowIs
<1>2. IsRemoved(n, Entry, w, i)
  BY <1>1, RemoveAtIs
<1>. HIDE DEF n
<1>. DEFINE Old(j) == IF j < i THEN j ELSE j + 1
<1>3. /\ n \in Seq(Entry) /\ Len(n) = Len(w) - 1
      /\ \A j \in 1..Len(n) : Old(j) \in 1..Len(w) /\ n[j] = w[Old(j)] /\ Old(j) # i
  BY <1>1, <1>2 DEF IsRemoved
<1>4. \A a, b \in 1..Len(n) : Old(a) = Old(b) => a = b
  BY <1>1, <1>3
<1>5. \A j \in 1..Len(w) : j # i => \E a \in 1..Len(n) : Old(a) = j
  <2>1. ASSUME NEW j \in 1..Len(w), j # i
        PROVE  \E a \in 1..Len(n) : Old(a) = j
    <3>1. CASE j < i
      <4>1. j \in 1..Len(n) /\ Old(j) = j
        BY <1>1, <1>3, <3>1
      <4>. QED
        BY <4>1
    <3>2. CASE j > i
      <4>1. j - 1 \in 1..Len(n) /\ Old(j - 1) = j
        BY <1>1, <1>3, <3>2
      <4>. QED
        BY <4>1
    <3>. QED
      BY <1>1, <2>1, <3>1, <3>2
  <2>. QED
    BY <2>1
<1>8. \A j \in 1..Len(n) : j < i => Old(j) = j
  OBVIOUS
<1>. HIDE DEF Old
<1>6. IsWindow(n)
  BY <1>3, <1>4 DEF IsWindow
<1>7. w[i].key \notin KeySet(n)
  <2>1. \A j \in 1..Len(n) : n[j].key # w[i].key
    BY <1>3 DEF IsWindow
  <2>2. n \in Seq(Entry)
    BY <1>3
  <2>3. w[i].key \in KeySet(n) <=> \E j \in 1..Len(n) : n[j].key = w[i].key
    BY <2>2, KeySetIs
  <2>. QED
    BY <2>1, <2>3
<1>9. DOMAIN f = KeySet(w) \ {w[i].key}
  BY IndexesAre DEF Forget
<1>10. DOMAIN f \subseteq KeySet(n)
  <2>1. ASSUME NEW k \in DOMAIN f
        PROVE  k \in KeySet(n)
    <3>1. PICK j \in 1..Len(w) : w[j].key = k /\ j # i
      BY <1>1, <1>9, KeySetIs
    <3>2. PICK a \in 1..Len(n) : Old(a) = j
      BY <1>5, <3>1
    <3>. QED
      BY <1>3, <3>1, <3>2, KeySetIs
  <2>. QED
    BY <2>1
<1>11. ASSUME NEW j \in 1..Len(n), j < i
       PROVE  n[j].key \in DOMAIN f /\ f[n[j].key] = j
  <2>1. j \in 1..Len(w) /\ n[j] = w[j]
    BY <1>3, <1>8, <1>11
  <2>2. w[j].key \in KeySet(w) /\ IndexesOf(w)[w[j].key] = j
    BY <2>1, IndexesAre
  <2>3. w[j].key # w[i].key
    BY <1>3, <1>8, <1>11, <2>1 DEF IsWindow
  <2>4. w[j].key \in DOMAIN f
    BY <1>9, <2>2, <2>3
  <2>5. f[w[j].key] = IndexesOf(w)[w[j].key]
    BY <1>9, <2>4 DEF Forget
  <2>. QED
    BY <2>1, <2>2, <2>4, <2>5
<1>12. i \in Nat \ {0}
  BY <1>1
<1>. HIDE DEF f
<1>13. Reindexed(f, n, i) = IndexesOf(n)
  BY <1>6, <1>10, <1>11, <1>12, ReindexedExact
<1>. QED
  BY <1>6, <1>7, <1>13 DEF n, f

\* Math.min of the two positions of a move.
LEMMA MinOfTwo ==
  ASSUME NEW a \in Int, NEW b \in Int
  PROVE  Min({a, b}) = IF a <= b THEN a ELSE b
BY DEF Min

\* Elements moved keep apart, come back, and stay where they are outside the move.
LEMMA OriginIs ==
  ASSUME NEW n \in Nat, NEW from \in 1..n, NEW to \in 1..n
  PROVE  /\ \A j \in 1..n : Origin(from, to, j) \in 1..n
         /\ \A a, b \in 1..n : Origin(from, to, a) = Origin(from, to, b) => a = b
         /\ \A j \in 1..n : Origin(from, to, Origin(to, from, j)) = j
         /\ \A j \in 1..n : j < from /\ j < to => Origin(from, to, j) = j
         /\ \A j \in 1..n : j > from /\ j > to => Origin(from, to, j) = j
<1>1. \A j \in 1..n : Origin(from, to, j) \in 1..n
  BY DEF Origin
<1>2. \A j \in 1..n : Origin(from, to, Origin(to, from, j)) = j
  BY DEF Origin
<1>3. \A j \in 1..n : Origin(to, from, Origin(from, to, j)) = j
  BY DEF Origin
<1>4. \A a, b \in 1..n : Origin(from, to, a) = Origin(from, to, b) => a = b
  BY <1>3
<1>5. \A j \in 1..n : j < from /\ j < to => Origin(from, to, j) = j
  BY DEF Origin
<1>6. \A j \in 1..n : j > from /\ j > to => Origin(from, to, j) = j
  BY DEF Origin
<1>. QED
  BY <1>1, <1>2, <1>4, <1>5, <1>6

\* A move: the index rebuilt from the smaller position is exact.
LEMMA MovedExact ==
  ASSUME NEW w, IsWindow(w), NEW from \in 1..Len(w), NEW to \in 1..Len(w)
  PROVE  /\ IsWindow(Moved(w, from, to))
         /\ Reindexed(IndexesOf(w), Moved(w, from, to), Min({from, to}))
                = IndexesOf(Moved(w, from, to))
<1>. DEFINE n == Moved(w, from, to)
            start == Min({from, to})
<1>1. w \in Seq(Entry) /\ Len(w) \in Nat
  BY WindowIs
<1>2. IsMoved(n, Entry, w, from, to)
  BY <1>1, MovedIs
<1>. HIDE DEF n
<1>3. /\ n \in Seq(Entry) /\ Len(n) = Len(w)
      /\ \A j \in 1..Len(w) : Origin(from, to, j) \in 1..Len(w) /\ n[j] = w[Origin(from, to, j)]
  BY <1>2 DEF IsMoved
<1>4. \A a, b \in 1..Len(w) : Origin(from, to, a) = Origin(from, to, b) => a = b
  BY <1>1, OriginIs
<1>5. IsWindow(n)
  BY <1>3, <1>4 DEF IsWindow
<1>6. KeySet(w) \subseteq KeySet(n)
  <2>1. ASSUME NEW k \in KeySet(w)
        PROVE  k \in KeySet(n)
    <3>1. PICK j \in 1..Len(w) : w[j].key = k
      BY <1>1, KeySetIs
    <3>2. Origin(to, from, j) \in 1..Len(w) /\ Origin(from, to, Origin(to, from, j)) = j
      BY <1>1, OriginIs
    <3>. QED
      BY <1>3, <3>1, <3>2, KeySetIs
  <2>. QED
    BY <2>1
<1>7. start \in Nat \ {0} /\ start <= from /\ start <= to
  BY <1>1, MinOfTwo
<1>. HIDE DEF start
<1>8. \A j \in 1..Len(n) : j < start => j \in 1..Len(w) /\ n[j] = w[j]
  <2>1. \A j \in 1..Len(w) : j < start => Origin(from, to, j) = j
    BY <1>1, <1>7, OriginIs
  <2>. QED
    BY <1>3, <2>1
<1>9. /\ DOMAIN IndexesOf(w) \subseteq KeySet(n)
      /\ \A j \in 1..Len(n) : j < start => /\ n[j].key \in DOMAIN IndexesOf(w)
                                           /\ IndexesOf(w)[n[j].key] = j
  BY <1>6, <1>8, IndexesAre
<1>10. Reindexed(IndexesOf(w), n, start) = IndexesOf(n)
  BY <1>5, <1>7, <1>9, ReindexedExact
<1>. QED
  BY <1>5, <1>10 DEF n, start

\* w with another row in its i-th entry.
IsUpdated(n, w, i, row) ==
    /\ n \in Seq(Entry) /\ Len(n) = Len(w)
    /\ \A j \in 1..Len(w) : n[j] = IF j = i THEN [key |-> w[i].key, row |-> row] ELSE w[j]

\* An assignment to the row of an entry does that.
LEMMA UpdateIs ==
  ASSUME NEW w, IsWindow(w), NEW i \in 1..Len(w), NEW row \in Rows
  PROVE  IsUpdated([w EXCEPT ![i].row = row], w, i, row)
<1>. DEFINE e == [w[i] EXCEPT !.row = row]
            n == [w EXCEPT ![i] = e]
<1>1. /\ w \in Seq(Entry) /\ w[i].key \in Keys /\ w[i] = [key |-> w[i].key, row |-> w[i].row]
  BY WindowIs
<1>2. e = [key |-> w[i].key, row |-> row]
  BY <1>1
<1>3. e \in Entry
  BY <1>1, <1>2 DEF Entry
<1>. HIDE DEF e
<1>4. /\ n \in Seq(Entry) /\ Len(n) = Len(w)
      /\ \A j \in 1..Len(w) : n[j] = IF j = i THEN e ELSE w[j]
  BY <1>1, <1>3, ExceptSeq
<1>5. [w EXCEPT ![i].row = row] = n
  BY DEF e
<1>. QED
  BY <1>2, <1>4, <1>5 DEF IsUpdated

\* The index does not tell rows.
LEMMA UpdatedExact ==
  ASSUME NEW w, IsWindow(w), NEW i \in 1..Len(w), NEW row \in Rows
  PROVE  /\ IsWindow([w EXCEPT ![i].row = row])
         /\ IndexesOf([w EXCEPT ![i].row = row]) = IndexesOf(w)
<1>. DEFINE n == [w EXCEPT ![i].row = row]
<1>1. IsUpdated(n, w, i, row)
  BY UpdateIs
<1>. HIDE DEF n
<1>2. /\ n \in Seq(Entry) /\ Len(n) = Len(w)
      /\ \A j \in 1..Len(w) : n[j].key = w[j].key
  BY <1>1 DEF IsUpdated
<1>3. IsWindow(n)
  BY <1>2 DEF IsWindow
<1>4. w \in Seq(Entry) /\ Len(w) \in Nat
  BY WindowIs
<1>5. KeySet(n) = KeySet(w)
  <2>1. \A k : k \in KeySet(n) <=> k \in KeySet(w)
    BY <1>2, <1>4, KeySetIs
  <2>. QED
    BY <2>1
<1>6. \A k \in KeySet(w) : PositionOf(n, k) = PositionOf(w, k)
  <2>1. ASSUME NEW k \in KeySet(w)
        PROVE  PositionOf(n, k) = PositionOf(w, k)
    <3>1. PICK j \in 1..Len(w) : w[j].key = k
      BY <1>4, KeySetIs
    <3>. QED
      BY <1>2, <1>3, <3>1, PositionIs
  <2>. QED
    BY <2>1
<1>7. IndexesOf(n) = IndexesOf(w)
  BY <1>5, <1>6 DEF IndexesOf
<1>. QED
  BY <1>3, <1>7 DEF n

\* A row written and the former one written again.
LEMMA UpdatedBack ==
  ASSUME NEW w, IsWindow(w), NEW i \in 1..Len(w), NEW row \in Rows
  PROVE  [[w EXCEPT ![i].row = row] EXCEPT ![i].row = w[i].row] = w
<1>. DEFINE n == [w EXCEPT ![i].row = row]
            b == [n EXCEPT ![i].row = w[i].row]
<1>0. w \in Seq(Entry) /\ \A j \in 1..Len(w) : w[j] = [key |-> w[j].key, row |-> w[j].row]
  BY WindowIs
<1>1. IsUpdated(n, w, i, row) /\ IsWindow(n)
  BY UpdateIs, UpdatedExact
<1>. HIDE DEF n
<1>2. /\ Len(n) = Len(w)
      /\ \A j \in 1..Len(w) : n[j] = IF j = i THEN [key |-> w[i].key, row |-> row] ELSE w[j]
  BY <1>1 DEF IsUpdated
<1>3. i \in 1..Len(n) /\ w[i].row \in Rows
  BY <1>2, WindowIs
<1>4. IsUpdated(b, n, i, w[i].row)
  BY <1>1, <1>3, UpdateIs
<1>. HIDE DEF b
<1>5. /\ b \in Seq(Entry) /\ Len(b) = Len(w)
      /\ \A j \in 1..Len(w) : b[j] = IF j = i THEN [key |-> n[i].key, row |-> w[i].row] ELSE n[j]
  BY <1>2, <1>4 DEF IsUpdated
<1>6. \A j \in 1..Len(w) : b[j] = w[j]
  BY <1>0, <1>2, <1>5
<1>7. b = w
  BY <1>0, <1>5, <1>6, SeqEqual
<1>. QED
  BY <1>7 DEF b, n

-----------------------------------------------------------------------------
(* What an operation does to a window *)

\* The operations of a delta, whatever made them.
Operations ==
    [type : {"insert", "update"}, key : Keys, row : Rows, index : Nat]
    \union [type : {"move"}, key : Keys, fromIndex : Nat, toIndex : Nat]
    \union [type : {"remove"}, key : Keys]

\* The conditions under which an operation is applied, of the window alone.
FitsWindow(w, op) ==
    CASE op.type = "insert" -> op.index \in 1..(Len(w) + 1) /\ op.key \notin KeySet(w)
      [] op.type = "update" -> op.index \in 1..Len(w) /\ w[op.index].key = op.key
      [] op.type = "move" ->
            /\ op.fromIndex \in 1..Len(w) /\ op.toIndex \in 1..Len(w)
            /\ w[op.fromIndex].key = op.key
      [] op.type = "remove" -> op.key \in KeySet(w)

\* The window an operation leads to.
Edit(w, op) ==
    CASE op.type = "insert" -> InsertAt(w, op.index, [key |-> op.key, row |-> op.row])
      [] op.type = "update" -> [w EXCEPT ![op.index].row = op.row]
      [] op.type = "move" -> Moved(w, op.fromIndex, op.toIndex)
      [] op.type = "remove" -> RemoveAt(w, PositionOf(w, op.key))

\* The positions it touches.
TouchedBy(w, op) ==
    CASE op.type = "insert" -> {op.index}
      [] op.type = "update" -> {op.index}
      [] op.type = "move" -> {op.fromIndex, op.toIndex}
      [] op.type = "remove" -> {PositionOf(w, op.key)}

\* Operations after which every row behind may be another.
Shifts(op) == op.type \in {"insert", "remove"}

\* Whether the range reported extends to the end.
Ends(throughEnd, op) == IF Shifts(op) THEN TRUE ELSE throughEnd

\* The mutation recorded for rollbackMutations.
UndoOf(w, op) ==
    CASE op.type = "insert" -> [type |-> "Insert", index |-> op.index, key |-> op.key]
      [] op.type = "update" -> [type |-> "Update", index |-> op.index, row |-> w[op.index].row]
      [] op.type = "move" ->
            [type |-> "Move", fromIndex |-> op.fromIndex, toIndex |-> op.toIndex]
      [] op.type = "remove" ->
            [type |-> "Remove", index |-> PositionOf(w, op.key), entry |-> w[PositionOf(w, op.key)]]

\* The fields of an operation, by its type.
LEMMA OperationIs ==
  ASSUME NEW op \in Operations
  PROVE  \/ /\ op.type \in {"insert", "update"}
            /\ op.key \in Keys /\ op.row \in Rows /\ op.index \in Nat
         \/ op.type = "move" /\ op.key \in Keys /\ op.fromIndex \in Nat /\ op.toIndex \in Nat
         \/ op.type = "remove" /\ op.key \in Keys
BY DEF Operations

\* What deltaOperations makes are operations.
LEMMA OperationsAre ==
  /\ \A e \in Entry, i \in Nat : InsertOp(e, i) \in Operations /\ UpdateOp(e, i) \in Operations
  /\ \A k \in Keys, i, j \in Nat : MoveOp(k, i, j) \in Operations
  /\ \A k \in Keys : RemoveOp(k) \in Operations
BY DEF Entry, InsertOp, UpdateOp, MoveOp, RemoveOp, Operations

\* A window and its index.
At(w) == [window |-> w, indexes |-> IndexesOf(w)]

\* The batch that has led to a window.
Batch(w, undo, touched, throughEnd, fits) ==
    [window |-> w, indexes |-> IndexesOf(w), undo |-> undo, touched |-> touched,
     throughEnd |-> throughEnd, fits |-> fits]

\* Insert in place: window, index and way back.
LEMMA InsertEdit ==
  ASSUME NEW w, IsWindow(w), NEW op \in Operations, op.type = "insert", FitsWindow(w, op)
  PROVE  /\ IsWindow(Edit(w, op))
         /\ Edit(w, op) = InsertAt(w, op.index, [key |-> op.key, row |-> op.row])
         /\ Reindexed(IndexesOf(w), Edit(w, op), op.index) = IndexesOf(Edit(w, op))
         /\ Undo(At(Edit(w, op)), UndoOf(w, op)) = At(w)
<1>. DEFINE e == [key |-> op.key, row |-> op.row]
            i == op.index
            n == InsertAt(w, i, e)
<1>1. /\ e \in Entry /\ i \in 1..(Len(w) + 1) /\ e.key \notin KeySet(w)
  BY OperationIs DEF Entry, FitsWindow
<1>2. e.key = op.key
  OBVIOUS
<1>3. Edit(w, op) = n
  BY DEF Edit
<1>4. w \in Seq(Entry) /\ Len(w) \in Nat
  BY WindowIs
<1>. HIDE DEF e, i
<1>5. IsWindow(n) /\ Reindexed(IndexesOf(w), n, i) = IndexesOf(n)
  BY <1>1, InsertedExact
<1>6. RemoveAt(n, i) = w
  BY <1>1, <1>4, InsertedRemoved
<1>7. i \in 1..Len(n) /\ n[i].key = op.key
  <2>1. IsInserted(n, Entry, w, i, e)
    BY <1>1, <1>4, InsertAtIs
  <2>. HIDE DEF n
  <2>. QED
    BY <1>1, <1>2, <1>4, <2>1 DEF IsInserted
<1>. HIDE DEF n
<1>8. Reindexed(Forget(IndexesOf(n), op.key), w, i) = IndexesOf(w)
  BY <1>5, <1>6, <1>7, RemovedExact
<1>9. UndoOf(w, op) = [type |-> "Insert", index |-> i, key |-> op.key]
  BY DEF UndoOf, i
<1>10. Undo(At(n), UndoOf(w, op)) = At(w)
  BY <1>6, <1>8, <1>9 DEF Undo, At
<1>. QED
  BY <1>3, <1>5, <1>10 DEF i, n, e

\* Update in place.
LEMMA UpdateEdit ==
  ASSUME NEW w, IsWindow(w), NEW op \in Operations, op.type = "update", FitsWindow(w, op)
  PROVE  /\ IsWindow(Edit(w, op))
         /\ Edit(w, op) = [w EXCEPT ![op.index].row = op.row]
         /\ IndexesOf(w) = IndexesOf(Edit(w, op))
         /\ Undo(At(Edit(w, op)), UndoOf(w, op)) = At(w)
<1>. DEFINE i == op.index
            n == [w EXCEPT ![i].row = op.row]
<1>1. op.row \in Rows /\ i \in 1..Len(w)
  BY OperationIs DEF FitsWindow
<1>3. Edit(w, op) = n
  BY DEF Edit
<1>. HIDE DEF i
<1>5. IsWindow(n) /\ IndexesOf(n) = IndexesOf(w)
  BY <1>1, UpdatedExact
<1>6. [n EXCEPT ![i].row = w[i].row] = w
  BY <1>1, UpdatedBack
<1>. HIDE DEF n
<1>9. UndoOf(w, op) = [type |-> "Update", index |-> i, row |-> w[i].row]
  BY DEF UndoOf, i
<1>10. Undo(At(n), UndoOf(w, op)) = At(w)
  BY <1>5, <1>6, <1>9 DEF Undo, At
<1>. QED
  BY <1>3, <1>5, <1>10 DEF i, n

\* Move in place.
LEMMA MoveEdit ==
  ASSUME NEW w, IsWindow(w), NEW op \in Operations, op.type = "move", FitsWindow(w, op)
  PROVE  /\ IsWindow(Edit(w, op))
         /\ Edit(w, op) = Moved(w, op.fromIndex, op.toIndex)
         /\ Reindexed(IndexesOf(w), Edit(w, op), Min({op.fromIndex, op.toIndex}))
                = IndexesOf(Edit(w, op))
         /\ Undo(At(Edit(w, op)), UndoOf(w, op)) = At(w)
<1>. DEFINE from == op.fromIndex
            to == op.toIndex
            n == Moved(w, from, to)
<1>1. from \in 1..Len(w) /\ to \in 1..Len(w)
  BY DEF FitsWindow
<1>2. UndoOf(w, op) = [type |-> "Move", fromIndex |-> from, toIndex |-> to]
  BY DEF UndoOf
<1>3. Edit(w, op) = n
  BY DEF Edit
<1>4. w \in Seq(Entry) /\ Len(w) \in Nat
  BY WindowIs
<1>. HIDE DEF from, to
<1>5. IsWindow(n) /\ Reindexed(IndexesOf(w), n, Min({from, to})) = IndexesOf(n)
  BY <1>1, MovedExact
<1>6. Moved(n, to, from) = w
  BY <1>1, <1>4, MovedBack
<1>7. Len(n) = Len(w)
  <2>1. IsMoved(n, Entry, w, from, to)
    BY <1>1, <1>4, MovedIs
  <2>. HIDE DEF n
  <2>. QED
    BY <2>1 DEF IsMoved
<1>. HIDE DEF n
<1>8. Reindexed(IndexesOf(n), w, Min({from, to})) = IndexesOf(w)
  <2>1. to \in 1..Len(n) /\ from \in 1..Len(n)
    BY <1>1, <1>7
  <2>2. Reindexed(IndexesOf(n), Moved(n, to, from), Min({to, from})) = IndexesOf(Moved(n, to, from))
    BY <1>5, <2>1, MovedExact
  <2>3. {to, from} = {from, to}
    OBVIOUS
  <2>. QED
    BY <1>6, <2>2, <2>3
<1>10. Undo(At(n), UndoOf(w, op)) = At(w)
  BY <1>2, <1>6, <1>8 DEF Undo, At
<1>. QED
  BY <1>3, <1>5, <1>10 DEF n, from, to

\* Remove in place; the index tells the position.
LEMMA RemoveEdit ==
  ASSUME NEW w, IsWindow(w), NEW op \in Operations, op.type = "remove", FitsWindow(w, op)
  PROVE  LET i == PositionOf(w, op.key)
         IN  /\ IsWindow(Edit(w, op))
             /\ Edit(w, op) = RemoveAt(w, i)
             /\ i \in 1..Len(w) /\ w[i].key = op.key /\ IndexesOf(w)[op.key] = i
             /\ Reindexed(Forget(IndexesOf(w), op.key), Edit(w, op), i) = IndexesOf(Edit(w, op))
             /\ Undo(At(Edit(w, op)), UndoOf(w, op)) = At(w)
<1>. DEFINE i == PositionOf(w, op.key)
            n == RemoveAt(w, i)
<1>1. op.key \in KeySet(w)
  BY DEF FitsWindow
<1>2. i \in 1..Len(w) /\ w[i].key = op.key /\ IndexesOf(w)[op.key] = i
  BY <1>1, PositionIs DEF IndexesOf
<1>3. Edit(w, op) = n
  BY DEF Edit
<1>4. w \in Seq(Entry) /\ Len(w) \in Nat /\ w[i] \in Entry
  BY <1>2, WindowIs
<1>9. UndoOf(w, op) = [type |-> "Remove", index |-> i, entry |-> w[i]]
  BY DEF UndoOf
<1>. HIDE DEF i
<1>5. /\ IsWindow(n) /\ Reindexed(Forget(IndexesOf(w), op.key), n, i) = IndexesOf(n)
      /\ op.key \notin KeySet(n)
  BY <1>2, RemovedExact
<1>6. InsertAt(n, i, w[i]) = w
  BY <1>2, <1>4, RemovedInserted
<1>7. i \in 1..(Len(n) + 1)
  <2>1. IsRemoved(n, Entry, w, i)
    BY <1>2, <1>4, RemoveAtIs
  <2>. HIDE DEF n
  <2>. QED
    BY <1>2, <1>4, <2>1 DEF IsRemoved
<1>. HIDE DEF n
<1>8. Reindexed(IndexesOf(n), w, i) = IndexesOf(w)
  BY <1>2, <1>4, <1>5, <1>6, <1>7, InsertedExact
<1>10. Undo(At(n), UndoOf(w, op)) = At(w)
  BY <1>6, <1>8, <1>9 DEF Undo, At
<1>. QED
  BY <1>2, <1>3, <1>5, <1>10 DEF i, n

\* One operation in place, undone again, leaves the window and its index as they were.
LEMMA EditIs ==
  ASSUME NEW w, IsWindow(w), NEW op \in Operations, FitsWindow(w, op)
  PROVE  IsWindow(Edit(w, op)) /\ Undo(At(Edit(w, op)), UndoOf(w, op)) = At(w)
<1>1. op.type \in {"insert", "update", "move", "remove"}
  BY OperationIs
<1>. QED
  BY <1>1, InsertEdit, UpdateEdit, MoveEdit, RemoveEdit

\* What an operation that fits does to the batch in place.
LEMMA ChangeIs ==
  ASSUME NEW w, IsWindow(w), NEW op \in Operations, FitsWindow(w, op),
         NEW undo, NEW touched, NEW throughEnd, NEW fits
  PROVE  Change(Batch(w, undo, touched, throughEnd, fits), op)
             = Batch(Edit(w, op), Append(undo, UndoOf(w, op)), touched \union TouchedBy(w, op),
                     Ends(throughEnd, op), fits)
<1>1. op.type \in {"insert", "update", "move", "remove"}
  BY OperationIs
<1>2. CASE op.type = "insert"
  <2>1. /\ Edit(w, op) = InsertAt(w, op.index, [key |-> op.key, row |-> op.row])
        /\ Reindexed(IndexesOf(w), Edit(w, op), op.index) = IndexesOf(Edit(w, op))
    BY <1>2, InsertEdit
  <2>2. /\ UndoOf(w, op) = [type |-> "Insert", index |-> op.index, key |-> op.key]
        /\ TouchedBy(w, op) = {op.index} /\ Ends(throughEnd, op) = TRUE
    BY <1>2 DEF UndoOf, TouchedBy, Shifts, Ends
  <2>. QED
    BY <1>2, <2>1, <2>2 DEF Change, Batch, Done, Touch
<1>3. CASE op.type = "update"
  <2>1. /\ Edit(w, op) = [w EXCEPT ![op.index].row = op.row]
        /\ IndexesOf(w) = IndexesOf(Edit(w, op))
    BY <1>3, UpdateEdit
  <2>2. /\ UndoOf(w, op) = [type |-> "Update", index |-> op.index, row |-> w[op.index].row]
        /\ TouchedBy(w, op) = {op.index} /\ Ends(throughEnd, op) = throughEnd
    BY <1>3 DEF UndoOf, TouchedBy, Shifts, Ends
  <2>. QED
    BY <1>3, <2>1, <2>2 DEF Change, Batch, Done, Touch
<1>4. CASE op.type = "move"
  <2>1. /\ Edit(w, op) = Moved(w, op.fromIndex, op.toIndex)
        /\ Reindexed(IndexesOf(w), Edit(w, op), Min({op.fromIndex, op.toIndex}))
               = IndexesOf(Edit(w, op))
    BY <1>4, MoveEdit
  <2>2. /\ UndoOf(w, op) = [type |-> "Move", fromIndex |-> op.fromIndex, toIndex |-> op.toIndex]
        /\ TouchedBy(w, op) = {op.fromIndex, op.toIndex} /\ Ends(throughEnd, op) = throughEnd
    BY <1>4 DEF UndoOf, TouchedBy, Shifts, Ends
  <2>. QED
    BY <1>4, <2>1, <2>2 DEF Change, Batch, Done, Touch
<1>5. CASE op.type = "remove"
  <2>. DEFINE i == PositionOf(w, op.key)
  <2>1. /\ Edit(w, op) = RemoveAt(w, i) /\ IndexesOf(w)[op.key] = i
        /\ Reindexed(Forget(IndexesOf(w), op.key), Edit(w, op), i) = IndexesOf(Edit(w, op))
    BY <1>5, RemoveEdit
  <2>2. /\ UndoOf(w, op) = [type |-> "Remove", index |-> i, entry |-> w[i]]
        /\ TouchedBy(w, op) = {i} /\ Ends(throughEnd, op) = TRUE
    BY <1>5 DEF UndoOf, TouchedBy, Shifts, Ends
  <2>. HIDE DEF i
  <2>. QED
    BY <1>5, <2>1, <2>2 DEF Change, Batch, Done, Touch
<1>. QED
  BY <1>1, <1>2, <1>3, <1>4, <1>5

\* With an exact index the batch's conditions are those on the window.
LEMMA FitsIs ==
  ASSUME NEW w, IsWindow(w), NEW op \in Operations,
         NEW undo, NEW touched, NEW throughEnd, NEW fits
  PROVE  Fits(Batch(w, undo, touched, throughEnd, fits), op) <=> FitsWindow(w, op)
<1>1. op.type \in {"insert", "update", "move", "remove"}
  BY OperationIs
<1>2. DOMAIN w = 1..Len(w) /\ DOMAIN IndexesOf(w) = KeySet(w)
  BY WindowIs, IndexesAre
<1>. QED
  BY <1>1, <1>2 DEF Fits, FitsWindow, Batch

-----------------------------------------------------------------------------
(* A batch in place *)

\* Sequences of whatever mutations there are.
IsSeq(s) == \E S : s \in Seq(S)

\* Append, for such sequences.
LEMMA AppendAny ==
  ASSUME NEW s, IsSeq(s), NEW e
  PROVE  /\ IsSeq(Append(s, e)) /\ Len(s) \in Nat /\ Len(Append(s, e)) = Len(s) + 1
         /\ Append(s, e)[Len(s) + 1] = e
         /\ \A i \in 1..Len(s) : Append(s, e)[i] = s[i]
<1>1. PICK S : s \in Seq(S)
  BY DEF IsSeq
<1>2. s \in Seq(S \union {e}) /\ e \in S \union {e}
  BY <1>1, SeqMonotonic
<1>. QED
  BY <1>2, AppendProperties, LenProperties DEF IsSeq

\* The mutations of a batch lead back from v to w.
IsWayBack(path, w, v, undo) ==
    /\ path[0] = w /\ path[Len(undo)] = v
    /\ \A i \in 1..Len(undo) : Undo(At(path[i]), undo[i]) = At(path[i - 1])

\* There is such a way back.
LeadsBack(w, v, undo) == IsSeq(undo) /\ \E path : IsWayBack(path, w, v, undo)

\* Outside the positions touched, or below them if rows came or went, v is as w.
Touches(w, v, touched, throughEnd) ==
    /\ \E b \in Nat : touched \subseteq 1..b
    /\ touched = {} => v = w
    /\ \A j \in Nat \ {0} : touched # {} /\ (\A t \in touched : j < t) =>
          j <= Len(w) /\ j <= Len(v) /\ v[j] = w[j]
    /\ ~throughEnd => /\ Len(v) = Len(w) /\ touched \subseteq 1..Len(v)
                      /\ \A j \in 1..Len(v) : (\A t \in touched : t < j) => v[j] = w[j]

\* What is true of a batch in place that began at w, whether it still fits or not.
IsBatch(a, w) ==
    \E v, undo, touched, throughEnd, fits :
        /\ a = Batch(v, undo, touched, throughEnd, fits)
        /\ throughEnd \in BOOLEAN /\ fits \in BOOLEAN
        /\ IsWindow(v) /\ LeadsBack(w, v, undo) /\ Touches(w, v, touched, throughEnd)

\* Outside the positions an operation touches the window is as it was.
LEMMA EditTouches ==
  ASSUME NEW w, IsWindow(w), NEW op \in Operations, FitsWindow(w, op)
  PROVE  /\ TouchedBy(w, op) # {}
         /\ Touches(w, Edit(w, op), TouchedBy(w, op), Shifts(op))
<1>. DEFINE n == Edit(w, op)
            T == TouchedBy(w, op)
<1>1. op.type \in {"insert", "update", "move", "remove"}
  BY OperationIs
<1>2. w \in Seq(Entry) /\ Len(w) \in Nat
  BY WindowIs
<1>3. CASE op.type = "insert"
  <2>. DEFINE i == op.index
              e == [key |-> op.key, row |-> op.row]
  <2>1. n = InsertAt(w, i, e) /\ T = {i} /\ Shifts(op) /\ i \in 1..(Len(w) + 1)
    BY <1>3 DEF Edit, TouchedBy, Shifts, FitsWindow
  <2>2. e \in Entry
    BY <1>3, OperationIs DEF Entry
  <2>. HIDE DEF e, i, T, n
  <2>3. IsInserted(n, Entry, w, i, e)
    BY <1>2, <2>1, <2>2, InsertAtIs
  <2>4. /\ Len(n) = Len(w) + 1
        /\ \A j \in 1..(Len(w) + 1) : j < i => n[j] = w[j]
    BY <2>3 DEF IsInserted
  <2>5. \A j \in Nat \ {0} : j < i => j <= Len(w) /\ j <= Len(n) /\ n[j] = w[j]
    BY <1>2, <2>1, <2>4
  <2>6. Touches(w, n, T, Shifts(op))
    BY <1>2, <2>1, <2>5 DEF Touches
  <2>. QED
    BY <2>1, <2>6 DEF n, T
<1>4. CASE op.type = "update"
  <2>. DEFINE i == op.index
  <2>1. n = [w EXCEPT ![i].row = op.row] /\ T = {i} /\ ~Shifts(op) /\ i \in 1..Len(w)
        /\ op.row \in Rows
    BY <1>4, OperationIs DEF Edit, TouchedBy, Shifts, FitsWindow
  <2>. HIDE DEF i, T, n
  <2>2. IsUpdated(n, w, i, op.row)
    BY <2>1, UpdateIs
  <2>3. Len(n) = Len(w) /\ \A j \in 1..Len(w) : j # i => n[j] = w[j]
    BY <2>2 DEF IsUpdated
  <2>4. \A j \in Nat \ {0} : j < i => j <= Len(w) /\ j <= Len(n) /\ n[j] = w[j]
    BY <1>2, <2>1, <2>3
  <2>5. T \subseteq 1..Len(n) /\ \A j \in 1..Len(n) : i < j => n[j] = w[j]
    BY <1>2, <2>1, <2>3
  <2>6. Touches(w, n, T, Shifts(op))
    BY <1>2, <2>1, <2>3, <2>4, <2>5 DEF Touches
  <2>. QED
    BY <2>1, <2>6 DEF n, T
<1>5. CASE op.type = "move"
  <2>. DEFINE f == op.fromIndex
              t == op.toIndex
  <2>1. n = Moved(w, f, t) /\ T = {f, t} /\ ~Shifts(op) /\ f \in 1..Len(w) /\ t \in 1..Len(w)
    BY <1>5 DEF Edit, TouchedBy, Shifts, FitsWindow
  <2>. HIDE DEF f, t, T, n
  <2>2. IsMoved(n, Entry, w, f, t)
    BY <1>2, <2>1, MovedIs
  <2>3. Len(n) = Len(w) /\ \A j \in 1..Len(w) : n[j] = w[Origin(f, t, j)]
    BY <2>2 DEF IsMoved
  <2>4. /\ \A j \in 1..Len(w) : j < f /\ j < t => n[j] = w[j]
        /\ \A j \in 1..Len(w) : j > f /\ j > t => n[j] = w[j]
    BY <1>2, <2>1, <2>3 DEF Origin
  <2>5. \A j \in Nat \ {0} : j < f /\ j < t => j <= Len(w) /\ j <= Len(n) /\ n[j] = w[j]
    BY <1>2, <2>1, <2>3, <2>4
  <2>6. Touches(w, n, T, Shifts(op))
    <3>1. T \subseteq 1..Len(n) /\ T # {}
      BY <2>1, <2>3
    <3>2. \A j \in Nat \ {0} : (\A x \in T : j < x) => j <= Len(w) /\ j <= Len(n) /\ n[j] = w[j]
      BY <2>1, <2>5
    <3>3. \A j \in 1..Len(n) : (\A x \in T : x < j) => n[j] = w[j]
      BY <1>2, <2>1, <2>3, <2>4
    <3>. QED
      BY <1>2, <2>1, <2>3, <3>1, <3>2, <3>3 DEF Touches
  <2>. QED
    BY <2>1, <2>6 DEF n, T
<1>6. CASE op.type = "remove"
  <2>. DEFINE i == PositionOf(w, op.key)
  <2>1. n = RemoveAt(w, i) /\ T = {i} /\ Shifts(op) /\ i \in 1..Len(w)
    BY <1>6, RemoveEdit DEF TouchedBy, Shifts
  <2>. HIDE DEF i, T, n
  <2>3. IsRemoved(n, Entry, w, i)
    BY <1>2, <2>1, RemoveAtIs
  <2>4. /\ Len(n) = Len(w) - 1
        /\ \A j \in 1..(Len(w) - 1) : j < i => n[j] = w[j]
    BY <2>3 DEF IsRemoved
  <2>5. \A j \in Nat \ {0} : j < i => j <= Len(w) /\ j <= Len(n) /\ n[j] = w[j]
    BY <1>2, <2>1, <2>4
  <2>6. Touches(w, n, T, Shifts(op))
    BY <1>2, <2>1, <2>5 DEF Touches
  <2>. QED
    BY <2>1, <2>6 DEF n, T
<1>. QED
  BY <1>1, <1>3, <1>4, <1>5, <1>6

\* The same of one operation more.
LEMMA TouchesThen ==
  ASSUME NEW w, NEW v, NEW n, IsWindow(w), IsWindow(v), IsWindow(n),
         NEW touched, NEW throughEnd \in BOOLEAN, Touches(w, v, touched, throughEnd),
         NEW more, NEW shifts \in BOOLEAN, Touches(v, n, more, shifts), more # {}
  PROVE  Touches(w, n, touched \union more, IF shifts THEN TRUE ELSE throughEnd)
<1>. DEFINE T == touched \union more
            end == IF shifts THEN TRUE ELSE throughEnd
<1>0. Len(w) \in Nat /\ Len(v) \in Nat /\ Len(n) \in Nat
  BY WindowIs
<1>1. \E b \in Nat : T \subseteq 1..b
  <2>1. PICK b \in Nat, c \in Nat : touched \subseteq 1..b /\ more \subseteq 1..c
    BY DEF Touches
  <2>2. b + c \in Nat /\ T \subseteq 1..(b + c)
    BY <2>1
  <2>. QED
    BY <2>2
<1>2. ASSUME NEW j \in Nat \ {0}, \A t \in T : j < t
      PROVE  j <= Len(w) /\ j <= Len(n) /\ n[j] = w[j]
  <2>1. j <= Len(v) /\ j <= Len(n) /\ n[j] = v[j]
    BY <1>2 DEF Touches
  <2>2. j <= Len(w) /\ v[j] = w[j]
    BY <1>2, <2>1 DEF Touches
  <2>. QED
    BY <2>1, <2>2
<1>3. ASSUME ~end
      PROVE  /\ Len(n) = Len(w) /\ T \subseteq 1..Len(n)
             /\ \A j \in 1..Len(n) : (\A t \in T : t < j) => n[j] = w[j]
  <2>1. ~shifts /\ ~throughEnd
    BY <1>3
  <2>2. /\ Len(v) = Len(w) /\ touched \subseteq 1..Len(v)
        /\ \A j \in 1..Len(v) : (\A t \in touched : t < j) => v[j] = w[j]
    BY <2>1 DEF Touches
  <2>3. /\ Len(n) = Len(v) /\ more \subseteq 1..Len(n)
        /\ \A j \in 1..Len(n) : (\A t \in more : t < j) => n[j] = v[j]
    BY <2>1 DEF Touches
  <2>. QED
    BY <2>2, <2>3
<1>4. T # {}
  OBVIOUS
<1>. HIDE DEF T, end
<1>5. Touches(w, n, T, end)
  BY <1>1, <1>2, <1>3, <1>4 DEF Touches
<1>. QED
  BY <1>5 DEF T, end

\* With one mutation more the way back is one longer.
LEMMA LeadsBackThen ==
  ASSUME NEW w, NEW v, NEW n, NEW undo, LeadsBack(w, v, undo), NEW u, Undo(At(n), u) = At(v)
  PROVE  LeadsBack(w, n, Append(undo, u))
<1>. DEFINE m == Len(undo)
            all == Append(undo, u)
<1>1. /\ IsSeq(all) /\ m \in Nat /\ Len(all) = m + 1 /\ all[m + 1] = u
      /\ \A i \in 1..m : all[i] = undo[i]
  BY AppendAny DEF LeadsBack
<1>2. PICK path : IsWayBack(path, w, v, undo)
  BY DEF LeadsBack
<1>. DEFINE q == [i \in 0..(m + 1) |-> IF i = m + 1 THEN n ELSE path[i]]
<1>3. /\ q[0] = path[0] /\ q[m + 1] = n /\ q[m] = path[m]
      /\ \A i \in 1..m : q[i] = path[i] /\ q[i - 1] = path[i - 1]
  BY <1>1
<1>4. /\ path[0] = w /\ path[m] = v
      /\ \A i \in 1..m : Undo(At(path[i]), undo[i]) = At(path[i - 1])
  BY <1>2 DEF IsWayBack
<1>. HIDE DEF q, all, m
<1>5. \A i \in 1..(m + 1) : Undo(At(q[i]), all[i]) = At(q[i - 1])
  <2>1. ASSUME NEW i \in 1..(m + 1)
        PROVE  Undo(At(q[i]), all[i]) = At(q[i - 1])
    <3>1. CASE i = m + 1
      <4>1. i - 1 = m
        BY <1>1, <3>1
      <4>. QED
        BY <1>1, <1>3, <1>4, <3>1, <4>1
    <3>2. CASE i # m + 1
      <4>1. i \in 1..m
        BY <1>1, <3>2
      <4>. QED
        BY <1>1, <1>3, <1>4, <4>1
    <3>. QED
      BY <3>1, <3>2
  <2>. QED
    BY <2>1
<1>6. IsWayBack(q, w, n, all)
  BY <1>1, <1>3, <1>4, <1>5 DEF IsWayBack
<1>. QED
  BY <1>1, <1>6 DEF LeadsBack, all

\* What Applied has computed after each operation.
IsRun(apply, w, operations) ==
    /\ apply[0] = Opening(w, IndexesOf(w))
    /\ \A i \in 1..Len(operations) : apply[i] = Step(apply[i - 1], operations[i])

\* Applied is the last of them.
LEMMA AppliedIsLast ==
  ASSUME NEW w, NEW operations \in Seq(Operations)
  PROVE  \E apply : /\ IsRun(apply, w, operations)
                    /\ Applied(w, IndexesOf(w), operations) = apply[Len(operations)]
<1>. DEFINE n == Len(operations)
            base == Opening(w, IndexesOf(w))
            Then(x, i) == Step(x, operations[i])
            Rec(f, k) == [i \in 0..k |-> IF i = 0 THEN base ELSE Then(f[i - 1], i)]
            P == {k \in 0..n : \E f : f = Rec(f, k)}
<1>0. n \in Nat
  BY LenProperties
<1>8. ASSUME NEW f, NEW k \in Nat, f = Rec(f, k)
      PROVE  f[0] = base /\ \A i \in 1..k : f[i] = Then(f[i - 1], i)
  <2>. HIDE DEF Then, base
  <2>. QED
    BY <1>8
<1>1. 0 \in P
  <2>. DEFINE f == [i \in 0..0 |-> base]
  <2>. HIDE DEF base, Then
  <2>1. f = Rec(f, 0)
    OBVIOUS
  <2>. HIDE DEF Rec, f
  <2>. QED
    BY <1>0, <2>1
<1>2. ASSUME NEW k \in 1..n, k - 1 \in P
      PROVE  k \in P
  <2>1. PICK f : f = Rec(f, k - 1)
    BY <1>2
  <2>. DEFINE h == [i \in 0..k |-> IF i = k THEN Then(f[k - 1], k) ELSE f[i]]
  <2>2. f[0] = base /\ \A i \in 1..(k - 1) : f[i] = Then(f[i - 1], i)
    <3>1. k - 1 \in Nat
      BY <1>0
    <3>. HIDE DEF Rec
    <3>. QED
      BY <1>8, <2>1, <3>1
  <2>. HIDE DEF Then, base
  <2>3. \A i \in 0..k : h[i] = IF i = 0 THEN base ELSE Then(h[i - 1], i)
    BY <1>0, <2>2
  <2>4. h = Rec(h, k)
    <3>1. h = [i \in 0..k |-> h[i]]
      OBVIOUS
    <3>. HIDE DEF h
    <3>. QED
      BY <2>3, <3>1
  <2>. HIDE DEF Rec, h
  <2>. QED
    BY <1>0, <2>4
<1>3. n \in P
  <2>. HIDE DEF P
  <2>. QED
    BY <1>0, <1>1, <1>2, Induction
<1>. DEFINE apply == CHOOSE f : f = Rec(f, n)
<1>4. apply = Rec(apply, n)
  <2>. HIDE DEF Rec, n
  <2>. QED
    BY <1>3
<1>5. Applied(w, IndexesOf(w), operations) = apply[n]
  BY DEF Applied
<1>. HIDE DEF apply
<1>6. apply[0] = base /\ \A i \in 1..n : apply[i] = Then(apply[i - 1], i)
  <2>. HIDE DEF Rec, n
  <2>. QED
    BY <1>0, <1>4, <1>8
<1>. QED
  BY <1>5, <1>6 DEF IsRun

\* A batch begins with the client's window and nothing touched.
LEMMA OpeningIs ==
  ASSUME NEW w
  PROVE  Opening(w, IndexesOf(w)) = Batch(w, <<>>, {}, FALSE, TRUE)
BY DEF Opening, Batch

\* It is a batch.
LEMMA OpeningIsBatch ==
  ASSUME NEW w, IsWindow(w)
  PROVE  IsBatch(Opening(w, IndexesOf(w)), w)
<1>1. LeadsBack(w, w, <<>>)
  <2>1. IsSeq(<<>>) /\ Len(<<>>) = 0
    BY EmptySeq DEF IsSeq
  <2>2. IsWayBack([i \in {0} |-> w], w, w, <<>>)
    BY <2>1 DEF IsWayBack
  <2>. QED
    BY <2>1, <2>2 DEF LeadsBack
<1>2. Touches(w, w, {}, FALSE)
  <2>1. {} \subseteq 1..0 /\ 0 \in Nat
    OBVIOUS
  <2>. QED
    BY <2>1 DEF Touches
<1>. QED
  BY <1>1, <1>2, OpeningIs DEF IsBatch

\* An operation that does not fit only sets a flag.
LEMMA NotFitting ==
  ASSUME NEW v, NEW undo, NEW touched, NEW throughEnd, NEW fits, NEW x
  PROVE  [Batch(v, undo, touched, throughEnd, fits) EXCEPT !.fits = x]
             = Batch(v, undo, touched, throughEnd, x)
BY DEF Batch

\* A step of the batch: the operation, or the first that does not fit.
LEMMA StepIs ==
  ASSUME NEW v, IsWindow(v), NEW undo, NEW touched, NEW throughEnd, NEW fits,
         NEW op \in Operations
  PROVE  Step(Batch(v, undo, touched, throughEnd, fits), op)
             = IF fits /\ FitsWindow(v, op)
               THEN Batch(Edit(v, op), Append(undo, UndoOf(v, op)),
                          touched \union TouchedBy(v, op), Ends(throughEnd, op), fits)
               ELSE Batch(v, undo, touched, throughEnd, FALSE)
<1>. DEFINE a == Batch(v, undo, touched, throughEnd, fits)
<1>1. Fits(a, op) <=> FitsWindow(v, op)
  BY FitsIs
<1>2. a.fits = fits /\ [a EXCEPT !.fits = FALSE] = Batch(v, undo, touched, throughEnd, FALSE)
  <2>1. a.fits = fits
    BY DEF Batch
  <2>2. [a EXCEPT !.fits = FALSE] = Batch(v, undo, touched, throughEnd, FALSE)
    <3>1. \A x : [a EXCEPT !.fits = x] = Batch(v, undo, touched, throughEnd, x)
      BY NotFitting
    <3>. HIDE DEF a
    <3>. QED
      BY <3>1
  <2>. QED
    BY <2>1, <2>2
<1>3. FitsWindow(v, op) =>
        Change(a, op) = Batch(Edit(v, op), Append(undo, UndoOf(v, op)),
                              touched \union TouchedBy(v, op), Ends(throughEnd, op), fits)
  BY ChangeIs
<1>. HIDE DEF a
<1>4. Step(a, op) = IF fits /\ FitsWindow(v, op)
                    THEN Batch(Edit(v, op), Append(undo, UndoOf(v, op)),
                               touched \union TouchedBy(v, op), Ends(throughEnd, op), fits)
                    ELSE Batch(v, undo, touched, throughEnd, FALSE)
  BY <1>1, <1>2, <1>3 DEF Step
<1>. QED
  BY <1>4 DEF a

\* Each operation leaves a batch one.
LEMMA StepIsBatch ==
  ASSUME NEW w, IsWindow(w), NEW a, IsBatch(a, w), NEW op \in Operations
  PROVE  IsBatch(Step(a, op), w)
<1>1. PICK v, undo, touched, throughEnd, fits :
          /\ a = Batch(v, undo, touched, throughEnd, fits)
          /\ throughEnd \in BOOLEAN /\ fits \in BOOLEAN
          /\ IsWindow(v) /\ LeadsBack(w, v, undo) /\ Touches(w, v, touched, throughEnd)
  BY DEF IsBatch
<1>2. Step(a, op) = IF fits /\ FitsWindow(v, op)
                    THEN Batch(Edit(v, op), Append(undo, UndoOf(v, op)),
                               touched \union TouchedBy(v, op), Ends(throughEnd, op), fits)
                    ELSE Batch(v, undo, touched, throughEnd, FALSE)
  BY <1>1, StepIs
<1>3. CASE fits /\ FitsWindow(v, op)
  <2>. DEFINE n == Edit(v, op)
              u == Append(undo, UndoOf(v, op))
              T == touched \union TouchedBy(v, op)
              end == Ends(throughEnd, op)
  <2>3. IsWindow(n) /\ Undo(At(n), UndoOf(v, op)) = At(v)
    BY <1>1, <1>3, EditIs
  <2>4. LeadsBack(w, n, u)
    BY <1>1, <2>3, LeadsBackThen
  <2>5. Touches(w, n, T, end)
    <3>1. Shifts(op) \in BOOLEAN
      BY DEF Shifts
    <3>2. TouchedBy(v, op) # {} /\ Touches(v, n, TouchedBy(v, op), Shifts(op))
      BY <1>1, <1>3, EditTouches
    <3>3. Touches(w, n, T, IF Shifts(op) THEN TRUE ELSE throughEnd)
      BY <1>1, <2>3, <3>1, <3>2, TouchesThen
    <3>. QED
      BY <3>3 DEF Ends
  <2>6. end \in BOOLEAN
    BY <1>1 DEF Ends
  <2>. HIDE DEF n, u, T, end
  <2>8. IsBatch(Batch(n, u, T, end, fits), w)
    BY <1>1, <2>3, <2>4, <2>5, <2>6 DEF IsBatch
  <2>. QED
    BY <1>2, <1>3, <2>8 DEF n, u, T, end
<1>4. CASE ~(fits /\ FitsWindow(v, op))
  <2>1. IsBatch(Batch(v, undo, touched, throughEnd, FALSE), w)
    BY <1>1 DEF IsBatch
  <2>. QED
    BY <1>2, <1>4, <2>1
<1>. QED
  BY <1>3, <1>4

\* However many operations fit, what has been applied is a batch.
LEMMA AppliedIs ==
  ASSUME NEW w, IsWindow(w), NEW operations \in Seq(Operations)
  PROVE  IsBatch(Applied(w, IndexesOf(w), operations), w)
<1>. DEFINE n == Len(operations)
<1>0. n \in Nat /\ \A i \in 1..n : operations[i] \in Operations
  BY LenProperties, ElementOfSeq
<1>1. PICK apply : IsRun(apply, w, operations) /\ Applied(w, IndexesOf(w), operations) = apply[n]
  BY AppliedIsLast
<1>. DEFINE P == {i \in 0..n : IsBatch(apply[i], w)}
<1>5. apply[0] = Opening(w, IndexesOf(w))
  BY <1>1 DEF IsRun
<1>6. \A i \in 1..n : apply[i] = Step(apply[i - 1], operations[i])
  BY <1>1 DEF IsRun
<1>. HIDE DEF n
<1>2. 0 \in P
  BY <1>0, <1>5, OpeningIsBatch
<1>3. ASSUME NEW i \in 1..n, i - 1 \in P
      PROVE  i \in P
  BY <1>0, <1>3, <1>6, StepIsBatch
<1>. HIDE DEF P
<1>4. \A i \in 0..n : i \in P
  BY <1>0, <1>2, <1>3, Induction
<1>. QED
  BY <1>0, <1>1, <1>4 DEF P, n

-----------------------------------------------------------------------------
(* The way back *)

\* However far a batch in place has come, its mutations undone newest first give the
\* window and the index it began with (rollbackMutations).
LEMMA RolledBackIs ==
  ASSUME NEW w, NEW a, IsBatch(a, w)
  PROVE  RolledBack(a) = At(w)
<1>1. PICK v, undo, touched, throughEnd, fits :
          a = Batch(v, undo, touched, throughEnd, fits) /\ LeadsBack(w, v, undo)
  BY DEF IsBatch
<1>2. PICK path : IsWayBack(path, w, v, undo)
  BY <1>1 DEF LeadsBack
<1>. DEFINE n == Len(undo)
            base == [window |-> a.window, indexes |-> a.indexes]
            Then(x, i) == Undo(x, undo[n + 1 - i])
            Rec(f) == [i \in 0..n |-> IF i = 0 THEN base ELSE Then(f[i - 1], i)]
<1>3. n \in Nat
  BY <1>1, AppendAny DEF LeadsBack
<1>4. a.undo = undo /\ base = At(v)
  BY <1>1 DEF Batch, At
<1>5. RolledBack(a) = (CHOOSE f : f = Rec(f))[n]
  BY <1>4 DEF RolledBack
<1>6. path[0] = w /\ path[n] = v /\ \A i \in 1..n : Undo(At(path[i]), undo[i]) = At(path[i - 1])
  BY <1>2 DEF IsWayBack
<1>. HIDE DEF base, n
<1>. DEFINE g == [i \in 0..n |-> At(path[n - i])]
<1>7. g = Rec(g)
  <2>1. g[0] = base
    BY <1>3, <1>4, <1>6
  <2>2. ASSUME NEW i \in 1..n
        PROVE  g[i] = Then(g[i - 1], i)
    <3>1. g[i] = At(path[n - i]) /\ g[i - 1] = At(path[n - (i - 1)]) /\ n - (i - 1) = n + 1 - i
      BY <1>3
    <3>2. n + 1 - i \in 1..n /\ (n + 1 - i) - 1 = n - i
      BY <1>3
    <3>3. Undo(At(path[n + 1 - i]), undo[n + 1 - i]) = At(path[n - i])
      BY <1>6, <3>2
    <3>. QED
      BY <3>1, <3>3
  <2>3. g = [i \in 0..n |-> g[i]]
    OBVIOUS
  <2>. HIDE DEF g, Then
  <2>4. \A i \in 0..n : g[i] = IF i = 0 THEN base ELSE Then(g[i - 1], i)
    BY <1>3, <2>1, <2>2
  <2>. QED
    BY <2>3, <2>4
<1>. DEFINE back == CHOOSE f : f = Rec(f)
<1>8. back = Rec(back)
  BY <1>7
<1>. HIDE DEF back
<1>. DEFINE P == {i \in 0..n : back[i] = g[i]}
<1>9. \A i \in 1..n : back[i] = Then(back[i - 1], i) /\ g[i] = Then(g[i - 1], i)
  <2>. HIDE DEF Then, g
  <2>. QED
    BY <1>3, <1>7, <1>8
<1>10. back[0] = base /\ g[0] = base
  <2>. HIDE DEF Then, g
  <2>. QED
    BY <1>3, <1>7, <1>8
<1>. HIDE DEF Then, g
<1>11. 0 \in P
  BY <1>3, <1>10
<1>12. ASSUME NEW i \in 1..n, i - 1 \in P
       PROVE  i \in P
  BY <1>3, <1>9, <1>12
<1>. HIDE DEF P
<1>13. n \in P
  BY <1>3, <1>11, <1>12, Induction
<1>14. back[n] = g[n]
  BY <1>13 DEF P
<1>15. g[n] = At(w)
  BY <1>3, <1>6 DEF g
<1>. QED
  BY <1>5, <1>14, <1>15 DEF back

-----------------------------------------------------------------------------
(* The elements of a sequence at some positions *)

\* What Only has kept after each position.
IsKeeping(kept, s, positions) ==
    /\ kept[0] = <<>>
    /\ \A i \in 1..Len(s) :
          kept[i] = IF i \in positions THEN Append(kept[i - 1], s[i]) ELSE kept[i - 1]

\* Only is the last of them.
LEMMA OnlyIsLast ==
  ASSUME NEW s, Len(s) \in Nat, NEW positions
  PROVE  \E kept : IsKeeping(kept, s, positions) /\ Only(s, positions) = kept[Len(s)]
<1>. DEFINE n == Len(s)
            base == <<>>
            Then(x, i) == IF i \in positions THEN Append(x, s[i]) ELSE x
            Rec(f, k) == [i \in 0..k |-> IF i = 0 THEN base ELSE Then(f[i - 1], i)]
            P == {k \in 0..n : \E f : f = Rec(f, k)}
<1>0. n \in Nat
  OBVIOUS
<1>8. ASSUME NEW f, NEW k \in Nat, f = Rec(f, k)
      PROVE  f[0] = base /\ \A i \in 1..k : f[i] = Then(f[i - 1], i)
  <2>. HIDE DEF Then, base
  <2>. QED
    BY <1>8
<1>1. 0 \in P
  <2>. DEFINE f == [i \in 0..0 |-> base]
  <2>. HIDE DEF base, Then
  <2>1. f = Rec(f, 0)
    OBVIOUS
  <2>. HIDE DEF Rec, f
  <2>. QED
    BY <1>0, <2>1
<1>2. ASSUME NEW k \in 1..n, k - 1 \in P
      PROVE  k \in P
  <2>1. PICK f : f = Rec(f, k - 1)
    BY <1>2
  <2>. DEFINE h == [i \in 0..k |-> IF i = k THEN Then(f[k - 1], k) ELSE f[i]]
  <2>2. f[0] = base /\ \A i \in 1..(k - 1) : f[i] = Then(f[i - 1], i)
    <3>1. k - 1 \in Nat
      BY <1>0
    <3>. HIDE DEF Rec
    <3>. QED
      BY <1>8, <2>1, <3>1
  <2>. HIDE DEF Then, base
  <2>3. \A i \in 0..k : h[i] = IF i = 0 THEN base ELSE Then(h[i - 1], i)
    BY <1>0, <2>2
  <2>4. h = Rec(h, k)
    <3>1. h = [i \in 0..k |-> h[i]]
      OBVIOUS
    <3>. HIDE DEF h
    <3>. QED
      BY <2>3, <3>1
  <2>. HIDE DEF Rec, h
  <2>. QED
    BY <1>0, <2>4
<1>3. n \in P
  <2>. HIDE DEF P, n
  <2>1. \A i \in 0..n : i \in P
    BY <1>0, <1>1, <1>2, Induction
  <2>. QED
    BY <1>0, <2>1
<1>. DEFINE kept == CHOOSE f : f = Rec(f, n)
<1>4. kept = Rec(kept, n)
  <2>. HIDE DEF Rec, n
  <2>. QED
    BY <1>3
<1>5. Only(s, positions) = kept[n]
  BY DEF Only
<1>. HIDE DEF kept
<1>6. kept[0] = base /\ \A i \in 1..n : kept[i] = Then(kept[i - 1], i)
  <2>. HIDE DEF Rec, n, Then, base
  <2>. QED
    BY <1>0, <1>4, <1>8
<1>. QED
  BY <1>5, <1>6 DEF IsKeeping

\* s with e behind it.
IsAppended(n, S, s, e) ==
    /\ n \in Seq(S) /\ Len(s) \in Nat /\ Len(n) = Len(s) + 1 /\ n[Len(s) + 1] = e
    /\ \A j \in 1..Len(s) : n[j] = s[j]

\* Append does that.
LEMMA AppendIs ==
  ASSUME NEW S, NEW s \in Seq(S), NEW e \in S
  PROVE  IsAppended(Append(s, e), S, s, e)
BY AppendProperties, LenProperties DEF IsAppended

\* What has been kept so far are the elements of the positions so far.
LEMMA KeptIsSeq ==
  ASSUME NEW S, NEW s \in Seq(S), NEW positions, NEW kept, IsKeeping(kept, s, positions)
  PROVE  \A i \in 0..Len(s) :
            /\ kept[i] \in Seq(S)
            /\ \A j \in 1..Len(kept[i]) : \E a \in positions \intersect (1..i) : kept[i][j] = s[a]
            /\ \A a \in positions \intersect (1..i) : \E j \in 1..Len(kept[i]) : kept[i][j] = s[a]
<1>. DEFINE n == Len(s)
            Good(i) == /\ kept[i] \in Seq(S)
                       /\ \A j \in 1..Len(kept[i]) :
                             \E a \in positions \intersect (1..i) : kept[i][j] = s[a]
                       /\ \A a \in positions \intersect (1..i) :
                             \E j \in 1..Len(kept[i]) : kept[i][j] = s[a]
            P == {i \in 0..n : Good(i)}
<1>0. n \in Nat /\ \A i \in 1..n : s[i] \in S
  BY LenProperties, ElementOfSeq
<1>1. kept[0] = <<>> /\ \A i \in 1..n : kept[i] = IF i \in positions THEN Append(kept[i - 1], s[i]) ELSE kept[i - 1]
  BY DEF IsKeeping
<1>. HIDE DEF n
<1>2. 0 \in P
  <2>1. kept[0] \in Seq(S) /\ Len(kept[0]) = 0 /\ positions \intersect (1..0) = {}
    BY <1>1, EmptySeq
  <2>. QED
    BY <1>0, <2>1
<1>3. ASSUME NEW i \in 1..n, i - 1 \in P
      PROVE  i \in P
  <2>1. Good(i - 1)
    BY <1>3
  <2>2. CASE i \in positions
    <3>1. /\ kept[i] \in Seq(S) /\ Len(kept[i]) = Len(kept[i - 1]) + 1
          /\ kept[i][Len(kept[i - 1]) + 1] = s[i] /\ Len(kept[i - 1]) \in Nat
          /\ \A j \in 1..Len(kept[i - 1]) : kept[i][j] = kept[i - 1][j]
      <4>1. IsAppended(kept[i], S, kept[i - 1], s[i])
        BY <1>0, <1>1, <2>1, <2>2, AppendIs
      <4>. QED
        BY <4>1 DEF IsAppended
    <3>2. \A j \in 1..Len(kept[i]) : \E a \in positions \intersect (1..i) : kept[i][j] = s[a]
      <4>1. ASSUME NEW j \in 1..Len(kept[i])
            PROVE  \E a \in positions \intersect (1..i) : kept[i][j] = s[a]
        <5>1. CASE j = Len(kept[i - 1]) + 1
          BY <1>0, <2>2, <3>1, <5>1
        <5>2. CASE j # Len(kept[i - 1]) + 1
          <6>1. j \in 1..Len(kept[i - 1])
            BY <3>1, <5>2
          <6>2. PICK a \in positions \intersect (1..(i - 1)) : kept[i - 1][j] = s[a]
            BY <2>1, <6>1
          <6>3. a \in positions \intersect (1..i)
            BY <1>0
          <6>. QED
            BY <3>1, <6>1, <6>2, <6>3
        <5>. QED
          BY <5>1, <5>2
      <4>. QED
        BY <4>1
    <3>3. \A a \in positions \intersect (1..i) : \E j \in 1..Len(kept[i]) : kept[i][j] = s[a]
      <4>1. ASSUME NEW a \in positions \intersect (1..i)
            PROVE  \E j \in 1..Len(kept[i]) : kept[i][j] = s[a]
        <5>1. CASE a = i
          BY <3>1, <5>1
        <5>2. CASE a # i
          <6>1. a \in positions \intersect (1..(i - 1))
            BY <1>0, <5>2
          <6>2. PICK j \in 1..Len(kept[i - 1]) : kept[i - 1][j] = s[a]
            BY <2>1, <6>1
          <6>3. j \in 1..Len(kept[i]) /\ kept[i][j] = s[a]
            BY <3>1, <6>2
          <6>. QED
            BY <6>3
        <5>. QED
          BY <5>1, <5>2
      <4>. QED
        BY <4>1
    <3>. QED
      BY <1>0, <3>1, <3>2, <3>3
  <2>3. CASE i \notin positions
    <3>1. kept[i] = kept[i - 1]
      BY <1>1, <2>3
    <3>2. positions \intersect (1..i) = positions \intersect (1..(i - 1))
      BY <1>0, <2>3
    <3>. HIDE DEF Good
    <3>3. Good(i)
      BY <2>1, <3>1, <3>2 DEF Good
    <3>. QED
      BY <1>0, <3>3
  <2>. QED
    BY <2>2, <2>3
<1>. HIDE DEF P
<1>4. \A i \in 0..n : i \in P
  BY <1>0, <1>2, <1>3, Induction
<1>. QED
  BY <1>4 DEF P, n

\* Only has the elements of its positions, and no other.
LEMMA OnlyIs ==
  ASSUME NEW S, NEW s \in Seq(S), NEW positions
  PROVE  /\ Only(s, positions) \in Seq(S)
         /\ \A j \in 1..Len(Only(s, positions)) :
                \E a \in positions \intersect (1..Len(s)) : Only(s, positions)[j] = s[a]
         /\ \A a \in positions \intersect (1..Len(s)) :
                \E j \in 1..Len(Only(s, positions)) : Only(s, positions)[j] = s[a]
<1>1. Len(s) \in Nat
  BY LenProperties
<1>2. PICK kept : IsKeeping(kept, s, positions) /\ Only(s, positions) = kept[Len(s)]
  BY <1>1, OnlyIsLast
<1>3. Len(s) \in 0..Len(s)
  BY <1>1
<1>. QED
  BY <1>2, <1>3, KeptIsSeq

\* All of them, or the first ones.
LEMMA KeptFirst ==
  ASSUME NEW S, NEW s \in Seq(S), NEW positions, NEW kept, IsKeeping(kept, s, positions),
         NEW m \in 0..Len(s), 1..m \subseteq positions
  PROVE  \A i \in 0..m : /\ kept[i] \in Seq(S) /\ Len(kept[i]) = i
                         /\ \A j \in 1..i : kept[i][j] = s[j]
<1>. DEFINE Good(i) == /\ kept[i] \in Seq(S) /\ Len(kept[i]) = i
                       /\ \A j \in 1..i : kept[i][j] = s[j]
            P == {i \in 0..m : Good(i)}
<1>0. Len(s) \in Nat /\ m \in Nat /\ \A i \in 1..m : i \in 1..Len(s) /\ s[i] \in S /\ i \in positions
  BY LenProperties, ElementOfSeq
<1>1. kept[0] = <<>> /\ \A i \in 1..m : kept[i] = Append(kept[i - 1], s[i])
  BY <1>0 DEF IsKeeping
<1>2. 0 \in P
  <2>1. kept[0] \in Seq(S) /\ Len(kept[0]) = 0
    BY <1>1, EmptySeq
  <2>. QED
    BY <1>0, <2>1
<1>3. ASSUME NEW i \in 1..m, i - 1 \in P
      PROVE  i \in P
  <2>1. Good(i - 1)
    BY <1>3
  <2>2. /\ kept[i] \in Seq(S) /\ Len(kept[i]) = (i - 1) + 1
        /\ kept[i][(i - 1) + 1] = s[i]
        /\ \A j \in 1..(i - 1) : kept[i][j] = kept[i - 1][j]
    <3>1. IsAppended(kept[i], S, kept[i - 1], s[i])
      BY <1>0, <1>1, <2>1, AppendIs
    <3>. QED
      BY <2>1, <3>1 DEF IsAppended
  <2>3. (i - 1) + 1 = i /\ \A j \in 1..i : j = i \/ j \in 1..(i - 1)
    BY <1>0
  <2>4. Good(i)
    BY <2>1, <2>2, <2>3
  <2>. QED
    BY <1>0, <2>4
<1>. HIDE DEF P
<1>4. \A i \in 0..m : i \in P
  BY <1>0, <1>2, <1>3, Induction
<1>. QED
  BY <1>4 DEF P

\* All positions: the sequence.
LEMMA OnlyAll ==
  ASSUME NEW S, NEW s \in Seq(S), NEW positions, 1..Len(s) \subseteq positions
  PROVE  Only(s, positions) = s
<1>1. Len(s) \in Nat /\ Len(s) \in 0..Len(s)
  BY LenProperties
<1>2. PICK kept : IsKeeping(kept, s, positions) /\ Only(s, positions) = kept[Len(s)]
  BY <1>1, OnlyIsLast
<1>3. /\ kept[Len(s)] \in Seq(S) /\ Len(kept[Len(s)]) = Len(s)
      /\ \A j \in 1..Len(s) : kept[Len(s)][j] = s[j]
  <2>1. \A i \in 0..Len(s) : /\ kept[i] \in Seq(S) /\ Len(kept[i]) = i
                            /\ \A j \in 1..i : kept[i][j] = s[j]
    BY <1>1, <1>2, KeptFirst
  <2>. QED
    BY <1>1, <2>1
<1>4. kept[Len(s)] = s
  BY <1>3, SeqEqual
<1>. QED
  BY <1>2, <1>4

-----------------------------------------------------------------------------
(* One position less *)

\* An element before the last is removed before or after the last comes.
LEMMA RemoveAtAppend ==
  ASSUME NEW S, NEW s \in Seq(S), NEW e \in S, NEW q \in 1..Len(s)
  PROVE  RemoveAt(Append(s, e), q) = Append(RemoveAt(s, q), e)
<1>. DEFINE a == Append(s, e)
            r == RemoveAt(s, q)
            x == RemoveAt(a, q)
            y == Append(r, e)
<1>0. Len(s) \in Nat
  BY LenProperties
<1>1. a \in Seq(S) /\ Len(a) = Len(s) + 1 /\ a[Len(s) + 1] = e /\ \A j \in 1..Len(s) : a[j] = s[j]
  BY AppendProperties
<1>2. IsRemoved(r, S, s, q)
  BY RemoveAtIs
<1>. HIDE DEF a, r
<1>3. /\ r \in Seq(S) /\ Len(r) = Len(s) - 1
      /\ \A j \in 1..(Len(s) - 1) : r[j] = IF j < q THEN s[j] ELSE s[j + 1]
  BY <1>2 DEF IsRemoved
<1>4. IsRemoved(x, S, a, q)
  <2>1. q \in 1..Len(a)
    BY <1>0, <1>1
  <2>. QED
    BY <1>1, <2>1, RemoveAtIs
<1>5. /\ y \in Seq(S) /\ Len(y) = Len(r) + 1 /\ y[Len(r) + 1] = e
      /\ \A j \in 1..Len(r) : y[j] = r[j]
  BY <1>3, AppendProperties
<1>. HIDE DEF x, y
<1>6. /\ x \in Seq(S) /\ Len(x) = Len(s)
      /\ \A j \in 1..Len(s) : x[j] = IF j < q THEN a[j] ELSE a[j + 1]
  BY <1>0, <1>1, <1>4 DEF IsRemoved
<1>7. Len(y) = Len(s)
  BY <1>0, <1>3, <1>5
<1>8. ASSUME NEW j \in 1..Len(s)
      PROVE  x[j] = y[j]
  <2>1. CASE j = Len(s)
    <3>1. ~(j < q) /\ j = Len(r) + 1
      BY <1>0, <1>3, <2>1
    <3>. QED
      BY <1>1, <1>5, <1>6, <2>1, <3>1
  <2>2. CASE j # Len(s)
    <3>1. j \in 1..(Len(s) - 1) /\ j \in 1..Len(r) /\ j + 1 \in 1..Len(s)
      BY <1>0, <1>3, <2>2
    <3>. QED
      BY <1>1, <1>3, <1>5, <1>6, <3>1
  <2>. QED
    BY <2>1, <2>2
<1>9. x = y
  BY <1>5, <1>6, <1>7, <1>8, SeqEqual
<1>. QED
  BY <1>9 DEF x, y, a, r

\* The last element comes and goes.
LEMMA RemoveAtEnd ==
  ASSUME NEW S, NEW s \in Seq(S), NEW e \in S
  PROVE  RemoveAt(Append(s, e), Len(s) + 1) = s
<1>. DEFINE a == Append(s, e)
            x == RemoveAt(a, Len(s) + 1)
<1>0. Len(s) \in Nat
  BY LenProperties
<1>1. a \in Seq(S) /\ Len(a) = Len(s) + 1 /\ a[Len(s) + 1] = e /\ \A j \in 1..Len(s) : a[j] = s[j]
  BY AppendProperties
<1>. HIDE DEF a
<1>4. IsRemoved(x, S, a, Len(s) + 1)
  <2>1. Len(s) + 1 \in 1..Len(a)
    BY <1>0, <1>1
  <2>. QED
    BY <1>1, <2>1, RemoveAtIs
<1>. HIDE DEF x
<1>6. /\ x \in Seq(S) /\ Len(x) = Len(s)
      /\ \A j \in 1..Len(s) : x[j] = s[j]
  BY <1>0, <1>1, <1>4 DEF IsRemoved
<1>9. x = s
  BY <1>6, SeqEqual
<1>. QED
  BY <1>9 DEF x, a

\* t is s without its element at position q.
IsWithout(t, S, s, q, e) ==
    s \in Seq(S) /\ q \in 1..Len(s) /\ s[q] = e /\ t = RemoveAt(s, q)

\* Without one position more, Only is without one element more: at the position's own
\* place if those before it are all kept.
LEMMA OnlyWithout ==
  ASSUME NEW S, NEW s \in Seq(S), NEW positions, NEW p \in positions \intersect (1..Len(s))
  PROVE  \E q \in Nat : /\ IsWithout(Only(s, positions \ {p}), S, Only(s, positions), q, s[p])
                        /\ 1..p \subseteq positions => q = p
<1>. DEFINE n == Len(s)
            less == positions \ {p}
<1>0. n \in Nat /\ \A i \in 1..n : s[i] \in S
  BY LenProperties, ElementOfSeq
<1>1. PICK k : IsKeeping(k, s, positions) /\ Only(s, positions) = k[n]
  BY <1>0, OnlyIsLast
<1>2. PICK l : IsKeeping(l, s, less) /\ Only(s, less) = l[n]
  BY <1>0, OnlyIsLast
<1>3. /\ k[0] = l[0]
      /\ \A i \in 1..n : /\ k[i] = IF i \in positions THEN Append(k[i - 1], s[i]) ELSE k[i - 1]
                         /\ l[i] = IF i \in less THEN Append(l[i - 1], s[i]) ELSE l[i - 1]
  BY <1>1, <1>2 DEF IsKeeping
<1>4. \A i \in 0..n : k[i] \in Seq(S)
  BY <1>0, <1>1, KeptIsSeq
<1>5. p \in positions /\ p \notin less /\ p \in 1..n /\ \A i : i # p => (i \in less <=> i \in positions)
  OBVIOUS
<1>. HIDE DEF n, less
<1>. DEFINE q == Len(k[p - 1]) + 1
            Good(i) == IF i < p THEN l[i] = k[i] ELSE IsWithout(l[i], S, k[i], q, s[p])
            P == {i \in 0..n : Good(i)}
<1>6. q \in Nat /\ q \in Nat \ {0}
  <2>1. p - 1 \in 0..n
    BY <1>0, <1>5
  <2>. QED
    BY <1>4, <2>1, LenProperties
<1>. HIDE DEF q
<1>7. 0 \in P
  BY <1>0, <1>3, <1>5
<1>8. ASSUME NEW i \in 1..n, i - 1 \in P
      PROVE  i \in P
  <2>0. Good(i - 1) /\ i - 1 \in 0..n /\ i \in 0..n /\ i - 1 \in Int
    BY <1>0, <1>8
  <2>1. CASE i < p
    BY <1>0, <1>3, <1>5, <2>0, <2>1
  <2>2. CASE i = p
    <3>1. l[i] = k[i - 1] /\ k[i] = Append(k[i - 1], s[p])
      <4>1. l[i - 1] = k[i - 1]
        BY <1>0, <1>5, <2>0, <2>2
      <4>2. l[i] = l[i - 1] /\ k[i] = Append(k[i - 1], s[i])
        BY <1>3, <1>5, <2>2
      <4>. QED
        BY <2>2, <4>1, <4>2
    <3>2. k[i - 1] \in Seq(S) /\ s[p] \in S /\ q = Len(k[i - 1]) + 1
      BY <1>0, <1>4, <1>5, <2>0, <2>2 DEF q
    <3>3. RemoveAt(k[i], q) = k[i - 1]
      BY <3>1, <3>2, RemoveAtEnd
    <3>4. k[i] \in Seq(S) /\ q \in 1..Len(k[i]) /\ k[i][q] = s[p]
      BY <1>6, <3>1, <3>2, AppendProperties, LenProperties
    <3>5. IsWithout(l[i], S, k[i], q, s[p])
      BY <3>1, <3>3, <3>4 DEF IsWithout
    <3>. QED
      BY <1>5, <2>0, <2>2, <3>5
  <2>3. CASE i > p
    <3>1. IsWithout(l[i - 1], S, k[i - 1], q, s[p])
      BY <1>0, <1>5, <2>0, <2>3
    <3>2. i \in less <=> i \in positions
      BY <1>5, <2>3
    <3>3. CASE i \in positions
      <4>1. k[i] = Append(k[i - 1], s[i]) /\ l[i] = Append(l[i - 1], s[i])
        BY <1>3, <3>2, <3>3
      <4>2. k[i - 1] \in Seq(S) /\ q \in 1..Len(k[i - 1]) /\ k[i - 1][q] = s[p]
            /\ l[i - 1] = RemoveAt(k[i - 1], q) /\ s[i] \in S
        BY <1>0, <3>1 DEF IsWithout
      <4>3. RemoveAt(k[i], q) = l[i]
        BY <4>1, <4>2, RemoveAtAppend
      <4>4. k[i] \in Seq(S) /\ q \in 1..Len(k[i]) /\ k[i][q] = s[p]
        BY <4>1, <4>2, AppendProperties, LenProperties
      <4>5. IsWithout(l[i], S, k[i], q, s[p])
        BY <4>3, <4>4 DEF IsWithout
      <4>. QED
        BY <1>5, <2>0, <2>3, <4>5
    <3>4. CASE i \notin positions
      <4>1. k[i] = k[i - 1] /\ l[i] = l[i - 1]
        BY <1>3, <3>2, <3>4
      <4>. QED
        BY <1>5, <2>0, <2>3, <3>1, <4>1
    <3>. QED
      BY <3>3, <3>4
  <2>. QED
    BY <1>0, <1>5, <2>1, <2>2, <2>3
<1>. HIDE DEF P
<1>9. \A i \in 0..n : i \in P
  BY <1>0, <1>7, <1>8, Induction
<1>10. IsWithout(l[n], S, k[n], q, s[p])
  BY <1>0, <1>5, <1>9 DEF P
<1>11. ASSUME 1..p \subseteq positions
       PROVE  q = p
  <2>1. p - 1 \in 0..Len(s) /\ 1..(p - 1) \subseteq positions
    BY <1>0, <1>5, <1>11 DEF n
  <2>2. p - 1 \in 0..(p - 1)
    BY <1>0, <1>5
  <2>3. Len(k[p - 1]) = p - 1
    BY <1>1, <2>1, <2>2, KeptFirst
  <2>. QED
    BY <1>0, <1>5, <2>3 DEF q
<1>. QED
  BY <1>1, <1>2, <1>6, <1>10, <1>11 DEF less

-----------------------------------------------------------------------------
(* Operations that lead from one window to another *)

\* Windows of which each is the one before with the next operation applied.
IsPath(path, w, operations, v) ==
    /\ path[0] = w /\ path[Len(operations)] = v
    /\ \A i \in 0..Len(operations) : IsWindow(path[i])
    /\ \A i \in 1..Len(operations) : /\ FitsWindow(path[i - 1], operations[i])
                                     /\ path[i] = Edit(path[i - 1], operations[i])

\* Every operation fits, and the last window is v.
Leads(w, operations, v) ==
    operations \in Seq(Operations) /\ \E path : IsPath(path, w, operations, v)

\* What operations lead to is a window.
LEMMA LeadsToWindow ==
  ASSUME NEW w, NEW operations, NEW v, Leads(w, operations, v)
  PROVE  operations \in Seq(Operations) /\ IsWindow(v)
<1>1. operations \in Seq(Operations) /\ Len(operations) \in Nat
  BY LenProperties DEF Leads
<1>2. PICK path : IsPath(path, w, operations, v)
  BY DEF Leads
<1>. QED
  BY <1>1, <1>2 DEF IsPath

\* No operations, no change.
LEMMA LeadsNowhere ==
  ASSUME NEW w, IsWindow(w)
  PROVE  Leads(w, <<>>, w)
<1>1. <<>> \in Seq(Operations) /\ Len(<<>>) = 0
  BY EmptySeq
<1>2. IsPath([i \in 0..0 |-> w], w, <<>>, w)
  BY <1>1 DEF IsPath
<1>. QED
  BY <1>1, <1>2 DEF Leads

\* One operation more.
LEMMA LeadsThen ==
  ASSUME NEW w, NEW operations, NEW v, Leads(w, operations, v),
         NEW op \in Operations, FitsWindow(v, op)
  PROVE  Leads(w, Append(operations, op), Edit(v, op))
<1>. DEFINE m == Len(operations)
            all == Append(operations, op)
            n == Edit(v, op)
<1>1. operations \in Seq(Operations) /\ IsWindow(v)
  BY LeadsToWindow
<1>2. IsAppended(all, Operations, operations, op)
  BY <1>1, AppendIs
<1>3. IsWindow(n)
  BY <1>1, EditIs
<1>4. PICK path : IsPath(path, w, operations, v)
  BY DEF Leads
<1>5. /\ path[0] = w /\ path[m] = v
      /\ \A i \in 0..m : IsWindow(path[i])
      /\ \A i \in 1..m : FitsWindow(path[i - 1], operations[i]) /\ path[i] = Edit(path[i - 1], operations[i])
  BY <1>4 DEF IsPath
<1>. HIDE DEF all
<1>6. /\ all \in Seq(Operations) /\ m \in Nat /\ Len(all) = m + 1 /\ all[m + 1] = op
      /\ \A i \in 1..m : all[i] = operations[i]
  BY <1>2 DEF IsAppended
<1>. DEFINE q == [i \in 0..(m + 1) |-> IF i = m + 1 THEN n ELSE path[i]]
<1>7. /\ q[0] = path[0] /\ q[m + 1] = n /\ q[m] = path[m]
      /\ \A i \in 1..m : q[i] = path[i] /\ q[i - 1] = path[i - 1]
      /\ \A i \in 0..m : q[i] = path[i]
  BY <1>6
<1>. HIDE DEF q, m
<1>8. ASSUME NEW i \in 1..(m + 1)
      PROVE  FitsWindow(q[i - 1], all[i]) /\ q[i] = Edit(q[i - 1], all[i])
  <2>1. CASE i = m + 1
    <3>1. i - 1 = m
      BY <1>6, <2>1
    <3>. QED
      BY <1>5, <1>6, <1>7, <2>1, <3>1 DEF n
  <2>2. CASE i # m + 1
    <3>1. i \in 1..m
      BY <1>6, <2>2
    <3>. QED
      BY <1>5, <1>6, <1>7, <3>1
  <2>. QED
    BY <2>1, <2>2
<1>9. \A i \in 0..(m + 1) : IsWindow(q[i])
  <2>1. \A i \in 0..(m + 1) : i = m + 1 \/ i \in 0..m
    BY <1>6
  <2>. HIDE DEF n
  <2>. QED
    BY <1>3, <1>5, <1>7, <2>1
<1>. HIDE DEF n
<1>10. IsPath(q, w, all, n)
  BY <1>5, <1>6, <1>7, <1>8, <1>9 DEF IsPath
<1>. QED
  BY <1>6, <1>10 DEF Leads, all, n

\* Append behind a concatenation.
LEMMA ConcatAppend ==
  ASSUME NEW S, NEW s \in Seq(S), NEW t \in Seq(S), NEW e \in S
  PROVE  s \o Append(t, e) = Append(s \o t, e)
<1>1. Append(t, e) = t \o <<e>> /\ Append(s \o t, e) = (s \o t) \o <<e>>
  BY ConcatProperties, AppendIsConcat
<1>2. <<e>> \in Seq(S)
  OBVIOUS
<1>. QED
  BY <1>1, <1>2, ConcatAssociative

\* After some operations, one more.
LEMMA LeadsAfter ==
  ASSUME NEW w, NEW before, NEW operations, operations \in Seq(Operations),
         before \in Seq(Operations), NEW v, Leads(w, before \o operations, v),
         NEW op \in Operations, FitsWindow(v, op)
  PROVE  Leads(w, before \o Append(operations, op), Edit(v, op))
<1>1. before \o Append(operations, op) = Append(before \o operations, op)
  BY ConcatAppend
<1>2. Leads(w, Append(before \o operations, op), Edit(v, op))
  BY LeadsThen
<1>. QED
  BY <1>1, <1>2

-----------------------------------------------------------------------------
(* Updates of some positions *)

\* Updates of the entries whose row differs, where the keys agree position by position.
LEMMA UpdatesLead ==
  ASSUME NEW w, NEW next, IsWindow(w), IsWindow(next), Len(w) = Len(next),
         \A i \in 1..Len(next) : w[i].key = next[i].key,
         NEW first, NEW before, Leads(first, before, w)
  PROVE  Leads(first, before \o UpdatesTo(w, next), next)
<1>. DEFINE n == Len(next)
            ops == [i \in DOMAIN next |-> UpdateOp(next[i], i)]
            P == {i \in DOMAIN next : w[i].row # next[i].row}
            Mix(i) == [j \in 1..n |-> IF j <= i THEN next[j] ELSE w[j]]
<1>0. /\ n \in Nat /\ DOMAIN next = 1..n /\ w \in Seq(Entry) /\ next \in Seq(Entry)
      /\ \A i \in 1..n : next[i] \in Entry /\ w[i] \in Entry
  BY WindowIs
<1>1. \A i \in 1..n : /\ next[i] = [key |-> next[i].key, row |-> next[i].row]
                      /\ w[i] = [key |-> w[i].key, row |-> w[i].row]
                      /\ next[i].row \in Rows
  BY WindowIs
<1>2. ops \in [1..n -> Operations] /\ \A i \in 1..n : ops[i] = UpdateOp(next[i], i)
  BY <1>0, OperationsAre
<1>3. Len(ops) = n /\ ops \in Seq(Operations)
  BY <1>0, <1>2
<1>4. PICK kept : IsKeeping(kept, ops, P) /\ Only(ops, P) = kept[n]
  <2>. HIDE DEF ops, P, n
  <2>. QED
    BY <1>0, <1>3, OnlyIsLast
<1>5. UpdatesTo(w, next) = kept[n]
  BY <1>4 DEF UpdatesTo
<1>6. /\ kept[0] = <<>>
      /\ \A i \in 1..n : kept[i] = IF i \in P THEN Append(kept[i - 1], UpdateOp(next[i], i)) ELSE kept[i - 1]
  BY <1>2, <1>3, <1>4 DEF IsKeeping
<1>7. \A i \in 0..n : kept[i] \in Seq(Operations)
  BY <1>3, <1>4, KeptIsSeq
<1>8. before \in Seq(Operations)
  BY LeadsToWindow
<1>. DEFINE Q == {i \in 0..n : Leads(first, before \o kept[i], Mix(i))}
<1>9. \A i \in 0..n : Mix(i) \in Seq(Entry) /\ Len(Mix(i)) = n
  BY <1>0
<1>10. \A i \in 0..n : \A j \in 1..n : Mix(i)[j] = IF j <= i THEN next[j] ELSE w[j]
  OBVIOUS
<1>11. \A i \in 1..n : i \in P <=> w[i].row # next[i].row
  BY <1>0
<1>. HIDE DEF Mix, n, ops, P
<1>12. 0 \in Q
  <2>1. Mix(0) = w
    <3>1. \A j \in 1..n : Mix(0)[j] = w[j]
      BY <1>0, <1>10
    <3>2. Len(Mix(0)) = Len(w) /\ Mix(0) \in Seq(Entry)
      BY <1>0, <1>9 DEF n
    <3>. QED
      BY <1>0, <1>9, <3>1, <3>2, SeqEqual
  <2>2. before \o kept[0] = before
    BY <1>6, <1>8, ConcatEmptySeq
  <2>3. Leads(first, before \o kept[0], Mix(0))
    BY <2>1, <2>2
  <2>. QED
    BY <1>0, <2>3
<1>13. ASSUME NEW i \in 1..n, i - 1 \in Q
       PROVE  i \in Q
  <2>0. i - 1 \in 0..n /\ i \in 0..n /\ Leads(first, before \o kept[i - 1], Mix(i - 1))
    BY <1>0, <1>13
  <2>1. Mix(i - 1)[i] = w[i] /\ Len(Mix(i - 1)) = n /\ IsWindow(Mix(i - 1))
    BY <1>0, <1>9, <1>10, <2>0, LeadsToWindow
  <2>2. CASE i \in P
    <3>. DEFINE op == UpdateOp(next[i], i)
    <3>1. op \in Operations /\ op.type = "update" /\ op.index = i /\ op.row = next[i].row
          /\ op.key = next[i].key
      BY <1>0, OperationsAre DEF UpdateOp
    <3>2. FitsWindow(Mix(i - 1), op)
      <4>1. w[i].key = next[i].key
        BY DEF n
      <4>. QED
        BY <2>1, <3>1, <4>1 DEF FitsWindow
    <3>3. Edit(Mix(i - 1), op) = [Mix(i - 1) EXCEPT ![i].row = next[i].row]
      BY <3>1 DEF Edit
    <3>4. IsUpdated(Edit(Mix(i - 1), op), Mix(i - 1), i, next[i].row)
      <4>. HIDE DEF op
      <4>1. i \in 1..Len(Mix(i - 1)) /\ next[i].row \in Rows
        BY <1>1, <2>1 DEF n
      <4>2. IsUpdated([Mix(i - 1) EXCEPT ![i].row = next[i].row], Mix(i - 1), i, next[i].row)
        BY <2>1, <4>1, UpdateIs
      <4>. QED
        BY <3>3, <4>2
    <3>5. Edit(Mix(i - 1), op) = Mix(i)
      <4>1. /\ Edit(Mix(i - 1), op) \in Seq(Entry) /\ Len(Edit(Mix(i - 1), op)) = n
            /\ \A j \in 1..n : Edit(Mix(i - 1), op)[j] =
                  IF j = i THEN [key |-> w[i].key, row |-> next[i].row] ELSE Mix(i - 1)[j]
        BY <2>1, <3>4 DEF IsUpdated
      <4>2. [key |-> w[i].key, row |-> next[i].row] = next[i]
        <5>1. w[i].key = next[i].key
          BY DEF n
        <5>. QED
          BY <1>1, <5>1
      <4>3. ASSUME NEW j \in 1..n
            PROVE  Edit(Mix(i - 1), op)[j] = Mix(i)[j]
        <5>1. CASE j = i
          BY <1>0, <1>10, <2>0, <4>1, <4>2, <5>1
        <5>2. CASE j # i
          <6>1. j <= i - 1 <=> j <= i
            BY <1>0, <5>2
          <6>. QED
            BY <1>10, <2>0, <4>1, <5>2, <6>1
        <5>. QED
          BY <5>1, <5>2
      <4>4. Mix(i) \in Seq(Entry) /\ Len(Mix(i)) = n
        BY <1>9, <2>0
      <4>. QED
        BY <4>1, <4>3, <4>4, SeqEqual
    <3>6. kept[i] = Append(kept[i - 1], op)
      BY <1>6, <2>2
    <3>. HIDE DEF op
    <3>7. Leads(first, before \o Append(kept[i - 1], op), Edit(Mix(i - 1), op))
      BY <1>7, <1>8, <2>0, <3>1, <3>2, LeadsAfter
    <3>. QED
      BY <2>0, <3>5, <3>6, <3>7
  <2>3. CASE i \notin P
    <3>1. kept[i] = kept[i - 1]
      BY <1>6, <2>3
    <3>2. w[i] = next[i]
      <4>1. w[i].key = next[i].key
        BY DEF n
      <4>. QED
        BY <1>1, <1>11, <2>3, <4>1
    <3>3. ASSUME NEW j \in 1..n
          PROVE  Mix(i)[j] = Mix(i - 1)[j]
      <4>1. j = i \/ (j <= i <=> j <= i - 1)
        BY <1>0
      <4>. QED
        BY <1>0, <1>10, <2>0, <3>2, <4>1
    <3>4. Mix(i) = Mix(i - 1)
      BY <1>9, <2>0, <3>3, SeqEqual
    <3>. QED
      BY <2>0, <3>1, <3>4
  <2>. QED
    BY <2>2, <2>3
<1>. HIDE DEF Q
<1>14. \A i \in 0..n : i \in Q
  BY <1>0, <1>12, <1>13, Induction
<1>15. Mix(n) = next
  <2>1. n \in 0..n /\ Mix(n) \in Seq(Entry) /\ Len(Mix(n)) = Len(next)
    BY <1>0, <1>9 DEF n
  <2>2. \A j \in 1..Len(next) : Mix(n)[j] = next[j]
    BY <1>0, <1>10, <2>1 DEF n
  <2>. QED
    BY <1>0, <2>1, <2>2, SeqEqual
<1>16. Leads(first, before \o kept[n], Mix(n))
  BY <1>0, <1>14 DEF Q
<1>. QED
  BY <1>5, <1>15, <1>16

-----------------------------------------------------------------------------
(* Removals and insertions *)

\* Removals of the keys that left, one after the other, leave those that stayed.
LEMMA RemovalsLead ==
  ASSUME NEW w, NEW next, IsWindow(w), IsWindow(next)
  PROVE  Leads(w, Removals(w, next), Shared(w, next))
<1>. DEFINE n == Len(w)
            ops == [i \in DOMAIN w |-> RemoveOp(w[i].key)]
            P == {i \in DOMAIN w : w[i].key \notin KeySet(next)}
            K == {i \in DOMAIN w : w[i].key \in KeySet(next)}
            Left(i) == {j \in 1..n : j \in K \/ j > i}
<1>0. /\ n \in Nat /\ DOMAIN w = 1..n /\ w \in Seq(Entry)
      /\ \A i \in 1..n : w[i] \in Entry /\ w[i].key \in Keys
  BY WindowIs
<1>2. ops \in [1..n -> Operations] /\ \A i \in 1..n : ops[i] = RemoveOp(w[i].key)
  BY <1>0, OperationsAre
<1>3. Len(ops) = n /\ ops \in Seq(Operations)
  BY <1>0, <1>2
<1>4. PICK kept : IsKeeping(kept, ops, P) /\ Only(ops, P) = kept[n]
  <2>. HIDE DEF ops, P, n
  <2>. QED
    BY <1>0, <1>3, OnlyIsLast
<1>5. Removals(w, next) = kept[n] /\ Shared(w, next) = Only(w, K)
  BY <1>4 DEF Removals, Shared
<1>6. /\ kept[0] = <<>>
      /\ \A i \in 1..n : kept[i] = IF i \in P THEN Append(kept[i - 1], RemoveOp(w[i].key)) ELSE kept[i - 1]
  BY <1>2, <1>3, <1>4 DEF IsKeeping
<1>. DEFINE Q == {i \in 0..n : Leads(w, kept[i], Only(w, Left(i)))}
<1>7. \A i \in 1..n : i \in P <=> i \notin K
  BY <1>0
<1>8. K \subseteq 1..n
  BY <1>0
<1>9. Left(0) = 1..n /\ Left(n) = K
  BY <1>0, <1>8
<1>10. \A i \in 1..n : Left(i) = IF i \in K THEN Left(i - 1) ELSE Left(i - 1) \ {i}
  BY <1>0
<1>11. \A i \in 1..n : i \in Left(i - 1)
  BY <1>0
<1>. HIDE DEF Left, P, K, ops, n
<1>12. 0 \in Q
  <2>1. Only(w, Left(0)) = w
    BY <1>0, <1>9, OnlyAll DEF n
  <2>. QED
    BY <1>0, <1>6, <2>1, LeadsNowhere
<1>13. ASSUME NEW i \in 1..n, i - 1 \in Q
       PROVE  i \in Q
  <2>. DEFINE v == Only(w, Left(i - 1))
  <2>0. Leads(w, kept[i - 1], v) /\ IsWindow(v) /\ i \in 0..n
    BY <1>0, <1>13, LeadsToWindow
  <2>1. CASE i \in P
    <3>. DEFINE op == RemoveOp(w[i].key)
    <3>1. op \in Operations /\ op.type = "remove" /\ op.key = w[i].key
      BY <1>0, OperationsAre DEF RemoveOp
    <3>2. Left(i) = Left(i - 1) \ {i} /\ i \in Left(i - 1) \intersect (1..Len(w))
      BY <1>7, <1>10, <1>11, <2>1 DEF n
    <3>3. PICK q \in Nat : IsWithout(Only(w, Left(i)), Entry, v, q, w[i])
      BY <1>0, <3>2, OnlyWithout
    <3>. HIDE DEF v, op
    <3>4. q \in 1..Len(v) /\ v[q] = w[i] /\ Only(w, Left(i)) = RemoveAt(v, q)
      BY <3>3 DEF IsWithout
    <3>5. PositionOf(v, op.key) = q /\ op.key \in KeySet(v)
      BY <2>0, <3>1, <3>4, PositionIs, KeySetIs, WindowIs
    <3>6. FitsWindow(v, op) /\ Edit(v, op) = RemoveAt(v, q)
      BY <3>1, <3>5 DEF FitsWindow, Edit
    <3>7. kept[i] = Append(kept[i - 1], op)
      BY <1>6, <2>1 DEF op
    <3>8. Leads(w, Append(kept[i - 1], op), Edit(v, op))
      BY <2>0, <3>1, <3>6, LeadsThen
    <3>. QED
      BY <2>0, <3>4, <3>6, <3>7, <3>8
  <2>2. CASE i \notin P
    BY <1>6, <1>7, <1>10, <2>0, <2>2
  <2>. QED
    BY <2>1, <2>2
<1>. HIDE DEF Q
<1>14. \A i \in 0..n : i \in Q
  BY <1>0, <1>12, <1>13, Induction
<1>15. n \in Q
  BY <1>0, <1>14
<1>. QED
  BY <1>5, <1>9, <1>15 DEF Q

\* Insertions of the keys that came, in the next window's order, each fit at its
\* position.
LEMMA InsertionsLead ==
  ASSUME NEW previous, NEW next, IsWindow(previous), IsWindow(next),
         NEW before, Leads(previous, before, Shared(next, previous))
  PROVE  Leads(previous, before \o Insertions(previous, next), next)
<1>. DEFINE n == Len(next)
            ops == [i \in DOMAIN next |-> InsertOp(next[i], i)]
            P == {i \in DOMAIN next : next[i].key \notin KeySet(previous)}
            K == {i \in DOMAIN next : next[i].key \in KeySet(previous)}
            Come(i) == {j \in 1..n : j \in K \/ j <= i}
<1>0. /\ n \in Nat /\ DOMAIN next = 1..n /\ next \in Seq(Entry)
      /\ \A i \in 1..n : /\ next[i] \in Entry /\ next[i].key \in Keys
                         /\ next[i] = [key |-> next[i].key, row |-> next[i].row]
  BY WindowIs
<1>2. ops \in [1..n -> Operations] /\ \A i \in 1..n : ops[i] = InsertOp(next[i], i)
  BY <1>0, OperationsAre
<1>3. Len(ops) = n /\ ops \in Seq(Operations)
  BY <1>0, <1>2
<1>4. PICK kept : IsKeeping(kept, ops, P) /\ Only(ops, P) = kept[n]
  <2>. HIDE DEF ops, P, n
  <2>. QED
    BY <1>0, <1>3, OnlyIsLast
<1>5. Insertions(previous, next) = kept[n] /\ Shared(next, previous) = Only(next, K)
  BY <1>4 DEF Insertions, Shared
<1>6. /\ kept[0] = <<>>
      /\ \A i \in 1..n : kept[i] = IF i \in P THEN Append(kept[i - 1], InsertOp(next[i], i)) ELSE kept[i - 1]
  BY <1>2, <1>3, <1>4 DEF IsKeeping
<1>16. \A i \in 0..n : kept[i] \in Seq(Operations)
  BY <1>3, <1>4, KeptIsSeq
<1>17. before \in Seq(Operations)
  BY LeadsToWindow
<1>. DEFINE Q == {i \in 0..n : Leads(previous, before \o kept[i], Only(next, Come(i)))}
<1>7. \A i \in 1..n : i \in P <=> i \notin K
  BY <1>0
<1>8. K \subseteq 1..n
  BY <1>0
<1>9. Come(0) = K /\ Come(n) = 1..n
  BY <1>0, <1>8
<1>10. \A i \in 1..n : IF i \in K THEN Come(i) = Come(i - 1) ELSE Come(i - 1) = Come(i) \ {i}
  BY <1>0
<1>11. \A i \in 1..n : 1..i \subseteq Come(i) /\ i \in Come(i)
  BY <1>0
<1>. HIDE DEF Come, P, K, ops, n
<1>12. 0 \in Q
  <2>1. before \o kept[0] = before
    BY <1>6, <1>17, ConcatEmptySeq
  <2>2. Leads(previous, before \o kept[0], Only(next, Come(0)))
    BY <1>5, <1>9, <2>1
  <2>. QED
    BY <1>0, <2>2
<1>13. ASSUME NEW i \in 1..n, i - 1 \in Q
       PROVE  i \in Q
  <2>. DEFINE v == Only(next, Come(i - 1))
              u == Only(next, Come(i))
  <2>0. Leads(previous, before \o kept[i - 1], v) /\ IsWindow(v) /\ i \in 0..n /\ i - 1 \in 0..n
    BY <1>0, <1>13, LeadsToWindow
  <2>1. CASE i \in P
    <3>. DEFINE op == InsertOp(next[i], i)
    <3>1. op \in Operations /\ op.type = "insert" /\ op.key = next[i].key /\ op.index = i
          /\ op.row = next[i].row
      BY <1>0, OperationsAre DEF InsertOp
    <3>2. /\ Come(i - 1) = Come(i) \ {i} /\ i \in Come(i) \intersect (1..Len(next))
          /\ 1..i \subseteq Come(i)
      BY <1>7, <1>10, <1>11, <2>1 DEF n
    <3>3. IsWithout(v, Entry, u, i, next[i])
      BY <1>0, <3>2, OnlyWithout
    <3>9. \A j \in 1..Len(v) : \E a \in Come(i - 1) \intersect (1..Len(next)) : v[j] = next[a]
      BY <1>0, OnlyIs
    <3>. HIDE DEF v, u, op
    <3>4. u \in Seq(Entry) /\ i \in 1..Len(u) /\ u[i] = next[i] /\ v = RemoveAt(u, i)
      BY <3>3 DEF IsWithout
    <3>5. InsertAt(v, i, next[i]) = u
      BY <3>4, RemovedInserted
    <3>6. i \in 1..(Len(v) + 1)
      <4>1. IsRemoved(v, Entry, u, i)
        BY <3>4, RemoveAtIs
      <4>2. Len(u) \in Nat
        BY <3>4, LenProperties
      <4>. QED
        BY <3>4, <4>1, <4>2 DEF IsRemoved
    <3>7. op.key \notin KeySet(v)
      <4>1. ASSUME NEW j \in 1..Len(v), v[j].key = next[i].key
            PROVE  FALSE
        <5>1. PICK a \in Come(i - 1) \intersect (1..Len(next)) : v[j] = next[a]
          BY <3>9
        <5>2. a # i
          BY <3>2
        <5>. QED
          BY <4>1, <5>1, <5>2 DEF IsWindow, n
      <4>2. v \in Seq(Entry)
        BY <2>0, WindowIs
      <4>3. next[i].key \in KeySet(v) <=> \E j \in 1..Len(v) : v[j].key = next[i].key
        BY <4>2, KeySetIs
      <4>. QED
        BY <3>1, <4>1, <4>3
    <3>8. FitsWindow(v, op) /\ Edit(v, op) = u
      <4>1. [key |-> op.key, row |-> op.row] = next[i]
        BY <1>0, <3>1
      <4>. QED
        BY <3>1, <3>5, <3>6, <3>7, <4>1 DEF FitsWindow, Edit
    <3>10. kept[i] = Append(kept[i - 1], op)
      BY <1>6, <2>1 DEF op
    <3>11. Leads(previous, before \o Append(kept[i - 1], op), Edit(v, op))
      BY <1>16, <1>17, <2>0, <3>1, <3>8, LeadsAfter
    <3>. QED
      BY <2>0, <3>8, <3>10, <3>11 DEF u
  <2>2. CASE i \notin P
    BY <1>6, <1>7, <1>10, <2>0, <2>2
  <2>. QED
    BY <2>1, <2>2
<1>. HIDE DEF Q
<1>14. \A i \in 0..n : i \in Q
  BY <1>0, <1>12, <1>13, Induction
<1>15. Leads(previous, before \o kept[n], Only(next, Come(n)))
  BY <1>0, <1>14 DEF Q
<1>18. Only(next, Come(n)) = next
  BY <1>0, <1>9, OnlyAll DEF n
<1>. QED
  BY <1>5, <1>15, <1>18

-----------------------------------------------------------------------------
(* One row moved *)

\* A set of numbers below a bound has a greatest one.
LEMMA GreatestNumber ==
  ASSUME NEW n \in Nat, NEW T \in SUBSET (0..n), T # {}
  PROVE  \E x \in T : \A y \in T : y <= x
<1>. DEFINE U == {n - x : x \in T}
<1>0. \A x \in T : x \in 0..n /\ n - x \in Nat
  OBVIOUS
<1>1. U \in SUBSET Nat /\ U # {}
  BY <1>0
<1>2. \A x \in T : n - x \in U /\ x \in 0..n
  OBVIOUS
<1>3. \A y \in U : n - y \in T
  OBVIOUS
<1>. HIDE DEF U
<1>4. PICK y \in U : \A z \in U : y <= z
  BY <1>1, LeastNumber
<1>5. n - y \in T /\ y \in Nat
  BY <1>1, <1>3
<1>6. \A x \in T : x <= n - y
  BY <1>2, <1>4, <1>5
<1>. QED
  BY <1>5, <1>6

\* Min and Max are members.
LEMMA MinAndMax ==
  ASSUME NEW n \in Nat, NEW T \in SUBSET (1..n), T # {}
  PROVE  Min(T) \in T /\ Max(T) \in T
<1>1. \E x \in T : \A y \in T : x <= y
  BY LeastNumber
<1>2. T \in SUBSET (0..n)
  OBVIOUS
<1>3. \E x \in T : \A y \in T : y <= x
  BY <1>2, GreatestNumber
<1>4. Min(T) \in T
  BY <1>1 DEF Min
<1>5. \E x \in T : \A y \in T : x >= y
  BY <1>3
<1>6. Max(T) \in T
  BY <1>5 DEF Max
<1>. QED
  BY <1>4, <1>6

\* The move chosen is one of those found.
LEMMA ChosenMoveIs ==
  ASSUME NEW previous, NEW next, SingleMoves(previous, next) # {}
  PROVE  ChosenMove(previous, next) \in SingleMoves(previous, next)
BY DEF ChosenMove

\* A move that brings the keys into the next order.
IsSingleMove(m, previous, next) ==
    /\ m[1] \in 1..Len(previous) /\ m[2] \in 1..Len(previous)
    /\ Len(previous) = Len(next)
    /\ Moved(KeySeq(previous), m[1], m[2]) = KeySeq(next)

\* singleMoveDeltaOperations only returns such moves.
LEMMA SingleMoveIs ==
  ASSUME NEW previous, NEW next, IsWindow(previous), IsWindow(next),
         NEW m \in SingleMoves(previous, next)
  PROVE  IsSingleMove(m, previous, next)
<1>. DEFINE D == Differing(previous, next)
<1>1. D # {} /\ Len(previous) = Len(next)
  BY DEF SingleMoves
<1>2. m \in {<<Min(D), Max(D)>>, <<Max(D), Min(D)>>} /\ Moved(KeySeq(previous), m[1], m[2]) = KeySeq(next)
  BY <1>1 DEF SingleMoves
<1>3. D \in SUBSET (1..Len(next)) /\ Len(next) \in Nat
  BY WindowIs DEF Differing
<1>. HIDE DEF D
<1>4. Min(D) \in D /\ Max(D) \in D
  BY <1>1, <1>3, MinAndMax
<1>5. Min(D) \in 1..Len(next) /\ Max(D) \in 1..Len(next)
  BY <1>3, <1>4
<1>6. m[1] \in 1..Len(next) /\ m[2] \in 1..Len(next)
  <2>1. CASE m = <<Min(D), Max(D)>>
    BY <1>5, <2>1
  <2>2. CASE m = <<Max(D), Min(D)>>
    BY <1>5, <2>2
  <2>. QED
    BY <1>2, <2>1, <2>2
<1>. QED
  BY <1>1, <1>2, <1>6 DEF IsSingleMove

\* The first strategy: a move, and an update of each row that differs then.
LEMMA MoveLeads ==
  ASSUME NEW previous, NEW next, IsWindow(previous), IsWindow(next),
         SingleMoves(previous, next) # {}
  PROVE  Leads(previous, MoveOperations(previous, next), next)
<1>. DEFINE m == ChosenMove(previous, next)
            from == m[1]
            to == m[2]
            op == MoveOp(previous[from].key, from, to)
            w == Moved(previous, from, to)
<1>1. IsSingleMove(m, previous, next)
  BY ChosenMoveIs, SingleMoveIs
<1>2. /\ from \in 1..Len(previous) /\ to \in 1..Len(previous) /\ Len(previous) = Len(next)
      /\ Moved(KeySeq(previous), from, to) = KeySeq(next)
  BY <1>1 DEF IsSingleMove
<1>3. MoveOperations(previous, next) = <<op>> \o UpdatesTo(w, next)
  BY DEF MoveOperations
<1>. HIDE DEF m, from, to
<1>4. /\ previous \in Seq(Entry) /\ Len(previous) \in Nat /\ DOMAIN previous = 1..Len(previous)
      /\ \A i \in 1..Len(previous) : previous[i].key \in Keys
  BY WindowIs
<1>5. /\ op \in Operations /\ op.type = "move" /\ op.fromIndex = from /\ op.toIndex = to
      /\ op.key = previous[from].key
  BY <1>2, <1>4, OperationsAre DEF MoveOp
<1>. HIDE DEF op
<1>6. FitsWindow(previous, op) /\ Edit(previous, op) = w
  BY <1>2, <1>5 DEF FitsWindow, Edit
<1>7. Leads(previous, Append(<<>>, op), w)
  BY <1>5, <1>6, LeadsNowhere, LeadsThen
<1>8. Append(<<>>, op) = <<op>>
  OBVIOUS
<1>9. Leads(previous, <<op>>, w)
  BY <1>7, <1>8
<1>10. IsMoved(w, Entry, previous, from, to)
  BY <1>2, <1>4, MovedIs
<1>. DEFINE k == KeySeq(previous)
<1>11. /\ k \in Seq(Keys) /\ Len(k) = Len(previous)
       /\ \A i \in 1..Len(previous) : k[i] = previous[i].key
  BY <1>4 DEF KeySeq
<1>12. DOMAIN next = 1..Len(next)
  BY WindowIs
<1>13. \A i \in 1..Len(next) : KeySeq(next)[i] = next[i].key
  BY <1>12 DEF KeySeq
<1>. HIDE DEF k
<1>14. IsMoved(Moved(k, from, to), Keys, k, from, to)
  BY <1>2, <1>11, MovedIs
<1>. HIDE DEF w
<1>15. Len(w) = Len(next)
  BY <1>2, <1>10 DEF IsMoved
<1>18. IsWindow(w)
  BY <1>9, LeadsToWindow
<1>16. \A i \in 1..Len(next) : w[i].key = next[i].key
  <2>1. \A i \in 1..Len(previous) : /\ Origin(from, to, i) \in 1..Len(previous)
                                     /\ w[i] = previous[Origin(from, to, i)]
    BY <1>10 DEF IsMoved
  <2>2. \A i \in 1..Len(previous) : KeySeq(next)[i] = k[Origin(from, to, i)]
    BY <1>2, <1>11, <1>14 DEF IsMoved, k
  <2>3. ASSUME NEW i \in 1..Len(next)
        PROVE  w[i].key = next[i].key
    <3>. DEFINE o == Origin(from, to, i)
    <3>1. o \in 1..Len(previous) /\ w[i] = previous[o] /\ KeySeq(next)[i] = k[o]
      BY <1>2, <2>1, <2>2
    <3>. HIDE DEF o
    <3>. QED
      BY <1>11, <1>13, <3>1
  <2>. QED
    BY <2>3
<1>17. Leads(previous, <<op>> \o UpdatesTo(w, next), next)
  BY <1>9, <1>15, <1>16, <1>18, UpdatesLead
<1>. QED
  BY <1>3, <1>17

-----------------------------------------------------------------------------
(* The general walk *)

\* What WalkOperations has after each entry.
IsWalk(walk, previous, next) ==
    /\ walk[0] = [current |-> Shared(previous, next), operations |-> Removals(previous, next)]
    /\ \A i \in 1..Len(next) : walk[i] = Place(walk[i - 1], next[i], i)

\* WalkOperations are the operations after the last.
LEMMA WalkIsLast ==
  ASSUME NEW previous, NEW next, Len(next) \in Nat
  PROVE  \E walk : /\ IsWalk(walk, previous, next)
                   /\ WalkOperations(previous, next) = walk[Len(next)].operations
<1>. DEFINE n == Len(next)
            base == [current |-> Shared(previous, next), operations |-> Removals(previous, next)]
            Then(x, i) == Place(x, next[i], i)
            Rec(f, k) == [i \in 0..k |-> IF i = 0 THEN base ELSE Then(f[i - 1], i)]
            P == {k \in 0..n : \E f : f = Rec(f, k)}
<1>0. n \in Nat
  OBVIOUS
<1>8. ASSUME NEW f, NEW k \in Nat, f = Rec(f, k)
      PROVE  f[0] = base /\ \A i \in 1..k : f[i] = Then(f[i - 1], i)
  <2>. HIDE DEF Then, base
  <2>. QED
    BY <1>8
<1>1. 0 \in P
  <2>. DEFINE f == [i \in 0..0 |-> base]
  <2>. HIDE DEF base, Then
  <2>1. f = Rec(f, 0)
    OBVIOUS
  <2>. HIDE DEF Rec, f
  <2>. QED
    BY <1>0, <2>1
<1>2. ASSUME NEW k \in 1..n, k - 1 \in P
      PROVE  k \in P
  <2>1. PICK f : f = Rec(f, k - 1)
    BY <1>2
  <2>. DEFINE h == [i \in 0..k |-> IF i = k THEN Then(f[k - 1], k) ELSE f[i]]
  <2>2. f[0] = base /\ \A i \in 1..(k - 1) : f[i] = Then(f[i - 1], i)
    <3>1. k - 1 \in Nat
      BY <1>0
    <3>. HIDE DEF Rec
    <3>. QED
      BY <1>8, <2>1, <3>1
  <2>. HIDE DEF Then, base
  <2>3. \A i \in 0..k : h[i] = IF i = 0 THEN base ELSE Then(h[i - 1], i)
    BY <1>0, <2>2
  <2>4. h = Rec(h, k)
    <3>1. h = [i \in 0..k |-> h[i]]
      OBVIOUS
    <3>. HIDE DEF h
    <3>. QED
      BY <2>3, <3>1
  <2>. HIDE DEF Rec, h
  <2>. QED
    BY <1>0, <2>4
<1>3. n \in P
  <2>. HIDE DEF P, n
  <2>1. \A i \in 0..n : i \in P
    BY <1>0, <1>1, <1>2, Induction
  <2>. QED
    BY <1>0, <2>1
<1>. DEFINE walk == CHOOSE f : f = Rec(f, n)
<1>4. walk = Rec(walk, n)
  <2>. HIDE DEF Rec, n
  <2>. QED
    BY <1>3
<1>5. WalkOperations(previous, next) = walk[n].operations
  BY DEF WalkOperations
<1>. HIDE DEF walk
<1>6. walk[0] = base /\ \A i \in 1..n : walk[i] = Then(walk[i - 1], i)
  <2>. HIDE DEF Rec, n, Then, base
  <2>. QED
    BY <1>0, <1>4, <1>8
<1>. QED
  BY <1>5, <1>6 DEF IsWalk

\* The working copy has the next window's first entries, and keys of that window only.
Ahead(c, next, m) ==
    /\ m \in 0..Len(c)
    /\ \A j \in 1..m : c[j] = next[j]
    /\ \A j \in 1..Len(c) : \E a \in 1..Len(next) : c[j].key = next[a].key

\* The entry's key is new: it is inserted at its place.
LEMMA PlaceNew ==
  ASSUME NEW first, NEW operations, NEW c, Leads(first, operations, c), IsWindow(c),
         NEW next, IsWindow(next), NEW i \in 1..Len(next), Ahead(c, next, i - 1),
         next[i].key \notin KeySet(c)
  PROVE  /\ Leads(first, Append(operations, InsertOp(next[i], i)), InsertAt(c, i, next[i]))
         /\ Ahead(InsertAt(c, i, next[i]), next, i)
<1>. DEFINE e == next[i]
            op == InsertOp(e, i)
            n == InsertAt(c, i, e)
<1>0. /\ Len(next) \in Nat /\ c \in Seq(Entry) /\ Len(c) \in Nat /\ e \in Entry
      /\ e = [key |-> e.key, row |-> e.row]
  BY WindowIs
<1>1. i \in 1..(Len(c) + 1)
  BY <1>0 DEF Ahead
<1>2. /\ op \in Operations /\ op.type = "insert" /\ op.index = i /\ op.key = e.key
      /\ op.row = e.row
  BY <1>0, OperationsAre DEF InsertOp
<1>3. IsInserted(n, Entry, c, i, e)
  BY <1>0, <1>1, InsertAtIs
<1>. HIDE DEF op
<1>4. FitsWindow(c, op) /\ Edit(c, op) = n
  BY <1>0, <1>1, <1>2 DEF FitsWindow, Edit
<1>. HIDE DEF n
<1>5. Leads(first, Append(operations, op), n)
  BY <1>2, <1>4, LeadsThen
<1>6. Ahead(n, next, i)
  <2>1. /\ Len(n) = Len(c) + 1
        /\ \A j \in 1..(Len(c) + 1) :
              n[j] = IF j < i THEN c[j] ELSE IF j = i THEN e ELSE c[j - 1]
    BY <1>3 DEF IsInserted
  <2>2. i \in 0..Len(n)
    BY <1>0, <1>1, <2>1
  <2>3. \A j \in 1..i : n[j] = next[j]
    BY <1>0, <1>1, <2>1 DEF Ahead
  <2>4. ASSUME NEW j \in 1..Len(n)
        PROVE  \E a \in 1..Len(next) : n[j].key = next[a].key
    <3>1. CASE j = i
      <4>2. j \in 1..(Len(c) + 1) /\ ~(j < i)
        BY <1>0, <1>1, <3>1
      <4>1. n[j] = e
        BY <2>1, <3>1, <4>2
      <4>. QED
        BY <4>1
    <3>2. CASE j # i
      <4>2. j \in 1..(Len(c) + 1) /\ n[j] = IF j < i THEN c[j] ELSE c[j - 1]
        BY <1>0, <2>1, <3>2
      <4>3. j < i => j \in 1..Len(c)
        BY <1>0, <1>1, <4>2
      <4>4. ~(j < i) => j - 1 \in 1..Len(c)
        BY <1>0, <1>1, <3>2, <4>2
      <4>1. PICK b \in 1..Len(c) : n[j] = c[b]
        BY <4>2, <4>3, <4>4
      <4>. QED
        BY <4>1 DEF Ahead
    <3>. QED
      BY <3>1, <3>2
  <2>. QED
    BY <2>2, <2>3, <2>4 DEF Ahead
<1>. QED
  BY <1>5, <1>6 DEF op, n

\* The entry's row has been found at its place: its row is written.
LEMMA PlaceRow ==
  ASSUME NEW first, NEW operations, NEW c, Leads(first, operations, c), IsWindow(c),
         NEW next, IsWindow(next), NEW i \in 1..Len(next), Ahead(c, next, i - 1),
         i \in 1..Len(c), c[i].key = next[i].key
  PROVE  /\ Leads(first,
                  operations \o (IF c[i].row = next[i].row THEN <<>> ELSE <<UpdateOp(next[i], i)>>),
                  [c EXCEPT ![i] = next[i]])
         /\ Ahead([c EXCEPT ![i] = next[i]], next, i)
<1>. DEFINE e == next[i]
            op == UpdateOp(e, i)
            n == [c EXCEPT ![i] = e]
<1>0. /\ Len(next) \in Nat /\ c \in Seq(Entry) /\ Len(c) \in Nat /\ e \in Entry
      /\ e = [key |-> e.key, row |-> e.row] /\ e.row \in Rows
      /\ c[i] = [key |-> c[i].key, row |-> c[i].row]
  BY WindowIs
<1>1. /\ n \in Seq(Entry) /\ Len(n) = Len(c)
      /\ \A j \in 1..Len(c) : n[j] = IF j = i THEN e ELSE c[j]
  BY <1>0, ExceptSeq
<1>2. operations \in Seq(Operations)
  BY LeadsToWindow
<1>. HIDE DEF n
<1>3. Ahead(n, next, i)
  <2>1. i \in 0..Len(n)
    BY <1>0, <1>1
  <2>2. \A j \in 1..i : n[j] = next[j]
    BY <1>0, <1>1 DEF Ahead
  <2>3. \A j \in 1..Len(n) : n[j].key = c[j].key
    BY <1>1
  <2>4. \A j \in 1..Len(n) : \E a \in 1..Len(next) : n[j].key = next[a].key
    BY <1>1, <2>3 DEF Ahead
  <2>. QED
    BY <2>1, <2>2, <2>4 DEF Ahead
<1>4. CASE c[i].row = e.row
  <2>1. c[i] = e
    BY <1>0, <1>4
  <2>2. \A j \in 1..Len(c) : n[j] = c[j]
    BY <1>1, <2>1
  <2>3. n = c
    BY <1>0, <1>1, <2>2, SeqEqual
  <2>4. operations \o <<>> = operations
    BY <1>2, ConcatEmptySeq
  <2>5. Leads(first, operations \o <<>>, n)
    BY <2>3, <2>4
  <2>. QED
    BY <1>3, <1>4, <2>5 DEF n
<1>5. CASE c[i].row # e.row
  <2>1. /\ op \in Operations /\ op.type = "update" /\ op.index = i /\ op.key = e.key
        /\ op.row = e.row
    BY <1>0, OperationsAre DEF UpdateOp
  <2>. HIDE DEF op
  <2>2. FitsWindow(c, op) /\ Edit(c, op) = [c EXCEPT ![i].row = e.row]
    BY <2>1 DEF FitsWindow, Edit
  <2>3. IsUpdated([c EXCEPT ![i].row = e.row], c, i, e.row)
    BY <1>0, UpdateIs
  <2>. DEFINE u == [c EXCEPT ![i].row = e.row]
  <2>. HIDE DEF u
  <2>4. u \in Seq(Entry) /\ Len(u) = Len(c) /\ \A j \in 1..Len(c) : u[j] = n[j]
    BY <1>0, <1>1, <2>3 DEF IsUpdated, u
  <2>5. u = n
    BY <1>1, <2>4, SeqEqual
  <2>9. Edit(c, op) = n
    BY <2>2, <2>5 DEF u
  <2>6. Leads(first, Append(operations, op), n)
    BY <2>1, <2>2, <2>9, LeadsThen
  <2>7. Append(operations, op) = operations \o <<op>>
    BY <1>2, <2>1, AppendIsConcat
  <2>8. Leads(first, operations \o <<op>>, n)
    BY <2>6, <2>7
  <2>. QED
    BY <1>3, <1>5, <2>8 DEF n, op
<1>. QED
  BY <1>4, <1>5

\* The entry's row is behind its place: it moves there.
LEMMA PlaceMoved ==
  ASSUME NEW first, NEW operations, NEW c, Leads(first, operations, c), IsWindow(c),
         NEW next, IsWindow(next), NEW i \in 1..Len(next), Ahead(c, next, i - 1),
         NEW at \in 1..Len(c), at >= i, c[at].key = next[i].key
  PROVE  /\ Leads(first, Append(operations, MoveOp(next[i].key, at, i)), Moved(c, at, i))
         /\ Ahead(Moved(c, at, i), next, i - 1)
         /\ i \in 1..Len(Moved(c, at, i)) /\ Moved(c, at, i)[i].key = next[i].key
<1>. DEFINE e == next[i]
            op == MoveOp(e.key, at, i)
            n == Moved(c, at, i)
<1>0. Len(next) \in Nat /\ c \in Seq(Entry) /\ Len(c) \in Nat /\ e.key \in Keys
  BY WindowIs
<1>1. i \in 1..Len(c)
  BY <1>0
<1>2. /\ op \in Operations /\ op.type = "move" /\ op.fromIndex = at /\ op.toIndex = i
      /\ op.key = e.key
  BY <1>0, OperationsAre DEF MoveOp
<1>3. IsMoved(n, Entry, c, at, i)
  BY <1>0, <1>1, MovedIs
<1>. HIDE DEF op
<1>4. FitsWindow(c, op) /\ Edit(c, op) = n
  BY <1>1, <1>2 DEF FitsWindow, Edit
<1>. HIDE DEF n
<1>5. Leads(first, Append(operations, op), n)
  BY <1>2, <1>4, LeadsThen
<1>6. /\ Len(n) = Len(c)
      /\ \A j \in 1..Len(c) : Origin(at, i, j) \in 1..Len(c) /\ n[j] = c[Origin(at, i, j)]
  BY <1>3 DEF IsMoved
<1>7. Origin(at, i, i) = at /\ \A j \in 1..(i - 1) : Origin(at, i, j) = j
  BY <1>0, <1>1 DEF Origin
<1>8. i \in 1..Len(n) /\ n[i].key = e.key
  BY <1>1, <1>6, <1>7
<1>9. Ahead(n, next, i - 1)
  <2>1. i - 1 \in 0..Len(n)
    BY <1>0, <1>1, <1>6
  <2>2. \A j \in 1..(i - 1) : n[j] = next[j]
    BY <1>0, <1>1, <1>6, <1>7 DEF Ahead
  <2>3. \A j \in 1..Len(n) : \E a \in 1..Len(next) : n[j].key = next[a].key
    BY <1>6 DEF Ahead
  <2>. QED
    BY <2>1, <2>2, <2>3 DEF Ahead
<1>. QED
  BY <1>5, <1>8, <1>9 DEF op, n

\* A working copy and the operations that lead to it.
Walked(x, previous, next, m) ==
    /\ Leads(previous, x.operations, x.current)
    /\ Ahead(x.current, next, m)

\* Each entry is brought to its place, in whichever of the three ways.
LEMMA PlaceLeads ==
  ASSUME NEW previous, NEW next, IsWindow(next), NEW i \in 1..Len(next),
         NEW x, Walked(x, previous, next, i - 1)
  PROVE  Walked(Place(x, next[i], i), previous, next, i)
<1>. DEFINE c == x.current
            operations == x.operations
            e == next[i]
<1>. HIDE DEF c, operations
<1>1. Leads(previous, operations, c) /\ Ahead(c, next, i - 1)
  BY DEF Walked, c, operations
<1>2. IsWindow(c) /\ operations \in Seq(Operations)
  BY <1>1, LeadsToWindow
<1>3. Len(next) \in Nat /\ Len(c) \in Nat /\ c \in Seq(Entry) /\ e.key \in Keys
  BY <1>2, WindowIs
<1>4. CASE e.key \notin KeySet(c)
  <2>. DEFINE n == InsertAt(c, i, e)
              all == Append(operations, InsertOp(e, i))
  <2>1. Leads(previous, all, n) /\ Ahead(n, next, i)
    BY <1>1, <1>2, <1>4, PlaceNew
  <2>2. Place(x, e, i) = [current |-> n, operations |-> all]
    BY <1>4 DEF Place, c, operations
  <2>. HIDE DEF n, all
  <2>3. Place(x, e, i).current = n /\ Place(x, e, i).operations = all
    BY <2>2
  <2>. HIDE DEF e
  <2>4. Walked(Place(x, e, i), previous, next, i)
    BY <2>1, <2>3 DEF Walked
  <2>. QED
    BY <2>4 DEF e
<1>5. CASE e.key \in KeySet(c)
  <2>. DEFINE at == PositionOf(c, e.key)
              ordered == IF at = i THEN c ELSE Moved(c, at, i)
              moves == IF at = i THEN <<>> ELSE <<MoveOp(e.key, at, i)>>
              updates == IF ordered[i].row = e.row THEN <<>> ELSE <<UpdateOp(e, i)>>
              n == [ordered EXCEPT ![i] = e]
  <2>1. at \in 1..Len(c) /\ c[at].key = e.key
    BY <1>2, <1>5, PositionIs
  <2>2. at >= i
    <3>1. SUFFICES ASSUME at < i PROVE FALSE
      BY <1>3, <2>1
    <3>2. at \in 1..(i - 1) /\ at \in 1..Len(next) /\ at # i
      BY <1>3, <2>1, <3>1
    <3>3. c[at] = next[at]
      BY <1>1, <3>2 DEF Ahead
    <3>. QED
      BY <2>1, <3>2, <3>3 DEF IsWindow
  <2>3. Place(x, e, i) = [current |-> n, operations |-> (operations \o moves) \o updates]
    BY <1>5 DEF Place, c, operations
  <2>. HIDE DEF at
  <2>4. /\ Leads(previous, operations \o moves, ordered) /\ Ahead(ordered, next, i - 1)
        /\ i \in 1..Len(ordered) /\ ordered[i].key = e.key
    <3>1. CASE at = i
      <4>1. operations \o <<>> = operations
        BY <1>2, ConcatEmptySeq
      <4>2. ordered = c /\ moves = <<>>
        BY <3>1
      <4>. HIDE DEF ordered, moves
      <4>3. Leads(previous, operations \o moves, ordered)
        BY <1>1, <4>1, <4>2
      <4>. QED
        BY <1>1, <2>1, <3>1, <4>2, <4>3
    <3>2. CASE at # i
      <4>. DEFINE op == MoveOp(e.key, at, i)
                  m == Moved(c, at, i)
      <4>1. ordered = m /\ moves = <<op>>
        BY <3>2
      <4>2. op \in Operations
        BY <1>3, <2>1, OperationsAre
      <4>3. /\ Leads(previous, Append(operations, op), m) /\ Ahead(m, next, i - 1)
            /\ i \in 1..Len(m) /\ m[i].key = e.key
        BY <1>1, <1>2, <2>1, <2>2, PlaceMoved
      <4>. HIDE DEF ordered, moves, op, m
      <4>4. Append(operations, op) = operations \o <<op>>
        BY <1>2, <4>2, AppendIsConcat
      <4>5. Leads(previous, operations \o moves, ordered)
        BY <4>1, <4>3, <4>4
      <4>. QED
        BY <4>1, <4>3, <4>5
    <3>. QED
      BY <3>1, <3>2
  <2>. HIDE DEF ordered, moves
  <2>5. IsWindow(ordered)
    BY <2>4, LeadsToWindow
  <2>6. Leads(previous, (operations \o moves) \o updates, n) /\ Ahead(n, next, i)
    BY <2>4, <2>5, PlaceRow
  <2>. HIDE DEF updates, n
  <2>7. /\ Place(x, e, i).current = n
        /\ Place(x, e, i).operations = (operations \o moves) \o updates
    BY <2>3
  <2>. HIDE DEF e
  <2>8. Walked(Place(x, e, i), previous, next, i)
    BY <2>6, <2>7 DEF Walked
  <2>. QED
    BY <2>8 DEF e
<1>. QED
  BY <1>4, <1>5

\* The last strategy: when all entries are at their place the working copy is the next
\* window.
LEMMA WalkLeads ==
  ASSUME NEW previous, NEW next, IsWindow(previous), IsWindow(next)
  PROVE  Leads(previous, WalkOperations(previous, next), next)
<1>. DEFINE n == Len(next)
<1>1. n \in Nat /\ next \in Seq(Entry) /\ previous \in Seq(Entry)
  BY WindowIs
<1>2. PICK walk : /\ IsWalk(walk, previous, next)
                  /\ WalkOperations(previous, next) = walk[n].operations
  BY <1>1, WalkIsLast
<1>. DEFINE Q == {i \in 0..n : Walked(walk[i], previous, next, i)}
<1>3. 0 \in Q
  <2>. DEFINE c == Shared(previous, next)
  <2>1. walk[0].current = c /\ walk[0].operations = Removals(previous, next)
    BY <1>2 DEF IsWalk
  <2>2. Leads(previous, Removals(previous, next), c)
    BY RemovalsLead
  <2>3. IsWindow(c)
    BY <2>2, LeadsToWindow
  <2>4. \A j \in 1..Len(c) : \E a \in 1..Len(next) : c[j].key = next[a].key
    <3>. DEFINE K == {i \in DOMAIN previous : previous[i].key \in KeySet(next)}
    <3>1. c = Only(previous, K)
      BY DEF Shared
    <3>2. \A j \in 1..Len(c) : \E a \in K \intersect (1..Len(previous)) : c[j] = previous[a]
      <4>. HIDE DEF K, c
      <4>1. \A j \in 1..Len(Only(previous, K)) :
                \E a \in K \intersect (1..Len(previous)) : Only(previous, K)[j] = previous[a]
        BY <1>1, OnlyIs
      <4>. QED
        BY <3>1, <4>1
    <3>3. \A k : k \in KeySet(next) <=> \E a \in 1..Len(next) : next[a].key = k
      BY <1>1, KeySetIs
    <3>. HIDE DEF c
    <3>. QED
      BY <3>2, <3>3
  <2>. HIDE DEF c
  <2>5. Len(c) \in Nat
    BY <2>3, WindowIs
  <2>6. Ahead(c, next, 0)
    BY <2>4, <2>5 DEF Ahead
  <2>7. Walked(walk[0], previous, next, 0)
    BY <2>1, <2>2, <2>6 DEF Walked, c
  <2>. QED
    BY <1>1, <2>7
<1>4. ASSUME NEW i \in 1..n, i - 1 \in Q
      PROVE  i \in Q
  <2>1. Walked(walk[i - 1], previous, next, i - 1) /\ i \in 0..n
    BY <1>1, <1>4
  <2>2. walk[i] = Place(walk[i - 1], next[i], i)
    BY <1>2 DEF IsWalk
  <2>3. Walked(Place(walk[i - 1], next[i], i), previous, next, i)
    BY <2>1, PlaceLeads
  <2>. QED
    BY <2>1, <2>2, <2>3
<1>. HIDE DEF Q, n
<1>5. \A i \in 0..n : i \in Q
  BY <1>1, <1>3, <1>4, Induction
<1>. DEFINE c == walk[n].current
            operations == walk[n].operations
<1>6. Leads(previous, operations, c) /\ Ahead(c, next, n)
  BY <1>1, <1>5 DEF Q, Walked
<1>. HIDE DEF c, operations
<1>7. IsWindow(c) /\ c \in Seq(Entry) /\ Len(c) \in Nat
  BY <1>6, LeadsToWindow, WindowIs
<1>8. Len(c) = n
  <2>1. SUFFICES ASSUME Len(c) # n PROVE FALSE
    OBVIOUS
  <2>2. n + 1 \in 1..Len(c) /\ n \in 0..Len(c)
    BY <1>1, <1>6, <1>7, <2>1 DEF Ahead
  <2>3. PICK a \in 1..n : c[n + 1].key = next[a].key
    BY <1>6, <2>2 DEF Ahead, n
  <2>4. c[a] = next[a] /\ a \in 1..Len(c) /\ a # n + 1
    BY <1>1, <1>6, <1>7, <2>2 DEF Ahead
  <2>. QED
    BY <1>7, <2>2, <2>3, <2>4 DEF IsWindow
<1>9. \A j \in 1..Len(c) : c[j] = next[j]
  BY <1>6, <1>8 DEF Ahead
<1>10. c = next
  BY <1>1, <1>7, <1>8, <1>9, SeqEqual DEF n
<1>. QED
  BY <1>2, <1>6, <1>10 DEF operations

-----------------------------------------------------------------------------
(* All three strategies *)

\* Whichever of the three strategies made them, the operations of a delta all fit one
\* after the other, and lead from the previous evaluation to the next (deltaOperations).
LEMMA DeltaLeads ==
  ASSUME NEW previous, NEW next, IsWindow(previous), IsWindow(next)
  PROVE  Leads(previous, DeltaOperations(previous, next), next)
<1>1. CASE SingleMoves(previous, next) # {}
  BY <1>1, MoveLeads DEF DeltaOperations
<1>2. CASE SingleMoves(previous, next) = {} /\ IsReplacement(previous, next)
  <2>1. Shared(previous, next) = Shared(next, previous)
    BY <1>2 DEF IsReplacement
  <2>2. Leads(previous, Removals(previous, next), Shared(next, previous))
    BY <2>1, RemovalsLead
  <2>3. Leads(previous, Removals(previous, next) \o Insertions(previous, next), next)
    BY <2>2, InsertionsLead
  <2>. QED
    BY <1>2, <2>3 DEF DeltaOperations
<1>3. CASE SingleMoves(previous, next) = {} /\ ~IsReplacement(previous, next)
  BY <1>3, WalkLeads DEF DeltaOperations
<1>. QED
  BY <1>1, <1>2, <1>3

-----------------------------------------------------------------------------
(* Applied, operations that lead to a window give that window *)

\* All operations have fitted, and the batch has come to v.
Reaches(a, v) ==
    \E undo, touched, throughEnd : a = Batch(v, undo, touched, throughEnd, TRUE)

\* One operation that fits.
LEMMA StepReaches ==
  ASSUME NEW a, NEW v, IsWindow(v), Reaches(a, v), NEW op \in Operations, FitsWindow(v, op)
  PROVE  Reaches(Step(a, op), Edit(v, op))
<1>1. PICK undo, touched, throughEnd : a = Batch(v, undo, touched, throughEnd, TRUE)
  BY DEF Reaches
<1>2. Step(a, op) = Batch(Edit(v, op), Append(undo, UndoOf(v, op)),
                          touched \union TouchedBy(v, op), Ends(throughEnd, op), TRUE)
  BY <1>1, StepIs
<1>. QED
  BY <1>2 DEF Reaches

\* In particular none of them is refused.
LEMMA LeadsApplied ==
  ASSUME NEW w, NEW operations, NEW v, Leads(w, operations, v)
  PROVE  Reaches(Applied(w, IndexesOf(w), operations), v)
<1>. DEFINE n == Len(operations)
<1>0. operations \in Seq(Operations)
  BY LeadsToWindow
<1>1. n \in Nat /\ \A i \in 1..n : operations[i] \in Operations
  BY <1>0, LenProperties, ElementOfSeq
<1>2. PICK path : IsPath(path, w, operations, v)
  BY DEF Leads
<1>3. PICK apply : IsRun(apply, w, operations) /\ Applied(w, IndexesOf(w), operations) = apply[n]
  BY <1>0, AppliedIsLast
<1>4. /\ path[0] = w /\ path[n] = v
      /\ \A i \in 0..n : IsWindow(path[i])
      /\ \A i \in 1..n : FitsWindow(path[i - 1], operations[i]) /\ path[i] = Edit(path[i - 1], operations[i])
  BY <1>2 DEF IsPath
<1>5. apply[0] = Opening(w, IndexesOf(w)) /\ \A i \in 1..n : apply[i] = Step(apply[i - 1], operations[i])
  BY <1>3 DEF IsRun
<1>. DEFINE P == {i \in 0..n : Reaches(apply[i], path[i])}
<1>. HIDE DEF n
<1>6. 0 \in P
  <2>1. apply[0] = Batch(path[0], <<>>, {}, FALSE, TRUE)
    BY <1>4, <1>5, OpeningIs
  <2>2. Reaches(apply[0], path[0])
    BY <2>1 DEF Reaches
  <2>. QED
    BY <1>1, <2>2
<1>7. ASSUME NEW i \in 1..n, i - 1 \in P
      PROVE  i \in P
  <2>1. Reaches(apply[i - 1], path[i - 1]) /\ i \in 0..n /\ i - 1 \in 0..n
    BY <1>1, <1>7
  <2>2. IsWindow(path[i - 1]) /\ FitsWindow(path[i - 1], operations[i])
    BY <1>4, <2>1
  <2>3. Reaches(Step(apply[i - 1], operations[i]), Edit(path[i - 1], operations[i]))
    BY <1>1, <2>1, <2>2, StepReaches
  <2>. QED
    BY <1>4, <1>5, <2>1, <2>3
<1>. HIDE DEF P
<1>8. \A i \in 0..n : i \in P
  BY <1>1, <1>6, <1>7, Induction
<1>9. Reaches(apply[n], path[n])
  BY <1>1, <1>8 DEF P
<1>. QED
  BY <1>3, <1>4, <1>9 DEF n

-----------------------------------------------------------------------------
(* The engine's delta, and the client that applies it in place *)

\* Whichever strategy made it, the delta between two evaluations is accepted by a client
\* that has the first, operation by operation, and gives it the second with its index
\* (deltaOperations against the loop of makeIncrementalClientState).
THEOREM DeltasApply ==
  ASSUME NEW previous, NEW next, IsWindow(previous), IsWindow(next),
         NEW applied,
         applied = Applied(previous, IndexesOf(previous), DeltaOperations(previous, next))
  PROVE  applied.fits /\ applied.window = next /\ applied.indexes = IndexesOf(next)
<1>1. Reaches(applied, next)
  BY DeltaLeads, LeadsApplied
<1>. QED
  BY <1>1 DEF Reaches, Batch

\* Any operations, as far as they fit: undone, they leave the rows and the index as they
\* were (rollbackMutations).
THEOREM RefusedBatchIsUndone ==
  ASSUME NEW w, IsWindow(w), NEW operations \in Seq(Operations)
  PROVE  RolledBack(Applied(w, IndexesOf(w), operations))
            = [window |-> w, indexes |-> IndexesOf(w)]
BY AppliedIs, RolledBackIs DEF At

=============================================================================
