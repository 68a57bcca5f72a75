------------------------------ MODULE QueryDelta ------------------------------
(***************************************************************************)
(* The operations of a delta, computed from two evaluations of a query     *)
(* (query-result.ts, deltaOperations).  A window is a sequence of entries  *)
(* [key, row] with distinct keys.  Positions count from 1 here, from 0 in  *)
(* the code.                                                               *)
(*                                                                         *)
(* Three strategies are tried in order: one row moved; rows left and came, *)
(* the others untouched; and a walk over the next window that keeps a      *)
(* working copy of the previous one.                                       *)
(***************************************************************************)
EXTENDS Naturals, Sequences, FiniteSets, SequencesExt, FiniteSetsExt

CONSTANT MinReplacement  \* minimumReplacementDeltaFastPathOperations

InsertOp(entry, i) == [type |-> "insert", key |-> entry.key, row |-> entry.row, index |-> i]
UpdateOp(entry, i) == [type |-> "update", key |-> entry.key, row |-> entry.row, index |-> i]
MoveOp(key, from, to) == [type |-> "move", key |-> key, fromIndex |-> from, toIndex |-> to]
RemoveOp(key) == [type |-> "remove", key |-> key]

KeySeq(window) == [i \in DOMAIN window |-> window[i].key]
KeySet(window) == Range(KeySeq(window))

\* splice(from, 1), then splice(to, 0, ...).
Moved(s, from, to) == InsertAt(RemoveAt(s, from), to, s[from])

\* The elements of a sequence at some positions, in their order.
Only(s, positions) ==
    LET upTo[n \in 0..Len(s)] ==
            IF n = 0 THEN <<>>
            ELSE IF n \in positions THEN Append(upTo[n - 1], s[n]) ELSE upTo[n - 1]
    IN  upTo[Len(s)]

UpdatesTo(window, next) ==
    Only([i \in DOMAIN next |-> UpdateOp(next[i], i)],
         {i \in DOMAIN next : window[i].row # next[i].row})

-----------------------------------------------------------------------------
(* One row moved: singleMoveDeltaOperations *)

Differing(previous, next) == {i \in DOMAIN next : previous[i].key # next[i].key}

\* The moves that turn the previous order of keys into the next one: down from
\* the first differing position to the last, or up.
SingleMoves(previous, next) ==
    IF Len(previous) # Len(next) \/ Differing(previous, next) = {} THEN {}
    ELSE LET first == Min(Differing(previous, next))
             last == Max(Differing(previous, next))
         IN  {m \in {<<first, last>>, <<last, first>>} :
                 Moved(KeySeq(previous), m[1], m[2]) = KeySeq(next)}

\* Of the two moves of an exchange, the one up is taken only if its row changed
\* and the other's did not.
ChosenMove(previous, next) ==
    LET moves == SingleMoves(previous, next)
        Changed(m) == previous[m[1]].row # next[m[2]].row
        down == {m \in moves : m[1] < m[2]}
        up == moves \ down
    IN  IF down = {} \/ (up # {} /\ (\A m \in up : Changed(m)) /\ (\A m \in down : ~Changed(m)))
        THEN CHOOSE m \in up : TRUE
        ELSE CHOOSE m \in down : TRUE

MoveOperations(previous, next) ==
    LET m == ChosenMove(previous, next)
    IN  <<MoveOp(previous[m[1]].key, m[1], m[2])>>
            \o UpdatesTo(Moved(previous, m[1], m[2]), next)

-----------------------------------------------------------------------------
(* Rows left and came: replacementDeltaOperations *)

Shared(window, other) == Only(window, {i \in DOMAIN window : window[i].key \in KeySet(other)})

IsReplacement(previous, next) ==
    LET gone == KeySet(previous) \ KeySet(next)
        come == KeySet(next) \ KeySet(previous)
    IN  /\ gone # {} /\ come # {}
        /\ Cardinality(gone) + Cardinality(come) >= MinReplacement
        /\ Shared(previous, next) = Shared(next, previous)

Removals(previous, next) ==
    Only([i \in DOMAIN previous |-> RemoveOp(previous[i].key)],
         {i \in DOMAIN previous : previous[i].key \notin KeySet(next)})

Insertions(previous, next) ==
    Only([i \in DOMAIN next |-> InsertOp(next[i], i)],
         {i \in DOMAIN next : next[i].key \notin KeySet(previous)})

-----------------------------------------------------------------------------
(* The general walk *)

PositionOf(window, key) == CHOOSE i \in DOMAIN window : window[i].key = key

\* Mutant: a row that moves and changes is only moved.
PlaceWithoutUpdate(walk, entry, i) ==
    IF entry.key \notin KeySet(walk.current)
    THEN [current |-> InsertAt(walk.current, i, entry),
          operations |-> Append(walk.operations, InsertOp(entry, i))]
    ELSE LET at == PositionOf(walk.current, entry.key)
         IN  IF at # i
             THEN [current |-> [Moved(walk.current, at, i) EXCEPT ![i] = entry],
                   operations |-> Append(walk.operations, MoveOp(entry.key, at, i))]
             ELSE [current |-> [walk.current EXCEPT ![i] = entry],
                   operations |-> IF walk.current[i].row = entry.row THEN walk.operations
                                  ELSE Append(walk.operations, UpdateOp(entry, i))]

\* Bring the next window's i-th entry to its place in the working copy.
Place(walk, entry, i) ==
    IF entry.key \notin KeySet(walk.current)
    THEN [current |-> InsertAt(walk.current, i, entry),
          operations |-> Append(walk.operations, InsertOp(entry, i))]
    ELSE LET at == PositionOf(walk.current, entry.key)
             ordered == IF at = i THEN walk.current ELSE Moved(walk.current, at, i)
             moves == IF at = i THEN <<>> ELSE <<MoveOp(entry.key, at, i)>>
             updates == IF ordered[i].row = entry.row THEN <<>> ELSE <<UpdateOp(entry, i)>>
         IN  [current |-> [ordered EXCEPT ![i] = entry],
              operations |-> walk.operations \o moves \o updates]

WalkOperations(previous, next) ==
    LET walk[n \in 0..Len(next)] ==
            IF n = 0
            THEN [current |-> Shared(previous, next), operations |-> Removals(previous, next)]
            ELSE Place(walk[n - 1], next[n], n)
    IN  walk[Len(next)].operations

\* deltaOperations
DeltaOperations(previous, next) ==
    IF SingleMoves(previous, next) # {} THEN MoveOperations(previous, next)
    ELSE IF IsReplacement(previous, next)
    THEN Removals(previous, next) \o Insertions(previous, next)
    ELSE WalkOperations(previous, next)
=============================================================================
