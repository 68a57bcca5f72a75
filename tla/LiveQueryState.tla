---------------------------- MODULE LiveQueryState ----------------------------
(***************************************************************************)
(* What a client keeps of one live query (client/src/live-query-state.ts)  *)
(* and how it follows the engine: the engine evaluates, sends the          *)
(* operations of module QueryDelta, and the client applies them in place,  *)
(* undoing them when the delta turns out not to fit.                       *)
(*                                                                         *)
(* The events are those of the engine, and any other the client must be    *)
(* ready for: deltas of another version, deltas whose operations do not    *)
(* fit, malformed snapshots and status events.                             *)
(*                                                                         *)
(* A batch with many operations that change the order is staged in the     *)
(* balanced tree of module RowSequence (stageStructuralBatch); what does   *)
(* not fit is then dropped with the tree, and there is nothing to undo.    *)
(***************************************************************************)
EXTENDS QueryDelta, Integers

CONSTANTS Keys, Rows,    \* what a window is made of
          WindowBound,   \* the limit of the query
          VersionBound,  \* versions explored
          StrayWindows,  \* windows the stray deltas are made from
          StagedFrom,    \* operations on the order from which a batch is staged
          Priority(_), NoNode

ASSUME BoundsAreNumbers == WindowBound \in Nat /\ VersionBound \in Nat

VARIABLES
    server,     \* the evaluation the engine last told: window, totalRows, version
    window,     \* rows and keys of the client
    keyIndexes, \* its index of the keys
    totalRows, version, status,
    change,     \* what the last event reported as changed
    following   \* history: only the engine's events since the last snapshot

clientVars == <<window, keyIndexes, totalRows, version, status, change>>
vars == <<server, clientVars, following>>

Windows == {w \in BoundedSeq([key : Keys, row : Rows], WindowBound) : IsInjective(KeySeq(w))}

ASSUME StraysAreWindows == StrayWindows \subseteq Windows

Nothing == [type |-> "None"]
Everything == [type |-> "All"]
ChangedRange(start, end) == [type |-> "Range", start |-> start, end |-> end]

NoIndexes == [k \in {} |-> 0]

IndexesOf(w) == [k \in KeySet(w) |-> PositionOf(w, k)]

Evaluation(w, total, v) == [window |-> w, totalRows |-> total, version |-> v]

Init ==
    /\ server = Evaluation(<<>>, 0, 0)
    /\ window = <<>>
    /\ keyIndexes = NoIndexes
    /\ totalRows = 0 /\ version = 0
    /\ status = "loading"
    /\ change = Nothing
    /\ following = FALSE

-----------------------------------------------------------------------------
(* Applying a delta in place *)

\* Mutant: the index is rebuilt from the place after the first one that moved.
ReindexedLate(indexes, w, start) ==
    [k \in DOMAIN indexes \union {w[i].key : i \in start..Len(w)} |->
        IF \E i \in (start + 1)..Len(w) : w[i].key = k THEN PositionOf(w, k)
        ELSE IF k \in DOMAIN indexes THEN indexes[k] ELSE start]

\* reindexKeys: from a position on.
Reindexed(indexes, w, start) ==
    [k \in DOMAIN indexes \union {w[i].key : i \in start..Len(w)} |->
        IF \E i \in start..Len(w) : w[i].key = k THEN PositionOf(w, k) ELSE indexes[k]]

Forget(indexes, key) == [k \in DOMAIN indexes \ {key} |-> indexes[k]]

Fits(apply, op) ==
    CASE op.type = "insert" ->
            op.index \in 1..(Len(apply.window) + 1) /\ op.key \notin DOMAIN apply.indexes
      [] op.type = "update" ->
            op.index \in DOMAIN apply.window /\ apply.window[op.index].key = op.key
      [] op.type = "move" ->
            /\ op.fromIndex \in DOMAIN apply.window
            /\ op.toIndex \in DOMAIN apply.window
            /\ apply.window[op.fromIndex].key = op.key
      [] op.type = "remove" -> op.key \in DOMAIN apply.indexes

\* The window, the index, the way back, and the positions touched.
Touch(apply, positions) == [apply EXCEPT !.touched = @ \union positions]

Done(apply, w, indexes, undo) ==
    [apply EXCEPT !.window = w, !.indexes = indexes, !.undo = Append(@, undo)]

Change(apply, op) ==
    LET w == apply.window
    IN  CASE op.type = "insert" ->
                LET n == InsertAt(w, op.index, [key |-> op.key, row |-> op.row])
                IN  [Touch(Done(apply, n, Reindexed(apply.indexes, n, op.index),
                                [type |-> "Insert", index |-> op.index, key |-> op.key]),
                           {op.index}) EXCEPT !.throughEnd = TRUE]
          [] op.type = "update" ->
                Touch(Done(apply, [w EXCEPT ![op.index].row = op.row], apply.indexes,
                           [type |-> "Update", index |-> op.index, row |-> w[op.index].row]),
                      {op.index})
          [] op.type = "move" ->
                LET n == Moved(w, op.fromIndex, op.toIndex)
                IN  Touch(Done(apply, n,
                               Reindexed(apply.indexes, n, Min({op.fromIndex, op.toIndex})),
                               [type |-> "Move", fromIndex |-> op.fromIndex,
                                toIndex |-> op.toIndex]),
                          {op.fromIndex, op.toIndex})
          [] op.type = "remove" ->
                LET i == apply.indexes[op.key]
                    n == RemoveAt(w, i)
                IN  [Touch(Done(apply, n, Reindexed(Forget(apply.indexes, op.key), n, i),
                                [type |-> "Remove", index |-> i, entry |-> w[i]]),
                           {i}) EXCEPT !.throughEnd = TRUE]

\* Mutant: a move is undone as it was done.
UndoMovesForward(apply, undo) ==
    LET w == apply.window
        Now(n, indexes) == [window |-> n, indexes |-> indexes]
    IN  CASE undo.type = "Insert" ->
                LET n == RemoveAt(w, undo.index)
                IN  Now(n, Reindexed(Forget(apply.indexes, undo.key), n, undo.index))
          [] undo.type = "Update" -> Now([w EXCEPT ![undo.index].row = undo.row], apply.indexes)
          [] undo.type = "Move" ->
                LET n == Moved(w, undo.fromIndex, undo.toIndex)
                IN  Now(n, Reindexed(apply.indexes, n, Min({undo.fromIndex, undo.toIndex})))
          [] undo.type = "Remove" ->
                LET n == InsertAt(w, undo.index, undo.entry)
                IN  Now(n, Reindexed(apply.indexes, n, undo.index))

Undo(apply, undo) ==
    LET w == apply.window
        Now(n, indexes) == [window |-> n, indexes |-> indexes]
    IN  CASE undo.type = "Insert" ->
                LET n == RemoveAt(w, undo.index)
                IN  Now(n, Reindexed(Forget(apply.indexes, undo.key), n, undo.index))
          [] undo.type = "Update" -> Now([w EXCEPT ![undo.index].row = undo.row], apply.indexes)
          [] undo.type = "Move" ->
                LET n == Moved(w, undo.toIndex, undo.fromIndex)
                IN  Now(n, Reindexed(apply.indexes, n, Min({undo.fromIndex, undo.toIndex})))
          [] undo.type = "Remove" ->
                LET n == InsertAt(w, undo.index, undo.entry)
                IN  Now(n, Reindexed(apply.indexes, n, undo.index))

\* rollbackMutations: newest first.
RolledBack(apply) ==
    LET mutations == apply.undo
        back[n \in 0..Len(mutations)] ==
            IF n = 0 THEN [window |-> apply.window, indexes |-> apply.indexes]
            ELSE Undo(back[n - 1], mutations[Len(mutations) + 1 - n])
    IN  back[Len(mutations)]

\* The operations one after the other, until one does not fit.
Step(apply, op) ==
    IF apply.fits /\ Fits(apply, op) THEN Change(apply, op) ELSE [apply EXCEPT !.fits = FALSE]

Opening(w, indexes) ==
    [window |-> w, indexes |-> indexes, undo |-> <<>>, touched |-> {},
     throughEnd |-> FALSE, fits |-> TRUE]

Applied(w, indexes, operations) ==
    LET apply[n \in 0..Len(operations)] ==
            IF n = 0 THEN Opening(w, indexes) ELSE Step(apply[n - 1], operations[n])
    IN  apply[Len(operations)]

\* Mutant: a removal does not extend the range to the end of the window.
RangeToLastTouched(apply) ==
    IF apply.touched = {} THEN Nothing
    ELSE ChangedRange(Min(apply.touched), Min({Max(apply.touched), Len(apply.window)}))

RangeOf(apply) ==
    IF apply.touched = {} THEN Nothing
    ELSE ChangedRange(Min(apply.touched),
                      IF apply.throughEnd THEN Len(apply.window)
                      ELSE Min({Max(apply.touched), Len(apply.window)}))

-----------------------------------------------------------------------------
(* Applying a large delta in a tree *)

Tree == INSTANCE RowSequence

ASSUME NoNodeIsNone == NoNode \notin Keys /\ NoNode \notin Tree!Node

\* shouldStageStructuralBatch: the density keeps small windows' batches too.
IsStaged(w, operations) ==
    LET structural == Cardinality({i \in DOMAIN operations : operations[i].type # "update"})
    IN  structural >= StagedFrom /\ structural * 4 >= Max({Len(w), 1})

TreeOf(w) ==
    LET tree[n \in 0..Len(w)] ==
            IF n = 0 THEN Tree!EmptyTree ELSE Tree!Grown(tree[n - 1], w[n].key, w[n].row)
    IN  tree[Len(w)]

FitsTree(tree, op) ==
    CASE op.type = "insert" ->
            op.index \in 1..(Tree!Length(tree) + 1) /\ ~Tree!Contains(tree, op.key)
      [] op.type = "update" -> op.index >= 1 /\ Tree!KeyAt(tree, op.index - 1) = op.key
      [] op.type = "move" ->
            /\ op.fromIndex >= 1 /\ Tree!KeyAt(tree, op.fromIndex - 1) = op.key
            /\ op.toIndex \in 1..Tree!Length(tree)
      [] op.type = "remove" -> Tree!Contains(tree, op.key)

ChangeTree(staged, op) ==
    LET tree == staged.tree
    IN  CASE op.type = "insert" ->
                [Touch(staged, {op.index}) EXCEPT
                    !.tree = Tree!Inserted(tree, op.index - 1, op.key, op.row),
                    !.throughEnd = TRUE]
          [] op.type = "update" ->
                [Touch(staged, {op.index}) EXCEPT !.tree = Tree!Replaced(tree, op.key, op.row)]
          [] op.type = "move" ->
                [Touch(staged, {op.fromIndex, op.toIndex}) EXCEPT
                    !.tree = Tree!MovedTo(tree, op.fromIndex - 1, op.toIndex - 1)]
          [] op.type = "remove" ->
                [Touch(staged, {Tree!NodeIndex(tree.nodes, op.key) + 1}) EXCEPT
                    !.tree = Tree!Without(tree, op.key), !.throughEnd = TRUE]

Replacement(staged, w) ==
    [window |-> w, indexes |-> Reindexed(NoIndexes, w, 1), touched |-> staged.touched,
     throughEnd |-> staged.throughEnd, fits |-> staged.fits]

StepTree(staged, op) ==
    IF staged.fits /\ FitsTree(staged.tree, op) THEN ChangeTree(staged, op)
    ELSE [staged EXCEPT !.fits = FALSE]

\* stageStructuralBatch, with the index of the new window.
Staged(w, operations) ==
    LET staged[n \in 0..Len(operations)] ==
            IF n = 0
            THEN [tree |-> TreeOf(w), touched |-> {}, throughEnd |-> FALSE, fits |-> TRUE]
            ELSE StepTree(staged[n - 1], operations[n])
        Finished(st) == Replacement(st, Tree!Materialized(st.tree.nodes, st.tree.root))
    IN  Finished(staged[Len(operations)])

-----------------------------------------------------------------------------
(* Events *)

\* Mutant: a delta is applied while the client waits for a snapshot.
AcceptsWhenStale(event) ==
    /\ status \in {"ready", "stale"}
    /\ event.totalRows >= 0
    /\ version = event.fromVersion
    /\ event.toVersion > version

\* canApplyDeltaFromVersion
Accepts(event) ==
    /\ status = "ready"
    /\ event.totalRows >= 0
    /\ version = event.fromVersion
    /\ event.toVersion > version

StaleDelta ==
    /\ status' = "stale"
    /\ change' = Nothing
    /\ UNCHANGED <<totalRows, version>>

FitsTotal(event, applied) == applied.fits /\ event.totalRows >= Len(applied.window)

TakeOver(event, applied) ==
    /\ window' = applied.window
    /\ keyIndexes' = applied.indexes
    /\ totalRows' = event.totalRows
    /\ version' = event.toVersion
    /\ status' = "ready"
    /\ change' = RangeOf(applied)

\* A staged batch that does not fit has not touched the client's window.
ApplyStaged(event, applied) ==
    IF FitsTotal(event, applied) THEN TakeOver(event, applied)
    ELSE StaleDelta /\ UNCHANGED <<window, keyIndexes>>

ApplyInPlace(event, applied) ==
    IF FitsTotal(event, applied) THEN TakeOver(event, applied)
    ELSE /\ StaleDelta
         /\ window' = RolledBack(applied).window
         /\ keyIndexes' = RolledBack(applied).indexes

ApplyDelta(event) ==
    IF ~Accepts(event)
    THEN StaleDelta /\ UNCHANGED <<window, keyIndexes>>
    ELSE IF IsStaged(window, event.operations)
    THEN ApplyStaged(event, Staged(window, event.operations))
    ELSE ApplyInPlace(event, Applied(window, keyIndexes, event.operations))

Delta(from, to, operations, total) ==
    [fromVersion |-> from, toVersion |-> to, operations |-> operations, totalRows |-> total]

\* The engine commits, evaluates and tells what changed.
TellDelta(next, total) ==
    /\ following
    /\ server.version < VersionBound
    /\ next # server.window \/ total # server.totalRows
    /\ server' = Evaluation(next, total, server.version + 1)
    /\ ApplyDelta(Delta(server.version, server.version + 1,
                        DeltaOperations(server.window, next), total))
    /\ UNCHANGED following

\* What the engine keeps does not matter to a client that waits for a snapshot.
LoseTheEngine == following' = FALSE /\ server' = Evaluation(<<>>, 0, 0)

\* A delta of another version.
MisplacedDelta ==
    /\ \E from \in 0..VersionBound, to \in 0..VersionBound :
        /\ from # version \/ to <= from
        /\ ApplyDelta(Delta(from, to, <<>>, totalRows))
    /\ LoseTheEngine

\* A delta whose operations were made for another window, or whose total is short.  It
\* too leaves no more rows than the query's limit.
StrayDelta(from, to, total) ==
    /\ version < VersionBound
    /\ ApplyDelta(Delta(version, version + 1, DeltaOperations(from, to), total))
    /\ Len(window') <= WindowBound
    /\ LoseTheEngine

\* A snapshot of a subscription: the engine's evaluation.
TellSnapshot(w, total, v) ==
    /\ server' = Evaluation(w, total, v)
    /\ window' = w
    /\ keyIndexes' = Reindexed(NoIndexes, w, 1)
    /\ totalRows' = total
    /\ version' = v
    /\ status' = "ready"
    /\ change' = Everything
    /\ following' = TRUE

\* More rows than totalRows, repeated keys, lengths that differ.
MalformedSnapshot ==
    /\ status' = "stale"
    /\ change' = Nothing
    /\ LoseTheEngine
    /\ UNCHANGED <<window, keyIndexes, totalRows, version>>

\* A status event; one that closes empties the client.  The type allows the
\* status "ready" too, which nothing in the repository sends.
StatusEvent(next) ==
    /\ IF next = "closed"
       THEN window' = <<>> /\ keyIndexes' = NoIndexes /\ totalRows' = 0 /\ version' = 0
       ELSE UNCHANGED <<window, keyIndexes, totalRows, version>>
    /\ status' = next
    /\ change' = Nothing
    /\ LoseTheEngine

\* The totals an engine reports with a window that starts at an offset: there are
\* rows behind it only if it is full.
Totals(w, offset) ==
    IF w = <<>> THEN 0..offset
    ELSE {offset + Len(w)} \union (IF Len(w) = WindowBound THEN {offset + Len(w) + 1} ELSE {})

\* Any event of a subscription to the window that starts at an offset.
Event(offset) ==
    \/ \E w \in Windows : \E total \in Totals(w, offset) :
        \/ TellDelta(w, total)
        \/ \E v \in 0..VersionBound : TellSnapshot(w, total, v)
    \/ \E from, to \in StrayWindows : \E total \in {offset + Len(to), Len(to) - 1} :
        StrayDelta(from, to, total)
    \/ MisplacedDelta
    \/ MalformedSnapshot
    \/ \E next \in {"closed", "stale", "error"} : StatusEvent(next)

-----------------------------------------------------------------------------
\* While it gets nothing but the engine's events since a snapshot, the client
\* accepts every delta and has exactly the engine's window, total and version
\* (deltaOperations against apply).
FollowsTheEngine ==
    following => /\ status = "ready"
                 /\ Evaluation(window, totalRows, version) = server

\* The index of the keys agrees with the rows, whatever was applied or undone:
\* the next removal hits the right row (reindexKeys, rollbackMutations).
KeyIndexesExact ==
    /\ IsInjective(KeySeq(window))
    /\ keyIndexes = IndexesOf(window)

\* A delta that does not fit, and any event while the client waits for a snapshot
\* other than a snapshot or the end, leaves the rows as they were; and nothing but a
\* snapshot makes a client that waits for one ready again.
RefusedDeltaChangesNothing ==
    [][/\ status' \in {"stale", "error"} =>
            /\ <<window, totalRows, version>>' = <<window, totalRows, version>>
            /\ change' = Nothing
       /\ status # "ready" /\ status' = "ready" => change' = Everything]_vars
=============================================================================
