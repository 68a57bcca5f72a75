---------------------------- MODULE RetainedWindow ----------------------------
(***************************************************************************)
(* One shared execution of a raw query (active-raw-query.ts).  It keeps    *)
(* the first rows of the ordered result, one or more beyond the longest    *)
(* window a subscriber asked for, and brings them up to date from the      *)
(* journal's changes; when the changes do not determine the window it      *)
(* scans the rows again.                                                   *)
(*                                                                         *)
(* A row is the value of its order field; Matching holds the values the    *)
(* query's predicate accepts.  Keys are numbers, for the final tie-break   *)
(* on the key.  The journal (module TopicRowChangeJournal) answers with    *)
(* the exact changes since the evaluation, or does not know them.          *)
(*                                                                         *)
(* Subscribers come and go under the mutation semaphore.  They are told    *)
(* under the notification semaphore only: if Preemptible, also while a     *)
(* mutation has written its rows and has not committed them.               *)
(***************************************************************************)
EXTENDS Naturals, Sequences, FiniteSets, SequencesExt, FiniteSetsExt

CONSTANTS Keys,        \* a finite set of naturals
          Fields,      \* values of the order field: positive naturals
          Matching,    \* those the predicate accepts
          Ends,        \* ends of the windows asked for: offset + limit, or 0
          Unlimited,   \* the limit of a window without one
          Preemptible, \* may a notification meet an uncommitted mutation?
          Forgetful,   \* may the journal exceed its limits?
          LeaseBound,  \* leases per window explored
          LogBound     \* changes between two notifications explored

ASSUME KeysAreNumbers == IsFiniteSet(Keys) /\ Keys \subseteq Nat
ASSUME FieldsArePositive == Fields \subseteq Nat \ {0} /\ Matching \subseteq Fields
ASSUME SwitchesAreBoolean == Preemptible \in BOOLEAN /\ Forgetful \in BOOLEAN
ASSUME EndsAreLimits == \A e \in Ends : e = Unlimited \/ e \in Nat
ASSUME UnlimitedIsNoLimit == Unlimited \notin Nat

VARIABLES
    rows,       \* the storage, uncommitted changes included
    pending,    \* changes written and not committed
    committed,  \* the rows as of the last commit
    log,        \* committed changes the evaluation has not seen
    behind,     \* snapshot.version differs from the store's version
    known,      \* the journal can still answer for the evaluation's version
    windows,    \* leases of each active window
    base,       \* baseWindow.limit
    evaluation  \* snapshot.evaluation

vars == <<rows, pending, committed, log, behind, known, windows, base, evaluation>>

Absent == 0
Matches(field) == field \in Matching

-----------------------------------------------------------------------------
(* Windows *)

Active == {e \in Ends : windows[e] > 0}

LongestEnd(active) ==
    IF Unlimited \in active THEN Unlimited ELSE Max(active \union {0})

\* retainedWindowForBaseWindow
RetainedLimit(limit) ==
    IF limit = Unlimited \/ limit = 0 THEN limit
    ELSE limit + (IF limit >= 128 THEN 64 ELSE 1)

\* retainedWindowFilled
Filled(window, totalRows, limit) ==
    limit = Unlimited \/ Len(window) >= Min({totalRows, limit})

Truncated(window, limit) ==
    IF limit = Unlimited \/ Len(window) <= limit THEN window ELSE SubSeq(window, 1, limit)

-----------------------------------------------------------------------------
(* Order *)

Entry(key, field) == [key |-> key, field |-> field]

\* plan.compare: the order field, then the key.
Precedes(a, b) == a.field < b.field \/ (a.field = b.field /\ a.key < b.key)

\* retainedEntrySortComparator: by the storage, if it holds both rows.
PrecedesNow(a, b) ==
    IF rows[a.key] # Absent /\ rows[b.key] # Absent
    THEN Precedes(Entry(a.key, rows[a.key]), Entry(b.key, rows[b.key]))
    ELSE Precedes(a, b)

\* The elements of S, in the order that "before" puts them in.
InOrder(S, before) ==
    [n \in 1..Cardinality(S) |->
        CHOOSE x \in S : Cardinality({y \in S : <<y, x>> \in before}) = n - 1]

\* The elements of a sequence at some positions, in that order of the positions.
Arranged(seq, positions, before) ==
    LET order == InOrder(positions, before)
    IN  [n \in 1..Cardinality(positions) |-> seq[order[n]]]

\* Array.prototype.sort, which is stable.
Sorted(entries) ==
    LET positions == DOMAIN entries
    IN  Arranged(entries, positions,
                 {p \in positions \X positions :
                     \/ PrecedesNow(entries[p[1]], entries[p[2]])
                     \/ p[1] < p[2] /\ ~PrecedesNow(entries[p[2]], entries[p[1]])})

EntriesOf(content) == {Entry(k, content[k]) : k \in {x \in Keys : Matches(content[x])}}

Result(content) ==
    LET entries == EntriesOf(content)
    IN  InOrder(entries, {p \in entries \X entries : Precedes(p[1], p[2])})

\* evaluateBaseQuery: scan the rows as they are now.
Scan(limit) ==
    LET all == Result(rows)
        window == Truncated(all, limit)
    IN  [window |-> window, totalRows |-> Len(all), filled |-> Filled(window, Len(all), limit)]

-----------------------------------------------------------------------------
(* updateBaseEvaluationFromRetainedChanges *)

KeysOf(window) == {window[i].key : i \in DOMAIN window}
IndexOf(window, key) == CHOOSE i \in DOMAIN window : window[i].key = key

Start == [window |-> evaluation.window, totalRows |-> evaluation.totalRows,
          inserted |-> <<>>, removed |-> {}, replaced |-> FALSE, rescan |-> FALSE]

WithRow(inserted, key, field) == [k \in DOMAIN inserted \union {key} |->
                                    IF k = key THEN field ELSE inserted[k]]

WithoutRow(inserted, key) == [k \in DOMAIN inserted \ {key} |-> inserted[k]]

\* Mutant: a row that moves down stays in the window.
ReplaceWherever(update, key, field, limit) ==
    IF key \in DOMAIN update.inserted
    THEN [update EXCEPT !.inserted = WithRow(@, key, field)]
    ELSE IF key \notin KeysOf(evaluation.window) \/ key \in update.removed
         THEN [update EXCEPT !.rescan = TRUE]
         ELSE LET i == IndexOf(evaluation.window, key)
              IN  [update EXCEPT !.window[i] = Entry(key, field), !.replaced = TRUE]

\* A row that matched and still does: it must be retained already, and in a
\* limited window it must not move down, past rows that are not retained.
ReplaceRow(update, key, field, limit) ==
    IF key \in DOMAIN update.inserted
    THEN [update EXCEPT !.inserted = WithRow(@, key, field)]
    ELSE IF key \notin KeysOf(evaluation.window) \/ key \in update.removed
         THEN [update EXCEPT !.rescan = TRUE]
         ELSE LET i == IndexOf(evaluation.window, key)
                  next == Entry(key, field)
              IN  IF limit # Unlimited /\ Precedes(update.window[i], next)
                  THEN [update EXCEPT !.rescan = TRUE]
                  ELSE [update EXCEPT !.window[i] = next, !.replaced = TRUE]

DropRow(update, key) ==
    [update EXCEPT !.totalRows = @ - 1,
                   !.inserted = WithoutRow(@, key),
                   !.removed = IF key \in KeysOf(evaluation.window) THEN @ \union {key} ELSE @]

Apply(update, change, limit) ==
    LET was == Matches(change.previous)
        is == Matches(change.next)
    IN  IF update.rescan \/ (~was /\ ~is) THEN update
        ELSE IF limit = 0
        THEN [update EXCEPT !.totalRows = IF was /\ is THEN @ ELSE IF is THEN @ + 1 ELSE @ - 1]
        ELSE IF was /\ is THEN ReplaceRow(update, change.key, change.next, limit)
        ELSE IF was THEN DropRow(update, change.key)
        ELSE [update EXCEPT !.totalRows = @ + 1,
                            !.inserted = WithRow(@, change.key, change.next)]

\* The loop over the changes.
AfterChanges(limit) ==
    LET update[i \in 0..Len(log)] ==
            IF i = 0 THEN Start ELSE Apply(update[i - 1], log[i], limit)
    IN  update[Len(log)]

\* The retained rows without those that were removed.
Kept(window, removed) ==
    LET positions == {i \in DOMAIN window : window[i].key \notin removed}
    IN  Arranged(window, positions, {p \in positions \X positions : p[1] < p[2]})

Entries(inserted) == SetToSeq({Entry(k, inserted[k]) : k \in DOMAIN inserted})

\* Mutant: the limit does not shrink when a retained row was removed.
LimitIgnoresRemovals(update, window, limit) == limit

\* retainedLimitAfterInsertedChanges: once a retained row is gone, an inserted
\* row is safe only if it comes before the last row that is still retained.
LimitAfterInserts(update, window, limit) ==
    IF update.removed = {} \/ limit = Unlimited THEN limit
    ELSE LET safe == {k \in DOMAIN update.inserted :
                         ~PrecedesNow(Last(window), Entry(k, update.inserted[k]))}
         IN  Min({limit, Len(window) + Cardinality(safe)})

\* The evaluation after the changes, or a rescan.
Updated(baseLimit) ==
    LET limit == RetainedLimit(baseLimit)
        update == AfterChanges(limit)
        kept == Kept(update.window, update.removed)
        window == IF update.replaced THEN Sorted(kept) ELSE kept
        merged == Truncated(Sorted(window \o Entries(update.inserted)),
                            LimitAfterInserts(update, window, limit))
        Made(w) == [window |-> w, totalRows |-> update.totalRows,
                    filled |-> Filled(w, update.totalRows, limit)]
    IN  IF update.rescan THEN Scan(limit)
        ELSE IF limit = 0 THEN Made(<<>>)
        ELSE IF /\ baseLimit # Unlimited
                /\ Len(window) < Min({update.totalRows, baseLimit})
             THEN Scan(limit)
        ELSE IF DOMAIN update.inserted = {} THEN Made(window)
        ELSE IF ~evaluation.filled THEN Scan(limit)
        ELSE Made(merged)

-----------------------------------------------------------------------------
NoEvaluation == [window |-> <<>>, totalRows |-> 0, filled |-> TRUE]

Init ==
    /\ rows = [k \in Keys |-> Absent]
    /\ committed = rows
    /\ pending = <<>> /\ log = <<>>
    /\ behind = FALSE
    /\ known = FALSE
    /\ windows = [e \in Ends |-> 0]
    /\ base = 0
    /\ evaluation = NoEvaluation

\* A publish, patch or delete writes one row; a batch writes several.
Write(key, field) ==
    /\ Len(log) + Len(pending) < LogBound
    /\ rows[key] # field
    /\ rows' = [rows EXCEPT ![key] = field]
    /\ pending' = Append(pending, [key |-> key, previous |-> rows[key], next |-> field])
    /\ UNCHANGED <<committed, log, behind, known, windows, base, evaluation>>

\* The journal keeps the changes, or has exceeded its limits.
Commit ==
    /\ pending # <<>>
    /\ committed' = rows
    /\ pending' = <<>>
    /\ IF Active = {} THEN UNCHANGED <<log, behind, known>>
       ELSE /\ behind' = TRUE
            /\ known' \in IF Forgetful THEN {known, FALSE} ELSE {known}
            /\ log' = log \o pending
    /\ UNCHANGED <<rows, windows, base, evaluation>>

\* Mutant: the retained rows are kept although the longest window changed.
LatestKeepsBase(active) ==
    /\ UNCHANGED base
    /\ evaluation' = IF behind /\ known THEN Updated(base)
                     ELSE IF behind THEN Scan(RetainedLimit(base))
                     ELSE evaluation
    /\ behind' = FALSE /\ known' = TRUE /\ log' = <<>>

\* latest(): the longest window changed, or the store has moved on.
Latest(active) ==
    /\ base' = LongestEnd(active)
    /\ evaluation' = IF base' # base \/ (behind /\ ~known) THEN Scan(RetainedLimit(base'))
                     ELSE IF behind THEN Updated(base)
                     ELSE evaluation
    /\ behind' = FALSE /\ known' = TRUE /\ log' = <<>>

\* A subscriber leases the execution; the first one makes it.
Acquire(end) ==
    /\ pending = <<>>
    /\ windows[end] < LeaseBound
    /\ windows' = [windows EXCEPT ![end] = @ + 1]
    /\ IF Active = {}
       THEN /\ base' = LongestEnd({end})
            /\ evaluation' = Scan(RetainedLimit(base'))
            /\ behind' = FALSE /\ known' = TRUE /\ log' = <<>>
       ELSE Latest(Active \union {end})
    /\ UNCHANGED <<rows, pending, committed>>

\* The last lease ends the execution; another one evaluates once more.
Release(end) ==
    /\ pending = <<>>
    /\ windows[end] > 0
    /\ windows' = [windows EXCEPT ![end] = @ - 1]
    /\ LET active == {e \in Ends : windows'[e] > 0}
       IN  IF active # {} THEN Latest(active)
           ELSE /\ base' = 0
                /\ evaluation' = NoEvaluation
                /\ behind' = FALSE /\ known' = FALSE /\ log' = <<>>
    /\ UNCHANGED <<rows, pending, committed>>

\* A commit's subscribers are told: next() evaluates.
Notify ==
    /\ Active # {}
    /\ behind
    /\ pending = <<>> \/ Preemptible
    /\ Latest(Active)
    /\ UNCHANGED <<rows, pending, committed, windows>>

Next ==
    \/ \E key \in Keys, field \in Fields \union {Absent} : Write(key, field)
    \/ Commit
    \/ \E end \in Ends : Acquire(end) \/ Release(end)
    \/ Notify

Spec == Init /\ [][Next]_vars

-----------------------------------------------------------------------------
Contents == [Keys -> Fields \union {Absent}]
Change == [key : Keys, previous : Fields \union {Absent}, next : Fields \union {Absent}]
Row == [key : Keys, field : Fields]

TypeOK ==
    /\ rows \in Contents /\ committed \in Contents
    /\ pending \in Seq(Change) /\ log \in Seq(Change)
    /\ behind \in BOOLEAN /\ known \in BOOLEAN
    /\ windows \in [Ends -> Nat] /\ base \in Nat \union {Unlimited}
    /\ evaluation \in [window : Seq(Row), totalRows : Int, filled : BOOLEAN]

\* No mutation is under way and every commit has been told.
Settled == Active # {} /\ pending = <<>> /\ ~behind

\* Every subscriber's window, cut from the shared evaluation, is what a query of
\* the committed rows returns, and so is the total (projectWindowEvaluation).
LeasesSeeTheResult ==
    Settled =>
        LET all == Result(committed)
        IN  /\ evaluation.totalRows = Len(all)
            /\ \A end \in Active : Truncated(evaluation.window, end) = Truncated(all, end)

\* What is retained beyond the windows is the continuation of the result too: the
\* next removal is answered from it without a scan (retainedWindowLookahead).
RetainedIsPrefix ==
    Settled => IsPrefix(evaluation.window, Result(committed))

\* "Empty result sets report totalRows: 0" (docs/query-semantics.md): whenever
\* the committed rows answer the query with nothing, so does the execution.
EmptyResultReportsZero ==
    Settled /\ Result(committed) = <<>> => evaluation.totalRows = 0
=============================================================================
