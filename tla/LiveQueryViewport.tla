--------------------------- MODULE LiveQueryViewport ---------------------------
(***************************************************************************)
(* The viewport of a virtual grid (makeLiveQueryViewport in                *)
(* react/src/live-query-viewport.ts): it shows one live query at a time in *)
(* the sink of the latest request.  What it shows is the projection of     *)
(* module LiveQueryState.                                                  *)
(*                                                                         *)
(* Everything runs on one thread, but a sink that is told something may    *)
(* call the viewport back before it returns.  A call of the viewport is    *)
(* therefore cut at every sink it tells.  The calls made from inside a     *)
(* sink are not cut again, and the sinks they tell do not throw.           *)
(*                                                                         *)
(* Left out: the getters of a request that run while it is captured, the   *)
(* chrome published beside the rows, and the numbers of the counts a sink  *)
(* is told.  A request is its sink, the first row of its window and        *)
(* whether it is valid; requests of one query only differ in these.        *)
(***************************************************************************)
EXTENDS LiveQueryState

CONSTANTS Sinks,
          FirstRows,  \* windows requested, by their first row
          NoRequest, NoCall, AlienRow

Requests == [sink : Sinks, firstRow : Nat, live : BOOLEAN]
Calls == [stage : {"activating", "releasing", "delivering"}, sink : Sinks,
          own : {"active", "pending", "spent"}, todo : SUBSET Sinks,
          failed : BOOLEAN, cleared : BOOLEAN, inside : BOOLEAN]

ASSUME FirstRowsAreNumbers == FirstRows \subseteq Nat
ASSUME NoneAreDistinct == NoRequest \notin Requests /\ NoCall \notin Calls

VARIABLES
    active,           \* the ActiveRequest, or NoRequest
    pendingCleanups,  \* sinks with an unspent clean-up of a superseded request
    command,          \* the command of the active request waits to run
    stream,           \* the active request's subscription is projected
    shown,            \* rows its sink shows since it was activated, by absolute index
    used,             \* sinks told something since they were last cleared
    call,             \* the call that is telling sinks, or NoCall
    terminal

controlVars == <<active, pendingCleanups, command, stream, used, call, terminal>>
viewportVars == <<controlVars, shown>>
allVars == <<vars, viewportVars>>

NoRows == [i \in {} |-> AlienRow]

InitViewport ==
    /\ Init
    /\ active = NoRequest
    /\ pendingCleanups = {} /\ used = {}
    /\ command = FALSE /\ stream = FALSE
    /\ shown = NoRows
    /\ call = NoCall
    /\ terminal = FALSE

\* makeIncrementalClientState: every subscription starts from nothing.
NewProjection ==
    /\ server' = Evaluation(<<>>, 0, 0) /\ following' = FALSE
    /\ window' = <<>> /\ keyIndexes' = NoIndexes
    /\ totalRows' = 0 /\ version' = 0
    /\ status' = "loading" /\ change' = Nothing
    /\ shown' = NoRows

Held(sink) == active # NoRequest /\ active.sink = sink

-----------------------------------------------------------------------------
(* Calls of the grid, from outside or from inside a sink *)

\* A call that tells sinks: what it does once they are told ("activating",
\* "releasing", "delivering"), the clean-ups it still has to run, whether one
\* failed, whether a sink is being told, and, if it acts for a request, that
\* request's sink and where the request's own clean-up is: "active" with it, among
\* the "pending" ones, or "spent".
NewCall(stage, sink, own, todo) ==
    [stage |-> stage, sink |-> sink, own |-> own, todo |-> todo,
     failed |-> FALSE, cleared |-> FALSE, inside |-> FALSE]

CanCall == call # NoCall => call.inside

\* isCurrent of the request a call acts for
IsCurrent == call.own = "active"

\* The call a sink interrupted sees that its request has lost its place, and whether
\* its clean-up was spent.
OwnBecomes(place) == call' = IF call = NoCall THEN NoCall ELSE [call EXCEPT !.own = place]

\* Mutant: the sink of the superseded request is forgotten.
ForgetPrevious == pendingCleanups

\* The clean-up of the superseded request waits until its successor is activated;
\* an earlier one of the same sink is discarded (latestPendingCleanupBySink).
Superseded ==
    IF active = NoRequest THEN pendingCleanups ELSE pendingCleanups \union {active.sink}

OwnAfterInstall ==
    CASE call = NoCall -> "spent"
      [] call # NoCall /\ IsCurrent -> "pending"
      [] call # NoCall /\ call.own = "pending" /\ Held(call.sink) -> "spent"
      [] OTHER -> call.own

\* installActive, and publish: the stream of the request before is interrupted, and
\* a command that has not run never does.
Install(sink, firstRow, valid) ==
    /\ active' = [sink |-> sink, firstRow |-> firstRow, live |-> valid]
    /\ pendingCleanups' = Superseded
    /\ OwnBecomes(OwnAfterInstall)
    /\ command' = TRUE /\ stream' = FALSE
    /\ NewProjection
    /\ UNCHANGED <<used, terminal>>

IsSame(sink, firstRow, valid) ==
    /\ active # NoRequest
    /\ active.live /\ valid
    /\ active.sink = sink /\ active.firstRow = firstRow

\* replace: an identical live request is kept.  One that is not valid takes the
\* sink too, without a subscription.
Replace(sink, firstRow, valid) ==
    /\ CanCall /\ ~terminal
    /\ ~IsSame(sink, firstRow, valid)
    /\ Install(sink, IF valid THEN firstRow ELSE 0, valid)

\* setWindow of the generation that owns the active request; the others do nothing.
SetWindow(firstRow, valid) ==
    /\ CanCall /\ active # NoRequest
    /\ ~IsSame(active.sink, firstRow, valid)
    /\ Install(active.sink, IF valid THEN firstRow ELSE 0, valid)

\* The active request is given up before any sink is told (cleanupRequest).
GiveUp ==
    /\ active' = NoRequest
    /\ pendingCleanups' = {}
    /\ command' = FALSE /\ stream' = FALSE
    /\ NewProjection
    /\ IF call = NoCall
       THEN /\ call' = NewCall("releasing", active.sink, "spent",
                               pendingCleanups \union {active.sink})
            /\ UNCHANGED used
       ELSE /\ used' = used \ (pendingCleanups \union {active.sink})
            /\ OwnBecomes("spent")

\* release of the generation that owns the active request
Release ==
    /\ CanCall /\ active # NoRequest
    /\ GiveUp
    /\ UNCHANGED terminal

\* destroy, and deactivate when the binding replaces the viewport
Destroy ==
    /\ CanCall /\ ~terminal
    /\ terminal' = TRUE
    /\ IF active = NoRequest
       THEN UNCHANGED <<vars, active, pendingCleanups, command, stream, shown, used, call>>
       ELSE GiveUp

-----------------------------------------------------------------------------
(* Activation and clean-ups *)

\* The published command runs: the clean-ups of the requests before come first.
BeginActivation ==
    /\ call = NoCall /\ command
    /\ call' = NewCall("activating", active.sink, "active", pendingCleanups)
    /\ pendingCleanups' = {}
    /\ command' = FALSE
    /\ UNCHANGED <<vars, active, stream, shown, used, terminal>>

\* runSinkCleanups: the sink that is in use again is left alone.  A sink that
\* throws is not told again, and the others still are.  Their order is left open.
RunCleanup ==
    /\ call # NoCall
    /\ \E sink \in call.todo :
        IF Held(sink)
        THEN /\ call' = [call EXCEPT !.todo = @ \ {sink}, !.inside = FALSE]
             /\ UNCHANGED used
        ELSE /\ used' = used \ {sink}
             /\ \E failed \in BOOLEAN :
                    call' = [call EXCEPT !.todo = @ \ {sink}, !.inside = TRUE,
                                         !.failed = @ \/ failed]
    /\ UNCHANGED <<vars, active, pendingCleanups, command, stream, shown, terminal>>

\* clearSink: the new sink is told the last count without its rows, if its request is
\* still active.
ClearSink ==
    /\ call # NoCall /\ call.stage = "activating" /\ call.todo = {}
    /\ ~call.failed /\ ~call.cleared /\ IsCurrent
    /\ used' = used \union {call.sink} /\ shown' = NoRows
    /\ \E failed \in BOOLEAN :
        call' = [call EXCEPT !.cleared = TRUE, !.inside = TRUE, !.failed = failed]
    /\ UNCHANGED <<vars, active, pendingCleanups, command, stream, terminal>>

Activated ==
    /\ call # NoCall /\ call.stage = "activating"
    /\ call.cleared /\ ~call.failed /\ IsCurrent
    /\ stream' = active.live
    /\ call' = NoCall
    /\ UNCHANGED <<vars, active, pendingCleanups, command, shown, used, terminal>>

\* A request one of whose sinks threw is given up; it clears its own sink, and so
\* does one that lost its place meanwhile, unless that clean-up was spent.
NotActivated ==
    /\ call # NoCall /\ call.stage = "activating" /\ call.todo = {}
    /\ call.failed \/ ~IsCurrent
    /\ active' = IF IsCurrent THEN NoRequest ELSE active
    /\ pendingCleanups' =
           IF call.own = "pending" THEN pendingCleanups \ {call.sink} ELSE pendingCleanups
    /\ used' = IF call.own = "spent" \/ (~IsCurrent /\ Held(call.sink))
               THEN used ELSE used \ {call.sink}
    /\ call' = NoCall
    /\ UNCHANGED <<vars, command, stream, shown, terminal>>

\* A command published from inside a sink may run before that sink returns.
ActivateInside ==
    /\ call # NoCall /\ call.inside /\ command
    /\ used' = (used \ pendingCleanups) \union {active.sink} /\ shown' = NoRows
    /\ OwnBecomes(IF call.own = "pending" THEN "spent" ELSE call.own)
    /\ pendingCleanups' = {}
    /\ command' = FALSE
    /\ stream' = active.live
    /\ UNCHANGED <<vars, active, terminal>>

ReleaseEnds ==
    /\ call # NoCall /\ call.stage = "releasing" /\ call.todo = {}
    /\ call' = NoCall
    /\ UNCHANGED <<vars, active, pendingCleanups, command, stream, shown, used, terminal>>

-----------------------------------------------------------------------------
(* The subscription *)

\* setRowCount(totalRows, true): rows behind the end are dropped.
Counted == [i \in {j \in DOMAIN shown : j < totalRows'} |-> shown[i]]

\* viewportDataForRange: the client's rows at their absolute indexes.
Placed(w, from, to) ==
    [i \in {active.firstRow + j - 1 : j \in from..to} |-> w[i - active.firstRow + 1]]

Overlaid(rows, below) ==
    [i \in DOMAIN rows \union DOMAIN below |-> IF i \in DOMAIN rows THEN rows[i] ELSE below[i]]

ChangedRows ==
    CASE change'.type = "None" -> NoRows
      [] change'.type = "All" -> Placed(window', 1, Len(window'))
      [] change'.type = "Range" -> Placed(window', change'.start, change'.end)

\* An event is projected and its sink told the count, and then the rows.  A closed
\* subscription empties the sink, and may be asked for again.
Deliver ==
    /\ call = NoCall /\ stream
    /\ Event(active.firstRow)
    /\ IF status' = "closed"
       THEN shown' = NoRows /\ active' = [active EXCEPT !.live = FALSE]
       ELSE shown' = Overlaid(ChangedRows, Counted) /\ UNCHANGED active
    /\ UNCHANGED <<pendingCleanups, command, stream, used, call, terminal>>

\* A sink that is told the count of an event calls back.  What the event says does
\* not matter if its request loses its place now; if not, this is Deliver.
SinkCallsBack ==
    /\ call = NoCall /\ stream
    /\ call' = [NewCall("delivering", active.sink, "active", {}) EXCEPT !.inside = TRUE]
    /\ UNCHANGED <<vars, active, pendingCleanups, command, stream, shown, used, terminal>>

\* Mutant: the rows of the event are told without asking again whose they are.
RowsAnyway == IF Held(call.sink) THEN shown' = 0 :> AlienRow ELSE UNCHANGED shown

\* The second isCurrent: the rows of the event are not told any more.
RestOfEvent == UNCHANGED shown

DeliveryResumes ==
    /\ call # NoCall /\ call.stage = "delivering" /\ ~IsCurrent
    /\ RestOfEvent
    /\ call' = NoCall
    /\ UNCHANGED <<vars, active, pendingCleanups, command, stream, used, terminal>>

\* The subscription fails or ends, its sink throws, or the grid is unmounted.
StreamEnds ==
    /\ call = NoCall /\ stream
    /\ GiveUp
    /\ UNCHANGED terminal

NextViewport ==
    \/ \E sink \in Sinks, firstRow \in FirstRows, valid \in BOOLEAN :
            Replace(sink, firstRow, valid)
    \/ \E firstRow \in FirstRows, valid \in BOOLEAN : SetWindow(firstRow, valid)
    \/ Release \/ Destroy
    \/ BeginActivation \/ RunCleanup \/ ClearSink \/ Activated \/ NotActivated
    \/ ActivateInside \/ ReleaseEnds
    \/ Deliver \/ SinkCallsBack \/ DeliveryResumes \/ StreamEnds

SpecViewport == InitViewport /\ [][NextViewport]_allVars

-----------------------------------------------------------------------------
\* Sinks the viewport still has to clear: those of its clean-ups, of the call that
\* is under way, and of the request that call acts for.
ToBeCleared ==
    pendingCleanups \union (IF call = NoCall THEN {} ELSE call.todo)

\* However requests replace each other, throw, end or are made from inside a sink, a
\* sink that shows something is the active request's or still to be cleared: nobody
\* leaves rows behind in a sink that is not his (runSinkCleanups, cleanupRequest).
\* And the sink of the subscription was not cleared by a request before it.
SinksAreCleared ==
    /\ \A sink \in used : Held(sink) \/ sink \in ToBeCleared
    /\ stream => active.sink \in used

\* Before the first event the sink shows nothing, and while the client follows the
\* engine it shows exactly the client's rows at their indexes, although it is only
\* told ranges and counts: none of an event that was interrupted, and none of a
\* request before (makeSubscriptionStream).
SinkShowsTheClient ==
    stream /\ (following \/ status = "loading") =>
        shown = Placed(window, 1, Len(window))
=============================================================================
