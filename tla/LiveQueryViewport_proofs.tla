---------------------- MODULE LiveQueryViewport_proofs ----------------------
(***************************************************************************)
(* Proofs about the viewport and the client state it shows: the control of *)
(* the sinks (ControlInv), what the client has while it follows the engine *)
(* (ClientInv), from the theorems about deltas and staged batches, and     *)
(* that ranges and counts are all the sink needs (SinkInv).                *)
(***************************************************************************)
EXTENDS LiveQueryViewport, LiveQueryTree_proofs

-----------------------------------------------------------------------------
(* Whose sink it is *)

\* What the variables of the viewport's control are.
ControlTypeOK ==
    /\ active \in Requests \union {NoRequest}
    /\ pendingCleanups \subseteq Sinks
    /\ used \subseteq Sinks
    /\ command \in BOOLEAN
    /\ stream \in BOOLEAN
    /\ call \in Calls \union {NoCall}

\* A command that waits and a subscription are the active request's; it has one or the
\* other.
ActiveRuns ==
    /\ command \/ stream => active # NoRequest
    /\ ~(command /\ stream)

\* A call whose request still has its place acts for the active request, which has no
\* command left and, until the call is done, no subscription.
ActsForActive ==
    call # NoCall /\ call.own = "active" =>
        /\ Held(call.sink)
        /\ ~command
        /\ call.stage = "activating" => ~stream
        /\ call.cleared => call.sink \in used

\* Nothing is cleared after the new sink, nor while an event is delivered.
NothingLeftToDo ==
    call # NoCall /\ (call.cleared \/ call.stage = "delivering") => call.todo = {}

\* The inductive invariant of the control, and what it is for.
ControlInv ==
    ControlTypeOK /\ ActiveRuns /\ ActsForActive /\ NothingLeftToDo /\ SinksAreCleared

\* It holds at first.
LEMMA InitControl == InitViewport => ControlInv
BY DEF InitViewport, ControlInv, ControlTypeOK, ActiveRuns, ActsForActive, NothingLeftToDo,
       SinksAreCleared, Held, ToBeCleared

\* The fields of the active request.
LEMMA ActiveIsRequest ==
  ASSUME ControlInv, active # NoRequest
  PROVE  /\ active \in Requests /\ active.sink \in Sinks
         /\ active.firstRow \in Nat /\ active.live \in BOOLEAN
BY DEF ControlInv, ControlTypeOK, Requests

\* A call is one.
LEMMA CallIsCall ==
  ASSUME ControlInv, call # NoCall
  PROVE  call \in Calls
BY DEF ControlInv, ControlTypeOK

\* The fields of a request make one.
LEMMA RequestOfFields ==
  ASSUME NEW sink \in Sinks, NEW firstRow \in Nat, NEW live \in BOOLEAN
  PROVE  /\ [sink |-> sink, firstRow |-> firstRow, live |-> live] \in Requests
         /\ [sink |-> sink, firstRow |-> firstRow, live |-> live] # NoRequest
BY NoneAreDistinct DEF Requests

\* A call whose request has another place.
LEMMA CallWithOwn ==
  ASSUME NEW c \in Calls, NEW own \in {"active", "pending", "spent"},
         NEW d, d = [c EXCEPT !.own = own]
  PROVE  /\ d \in Calls /\ d # NoCall
         /\ d.own = own /\ d.todo = c.todo /\ d.stage = c.stage /\ d.sink = c.sink
         /\ d.cleared = c.cleared
BY NoneAreDistinct DEF Calls

\* A call that begins.
LEMMA NewCallIsCall ==
  ASSUME NEW stage \in {"activating", "releasing", "delivering"}, NEW sink \in Sinks,
         NEW own \in {"active", "pending", "spent"}, NEW todo, todo \subseteq Sinks
  PROVE  NewCall(stage, sink, own, todo) \in Calls
<1>1. todo \in SUBSET Sinks
  OBVIOUS
<1>. QED
  BY <1>1 DEF NewCall, Calls

\* A request installed, from outside or from inside a sink.
LEMMA InstallControl ==
  ASSUME ControlInv, NEW sink \in Sinks, NEW firstRow \in Nat, NEW valid \in BOOLEAN,
         Install(sink, firstRow, valid)
  PROVE  ControlInv'
<1>1. /\ active' \in Requests /\ active' # NoRequest
      /\ command' = TRUE /\ stream' = FALSE /\ used' = used
      /\ pendingCleanups' = Superseded
  BY RequestOfFields DEF Install
<1>2. /\ call = NoCall => call' = NoCall
      /\ call # NoCall => /\ call' \in Calls /\ call' # NoCall /\ call'.own # "active"
                          /\ call'.todo = call.todo /\ call'.stage = call.stage
                          /\ call'.cleared = call.cleared
  <2>1. CASE call = NoCall
    BY <2>1 DEF Install, OwnBecomes
  <2>2. CASE call # NoCall
    <3>1. call \in Calls
      BY <2>2, CallIsCall
    <3>2. OwnAfterInstall \in {"pending", "spent"}
      BY <2>2, <3>1 DEF OwnAfterInstall, IsCurrent, Calls
    <3>3. call' = [call EXCEPT !.own = OwnAfterInstall]
      BY <2>2 DEF Install, OwnBecomes
    <3>. QED
      BY <2>2, <3>1, <3>2, <3>3, CallWithOwn
  <2>. QED
    BY <2>1, <2>2
<1>3. Superseded \subseteq Sinks
  BY ActiveIsRequest DEF Superseded, ControlInv, ControlTypeOK
<1>4. ControlTypeOK'
  BY <1>1, <1>2, <1>3 DEF ControlInv, ControlTypeOK
<1>5. \A s \in used' : s \in ToBeCleared'
  BY <1>1, <1>2 DEF ControlInv, SinksAreCleared, ToBeCleared, Superseded, Held
<1>. QED
  BY <1>1, <1>2, <1>4, <1>5
  DEF ControlInv, ActiveRuns, ActsForActive, NothingLeftToDo, SinksAreCleared, Held

\* The active request given up.
LEMMA GiveUpControl ==
  ASSUME ControlInv, active # NoRequest, GiveUp
  PROVE  ControlInv'
<1>1. /\ active' = NoRequest /\ pendingCleanups' = {} /\ ~command' /\ command' \in BOOLEAN
      /\ ~stream' /\ stream' \in BOOLEAN
  BY DEF GiveUp
<1>2. active.sink \in Sinks
  BY ActiveIsRequest
<1>3. CASE call = NoCall
  <2>1. /\ used' = used
        /\ call' = NewCall("releasing", active.sink, "spent", pendingCleanups \union {active.sink})
    BY <1>3 DEF GiveUp
  <2>6. pendingCleanups \union {active.sink} \subseteq Sinks
    BY <1>2 DEF ControlInv, ControlTypeOK
  <2>2. call' \in Calls /\ call' # NoCall
    BY <2>1, <2>6, <1>2, NewCallIsCall, NoneAreDistinct
  <2>3. call'.todo = pendingCleanups \union {active.sink} /\ call'.own = "spent" /\ ~call'.cleared
        /\ call'.stage = "releasing"
    BY <2>1 DEF NewCall
  <2>4. ControlTypeOK'
    BY <1>1, <2>1, <2>2 DEF ControlInv, ControlTypeOK
  <2>5. \A s \in used' : s \in ToBeCleared'
    BY <1>1, <1>3, <2>1, <2>2, <2>3 DEF ControlInv, SinksAreCleared, ToBeCleared, Held
  <2>. QED
    BY <1>1, <2>2, <2>3, <2>4, <2>5
    DEF ControlInv, ActiveRuns, ActsForActive, NothingLeftToDo, SinksAreCleared
<1>4. CASE call # NoCall
  <2>1. call \in Calls
    BY <1>4, CallIsCall
  <2>2. /\ used' = used \ (pendingCleanups \union {active.sink})
        /\ call' = [call EXCEPT !.own = "spent"]
    BY <1>4 DEF GiveUp, OwnBecomes
  <2>3. /\ call' \in Calls /\ call' # NoCall /\ call'.own = "spent"
        /\ call'.todo = call.todo /\ call'.stage = call.stage
        /\ call'.cleared = call.cleared
    BY <2>1, <2>2, CallWithOwn
  <2>4. ControlTypeOK'
    BY <1>1, <2>2, <2>3 DEF ControlInv, ControlTypeOK
  <2>5. \A s \in used' : s \in ToBeCleared'
    BY <1>1, <1>4, <2>2, <2>3 DEF ControlInv, SinksAreCleared, ToBeCleared, Held
  <2>. QED
    BY <1>1, <1>4, <2>3, <2>4, <2>5
    DEF ControlInv, ActiveRuns, ActsForActive, NothingLeftToDo, SinksAreCleared
<1>. QED
  BY <1>3, <1>4
\* Every step keeps it.
LEMMA NextControl ==
  ASSUME ControlInv, [NextViewport]_allVars
  PROVE  ControlInv'
<1>1. ASSUME NEW sink \in Sinks, NEW firstRow \in FirstRows, NEW valid \in BOOLEAN,
             Replace(sink, firstRow, valid)
      PROVE  ControlInv'
  <2>1. (IF valid THEN firstRow ELSE 0) \in Nat
    BY FirstRowsAreNumbers
  <2>. QED
    BY <1>1, <2>1, InstallControl DEF Replace
<1>2. ASSUME NEW firstRow \in FirstRows, NEW valid \in BOOLEAN, SetWindow(firstRow, valid)
      PROVE  ControlInv'
  <2>1. (IF valid THEN firstRow ELSE 0) \in Nat /\ active.sink \in Sinks
    BY <1>2, FirstRowsAreNumbers, ActiveIsRequest DEF SetWindow
  <2>. QED
    BY <1>2, <2>1, InstallControl DEF SetWindow
<1>3. CASE Release
  BY <1>3, GiveUpControl DEF Release
<1>4. CASE Destroy
  <2>1. CASE active = NoRequest
    BY <1>4, <2>1 DEF Destroy, ControlInv, ControlTypeOK, ActiveRuns, ActsForActive,
       NothingLeftToDo, SinksAreCleared, Held, ToBeCleared
  <2>. QED
    BY <1>4, <2>1, GiveUpControl DEF Destroy
<1>5. CASE BeginActivation
  <2>1. active # NoRequest /\ ~stream /\ active.sink \in Sinks
    BY <1>5, ActiveIsRequest DEF BeginActivation, ControlInv, ActiveRuns
  <2>4. call' = NewCall("activating", active.sink, "active", pendingCleanups)
    BY <1>5 DEF BeginActivation
  <2>5. call' \in Calls
    BY <2>1, <2>4, NewCallIsCall DEF ControlInv, ControlTypeOK
  <2>6. /\ call'.todo = pendingCleanups /\ call'.sink = active.sink /\ call'.cleared = FALSE
        /\ call'.stage = "activating"
    BY <2>4 DEF NewCall
  <2>2. call' # NoCall
    BY <2>5, NoneAreDistinct
  <2>3. /\ active' = active /\ stream' = stream /\ used' = used
        /\ pendingCleanups' = {} /\ command' = FALSE /\ call = NoCall
    BY <1>5 DEF BeginActivation
  <2>. QED
    BY <2>1, <2>2, <2>3, <2>5, <2>6
    DEF ControlInv, ControlTypeOK, ActiveRuns, ActsForActive, NothingLeftToDo, SinksAreCleared,
        ToBeCleared, Held
<1>6. CASE RunCleanup
  <2>1. PICK sink \in call.todo :
          \/ /\ Held(sink) /\ UNCHANGED used
             /\ call' = [call EXCEPT !.todo = @ \ {sink}, !.inside = FALSE]
          \/ /\ ~Held(sink) /\ used' = used \ {sink}
             /\ \E failed \in BOOLEAN :
                    call' = [call EXCEPT !.todo = @ \ {sink}, !.inside = TRUE,
                                         !.failed = @ \/ failed]
    BY <1>6 DEF RunCleanup
  <2>2. /\ call # NoCall
        /\ UNCHANGED <<active, pendingCleanups, command, stream>>
    BY <1>6 DEF RunCleanup
  <2>3. call \in Calls
    BY <2>2, CallIsCall
  <2>4. /\ call' \in Calls /\ call' # NoCall /\ call'.todo = call.todo \ {sink}
        /\ call'.own = call.own /\ call'.sink = call.sink /\ call'.cleared = call.cleared
        /\ call'.stage = call.stage
    <3>1. PICK inside \in BOOLEAN, failed \in BOOLEAN :
            call' = [call EXCEPT !.todo = @ \ {sink}, !.inside = inside, !.failed = failed]
      <4>1. CASE call' = [call EXCEPT !.todo = @ \ {sink}, !.inside = FALSE]
        <5>1. call' = [call EXCEPT !.todo = @ \ {sink}, !.inside = FALSE, !.failed = call.failed]
          BY <4>1, <2>3 DEF Calls
        <5>. QED
          BY <5>1, <2>3 DEF Calls
      <4>2. CASE \E failed \in BOOLEAN :
                    call' = [call EXCEPT !.todo = @ \ {sink}, !.inside = TRUE,
                                         !.failed = @ \/ failed]
        <5>1. PICK failed \in BOOLEAN :
                call' = [call EXCEPT !.todo = @ \ {sink}, !.inside = TRUE, !.failed = @ \/ failed]
          BY <4>2
        <5>2. (call.failed \/ failed) \in BOOLEAN
          OBVIOUS
        <5>. QED
          BY <5>1, <5>2
      <4>. QED
        BY <2>1, <4>1, <4>2
    <3>2. call.todo \ {sink} \in SUBSET Sinks
      BY <2>3 DEF Calls
    <3>. QED
      BY <2>3, <3>1, <3>2, NoneAreDistinct DEF Calls
  <2>5. call.todo # {}
    BY <2>1
  <2>6. ControlTypeOK'
    BY <2>1, <2>2, <2>4 DEF ControlInv, ControlTypeOK
  <2>7. \A s \in used' : Held(s)' \/ s \in ToBeCleared'
    BY <2>1, <2>2, <2>4 DEF ControlInv, SinksAreCleared, Held, ToBeCleared
  <2>8. stream' => active.sink' \in used'
    BY <2>1, <2>2 DEF ControlInv, SinksAreCleared, ActiveRuns, Held
  <2>. QED
    BY <2>2, <2>4, <2>5, <2>6, <2>7, <2>8
    DEF ControlInv, ActiveRuns, ActsForActive, NothingLeftToDo, SinksAreCleared, Held
<1>7. CASE ClearSink
  <2>1. /\ call \in Calls /\ call # NoCall /\ call.todo = {} /\ call.own = "active"
        /\ used' = used \union {call.sink}
        /\ UNCHANGED <<active, pendingCleanups, command, stream>>
    BY <1>7, CallIsCall DEF ClearSink, IsCurrent
  <2>2. PICK failed \in BOOLEAN :
          call' = [call EXCEPT !.cleared = TRUE, !.inside = TRUE, !.failed = failed]
    BY <1>7 DEF ClearSink
  <2>3. /\ call' \in Calls /\ call' # NoCall /\ call'.todo = {} /\ call'.own = "active"
        /\ call'.sink = call.sink /\ call'.stage = call.stage
    BY <2>1, <2>2, NoneAreDistinct DEF Calls
  <2>4. call.sink \in Sinks /\ Held(call.sink)
    BY <2>1 DEF Calls, ControlInv, ActsForActive
  <2>. QED
    BY <2>1, <2>3, <2>4
    DEF ControlInv, ControlTypeOK, ActiveRuns, ActsForActive, NothingLeftToDo, SinksAreCleared,
        Held, ToBeCleared
<1>8. CASE Activated
  <2>1. /\ call # NoCall /\ call.todo = {} /\ Held(call.sink) /\ call.sink \in used
        /\ ~command /\ active # NoRequest /\ active.live \in BOOLEAN
    BY <1>8, ActiveIsRequest
    DEF Activated, IsCurrent, ControlInv, ActsForActive, NothingLeftToDo, Held
  <2>2. /\ stream' = active.live /\ call' = NoCall
        /\ UNCHANGED <<active, pendingCleanups, command, used>>
    BY <1>8 DEF Activated
  <2>. QED
    BY <2>1, <2>2
    DEF ControlInv, ControlTypeOK, ActiveRuns, ActsForActive, NothingLeftToDo, SinksAreCleared,
        Held, ToBeCleared
<1>9. CASE NotActivated
  <2>1. /\ call \in Calls /\ call # NoCall /\ call.todo = {} /\ call' = NoCall
        /\ call.stage = "activating" /\ UNCHANGED <<command, stream>>
    BY <1>9, CallIsCall DEF NotActivated
  <2>2. CASE IsCurrent
    <3>1. /\ active' = NoRequest /\ pendingCleanups' = pendingCleanups
          /\ used' = used \ {call.sink} /\ ~stream /\ ~command /\ Held(call.sink)
      BY <1>9, <2>1, <2>2 DEF NotActivated, IsCurrent, ControlInv, ActsForActive
    <3>. QED
      BY <2>1, <3>1
      DEF ControlInv, ControlTypeOK, ActiveRuns, ActsForActive, NothingLeftToDo, SinksAreCleared,
          Held, ToBeCleared
  <2>3. CASE ~IsCurrent
    <3>1. /\ active' = active
          /\ pendingCleanups' \in {pendingCleanups, pendingCleanups \ {call.sink}}
          /\ used' \in {used, used \ {call.sink}}
          /\ call.own = "spent" => pendingCleanups' = pendingCleanups /\ used' = used
          /\ call.own # "spent" /\ ~Held(call.sink) => used' = used \ {call.sink}
          /\ Held(call.sink) => used' = used
      BY <1>9, <2>3 DEF NotActivated
    <3>. QED
      BY <2>1, <3>1
      DEF ControlInv, ControlTypeOK, ActiveRuns, ActsForActive, NothingLeftToDo, SinksAreCleared,
          Held, ToBeCleared
  <2>. QED
    BY <2>2, <2>3
<1>10. CASE ActivateInside
  <2>1. /\ call # NoCall /\ call \in Calls /\ command
        /\ active # NoRequest /\ active.sink \in Sinks /\ active.live \in BOOLEAN
    BY <1>10, CallIsCall, ActiveIsRequest DEF ActivateInside, ControlInv, ActiveRuns
  <2>2. /\ used' = (used \ pendingCleanups) \union {active.sink}
        /\ call' = [call EXCEPT !.own = IF call.own = "pending" THEN "spent" ELSE call.own]
        /\ pendingCleanups' = {} /\ command' = FALSE /\ stream' = active.live
        /\ active' = active
    BY <1>10, <2>1 DEF ActivateInside, OwnBecomes
  <2>3. call.own \in {"pending", "spent"}
    BY <2>1 DEF ControlInv, ActsForActive, Calls
  <2>4. /\ call' \in Calls /\ call' # NoCall /\ call'.own = "spent" /\ call'.todo = call.todo
        /\ call'.stage = call.stage /\ call'.cleared = call.cleared
    BY <2>1, <2>2, <2>3, CallWithOwn
  <2>. QED
    BY <2>1, <2>2, <2>4
    DEF ControlInv, ControlTypeOK, ActiveRuns, ActsForActive, NothingLeftToDo, SinksAreCleared,
        Held, ToBeCleared
<1>11. CASE ReleaseEnds
  BY <1>11
  DEF ReleaseEnds, ControlInv, ControlTypeOK, ActiveRuns, ActsForActive, NothingLeftToDo,
      SinksAreCleared, Held, ToBeCleared
<1>12. CASE Deliver
  <2>1. /\ call = NoCall /\ call' = NoCall /\ stream
        /\ UNCHANGED <<pendingCleanups, command, stream, used>>
        /\ active' \in {active, [active EXCEPT !.live = FALSE]}
    BY <1>12 DEF Deliver
  <2>2. active # NoRequest /\ active \in Requests
    BY <2>1, ActiveIsRequest DEF ControlInv, ActiveRuns
  <2>3. active' \in Requests /\ active'.sink = active.sink
    <3>1. CASE active' = active
      BY <2>2, <3>1
    <3>2. CASE active' = [active EXCEPT !.live = FALSE]
      BY <2>2, <3>2 DEF Requests
    <3>. QED
      BY <2>1, <3>1, <3>2
  <2>4. active' # NoRequest
    BY <2>3, NoneAreDistinct
  <2>. QED
    BY <2>1, <2>2, <2>3, <2>4
    DEF ControlInv, ControlTypeOK, ActiveRuns, ActsForActive, NothingLeftToDo, SinksAreCleared,
        Held, ToBeCleared
<1>13. CASE SinkCallsBack
  <2>1. /\ call = NoCall /\ stream /\ active # NoRequest /\ active.sink \in Sinks /\ ~command
        /\ UNCHANGED <<active, pendingCleanups, command, stream, used>>
    BY <1>13, ActiveIsRequest DEF SinkCallsBack, ControlInv, ActiveRuns
  <2>. DEFINE c == NewCall("delivering", active.sink, "active", {})
  <2>5. c \in Calls
    BY <2>1, NewCallIsCall
  <2>2. /\ c.stage = "delivering" /\ c.sink = active.sink /\ c.own = "active"
        /\ c.todo = {} /\ c.cleared = FALSE
    BY DEF NewCall
  <2>3. call' = [c EXCEPT !.inside = TRUE]
    BY <1>13 DEF SinkCallsBack
  <2>. HIDE DEF c
  <2>4. /\ call' \in Calls /\ call'.stage = "delivering" /\ call'.sink = active.sink
        /\ call'.own = "active" /\ call'.todo = {} /\ call'.cleared = FALSE
    BY <2>2, <2>3, <2>5 DEF Calls
  <2>. QED
    BY <2>1, <2>4
    DEF ControlInv, ControlTypeOK, ActiveRuns, ActsForActive, NothingLeftToDo, SinksAreCleared,
        Held, ToBeCleared
<1>14. CASE DeliveryResumes
  BY <1>14
  DEF DeliveryResumes, ControlInv, ControlTypeOK, ActiveRuns, ActsForActive, NothingLeftToDo,
      SinksAreCleared, Held, ToBeCleared
<1>15. CASE StreamEnds
  BY <1>15, GiveUpControl DEF StreamEnds, ControlInv, ActiveRuns
<1>16. CASE UNCHANGED allVars
  BY <1>16
  DEF allVars, viewportVars, controlVars, ControlInv, ControlTypeOK, ActiveRuns, ActsForActive,
      NothingLeftToDo, SinksAreCleared, Held, ToBeCleared
<1>. QED
  BY <1>1, <1>2, <1>3, <1>4, <1>5, <1>6, <1>7, <1>8, <1>9, <1>10, <1>11, <1>12, <1>13, <1>14,
     <1>15, <1>16 DEF NextViewport

\* Whatever requests, clean-ups that throw and calls from inside a sink do: a sink that
\* shows something is the active request's or still to be cleared (runSinkCleanups,
\* cleanupRequest).
THEOREM SinksAreAlwaysCleared == SpecViewport => []SinksAreCleared
<1>1. ControlInv => SinksAreCleared
  BY DEF ControlInv
<1>. QED
  BY <1>1, InitControl, NextControl, PTL DEF SpecViewport

-----------------------------------------------------------------------------
(* The client *)

\* The client has a window, its index, and while it follows the engine the engine's
\* evaluation.
ClientInv ==
    /\ IsWindow(window) /\ Len(window) <= WindowBound
    /\ keyIndexes = IndexesOf(window)
    /\ IsWindow(server.window) /\ server.version \in Nat
    /\ FollowsTheEngine

\* The range reported for a batch that has led to a window.
ChangedFor(w, touched, throughEnd) ==
    IF touched = {} THEN Nothing
    ELSE ChangedRange(Min(touched), IF throughEnd THEN Len(w) ELSE Min({Max(touched), Len(w)}))

\* An event that says nothing to the grid.
Refused ==
    /\ status' = "stale" /\ change' = Nothing
    /\ window' = window /\ keyIndexes' = keyIndexes
    /\ totalRows' = totalRows /\ version' = version

\* A delta is taken over, and its range has every row that is not as it was.
TakesOver(event) ==
    /\ status = "ready" /\ status' = "ready"
    /\ IsWindow(window') /\ keyIndexes' = IndexesOf(window')
    /\ totalRows' = event.totalRows /\ version' = event.toVersion
    /\ \E touched, throughEnd :
          /\ Touches(window, window', touched, throughEnd) /\ throughEnd \in BOOLEAN
          /\ change' = ChangedFor(window', touched, throughEnd)

\* A batch that fits is taken over with the range of what it touched.
LEMMA TakeOverIs ==
  ASSUME ClientInv, NEW event, Accepts(event), NEW a, IsBatch(a, window),
         NEW r, IsStagedOf(r, a), TakeOver(event, r)
  PROVE  TakesOver(event) /\ window' = a.window
<1>1. PICK v, undo, touched, throughEnd, fits :
        /\ a = Batch(v, undo, touched, throughEnd, fits)
        /\ throughEnd \in BOOLEAN /\ fits \in BOOLEAN
        /\ IsWindow(v) /\ LeadsBack(window, v, undo) /\ Touches(window, v, touched, throughEnd)
  BY DEF IsBatch
<1>2. /\ a.window = v /\ a.indexes = IndexesOf(v) /\ a.touched = touched
      /\ a.throughEnd = throughEnd
  BY <1>1 DEF Batch
<1>3. /\ r.window = v /\ r.indexes = IndexesOf(v) /\ r.touched = touched
      /\ r.throughEnd = throughEnd
  BY <1>2 DEF IsStagedOf
<1>4. /\ window' = v /\ keyIndexes' = IndexesOf(v) /\ totalRows' = event.totalRows
      /\ version' = event.toVersion /\ status' = "ready" /\ status = "ready"
  BY <1>3 DEF TakeOver, Accepts
<1>5. change' = ChangedFor(v, touched, throughEnd)
  BY <1>3 DEF TakeOver, RangeOf, ChangedFor
<1>. QED
  BY <1>1, <1>2, <1>4, <1>5 DEF TakesOver

\* For a batch in place that is so.
LEMMA BatchIsStaged ==
  ASSUME NEW a
  PROVE  IsStagedOf(a, a)
BY DEF IsStagedOf

\* A delta is refused and leaves the client as it was, or is taken over.
LEMMA ApplyDeltaIs ==
  ASSUME ClientInv, NEW event, event.operations \in Seq(Operations), ApplyDelta(event)
  PROVE  Refused \/ TakesOver(event)
<1>. DEFINE w == window
            a == Applied(window, IndexesOf(window), event.operations)
<1>0. IsWindow(window) /\ keyIndexes = IndexesOf(window)
  BY DEF ClientInv
<1>1. IsBatch(a, window)
  BY <1>0, AppliedIs
<1>2. CASE ~Accepts(event)
  BY <1>2 DEF ApplyDelta, StaleDelta, Refused
<1>3. CASE Accepts(event) /\ IsStaged(window, event.operations)
  <2>. DEFINE r == Staged(window, event.operations)
  <2>1. ApplyStaged(event, r)
    BY <1>3 DEF ApplyDelta
  <2>2. IsStagedOf(r, a)
    BY <1>0, StagedIs
  <2>. HIDE DEF r, a
  <2>3. CASE FitsTotal(event, r)
    BY <1>1, <1>3, <2>1, <2>2, <2>3, TakeOverIs DEF ApplyStaged
  <2>4. CASE ~FitsTotal(event, r)
    BY <2>1, <2>4 DEF ApplyStaged, StaleDelta, Refused
  <2>. QED
    BY <2>3, <2>4
<1>4. CASE Accepts(event) /\ ~IsStaged(window, event.operations)
  <2>1. ApplyInPlace(event, a)
    BY <1>0, <1>4 DEF ApplyDelta
  <2>. HIDE DEF a
  <2>2. CASE FitsTotal(event, a)
    BY <1>1, <1>4, <2>1, <2>2, BatchIsStaged, TakeOverIs DEF ApplyInPlace
  <2>3. CASE ~FitsTotal(event, a)
    <3>1. RolledBack(a) = At(window)
      BY <1>1, RolledBackIs
    <3>2. RolledBack(a).window = window /\ RolledBack(a).indexes = keyIndexes
      BY <1>0, <3>1 DEF At
    <3>. QED
      BY <2>1, <2>3, <3>2 DEF ApplyInPlace, StaleDelta, Refused
  <2>. QED
    BY <2>2, <2>3
<1>. QED
  BY <1>2, <1>3, <1>4

\* The engine's own delta is taken over and leads to the engine's window.
LEMMA DeltaTaken ==
  ASSUME ClientInv, NEW event, Accepts(event), ApplyDelta(event),
         NEW next, Leads(window, event.operations, next), event.totalRows >= Len(next)
  PROVE  TakesOver(event) /\ window' = next
<1>. DEFINE a == Applied(window, IndexesOf(window), event.operations)
<1>0. IsWindow(window) /\ keyIndexes = IndexesOf(window)
  BY DEF ClientInv
<1>1. event.operations \in Seq(Operations)
  BY DEF Leads
<1>2. IsBatch(a, window)
  BY <1>0, <1>1, AppliedIs
<1>3. Reaches(a, next)
  BY LeadsApplied
<1>. HIDE DEF a
<1>4. a.window = next /\ a.fits = TRUE
  BY <1>3 DEF Reaches, Batch
<1>5. CASE IsStaged(window, event.operations)
  <2>. DEFINE r == Staged(window, event.operations)
  <2>1. ApplyStaged(event, r)
    BY <1>5 DEF ApplyDelta
  <2>2. IsStagedOf(r, a)
    BY <1>0, <1>1, StagedIs DEF a
  <2>. HIDE DEF r
  <2>3. FitsTotal(event, r)
    BY <1>4, <2>2 DEF FitsTotal, IsStagedOf
  <2>. QED
    BY <1>2, <1>4, <2>1, <2>2, <2>3, TakeOverIs DEF ApplyStaged
<1>6. CASE ~IsStaged(window, event.operations)
  <2>1. ApplyInPlace(event, a)
    BY <1>0, <1>6 DEF ApplyDelta, a
  <2>2. FitsTotal(event, a)
    BY <1>4 DEF FitsTotal
  <2>. QED
    BY <1>2, <1>4, <2>1, <2>2, BatchIsStaged, TakeOverIs DEF ApplyInPlace
<1>. QED
  BY <1>5, <1>6

-----------------------------------------------------------------------------
(* The events of a subscription *)

\* The client waits for a snapshot, with its rows as they were.
Stops ==
    /\ status' \in {"stale", "error"} /\ change' = Nothing
    /\ window' = window /\ keyIndexes' = keyIndexes
    /\ totalRows' = totalRows /\ version' = version
    /\ LoseTheEngine

\* The client is emptied.
Closes ==
    /\ status' = "closed" /\ window' = <<>> /\ keyIndexes' = NoIndexes
    /\ LoseTheEngine

\* The client has what the engine has told it.
HasTheEngine(offset) ==
    /\ IsWindow(window') /\ Len(window') <= WindowBound
    /\ keyIndexes' = IndexesOf(window')
    /\ totalRows' \in Totals(window', offset) /\ version' \in Nat
    /\ server' = Evaluation(window', totalRows', version')
    /\ status' = "ready"

\* A snapshot.
Restarts(offset) ==
    HasTheEngine(offset) /\ following' = TRUE /\ change' = Everything

\* The engine's delta, from a client that has been following.
Follows(offset) ==
    HasTheEngine(offset) /\ following /\ following' = following /\ \E event : TakesOver(event)

\* A delta of somebody else fits.
Strays ==
    LoseTheEngine /\ Len(window') <= WindowBound /\ \E event : TakesOver(event)

\* A total tells the rows of a full window apart from none behind it.
LEMMA TotalsAre ==
  ASSUME NEW w, IsWindow(w), Len(w) <= WindowBound, NEW offset \in Nat,
         NEW total \in Totals(w, offset)
  PROVE  /\ total \in Nat /\ total >= Len(w)
         /\ \A j \in 1..Len(w) : offset + j - 1 < total
         /\ \A i \in offset..(offset + WindowBound - 1) : i < total => i < offset + Len(w)
<1>0. Len(w) \in Nat /\ WindowBound \in Nat
  BY WindowIs, BoundsAreNumbers
<1>1. CASE w = <<>>
  <2>1. total \in 0..offset
    BY <1>1 DEF Totals
  <2>2. Len(w) = 0
    BY <1>1
  <2>. QED
    BY <1>0, <2>1, <2>2
<1>2. CASE w # <<>>
  <2>1. total = offset + Len(w) \/ (Len(w) = WindowBound /\ total = offset + Len(w) + 1)
    BY <1>2 DEF Totals
  <2>. QED
    BY <1>0, <2>1
<1>. QED
  BY <1>1, <1>2

\* The engine's delta is always taken over.
LEMMA TellDeltaIs ==
  ASSUME ClientInv, NEW offset \in Nat, NEW w \in Windows, NEW total \in Totals(w, offset),
         TellDelta(w, total)
  PROVE  Follows(offset)
<1>. DEFINE operations == DeltaOperations(server.window, w)
            event == Delta(server.version, server.version + 1, operations, total)
<1>0. IsWindow(w) /\ Len(w) <= WindowBound /\ total \in Nat /\ total >= Len(w)
  BY WindowsAre, TotalsAre
<1>1. /\ following /\ following' = following
      /\ server' = Evaluation(w, total, server.version + 1)
      /\ ApplyDelta(event)
  BY DEF TellDelta
<1>2. status = "ready" /\ Evaluation(window, totalRows, version) = server /\ server.version \in Nat
  BY <1>1 DEF ClientInv, FollowsTheEngine
<1>3. server.window = window /\ server.version = version
  BY <1>2 DEF Evaluation
<1>4. /\ event.fromVersion = server.version /\ event.toVersion = server.version + 1
      /\ event.operations = operations /\ event.totalRows = total
  BY DEF Delta
<1>5. Leads(window, operations, w)
  BY <1>0, <1>3, DeltaLeads DEF ClientInv
<1>. HIDE DEF operations, event
<1>6. Accepts(event)
  BY <1>0, <1>2, <1>3, <1>4 DEF Accepts
<1>7. TakesOver(event) /\ window' = w
  BY <1>0, <1>1, <1>4, <1>5, <1>6, DeltaTaken
<1>8. /\ IsWindow(window') /\ keyIndexes' = IndexesOf(window') /\ totalRows' = total
      /\ version' = server.version + 1 /\ status' = "ready"
  BY <1>4, <1>7 DEF TakesOver
<1>9. HasTheEngine(offset)
  BY <1>0, <1>1, <1>2, <1>7, <1>8 DEF HasTheEngine
<1>. QED
  BY <1>1, <1>7, <1>9 DEF Follows

\* A delta of somebody else is refused, or fits and the client no longer follows.
LEMMA StrayDeltaIs ==
  ASSUME ClientInv, NEW from \in StrayWindows, NEW to \in StrayWindows, NEW total,
         StrayDelta(from, to, total)
  PROVE  Stops \/ Strays
<1>. DEFINE event == Delta(version, version + 1, DeltaOperations(from, to), total)
<1>1. IsWindow(from) /\ IsWindow(to)
  BY StraysAreWindows, WindowsAre
<1>2. Leads(from, DeltaOperations(from, to), to)
  BY <1>1, DeltaLeads
<1>3. event.operations = DeltaOperations(from, to)
  BY DEF Delta
<1>4. ApplyDelta(event) /\ Len(window') <= WindowBound /\ LoseTheEngine
  BY DEF StrayDelta
<1>. HIDE DEF event
<1>5. event.operations \in Seq(Operations)
  BY <1>2, <1>3 DEF Leads
<1>6. Refused \/ TakesOver(event)
  BY <1>4, <1>5, ApplyDeltaIs
<1>. QED
  BY <1>4, <1>6 DEF Stops, Strays, Refused

\* A delta of another version is refused.
LEMMA MisplacedDeltaIs ==
  ASSUME MisplacedDelta
  PROVE  Stops
<1>1. PICK from \in 0..VersionBound, to \in 0..VersionBound :
        /\ from # version \/ to <= from
        /\ ApplyDelta(Delta(from, to, <<>>, totalRows))
  BY DEF MisplacedDelta
<1>. DEFINE event == Delta(from, to, <<>>, totalRows)
<1>2. event.fromVersion = from /\ event.toVersion = to
  BY DEF Delta
<1>3. ApplyDelta(event) /\ LoseTheEngine
  BY <1>1 DEF MisplacedDelta
<1>. HIDE DEF event
<1>4. ~Accepts(event)
  BY <1>1, <1>2, BoundsAreNumbers DEF Accepts
<1>. QED
  BY <1>3, <1>4 DEF ApplyDelta, StaleDelta, Stops

\* The engine's snapshot.
LEMMA TellSnapshotIs ==
  ASSUME NEW offset \in Nat, NEW w \in Windows, NEW total \in Totals(w, offset),
         NEW v \in 0..VersionBound, TellSnapshot(w, total, v)
  PROVE  Restarts(offset)
<1>1. IsWindow(w) /\ Len(w) <= WindowBound /\ Reindexed(NoIndexes, w, 1) = IndexesOf(w)
  BY WindowsAre, IndexedFromNothing
<1>2. v \in Nat
  BY BoundsAreNumbers
<1>. QED
  BY <1>1, <1>2 DEF TellSnapshot, Restarts, HasTheEngine

\* All an event can do.
LEMMA EventIs ==
  ASSUME ClientInv, NEW offset \in Nat, Event(offset)
  PROVE  Follows(offset) \/ Restarts(offset) \/ Strays \/ Stops \/ Closes
<1>1. ASSUME NEW w \in Windows, NEW total \in Totals(w, offset), TellDelta(w, total)
      PROVE  Follows(offset)
  BY <1>1, TellDeltaIs
<1>2. ASSUME NEW w \in Windows, NEW total \in Totals(w, offset),
             NEW v \in 0..VersionBound, TellSnapshot(w, total, v)
      PROVE  Restarts(offset)
  BY <1>2, TellSnapshotIs
<1>3. ASSUME NEW from \in StrayWindows, NEW to \in StrayWindows, NEW total,
             StrayDelta(from, to, total)
      PROVE  Stops \/ Strays
  BY <1>3, StrayDeltaIs
<1>4. CASE MisplacedDelta
  BY <1>4, MisplacedDeltaIs
<1>5. CASE MalformedSnapshot
  BY <1>5 DEF MalformedSnapshot, Stops
<1>6. ASSUME NEW next \in {"closed", "stale", "error"}, StatusEvent(next)
      PROVE  Stops \/ Closes
  BY <1>6 DEF StatusEvent, Stops, Closes
<1>. QED
  BY <1>1, <1>2, <1>3, <1>4, <1>5, <1>6 DEF Event

\* A client that waits for a snapshot follows nobody.
LEMMA LosesTheEngine ==
  ASSUME LoseTheEngine
  PROVE  /\ IsWindow(server.window)' /\ server'.version \in Nat
         /\ FollowsTheEngine'
BY EmptyIsWindow DEF LoseTheEngine, Evaluation, FollowsTheEngine

\* Every event keeps the client's invariant.
LEMMA EventKeepsClient ==
  ASSUME ClientInv, NEW offset \in Nat, Event(offset)
  PROVE  ClientInv'
<1>1. ASSUME HasTheEngine(offset)
      PROVE  ClientInv'
  BY <1>1 DEF HasTheEngine, ClientInv, FollowsTheEngine, Evaluation
<1>2. CASE Follows(offset) \/ Restarts(offset)
  BY <1>1, <1>2 DEF Follows, Restarts
<1>3. CASE Strays
  BY <1>3, LosesTheEngine DEF Strays, TakesOver, ClientInv
<1>4. CASE Stops
  BY <1>4, LosesTheEngine DEF Stops, ClientInv
<1>5. CASE Closes
  <2>1. window' = <<>> /\ keyIndexes' = IndexesOf(window') /\ IsWindow(window')
    BY <1>5, EmptyIsWindow DEF Closes
  <2>2. Len(window') <= WindowBound
    BY <2>1, BoundsAreNumbers
  <2>. QED
    BY <1>5, <2>1, <2>2, LosesTheEngine DEF Closes, ClientInv
<1>. QED
  BY <1>2, <1>3, <1>4, <1>5, EventIs

-----------------------------------------------------------------------------
(* The client of the viewport *)

\* What a step of the viewport does to the client it shows.
LEMMA StepOfClient ==
  ASSUME ControlInv, [NextViewport]_allVars
  PROVE  UNCHANGED vars \/ NewProjection \/ \E offset \in Nat : Event(offset)
<1>1. CASE UNCHANGED allVars
  BY <1>1 DEF allVars
<1>2. ASSUME NEW sink \in Sinks, NEW firstRow \in FirstRows, NEW valid \in BOOLEAN,
             Replace(sink, firstRow, valid)
      PROVE  NewProjection
  BY <1>2 DEF Replace, Install
<1>3. ASSUME NEW firstRow \in FirstRows, NEW valid \in BOOLEAN, SetWindow(firstRow, valid)
      PROVE  NewProjection
  BY <1>3 DEF SetWindow, Install
<1>4. CASE Release \/ Destroy \/ StreamEnds
  BY <1>4 DEF Release, Destroy, StreamEnds, GiveUp
<1>5. CASE BeginActivation \/ RunCleanup \/ ClearSink \/ Activated \/ NotActivated
           \/ ActivateInside \/ ReleaseEnds \/ SinkCallsBack \/ DeliveryResumes
  BY <1>5 DEF BeginActivation, RunCleanup, ClearSink, Activated, NotActivated,
              ActivateInside, ReleaseEnds, SinkCallsBack, DeliveryResumes
<1>6. CASE Deliver
  <2>1. active # NoRequest /\ Event(active.firstRow)
    BY <1>6 DEF Deliver, ControlInv, ActiveRuns
  <2>. QED
    BY <2>1, ActiveIsRequest
<1>. QED
  BY <1>1, <1>2, <1>3, <1>4, <1>5, <1>6 DEF NextViewport

\* A projection that begins.
LEMMA NothingKnown ==
  ASSUME server = Evaluation(<<>>, 0, 0), following = FALSE, window = <<>>, keyIndexes = NoIndexes
  PROVE  ClientInv
<1>1. IsWindow(window) /\ keyIndexes = IndexesOf(window)
  BY EmptyIsWindow
<1>2. Len(window) <= WindowBound
  BY BoundsAreNumbers
<1>3. IsWindow(server.window) /\ server.version = 0
  BY EmptyIsWindow DEF Evaluation
<1>. QED
  BY <1>1, <1>2, <1>3 DEF ClientInv, FollowsTheEngine

\* It holds at first.
LEMMA InitClient == InitViewport => ClientInv
BY NothingKnown DEF InitViewport, Init

\* Every step keeps it.
LEMMA NextClient ==
  ASSUME ControlInv, ClientInv, [NextViewport]_allVars
  PROVE  ClientInv'
<1>1. CASE UNCHANGED vars
  BY <1>1 DEF vars, clientVars, ClientInv, FollowsTheEngine
<1>2. CASE NewProjection
  <2>1. /\ server' = Evaluation(<<>>, 0, 0) /\ following' = FALSE
        /\ window' = <<>> /\ keyIndexes' = NoIndexes
    BY <1>2 DEF NewProjection
  <2>. QED
    BY <2>1, EmptyIsWindow, BoundsAreNumbers DEF ClientInv, FollowsTheEngine, Evaluation
<1>3. ASSUME NEW offset \in Nat, Event(offset)
      PROVE  ClientInv'
  BY <1>3, EventKeepsClient
<1>. QED
  BY <1>1, <1>2, <1>3, StepOfClient

\* Both invariants hold in every state.
LEMMA SafeClient == SpecViewport => [](ControlInv /\ ClientInv)
<1>1. InitViewport => ControlInv /\ ClientInv
  BY InitControl, InitClient
<1>2. ControlInv /\ ClientInv /\ [NextViewport]_allVars => (ControlInv /\ ClientInv)'
  BY NextControl, NextClient
<1>. QED
  BY <1>1, <1>2, PTL DEF SpecViewport

\* While it gets nothing but the engine's events, the client has the engine's window.
THEOREM ClientFollowsTheEngine == SpecViewport => []FollowsTheEngine
<1>1. ClientInv => FollowsTheEngine
  BY DEF ClientInv
<1>. QED
  BY <1>1, SafeClient, PTL

\* The index of the keys is that of the rows, whatever was applied, staged or undone
\* (reindexKeys, rollbackMutations).
THEOREM KeyIndexesAreExact == SpecViewport => []KeyIndexesExact
<1>1. ClientInv => KeyIndexesExact
  BY WindowKeys DEF ClientInv, KeyIndexesExact
<1>. QED
  BY <1>1, SafeClient, PTL

\* A delta that does not fit leaves the rows as they were, and only a snapshot makes a
\* client ready again that waits for one.
THEOREM RefusedDeltasChangeNothing == SpecViewport => RefusedDeltaChangesNothing
<1>. DEFINE A == /\ status' \in {"stale", "error"} =>
                        /\ <<window, totalRows, version>>' = <<window, totalRows, version>>
                        /\ change' = Nothing
                 /\ status # "ready" /\ status' = "ready" => change' = Everything
<1>1. ControlInv /\ ClientInv /\ [NextViewport]_allVars => [A]_vars
  <2>. SUFFICES ASSUME ControlInv, ClientInv, [NextViewport]_allVars
                PROVE  [A]_vars
    OBVIOUS
  <2>1. CASE NewProjection
    BY <2>1 DEF NewProjection
  <2>2. ASSUME NEW offset \in Nat, Event(offset)
        PROVE  A
    <3>1. CASE Follows(offset)
      BY <3>1 DEF Follows, TakesOver
    <3>2. CASE Restarts(offset)
      BY <3>2 DEF Restarts, HasTheEngine
    <3>3. CASE Strays
      BY <3>3 DEF Strays, TakesOver
    <3>4. CASE Stops
      BY <3>4 DEF Stops
    <3>5. CASE Closes
      BY <3>5 DEF Closes
    <3>. QED
      BY <2>2, <3>1, <3>2, <3>3, <3>4, <3>5, EventIs
  <2>. QED
    BY <2>1, <2>2, StepOfClient
<1>. QED
  BY <1>1, SafeClient, PTL DEF SpecViewport, RefusedDeltaChangesNothing

-----------------------------------------------------------------------------
(* What the sink shows *)

\* The rows of a window from a position to another, at their absolute indexes.
Spread(w, offset, from, to) ==
    [i \in {offset + j - 1 : j \in from..to} |-> w[i - offset + 1]]

\* ChangedRows of a change, for any first row.
RowsOf(c, w, offset) ==
    CASE c.type = "None" -> NoRows
      [] c.type = "All" -> Spread(w, offset, 1, Len(w))
      [] c.type = "Range" -> Spread(w, offset, c.start, c.end)

\* Counted, for any rows.
Below(rows, total) == [i \in {j \in DOMAIN rows : j < total} |-> rows[i]]

\* Outside the change, v is as w.
IsChange(c, w, v) ==
    \/ c = Nothing /\ v = w
    \/ \E start, end \in Int :
          /\ c = ChangedRange(start, end) /\ start >= 1 /\ end <= Len(v)
          /\ \A j \in 1..Len(v) : j < start \/ j > end => j <= Len(w) /\ v[j] = w[j]

\* Min is the least.
LEMMA MinIs ==
  ASSUME NEW b \in Nat, NEW T \in SUBSET (1..b), T # {}
  PROVE  Min(T) \in T /\ \A t \in T : Min(T) <= t
<1>1. T \in SUBSET Nat
  OBVIOUS
<1>2. \E x \in T : \A y \in T : x <= y
  BY <1>1, LeastNumber
<1>. QED
  BY <1>2 DEF Min

\* Max is the greatest.
LEMMA MaxIs ==
  ASSUME NEW b \in Nat, NEW T \in SUBSET (1..b), T # {}
  PROVE  Max(T) \in T /\ \A t \in T : t <= Max(T)
<1>1. T \in SUBSET (0..b)
  OBVIOUS
<1>2. \E x \in T : \A y \in T : y <= x
  BY <1>1, GreatestNumber
<1>. QED
  BY <1>2 DEF Max

\* The range reported for a batch has every row that is not as it was.
LEMMA ChangeIsWide ==
  ASSUME NEW w, NEW v, IsWindow(w), IsWindow(v), NEW touched, NEW throughEnd \in BOOLEAN,
         Touches(w, v, touched, throughEnd)
  PROVE  IsChange(ChangedFor(v, touched, throughEnd), w, v)
<1>0. Len(w) \in Nat /\ Len(v) \in Nat
  BY WindowIs
<1>1. CASE touched = {}
  BY <1>1 DEF Touches, ChangedFor, IsChange
<1>2. CASE touched # {}
  <2>1. PICK b \in Nat : touched \subseteq 1..b
    BY DEF Touches
  <2>. DEFINE start == Min(touched)
              last == Max(touched)
  <2>2. start \in touched /\ \A t \in touched : start <= t
    BY <1>2, <2>1, MinIs
  <2>3. last \in touched /\ \A t \in touched : t <= last
    BY <1>2, <2>1, MaxIs
  <2>. HIDE DEF start, last
  <2>4. start \in Nat /\ start >= 1 /\ last \in Nat
    BY <2>1, <2>2, <2>3
  <2>5. ASSUME NEW j \in 1..Len(v), j < start
        PROVE  j <= Len(w) /\ v[j] = w[j]
    <3>1. j \in Nat \ {0} /\ \A t \in touched : j < t
      BY <1>0, <2>1, <2>2, <2>4, <2>5
    <3>. QED
      BY <1>2, <3>1 DEF Touches
  <2>6. CASE throughEnd
    <3>1. ChangedFor(v, touched, throughEnd) = ChangedRange(start, Len(v))
      BY <1>2, <2>6 DEF ChangedFor, start
    <3>2. \A j \in 1..Len(v) : j < start \/ j > Len(v) => j <= Len(w) /\ v[j] = w[j]
      BY <1>0, <2>5
    <3>. QED
      BY <1>0, <2>4, <3>1, <3>2 DEF IsChange
  <2>7. CASE ~throughEnd
    <3>1. Len(v) = Len(w) /\ last \in 1..Len(v)
      BY <2>3, <2>7 DEF Touches
    <3>2. Min({last, Len(v)}) = last
      BY <1>0, <2>4, <3>1, MinOfTwo
    <3>3. ChangedFor(v, touched, throughEnd) = ChangedRange(start, last)
      BY <1>2, <2>7, <3>2 DEF ChangedFor, start, last
    <3>4. ASSUME NEW j \in 1..Len(v), j > last
          PROVE  j <= Len(w) /\ v[j] = w[j]
      <4>1. \A t \in touched : t < j
        BY <1>0, <2>1, <2>3, <2>4, <3>4
      <4>. QED
        BY <1>0, <2>7, <3>1, <4>1 DEF Touches
    <3>. QED
      BY <1>0, <2>4, <2>5, <3>1, <3>3, <3>4 DEF IsChange
  <2>. QED
    BY <2>6, <2>7
<1>. QED
  BY <1>1, <1>2

\* The indexes of a part of a window, and their rows.
LEMMA SpreadIs ==
  ASSUME NEW w, NEW offset \in Nat, NEW from \in Int, NEW to \in Int
  PROVE  /\ \A i : i \in DOMAIN Spread(w, offset, from, to)
                       <=> i \in Int /\ offset + from - 1 <= i /\ i <= offset + to - 1
         /\ \A i \in DOMAIN Spread(w, offset, from, to) :
                Spread(w, offset, from, to)[i] = w[i - offset + 1]
<1>1. DOMAIN Spread(w, offset, from, to) = {offset + j - 1 : j \in from..to}
  BY DEF Spread
<1>2. ASSUME NEW i
      PROVE  i \in {offset + j - 1 : j \in from..to}
                 <=> i \in Int /\ offset + from - 1 <= i /\ i <= offset + to - 1
  <2>1. ASSUME i \in Int, offset + from - 1 <= i, i <= offset + to - 1
        PROVE  i \in {offset + j - 1 : j \in from..to}
    <3>1. i - offset + 1 \in from..to /\ offset + (i - offset + 1) - 1 = i
      BY <2>1
    <3>. QED
      BY <3>1
  <2>2. ASSUME NEW j \in from..to, i = offset + j - 1
        PROVE  i \in Int /\ offset + from - 1 <= i /\ i <= offset + to - 1
    BY <2>2
  <2>. QED
    BY <2>1, <2>2
<1>. QED
  BY <1>1, <1>2 DEF Spread

\* The indexes of a window, and their rows.
LEMMA WholeSpread ==
  ASSUME NEW w, NEW offset \in Nat, Len(w) \in Nat
  PROVE  /\ \A i : i \in DOMAIN Spread(w, offset, 1, Len(w))
                       <=> i \in Int /\ offset <= i /\ i < offset + Len(w)
         /\ \A i \in DOMAIN Spread(w, offset, 1, Len(w)) :
                Spread(w, offset, 1, Len(w))[i] = w[i - offset + 1]
<1>. DEFINE n == Len(w)
<1>1. DOMAIN Spread(w, offset, 1, n) = {offset + j - 1 : j \in 1..n}
  BY DEF Spread
<1>2. ASSUME NEW i
      PROVE  i \in {offset + j - 1 : j \in 1..n} <=> i \in Int /\ offset <= i /\ i < offset + n
  <2>1. ASSUME i \in Int, offset <= i, i < offset + n
        PROVE  i \in {offset + j - 1 : j \in 1..n}
    <3>1. i - offset + 1 \in 1..n /\ offset + (i - offset + 1) - 1 = i
      BY <2>1
    <3>. QED
      BY <3>1
  <2>2. ASSUME NEW j \in 1..n, i = offset + j - 1
        PROVE  i \in Int /\ offset <= i /\ i < offset + n
    BY <2>2
  <2>. QED
    BY <2>1, <2>2
<1>. QED
  BY <1>1, <1>2 DEF Spread

\* The rows of a change are the window's; those not among them are as they were.
LEMMA RowsOfIs ==
  ASSUME NEW c, NEW w, NEW v, IsWindow(w), IsWindow(v), NEW offset \in Nat, IsChange(c, w, v)
  PROVE  /\ DOMAIN RowsOf(c, v, offset) \subseteq DOMAIN Spread(v, offset, 1, Len(v))
         /\ \A i \in DOMAIN RowsOf(c, v, offset) :
                RowsOf(c, v, offset)[i] = Spread(v, offset, 1, Len(v))[i]
         /\ \A i \in DOMAIN Spread(v, offset, 1, Len(v)) \ DOMAIN RowsOf(c, v, offset) :
                /\ i \in DOMAIN Spread(w, offset, 1, Len(w))
                /\ Spread(w, offset, 1, Len(w))[i] = Spread(v, offset, 1, Len(v))[i]
<1>0. Len(w) \in Nat /\ Len(v) \in Nat
  BY WindowIs
<1>1. CASE c = Nothing /\ v = w
  <2>1. RowsOf(c, v, offset) = NoRows
    BY <1>1 DEF RowsOf, Nothing
  <2>2. DOMAIN NoRows = {}
    BY DEF NoRows
  <2>. QED
    BY <1>1, <2>1, <2>2
<1>2. ASSUME NEW start \in Int, NEW end \in Int, c = ChangedRange(start, end),
             start >= 1, end <= Len(v),
             \A j \in 1..Len(v) : j < start \/ j > end => j <= Len(w) /\ v[j] = w[j]
      PROVE  /\ DOMAIN RowsOf(c, v, offset) \subseteq DOMAIN Spread(v, offset, 1, Len(v))
             /\ \A i \in DOMAIN RowsOf(c, v, offset) :
                    RowsOf(c, v, offset)[i] = Spread(v, offset, 1, Len(v))[i]
             /\ \A i \in DOMAIN Spread(v, offset, 1, Len(v)) \ DOMAIN RowsOf(c, v, offset) :
                    /\ i \in DOMAIN Spread(w, offset, 1, Len(w))
                    /\ Spread(w, offset, 1, Len(w))[i] = Spread(v, offset, 1, Len(v))[i]
  <2>. DEFINE now == Spread(v, offset, 1, Len(v))
              old == Spread(w, offset, 1, Len(w))
              rows == Spread(v, offset, start, end)
  <2>1. RowsOf(c, v, offset) = rows
    BY <1>2 DEF RowsOf, ChangedRange
  <2>2. /\ \A i : i \in DOMAIN now <=> i \in Int /\ offset <= i /\ i < offset + Len(v)
        /\ \A i \in DOMAIN now : now[i] = v[i - offset + 1]
    BY <1>0, WholeSpread
  <2>3. /\ \A i : i \in DOMAIN old <=> i \in Int /\ offset <= i /\ i < offset + Len(w)
        /\ \A i \in DOMAIN old : old[i] = w[i - offset + 1]
    BY <1>0, WholeSpread
  <2>4. /\ \A i : i \in DOMAIN rows <=> i \in Int /\ offset + start - 1 <= i /\ i <= offset + end - 1
        /\ \A i \in DOMAIN rows : rows[i] = v[i - offset + 1]
    BY SpreadIs
  <2>. HIDE DEF now, old, rows
  <2>5. ASSUME NEW i \in DOMAIN rows
        PROVE  i \in DOMAIN now /\ rows[i] = now[i]
    <3>1. i \in DOMAIN now
      BY <1>0, <1>2, <2>2, <2>4, <2>5
    <3>. QED
      BY <2>2, <2>4, <2>5, <3>1
  <2>6. ASSUME NEW i \in DOMAIN now, i \notin DOMAIN rows
        PROVE  i \in DOMAIN old /\ old[i] = now[i]
    <3>. DEFINE j == i - offset + 1
    <3>1. /\ i \in Int /\ j \in 1..Len(v) /\ (j < start \/ j > end)
      BY <1>0, <2>2, <2>4, <2>6
    <3>2. j <= Len(w) /\ v[j] = w[j]
      BY <1>2, <3>1
    <3>3. i \in DOMAIN old
      BY <1>0, <2>3, <3>1, <3>2
    <3>4. now[i] = v[j] /\ old[i] = w[j]
      BY <2>2, <2>3, <2>6, <3>3
    <3>. QED
      BY <3>2, <3>3, <3>4
  <2>. QED
    BY <2>1, <2>5, <2>6 DEF now, old
<1>. QED
  BY <1>1, <1>2 DEF IsChange

\* The rows before the end.
LEMMA BelowIs ==
  ASSUME NEW rows, NEW total
  PROVE  /\ \A i : i \in DOMAIN Below(rows, total) <=> i \in DOMAIN rows /\ i < total
         /\ \A i \in DOMAIN Below(rows, total) : Below(rows, total)[i] = rows[i]
BY DEF Below

\* The rows changed, over those not behind the end, are the rows of the window: the
\* range and the count are all the sink needs.
LEMMA ChangeShows ==
  ASSUME NEW c, NEW w, NEW v, IsWindow(w), IsWindow(v), Len(w) <= WindowBound,
         Len(v) <= WindowBound, NEW offset \in Nat, IsChange(c, w, v),
         NEW total \in Totals(v, offset)
  PROVE  Overlaid(RowsOf(c, v, offset), Below(Spread(w, offset, 1, Len(w)), total))
             = Spread(v, offset, 1, Len(v))
<1>. DEFINE now == Spread(v, offset, 1, Len(v))
            old == Spread(w, offset, 1, Len(w))
            rows == RowsOf(c, v, offset)
            below == Below(old, total)
            all == Overlaid(rows, below)
<1>0. Len(w) \in Nat /\ Len(v) \in Nat /\ WindowBound \in Nat
  BY WindowIs, BoundsAreNumbers
<1>1. /\ DOMAIN rows \subseteq DOMAIN now
      /\ \A i \in DOMAIN rows : rows[i] = now[i]
      /\ \A i \in DOMAIN now \ DOMAIN rows : i \in DOMAIN old /\ old[i] = now[i]
  BY RowsOfIs
<1>2. \A i : i \in DOMAIN now <=> i \in Int /\ offset <= i /\ i < offset + Len(v)
  BY <1>0, WholeSpread
<1>3. \A i : i \in DOMAIN old <=> i \in Int /\ offset <= i /\ i < offset + Len(w)
  BY <1>0, WholeSpread
<1>4. /\ total \in Nat /\ \A j \in 1..Len(v) : offset + j - 1 < total
      /\ \A i \in offset..(offset + WindowBound - 1) : i < total => i < offset + Len(v)
  BY TotalsAre
<1>. HIDE DEF now, old, rows
<1>5. /\ \A i : i \in DOMAIN below <=> i \in DOMAIN old /\ i < total
      /\ \A i \in DOMAIN below : below[i] = old[i]
  BY BelowIs
<1>. HIDE DEF below
<1>6. \A i \in DOMAIN below : i \in DOMAIN now
  <2>. TAKE i \in DOMAIN below
  <2>1. i \in offset..(offset + WindowBound - 1) /\ i < total
    BY <1>0, <1>3, <1>5
  <2>. QED
    BY <1>0, <1>2, <1>4, <2>1
<1>7. \A i \in DOMAIN now : i < total
  <2>. TAKE i \in DOMAIN now
  <2>1. i - offset + 1 \in 1..Len(v) /\ offset + (i - offset + 1) - 1 = i
    BY <1>0, <1>2
  <2>. QED
    BY <1>4, <2>1
<1>8. /\ DOMAIN all = DOMAIN rows \union DOMAIN below
      /\ \A i \in DOMAIN rows \union DOMAIN below : all[i] = IF i \in DOMAIN rows THEN rows[i] ELSE below[i]
  BY DEF Overlaid
<1>9. DOMAIN all = DOMAIN now
  BY <1>1, <1>5, <1>6, <1>7, <1>8
<1>10. \A i \in DOMAIN now : all[i] = now[i]
  BY <1>1, <1>5, <1>8, <1>9
<1>11. all = [i \in DOMAIN all |-> all[i]] /\ now = [i \in DOMAIN now |-> now[i]]
  BY DEF Overlaid, now, Spread
<1>. HIDE DEF all
<1>12. all = now
  BY <1>9, <1>10, <1>11
<1>. QED
  BY <1>12 DEF all, now, rows, below, old

\* What a sink may show: nothing until its subscription has told something, the client's
\* rows while it follows the engine, and never a row outside the window requested.
SinkInv ==
    /\ ~stream => status = "loading"
    /\ status = "loading" => window = <<>> /\ shown = NoRows /\ following = FALSE
    /\ following => shown = Placed(window, 1, Len(window))
    /\ \A i \in DOMAIN shown : i \in active.firstRow..(active.firstRow + WindowBound - 1)

\* A sink without rows shows an empty window.
LEMMA NothingShown ==
  /\ DOMAIN NoRows = {}
  /\ Placed(<<>>, 1, Len(<<>>)) = NoRows
<1>1. Len(<<>>) = 0 /\ 1..0 = {}
  OBVIOUS
<1>2. {active.firstRow + j - 1 : j \in {}} = {}
  OBVIOUS
<1>3. Placed(<<>>, 1, Len(<<>>)) = [i \in {} |-> <<>>[i - active.firstRow + 1]]
  BY <1>1, <1>2 DEF Placed
<1>. QED
  BY <1>3 DEF NoRows

\* Nothing is shown before the first event.
LEMMA NothingShownYet ==
  ASSUME status' = "loading", window' = <<>>, shown' = NoRows, following' = FALSE
  PROVE  SinkInv'
BY NothingShown DEF SinkInv

\* Nor by a new subscription.
LEMMA ProjectionIsNew ==
  ASSUME NewProjection
  PROVE  SinkInv'
<1>1. status' = "loading" /\ window' = <<>> /\ shown' = NoRows /\ following' = FALSE
  BY DEF NewProjection
<1>. QED
  BY <1>1, NothingShownYet

\* A snapshot's rows are all there is: no row behind them is left by the count.
LEMMA SnapshotShows ==
  ASSUME NEW rows, NEW v, IsWindow(v), Len(v) <= WindowBound, NEW offset \in Nat,
         \A i \in DOMAIN rows : i \in offset..(offset + WindowBound - 1),
         NEW total \in Totals(v, offset)
  PROVE  Overlaid(Spread(v, offset, 1, Len(v)), Below(rows, total)) = Spread(v, offset, 1, Len(v))
<1>. DEFINE now == Spread(v, offset, 1, Len(v))
            below == Below(rows, total)
            all == Overlaid(now, below)
<1>0. Len(v) \in Nat
  BY WindowIs
<1>1. \A i : i \in DOMAIN now <=> i \in Int /\ offset <= i /\ i < offset + Len(v)
  BY <1>0, WholeSpread
<1>2. \A i \in offset..(offset + WindowBound - 1) : i < total => i < offset + Len(v)
  BY TotalsAre
<1>3. \A i : i \in DOMAIN below <=> i \in DOMAIN rows /\ i < total
  BY BelowIs
<1>. HIDE DEF now, below
<1>4. DOMAIN below \subseteq DOMAIN now
  <2>. SUFFICES ASSUME NEW i \in DOMAIN below
                PROVE  i \in DOMAIN now
    OBVIOUS
  <2>1. i \in offset..(offset + WindowBound - 1) /\ i < total
    BY <1>3
  <2>. QED
    BY <1>1, <1>2, <2>1, BoundsAreNumbers
<1>5. /\ DOMAIN all = DOMAIN now
      /\ \A i \in DOMAIN now : all[i] = now[i]
  BY <1>4 DEF Overlaid
<1>6. all = [i \in DOMAIN all |-> all[i]] /\ now = [i \in DOMAIN now |-> now[i]]
  BY DEF Overlaid, now, Spread
<1>. HIDE DEF all
<1>7. all = now
  BY <1>5, <1>6
<1>. QED
  BY <1>7 DEF all, now, below

\* An event that is projected and delivered.
LEMMA DeliveredShows ==
  ASSUME ControlInv, ClientInv, SinkInv, Deliver
  PROVE  SinkInv'
<1>. DEFINE offset == active.firstRow
<1>0. /\ stream /\ stream' = stream /\ offset \in Nat /\ Event(offset)
  BY ActiveIsRequest DEF Deliver, ControlInv, ActiveRuns
<1>1. Follows(offset) \/ Restarts(offset) \/ Strays \/ Stops \/ Closes
  BY <1>0, EventIs
<1>2. CASE Closes
  <2>1. status' = "closed" /\ window' = <<>> /\ following' = FALSE
    BY <1>2 DEF Closes, LoseTheEngine
  <2>2. shown' = NoRows
    BY <2>1 DEF Deliver
  <2>. QED
    BY <1>0, <2>1, <2>2, NothingShown DEF SinkInv
<1>3. CASE ~Closes
  <2>. DEFINE total == totalRows'
              c == change'
              v == window'
  <2>1. status' \in {"ready", "stale", "error"}
    BY <1>1, <1>3 DEF Follows, Restarts, HasTheEngine, Strays, TakesOver, Stops
  <2>2. active' = active /\ shown' = Overlaid(RowsOf(c, v, offset), Below(shown, total))
    BY <2>1 DEF Deliver, ChangedRows, Counted, RowsOf, Below, Placed, Spread
  <2>3. Placed(window, 1, Len(window)) = Spread(window, offset, 1, Len(window))
    BY DEF Placed, Spread
  <2>4. Placed(window, 1, Len(window))' = Spread(v, offset, 1, Len(v))
    BY <2>2 DEF Placed, Spread
  <2>5. /\ IsWindow(window) /\ Len(window) <= WindowBound
        /\ \A i \in DOMAIN shown : i \in offset..(offset + WindowBound - 1)
    BY DEF ClientInv, SinkInv
  <2>6. DOMAIN Below(shown, total) \subseteq DOMAIN shown
    BY BelowIs
  <2>7. ASSUME IsWindow(v), Len(v) <= WindowBound
        PROVE  \A i \in DOMAIN Spread(v, offset, 1, Len(v)) : i \in offset..(offset + WindowBound - 1)
    <3>1. \A i \in DOMAIN Spread(v, offset, 1, Len(v)) : i \in Int /\ offset <= i /\ i < offset + Len(v)
      BY <1>0, <2>7, WindowIs, WholeSpread
    <3>. QED
      BY <1>0, <2>7, <3>1, WindowIs, BoundsAreNumbers
  <2>8. ASSUME NEW event, TakesOver(event)
        PROVE  IsWindow(v) /\ IsChange(c, window, v)
    <3>1. PICK touched, throughEnd :
            /\ Touches(window, window', touched, throughEnd) /\ throughEnd \in BOOLEAN
            /\ change' = ChangedFor(window', touched, throughEnd)
      BY <2>8 DEF TakesOver
    <3>2. IsWindow(v)
      BY <2>8 DEF TakesOver
    <3>. QED
      BY <2>5, <3>1, <3>2, ChangeIsWide
  <2>9. ASSUME IsWindow(v), Len(v) <= WindowBound, shown' = Spread(v, offset, 1, Len(v))
        PROVE  SinkInv'
    BY <1>0, <2>1, <2>2, <2>4, <2>7, <2>9 DEF SinkInv
  <2>10. ASSUME following' = FALSE, DOMAIN RowsOf(c, v, offset) \subseteq offset..(offset + WindowBound - 1)
         PROVE  SinkInv'
    <3>1. DOMAIN shown' = DOMAIN RowsOf(c, v, offset) \union DOMAIN Below(shown, total)
      BY <2>2 DEF Overlaid
    <3>2. \A i \in DOMAIN shown' : i \in offset..(offset + WindowBound - 1)
      BY <2>5, <2>6, <2>10, <3>1
    <3>. QED
      BY <1>0, <2>1, <2>2, <2>10, <3>2 DEF SinkInv
  <2>. HIDE DEF total, c, v, offset
  <2>11. CASE Follows(offset)
    <3>1. /\ IsWindow(v) /\ Len(v) <= WindowBound /\ total \in Totals(v, offset)
          /\ following /\ IsChange(c, window, v)
      BY <2>8, <2>11 DEF Follows, HasTheEngine, v, total
    <3>2. shown = Spread(window, offset, 1, Len(window))
      BY <2>3, <3>1 DEF SinkInv
    <3>3. shown' = Spread(v, offset, 1, Len(v))
      BY <1>0, <2>2, <2>5, <3>1, <3>2, ChangeShows
    <3>. QED
      BY <2>9, <3>1, <3>3
  <2>12. CASE Restarts(offset)
    <3>1. /\ IsWindow(v) /\ Len(v) <= WindowBound /\ total \in Totals(v, offset)
          /\ c = Everything
      BY <2>12 DEF Restarts, HasTheEngine, v, total, c
    <3>2. RowsOf(c, v, offset) = Spread(v, offset, 1, Len(v))
      BY <3>1 DEF RowsOf, Everything
    <3>3. shown' = Spread(v, offset, 1, Len(v))
      BY <1>0, <2>2, <2>5, <3>1, <3>2, SnapshotShows
    <3>. QED
      BY <2>9, <3>1, <3>3
  <2>13. CASE Strays
    <3>1. Len(v) <= WindowBound /\ following' = FALSE /\ IsWindow(v) /\ IsChange(c, window, v)
      BY <2>8, <2>13 DEF Strays, LoseTheEngine, v
    <3>2. DOMAIN RowsOf(c, v, offset) \subseteq DOMAIN Spread(v, offset, 1, Len(v))
      BY <1>0, <2>5, <3>1, RowsOfIs
    <3>. QED
      BY <2>7, <2>10, <3>1, <3>2
  <2>14. CASE Stops
    <3>1. c = Nothing /\ following' = FALSE
      BY <2>14 DEF Stops, LoseTheEngine, c
    <3>2. RowsOf(c, v, offset) = NoRows
      BY <3>1 DEF RowsOf, Nothing
    <3>. QED
      BY <2>10, <3>1, <3>2, NothingShown
  <2>. QED
    BY <1>1, <1>3, <2>11, <2>12, <2>13, <2>14
<1>. QED
  BY <1>2, <1>3

\* It holds at first.
LEMMA InitSink == InitViewport => SinkInv
BY NothingShown DEF InitViewport, Init, SinkInv

\* The client is left alone, and its rows stay or the new sink starts without them.
LEMMA SinkKept ==
  ASSUME SinkInv, UNCHANGED vars,
         stream => stream' /\ shown' = shown /\ active' = active,
         stream \/ shown' = shown \/ shown' = NoRows
  PROVE  SinkInv'
<1>1. status' = status /\ window' = window /\ following' = following
  BY DEF vars, clientVars
<1>2. CASE stream
  <2>1. stream' /\ shown' = shown /\ active' = active
    BY <1>2
  <2>2. Placed(window, 1, Len(window))' = Placed(window, 1, Len(window))
    BY <1>1, <2>1 DEF Placed
  <2>. QED
    BY <1>1, <2>1, <2>2 DEF SinkInv
<1>3. CASE ~stream
  <2>1. status = "loading" /\ window = <<>> /\ shown = NoRows /\ following = FALSE
    BY <1>3 DEF SinkInv
  <2>2. shown' = NoRows
    BY <1>3, <2>1
  <2>. QED
    BY <1>1, <2>1, <2>2, NothingShownYet
<1>. QED
  BY <1>2, <1>3

\* Every step keeps it.
LEMMA NextSink ==
  ASSUME ControlInv, ClientInv, SinkInv, [NextViewport]_allVars
  PROVE  SinkInv'
<1>1. CASE UNCHANGED allVars
  <2>1. UNCHANGED vars /\ stream' = stream /\ shown' = shown /\ active' = active
    BY <1>1 DEF allVars, viewportVars, controlVars
  <2>. QED
    BY <2>1, SinkKept
<1>2. ASSUME NEW sink \in Sinks, NEW firstRow \in FirstRows, NEW valid \in BOOLEAN,
             Replace(sink, firstRow, valid)
      PROVE  SinkInv'
  BY <1>2, ProjectionIsNew DEF Replace, Install
<1>3. ASSUME NEW firstRow \in FirstRows, NEW valid \in BOOLEAN, SetWindow(firstRow, valid)
      PROVE  SinkInv'
  BY <1>3, ProjectionIsNew DEF SetWindow, Install
<1>4. CASE Release \/ StreamEnds
  BY <1>4, ProjectionIsNew DEF Release, StreamEnds, GiveUp
<1>5. CASE Destroy
  <2>1. CASE active = NoRequest
    <3>1. UNCHANGED vars /\ stream' = stream /\ shown' = shown /\ active' = active
      BY <1>5, <2>1 DEF Destroy
    <3>. QED
      BY <3>1, SinkKept
  <2>. QED
    BY <1>5, <2>1, ProjectionIsNew DEF Destroy, GiveUp
<1>6. CASE BeginActivation \/ RunCleanup \/ ReleaseEnds \/ SinkCallsBack \/ DeliveryResumes
  <2>1. UNCHANGED vars /\ stream' = stream /\ shown' = shown /\ active' = active
    BY <1>6 DEF BeginActivation, RunCleanup, ReleaseEnds, SinkCallsBack, DeliveryResumes, RestOfEvent
  <2>. QED
    BY <2>1, SinkKept
<1>7. CASE ClearSink
  <2>1. UNCHANGED vars /\ ~stream /\ shown' = NoRows
    BY <1>7 DEF ClearSink, IsCurrent, ControlInv, ActsForActive
  <2>. QED
    BY <2>1, SinkKept
<1>8. CASE Activated
  <2>1. UNCHANGED vars /\ ~stream /\ shown' = shown
    BY <1>8 DEF Activated, IsCurrent, ControlInv, ActsForActive
  <2>. QED
    BY <2>1, SinkKept
<1>9. CASE NotActivated
  <2>1. UNCHANGED vars /\ stream' = stream /\ shown' = shown /\ (stream => active' = active)
    BY <1>9 DEF NotActivated, IsCurrent, ControlInv, ActsForActive
  <2>. QED
    BY <2>1, SinkKept
<1>10. CASE ActivateInside
  <2>1. UNCHANGED vars /\ ~stream /\ shown' = NoRows
    BY <1>10 DEF ActivateInside, ControlInv, ActiveRuns
  <2>. QED
    BY <2>1, SinkKept
<1>11. CASE Deliver
  BY <1>11, DeliveredShows
<1>. QED
  BY <1>1, <1>2, <1>3, <1>4, <1>5, <1>6, <1>7, <1>8, <1>9, <1>10, <1>11 DEF NextViewport

\* While the client follows the engine, the sink shows exactly its rows.
THEOREM SinkAlwaysShowsTheClient == SpecViewport => []SinkShowsTheClient
<1>1. InitViewport => ControlInv /\ ClientInv /\ SinkInv
  BY InitControl, InitClient, InitSink
<1>2. ControlInv /\ ClientInv /\ SinkInv /\ [NextViewport]_allVars
          => (ControlInv /\ ClientInv /\ SinkInv)'
  BY NextControl, NextClient, NextSink
<1>3. SinkInv => SinkShowsTheClient
  <2>1. ASSUME SinkInv, status = "loading"
        PROVE  shown = Placed(window, 1, Len(window))
    BY <2>1, NothingShown DEF SinkInv
  <2>. QED
    BY <2>1 DEF SinkInv, SinkShowsTheClient
<1>. QED
  BY <1>1, <1>2, <1>3, PTL DEF SpecViewport

=============================================================================
