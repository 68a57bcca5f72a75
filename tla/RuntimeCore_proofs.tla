------------------------- MODULE RuntimeCore_proofs -------------------------
(***************************************************************************)
(* Proofs about three parts of the runtime core: the attempts of a source  *)
(* (SourceAttempt), the leases of a leased one (SourceLease) and the       *)
(* pushed health (PushedHealth).                                           *)
(***************************************************************************)
EXTENDS SourceAttempt, SourceLease, PushedHealth, FiniteSetTheorems, TLAPS

-----------------------------------------------------------------------------
(***************************************************************************)
(* The attempts of a source: SourceAttempt.                                *)
(***************************************************************************)

\* Outside of the lanes' run no lane has anything to do.
LanesRest == supervisor \notin {"running", "ending"} => \A l \in Lanes : lane[l] = "ended"

\* The callback of an event runs with its settlement child, which is forked
\* when the event is applied: how far the lane is tells how far the child is.
EventProgress ==
    \A l \in Lanes :
        /\ lane[l] \in {"queued", "applying"} => child[l] = "none" /\ applicationExit[l] = "none"
        /\ lane[l] = "handoff" => child[l] # "none"
        /\ applicationExit[l] # "none" /\ lane[l] \in {"idle", "joining", "ended"}
              => child[l] \notin {"none", "callback"}
        /\ callbacks[l] = IF child[l] \in {"none", "callback"} THEN 0 ELSE 1

\* A child that promotes its effect holds the lock, and found no cancellation.
PromotionIsLocked ==
    /\ \A l \in Lanes : child[l] = "promoting" => arbitrationLock = l
    /\ arbitrationLock # NoLane => arbitration # "CancellationWon"

\* Before its lanes run an attempt has no children and no termination of its own.
FreshAttempt ==
    /\ supervisor \in {"starting", "acquiring", "publishing", "waiting"} =>
          \A l \in Lanes : child[l] = "none" /\ settlement[l] = "none" /\ ~childInterrupted[l]
    /\ supervisor \in {"acquiring", "publishing", "running"} => arbitration # "OrdinaryTerminationWon"
    /\ supervisor \in {"starting", "waiting"} /\ outcome = "failed" => attempt < MaxAttempts

\* While the lanes run only a cancellation interrupts a settlement.
InterruptedByCancellation ==
    supervisor = "running" =>
        \A l \in Lanes : childInterrupted[l] \/ settlement[l] \in {"interrupted", "CancellationWon"}
                            => arbitration = "CancellationWon"

\* Only stop() cancels, until the scope of the last attempt is closed.
CancelledByStop ==
    /\ stop # "idle" => closing
    /\ arbitration = "CancellationWon" => closing \/ supervisor = "done"

\* An attempt that ends has an outcome, and a defect comes from a transition.
OutcomeIsKnown ==
    /\ supervisor \in {"ending", "closing"} => outcome # "none"
    /\ outcome = "defect" => defected
    /\ \A l \in Lanes : applicationExit[l] = "defect" => defected

\* The inductive invariant of the supervision.
IInv ==
    /\ TypeOK /\ LanesRest /\ EventProgress /\ PromotionIsLocked /\ FreshAttempt
    /\ InterruptedByCancellation /\ CancelledByStop /\ OutcomeIsKnown
    /\ CancelledEffectsStop /\ OneWinner

-----------------------------------------------------------------------------
LEMMA InitEstablishesInvariant == Init => IInv
<1>. SUFFICES ASSUME Init PROVE IInv
  OBVIOUS
<1>. USE AttemptBounds, NobodyIsNoLane DEF Init
<1>1. TypeOK
  <2>1. /\ masked \in [Lanes -> BOOLEAN] /\ childInterrupted \in [Lanes -> BOOLEAN]
        /\ {supervisorInterrupted, latestRejection, closing, fatal, defected} \subseteq BOOLEAN
    BY Zenon
  <2>2. /\ lane \in [Lanes -> {"idle", "queued", "applying", "handoff", "joining", "ended"}]
        /\ event \in [Lanes -> {"none", "plain", "transition", "rejection"}]
        /\ applicationExit \in [Lanes -> {"none", "success", "failure", "interrupted", "defect"}]
        /\ child \in [Lanes -> {"none", "callback", "captured", "refused", "promoting", "running",
                                "ended"}]
        /\ settlement \in [Lanes -> {"none", "success", "failure", "interrupted",
                                     "CancellationWon"}]
        /\ callbacks \in [Lanes -> Nat]
    OBVIOUS
  <2>3. /\ attempt \in 1..MaxAttempts /\ events \in 0..MaxEvents
        /\ arbitrationLock \in Lanes \union {NoLane} /\ gate \in Lanes \union {NoLane}
        /\ supervisor = "starting" /\ outcome = "none" /\ arbitration = "Open"
        /\ status = "Starting" /\ stop = "idle"
    OBVIOUS
  <2>. QED
    BY <2>1, <2>2, <2>3 DEF TypeOK
<1>2. LanesRest /\ EventProgress /\ PromotionIsLocked
  BY DEF LanesRest, EventProgress, PromotionIsLocked
<1>3. FreshAttempt /\ InterruptedByCancellation /\ CancelledByStop /\ OutcomeIsKnown
  BY DEF FreshAttempt, InterruptedByCancellation, CancelledByStop, OutcomeIsKnown
<1>4. CancelledEffectsStop /\ OneWinner
  BY DEF CancelledEffectsStop, OneWinner
<1>. QED
  BY <1>1, <1>2, <1>3, <1>4 DEF IInv

-----------------------------------------------------------------------------
(* One lemma per part of the invariant *)

LEMMA StepsKeepTypes == ASSUME IInv, [Next]_vars PROVE TypeOK'
<1>. USE DEF IInv, TypeOK, FreshAttempt, vars, supervisorVars, laneVars, childVars, stopVars,
         unchangedByChild, unchangedByStop
<1>1. CASE BeginAttempt
  BY <1>1, AttemptBounds DEF BeginAttempt, Publishes
<1>2. CASE WaitToRetry
  BY <1>2, AttemptBounds DEF WaitToRetry, ScopeClosed, Cancelled, ForgetLanes, Publishes
<1>3. ASSUME NEW l \in Lanes, Receive(l) PROVE TypeOK'
  BY <1>3, AttemptBounds DEF Receive, Interrupted
<1>4. ASSUME NEW l \in Lanes, Apply(l) PROVE TypeOK'
  <2>1. PICK exit \in {"success", "failure", "interrupted", "defect"} :
            /\ applicationExit' = [applicationExit EXCEPT ![l] = exit]
            /\ defected' = (defected \/ exit = "defect")
            /\ RecordsRejection(l, exit)
    <3>1. PICK exit \in {"success", "failure"}
                      \union (IF Interrupted THEN {"interrupted"} ELSE {})
                      \union (IF event[l] = "transition" THEN {"defect"} ELSE {}) :
              /\ applicationExit' = [applicationExit EXCEPT ![l] = exit]
              /\ defected' = (defected \/ exit = "defect")
              /\ RecordsRejection(l, exit)
      BY <1>4, Zenon DEF Apply
    <3>2. exit \in {"success", "failure", "interrupted", "defect"}
      OBVIOUS
    <3>. QED
      BY <3>1, <3>2, Zenon
  <2>2. defected' \in BOOLEAN /\ latestRejection' \in BOOLEAN
    BY <2>1, Zenon DEF RecordsRejection
  <2>3. status' \in {"Starting", "Ready", "Degraded", "Reacquiring", "WaitingToRetry",
                     "Exhausted", "Stopping"}
    BY <2>1 DEF RecordsRejection, Publishes
  <2>4. /\ applicationExit' \in [Lanes -> {"none", "success", "failure", "interrupted", "defect"}]
        /\ gate' \in Lanes \union {NoLane}
        /\ child' \in [Lanes -> {"none", "callback", "captured", "refused", "promoting", "running",
                                 "ended"}]
        /\ childInterrupted' \in [Lanes -> BOOLEAN]
    BY <1>4, <2>1 DEF Apply
  <2>. QED
    BY <1>4, <2>2, <2>3, <2>4 DEF Apply
<1>5. ASSUME NEW l \in Lanes, ObserveHandoff(l) PROVE TypeOK'
  <2>1. CASE applicationExit[l] = "defect"
    BY <1>5, <2>1 DEF ObserveHandoff, LaneEnds
  <2>2. CASE applicationExit[l] # "defect"
    <3>1. masked' \in [Lanes -> BOOLEAN]
      <4>1. masked' = [masked EXCEPT ![l] = (arbitration = "CancellationWon")]
        BY <1>5, <2>2 DEF ObserveHandoff
      <4>2. (arbitration = "CancellationWon") \in BOOLEAN
        BY Zenon
      <4>. QED
        BY <4>1, <4>2
    <3>. QED
      BY <1>5, <2>2, <3>1 DEF ObserveHandoff
  <2>. QED
    BY <2>1, <2>2
<1>6. ASSUME NEW l \in Lanes, Callback(l) PROVE TypeOK'
  BY <1>6, AttemptBounds DEF Callback
<1>7. ASSUME NEW l \in Lanes, BeginPromotion(l) PROVE TypeOK'
  BY <1>7, AttemptBounds DEF BeginPromotion, ChildEnds
<1>8. CASE BecomeReady \/ PublishStopping
  BY <1>8 DEF BecomeReady, Publishes, Operational, PublishStopping
<1>9. CASE BeginClosingScope
  <2>1. childInterrupted' \in [Lanes -> BOOLEAN]
    BY <1>9, Zenon DEF BeginClosingScope
  <2>. QED
    BY <1>9, <2>1 DEF BeginClosingScope
<1>10. CASE CancelActiveAttempt
  <2>1. childInterrupted' \in [Lanes -> BOOLEAN]
    BY <1>10, Zenon DEF CancelActiveAttempt
  <2>. QED
    BY <1>10, <2>1 DEF CancelActiveAttempt, Cancelled
<1>11. CASE Exhaust \/ SupervisorEnds
  <2>1. fatal' \in BOOLEAN
    BY <1>11, Zenon DEF Exhaust, SupervisorEnds
  <2>. QED
    BY <1>11, <2>1 DEF Exhaust, SupervisorEnds, ScopeClosed, Cancelled, Publishes
<1>12. CASE ObserveInterruption \/ Acquire \/ AttemptFails \/ Retry
  BY <1>12 DEF ObserveInterruption, Acquire, AttemptFails, TerminatesAs, ClaimsTermination, Retry
<1>13. CASE StopBegins \/ InterruptSupervisor \/ StopReturned
  <2>1. CASE StopBegins
    BY <2>1 DEF StopBegins
  <2>2. CASE InterruptSupervisor
    BY <2>2 DEF InterruptSupervisor
  <2>3. CASE StopReturned
    BY <2>3 DEF StopReturned
  <2>. QED
    BY <1>13, <2>1, <2>2, <2>3
<1>14. ASSUME NEW l \in Lanes,
               StreamEnds(l) \/ TakeGate(l) \/ Join(l) \/ LaneInterrupted(l) \/ Refuse(l)
               \/ Promote(l) \/ ChildInterrupted(l) \/ EffectEnds(l)
     PROVE  TypeOK'
  BY <1>14, AttemptBounds DEF StreamEnds, TerminatesAs, ClaimsTermination, LaneEnds, Interrupted,
     TakeGate, Join, LaneInterrupted, Refuse, ChildEnds, Promote, ChildInterrupted, EffectEnds
<1>15. CASE UNCHANGED vars
  BY <1>15
<1>. QED
  BY <1>1, <1>2, <1>3, <1>4, <1>5, <1>6, <1>7, <1>8, <1>9, <1>10, <1>11, <1>12, <1>13, <1>14, <1>15
     DEF Next, SupervisorStep, EnvironmentStep, StopStep, LaneStep, ChildStep

LEMMA StepsKeepLanesRest == ASSUME IInv, [Next]_vars PROVE LanesRest'
<1>. USE DEF IInv, TypeOK, LanesRest, vars, supervisorVars, laneVars, childVars, stopVars,
         unchangedByChild, unchangedByStop
<1>1. CASE BecomeReady
  BY <1>1 DEF BecomeReady, Publishes, Operational
<1>2. CASE BeginClosingScope
  BY <1>2 DEF BeginClosingScope
<1>3. ASSUME NEW l \in Lanes, StreamEnds(l) \/ Join(l) PROVE LanesRest'
  BY <1>3 DEF StreamEnds, TerminatesAs, ClaimsTermination, LaneEnds, Interrupted, Join
<1>4. ASSUME NEW l \in Lanes, ObserveHandoff(l) \/ LaneInterrupted(l) PROVE LanesRest'
  BY <1>4 DEF ObserveHandoff, HandedOff, LaneEnds, LaneInterrupted, Interrupted
<1>5. CASE BeginAttempt \/ ObserveInterruption \/ WaitToRetry \/ Exhaust \/ SupervisorEnds
               \/ Acquire \/ AttemptFails \/ Retry \/ StopBegins \/ CancelActiveAttempt
               \/ InterruptSupervisor \/ PublishStopping \/ StopReturned
  BY <1>5 DEF BeginAttempt, Publishes, ObserveInterruption, WaitToRetry, ScopeClosed, Cancelled,
     ForgetLanes, Exhaust, SupervisorEnds, EndIsFatal, Acquire, AttemptFails, TerminatesAs,
     ClaimsTermination, Retry, StopBegins, CancelActiveAttempt, InterruptSupervisor,
     PublishStopping, StopReturned
<1>6. ASSUME NEW l \in Lanes,
               Receive(l) \/ TakeGate(l) \/ Apply(l) \/ Callback(l) \/ Refuse(l)
               \/ BeginPromotion(l) \/ Promote(l) \/ ChildInterrupted(l) \/ EffectEnds(l)
     PROVE  LanesRest'
  BY <1>6 DEF Receive, Interrupted, TakeGate, Apply, RecordsRejection, Publishes, Callback,
     Refuse, ChildEnds, BeginPromotion, Promote, ChildInterrupted, EffectEnds
<1>7. CASE UNCHANGED vars
  BY <1>7
<1>. QED
  BY <1>1, <1>2, <1>3, <1>4, <1>5, <1>6, <1>7
     DEF Next, SupervisorStep, EnvironmentStep, StopStep, LaneStep, ChildStep

LEMMA StepsKeepEventProgress == ASSUME IInv, [Next]_vars PROVE EventProgress'
<1>. USE DEF IInv, TypeOK, EventProgress, LanesRest, FreshAttempt, vars, supervisorVars, laneVars,
         childVars, stopVars, unchangedByChild, unchangedByStop
<1>1. CASE BecomeReady
  BY <1>1 DEF BecomeReady, Publishes, Operational
<1>2. CASE WaitToRetry
  BY <1>2 DEF WaitToRetry, ScopeClosed, Cancelled, ForgetLanes, Publishes
<1>3. ASSUME NEW l \in Lanes, Receive(l) PROVE EventProgress'
  BY <1>3 DEF Receive, Interrupted
<1>4. ASSUME NEW l \in Lanes, Apply(l) PROVE EventProgress'
  BY <1>4 DEF Apply, Interrupted, RecordsRejection, Publishes
<1>5. ASSUME NEW l \in Lanes, ObserveHandoff(l) PROVE EventProgress'
  BY <1>5 DEF ObserveHandoff, HandedOff, LaneEnds
<1>6. ASSUME NEW l \in Lanes, Join(l) PROVE EventProgress'
  BY <1>6 DEF Join, LaneEnds, TerminatesAs, ClaimsTermination
<1>7. ASSUME NEW l \in Lanes, Callback(l) PROVE EventProgress'
  BY <1>7 DEF Callback
<1>8. ASSUME NEW l \in Lanes, BeginPromotion(l) PROVE EventProgress'
  BY <1>8 DEF BeginPromotion, ChildEnds
<1>9. CASE BeginAttempt \/ ObserveInterruption \/ BeginClosingScope \/ Exhaust
               \/ SupervisorEnds \/ Acquire \/ AttemptFails \/ Retry \/ StopBegins
               \/ CancelActiveAttempt \/ InterruptSupervisor \/ PublishStopping \/ StopReturned
  BY <1>9 DEF BeginAttempt, Publishes, ObserveInterruption, BeginClosingScope, Exhaust,
     ScopeClosed, Cancelled, SupervisorEnds, EndIsFatal, Acquire, AttemptFails, TerminatesAs,
     ClaimsTermination, Retry, StopBegins, CancelActiveAttempt, InterruptSupervisor,
     PublishStopping, StopReturned
<1>10. ASSUME NEW l \in Lanes,
               StreamEnds(l) \/ TakeGate(l) \/ LaneInterrupted(l) \/ Refuse(l)
               \/ Promote(l) \/ ChildInterrupted(l) \/ EffectEnds(l)
     PROVE  EventProgress'
  BY <1>10 DEF StreamEnds, TerminatesAs, ClaimsTermination, LaneEnds, Interrupted, TakeGate,
     LaneInterrupted, Refuse, ChildEnds, Promote, ChildInterrupted, EffectEnds
<1>11. CASE UNCHANGED vars
  BY <1>11
<1>. QED
  BY <1>1, <1>2, <1>3, <1>4, <1>5, <1>6, <1>7, <1>8, <1>9, <1>10, <1>11
     DEF Next, SupervisorStep, EnvironmentStep, StopStep, LaneStep, ChildStep

LEMMA StepsKeepPromotionIsLocked == ASSUME IInv, [Next]_vars PROVE PromotionIsLocked'
<1>. USE DEF IInv, TypeOK, PromotionIsLocked, vars, supervisorVars, laneVars, childVars, stopVars,
         unchangedByChild, unchangedByStop
<1>1. CASE BeginAttempt
  BY <1>1, NobodyIsNoLane DEF BeginAttempt, Publishes
<1>2. CASE CancelActiveAttempt
  BY <1>2, NobodyIsNoLane DEF CancelActiveAttempt, Cancelled
<1>3. ASSUME NEW l \in Lanes, BeginPromotion(l) PROVE PromotionIsLocked'
  BY <1>3, NobodyIsNoLane DEF BeginPromotion, ChildEnds
<1>4. ASSUME NEW l \in Lanes, Promote(l) PROVE PromotionIsLocked'
  BY <1>4, NobodyIsNoLane DEF Promote
<1>5. CASE BecomeReady \/ ObserveInterruption \/ BeginClosingScope \/ WaitToRetry \/ Exhaust
               \/ SupervisorEnds \/ Acquire \/ AttemptFails \/ Retry \/ StopBegins
               \/ InterruptSupervisor \/ PublishStopping \/ StopReturned
  BY <1>5, NobodyIsNoLane DEF BecomeReady, Publishes, Operational, ObserveInterruption,
     BeginClosingScope, WaitToRetry, ScopeClosed, Cancelled, ForgetLanes, Exhaust, SupervisorEnds,
     EndIsFatal, Acquire, AttemptFails, TerminatesAs, ClaimsTermination, Retry, StopBegins,
     InterruptSupervisor, PublishStopping, StopReturned
<1>6. ASSUME NEW l \in Lanes,
               Receive(l) \/ StreamEnds(l) \/ TakeGate(l) \/ Apply(l) \/ ObserveHandoff(l)
               \/ Join(l) \/ LaneInterrupted(l) \/ Callback(l) \/ Refuse(l)
               \/ ChildInterrupted(l) \/ EffectEnds(l)
     PROVE  PromotionIsLocked'
  BY <1>6, NobodyIsNoLane DEF Receive, Interrupted, StreamEnds, TerminatesAs, ClaimsTermination,
     LaneEnds, TakeGate, Apply, RecordsRejection, Publishes, ObserveHandoff, HandedOff, Join,
     LaneInterrupted, Callback, Refuse, ChildEnds, ChildInterrupted, EffectEnds
<1>7. CASE UNCHANGED vars
  BY <1>7
<1>. QED
  BY <1>1, <1>2, <1>3, <1>4, <1>5, <1>6, <1>7
     DEF Next, SupervisorStep, EnvironmentStep, StopStep, LaneStep, ChildStep

LEMMA StepsKeepFreshAttempt == ASSUME IInv, [Next]_vars PROVE FreshAttempt'
<1>. USE DEF IInv, TypeOK, FreshAttempt, LanesRest, PromotionIsLocked, OneWinner, vars,
         supervisorVars, laneVars, childVars, stopVars, unchangedByChild, unchangedByStop
<1>1. CASE BeginAttempt
  BY <1>1, AttemptBounds DEF BeginAttempt, Publishes
<1>2. CASE WaitToRetry
  BY <1>2, AttemptBounds DEF WaitToRetry, ScopeClosed, Cancelled, ForgetLanes, Publishes
<1>3. CASE CancelActiveAttempt
  BY <1>3, AttemptBounds DEF CancelActiveAttempt, Cancelled
<1>4. ASSUME NEW l \in Lanes, StreamEnds(l) \/ Join(l) PROVE FreshAttempt'
  BY <1>4, AttemptBounds DEF StreamEnds, TerminatesAs, ClaimsTermination, LaneEnds, Interrupted,
     Join
<1>5. ASSUME NEW l \in Lanes, ObserveHandoff(l) PROVE FreshAttempt'
  BY <1>5, AttemptBounds DEF ObserveHandoff, HandedOff, LaneEnds
<1>6. ASSUME NEW l \in Lanes, Apply(l) PROVE FreshAttempt'
  BY <1>6, AttemptBounds DEF Apply, Interrupted, RecordsRejection, Publishes
<1>7. CASE BecomeReady \/ ObserveInterruption \/ BeginClosingScope \/ Exhaust \/ SupervisorEnds
               \/ Acquire \/ AttemptFails \/ Retry \/ StopBegins \/ InterruptSupervisor
               \/ PublishStopping \/ StopReturned
  BY <1>7, AttemptBounds DEF BecomeReady, Publishes, Operational, ObserveInterruption,
     BeginClosingScope, Exhaust, ScopeClosed, Cancelled, SupervisorEnds, EndIsFatal, Acquire,
     AttemptFails, TerminatesAs, ClaimsTermination, Retry, StopBegins, InterruptSupervisor,
     PublishStopping, StopReturned
<1>8. ASSUME NEW l \in Lanes,
               Receive(l) \/ TakeGate(l) \/ LaneInterrupted(l) \/ Callback(l) \/ Refuse(l)
               \/ BeginPromotion(l) \/ Promote(l) \/ ChildInterrupted(l) \/ EffectEnds(l)
     PROVE  FreshAttempt'
  BY <1>8, AttemptBounds DEF Receive, Interrupted, TakeGate, LaneInterrupted, LaneEnds,
     Callback, Refuse, ChildEnds, BeginPromotion, Promote, ChildInterrupted, EffectEnds
<1>9. CASE UNCHANGED vars
  BY <1>9
<1>. QED
  BY <1>1, <1>2, <1>3, <1>4, <1>5, <1>6, <1>7, <1>8, <1>9
     DEF Next, SupervisorStep, EnvironmentStep, StopStep, LaneStep, ChildStep

LEMMA StepsKeepInterruptedByCancellation == ASSUME IInv, [Next]_vars PROVE InterruptedByCancellation'
<1>. USE DEF IInv, TypeOK, InterruptedByCancellation, FreshAttempt, vars, supervisorVars, laneVars,
         childVars, stopVars, unchangedByChild, unchangedByStop
<1>1. CASE BecomeReady
  BY <1>1 DEF BecomeReady, Publishes, Operational
<1>2. CASE CancelActiveAttempt
  BY <1>2 DEF CancelActiveAttempt, Cancelled
<1>3. ASSUME NEW l \in Lanes, StreamEnds(l) \/ Join(l) PROVE InterruptedByCancellation'
  BY <1>3 DEF StreamEnds, TerminatesAs, ClaimsTermination, LaneEnds, Interrupted, Join
<1>4. ASSUME NEW l \in Lanes, Refuse(l) \/ BeginPromotion(l) PROVE InterruptedByCancellation'
  BY <1>4 DEF Refuse, ChildEnds, BeginPromotion
<1>5. CASE BeginAttempt \/ ObserveInterruption \/ BeginClosingScope \/ WaitToRetry \/ Exhaust
               \/ SupervisorEnds \/ Acquire \/ AttemptFails \/ Retry \/ StopBegins
               \/ InterruptSupervisor \/ PublishStopping \/ StopReturned
  BY <1>5 DEF BeginAttempt, Publishes, ObserveInterruption, BeginClosingScope, WaitToRetry,
     ScopeClosed, Cancelled, ForgetLanes, Exhaust, SupervisorEnds, EndIsFatal, Acquire,
     AttemptFails, TerminatesAs, ClaimsTermination, Retry, StopBegins, InterruptSupervisor,
     PublishStopping, StopReturned
<1>6. ASSUME NEW l \in Lanes,
               Receive(l) \/ TakeGate(l) \/ Apply(l) \/ ObserveHandoff(l)
               \/ LaneInterrupted(l) \/ Callback(l) \/ Promote(l) \/ ChildInterrupted(l)
               \/ EffectEnds(l)
     PROVE  InterruptedByCancellation'
  BY <1>6 DEF Receive, Interrupted, TakeGate, Apply, RecordsRejection, Publishes,
     ObserveHandoff, HandedOff, LaneEnds, LaneInterrupted, Callback, Promote, ChildInterrupted,
     ChildEnds, EffectEnds
<1>7. CASE UNCHANGED vars
  BY <1>7
<1>. QED
  BY <1>1, <1>2, <1>3, <1>4, <1>5, <1>6, <1>7
     DEF Next, SupervisorStep, EnvironmentStep, StopStep, LaneStep, ChildStep

LEMMA StepsKeepCancelledByStop == ASSUME IInv, [Next]_vars PROVE CancelledByStop'
<1>. USE DEF IInv, TypeOK, CancelledByStop, OneWinner, vars, supervisorVars, laneVars, childVars,
         stopVars, unchangedByChild, unchangedByStop
<1>1. CASE WaitToRetry \/ Exhaust \/ SupervisorEnds
  BY <1>1 DEF WaitToRetry, ScopeClosed, Cancelled, ForgetLanes, Publishes, Exhaust,
     SupervisorEnds, EndIsFatal
<1>2. CASE CancelActiveAttempt
  BY <1>2 DEF CancelActiveAttempt, Cancelled
<1>3. CASE BeginAttempt \/ BecomeReady \/ ObserveInterruption \/ BeginClosingScope \/ Acquire
               \/ AttemptFails \/ Retry \/ StopBegins \/ InterruptSupervisor \/ PublishStopping
               \/ StopReturned
  BY <1>3 DEF BeginAttempt, Publishes, BecomeReady, Operational, ObserveInterruption,
     BeginClosingScope, Acquire, AttemptFails, TerminatesAs, ClaimsTermination, Retry, StopBegins,
     InterruptSupervisor, PublishStopping, StopReturned
<1>4. ASSUME NEW l \in Lanes,
               Receive(l) \/ StreamEnds(l) \/ TakeGate(l) \/ Apply(l) \/ ObserveHandoff(l)
               \/ Join(l) \/ LaneInterrupted(l) \/ Callback(l) \/ Refuse(l)
               \/ BeginPromotion(l) \/ Promote(l) \/ ChildInterrupted(l) \/ EffectEnds(l)
     PROVE  CancelledByStop'
  BY <1>4 DEF Receive, Interrupted, StreamEnds, TerminatesAs, ClaimsTermination, LaneEnds,
     TakeGate, Apply, RecordsRejection, Publishes, ObserveHandoff, HandedOff, Join,
     LaneInterrupted, Callback, Refuse, ChildEnds, BeginPromotion, Promote, ChildInterrupted,
     EffectEnds
<1>5. CASE UNCHANGED vars
  BY <1>5
<1>. QED
  BY <1>1, <1>2, <1>3, <1>4, <1>5
     DEF Next, SupervisorStep, EnvironmentStep, StopStep, LaneStep, ChildStep

LEMMA StepsKeepOutcomeIsKnown == ASSUME IInv, [Next]_vars PROVE OutcomeIsKnown'
<1>. USE DEF IInv, TypeOK, OutcomeIsKnown, LanesRest, vars, supervisorVars, laneVars, childVars,
         stopVars, unchangedByChild, unchangedByStop
<1>1. CASE AttemptFails
  BY <1>1 DEF AttemptFails, TerminatesAs, ClaimsTermination
<1>2. ASSUME NEW l \in Lanes, Apply(l) PROVE OutcomeIsKnown'
  BY <1>2 DEF Apply, Interrupted, RecordsRejection, Publishes
<1>3. ASSUME NEW l \in Lanes, ObserveHandoff(l) PROVE OutcomeIsKnown'
  BY <1>3 DEF ObserveHandoff, HandedOff, LaneEnds
<1>4. ASSUME NEW l \in Lanes,
               StreamEnds(l) \/ Join(l) \/ LaneInterrupted(l)
     PROVE  OutcomeIsKnown'
  BY <1>4 DEF StreamEnds, TerminatesAs, ClaimsTermination, LaneEnds, Interrupted, Join,
     LaneInterrupted
<1>5. CASE BeginAttempt \/ BecomeReady \/ ObserveInterruption \/ BeginClosingScope
               \/ WaitToRetry \/ Exhaust \/ SupervisorEnds \/ Acquire \/ Retry \/ StopBegins
               \/ CancelActiveAttempt \/ InterruptSupervisor \/ PublishStopping \/ StopReturned
  BY <1>5 DEF BeginAttempt, Publishes, BecomeReady, Operational, ObserveInterruption,
     BeginClosingScope, WaitToRetry, ScopeClosed, Cancelled, ForgetLanes, Exhaust, SupervisorEnds,
     EndIsFatal, Acquire, Retry, StopBegins, CancelActiveAttempt, InterruptSupervisor,
     PublishStopping, StopReturned
<1>6. ASSUME NEW l \in Lanes,
               Receive(l) \/ TakeGate(l) \/ Callback(l) \/ Refuse(l) \/ BeginPromotion(l)
               \/ Promote(l) \/ ChildInterrupted(l) \/ EffectEnds(l)
     PROVE  OutcomeIsKnown'
  BY <1>6 DEF Receive, Interrupted, TakeGate, Callback, Refuse, ChildEnds, BeginPromotion,
     Promote, ChildInterrupted, EffectEnds
<1>7. CASE UNCHANGED vars
  BY <1>7
<1>. QED
  BY <1>1, <1>2, <1>3, <1>4, <1>5, <1>6, <1>7
     DEF Next, SupervisorStep, EnvironmentStep, StopStep, LaneStep, ChildStep

LEMMA StepsKeepCancelledEffectsStop == ASSUME IInv, [Next]_vars PROVE CancelledEffectsStop'
<1>. USE DEF IInv, TypeOK, CancelledEffectsStop, PromotionIsLocked, vars, supervisorVars, laneVars,
         childVars, stopVars, unchangedByChild, unchangedByStop
<1>1. CASE BeginClosingScope
  BY <1>1, NobodyIsNoLane DEF BeginClosingScope
<1>2. CASE WaitToRetry \/ Exhaust \/ SupervisorEnds
  BY <1>2, NobodyIsNoLane DEF WaitToRetry, ScopeClosed, Cancelled, ForgetLanes, Publishes,
     Exhaust, SupervisorEnds, EndIsFatal
<1>3. CASE CancelActiveAttempt
  BY <1>3, NobodyIsNoLane DEF CancelActiveAttempt, Cancelled
<1>4. ASSUME NEW l \in Lanes, Apply(l) PROVE CancelledEffectsStop'
  BY <1>4, NobodyIsNoLane DEF Apply, Interrupted, RecordsRejection, Publishes
<1>5. ASSUME NEW l \in Lanes, BeginPromotion(l) PROVE CancelledEffectsStop'
  BY <1>5, NobodyIsNoLane DEF BeginPromotion, ChildEnds
<1>6. ASSUME NEW l \in Lanes, Promote(l) PROVE CancelledEffectsStop'
  BY <1>6, NobodyIsNoLane DEF Promote
<1>7. CASE BeginAttempt \/ BecomeReady \/ ObserveInterruption \/ Acquire \/ AttemptFails
               \/ Retry \/ StopBegins \/ InterruptSupervisor \/ PublishStopping \/ StopReturned
  BY <1>7, NobodyIsNoLane DEF BeginAttempt, Publishes, BecomeReady, Operational,
     ObserveInterruption, Acquire, AttemptFails, TerminatesAs, ClaimsTermination, Retry,
     StopBegins, InterruptSupervisor, PublishStopping, StopReturned
<1>8. ASSUME NEW l \in Lanes,
               Receive(l) \/ StreamEnds(l) \/ TakeGate(l) \/ ObserveHandoff(l) \/ Join(l)
               \/ LaneInterrupted(l) \/ Callback(l) \/ Refuse(l) \/ ChildInterrupted(l)
               \/ EffectEnds(l)
     PROVE  CancelledEffectsStop'
  BY <1>8, NobodyIsNoLane DEF Receive, Interrupted, StreamEnds, TerminatesAs, ClaimsTermination,
     LaneEnds, TakeGate, ObserveHandoff, HandedOff, Join, LaneInterrupted, Callback, Refuse,
     ChildEnds, ChildInterrupted, EffectEnds
<1>9. CASE UNCHANGED vars
  BY <1>9
<1>. QED
  BY <1>1, <1>2, <1>3, <1>4, <1>5, <1>6, <1>7, <1>8, <1>9
     DEF Next, SupervisorStep, EnvironmentStep, StopStep, LaneStep, ChildStep

LEMMA StepsKeepOneWinner == ASSUME IInv, [Next]_vars PROVE OneWinner'
<1>. USE DEF IInv, TypeOK, OneWinner, CancelledByStop, FreshAttempt, OutcomeIsKnown,
         InterruptedByCancellation, vars, supervisorVars, laneVars, childVars, stopVars,
         unchangedByChild, unchangedByStop
<1>1. CASE BeginAttempt
  BY <1>1 DEF BeginAttempt, Publishes
<1>2. CASE AttemptFails
  BY <1>2 DEF AttemptFails, TerminatesAs, ClaimsTermination
<1>3. CASE WaitToRetry \/ Exhaust
  BY <1>3 DEF WaitToRetry, ScopeClosed, Cancelled, ForgetLanes, Publishes, Exhaust
<1>4. CASE SupervisorEnds
  BY <1>4 DEF SupervisorEnds, ScopeClosed, Cancelled, EndIsFatal
<1>5. CASE CancelActiveAttempt
  BY <1>5 DEF CancelActiveAttempt, Cancelled
<1>6. ASSUME NEW l \in Lanes, StreamEnds(l) PROVE OneWinner'
  BY <1>6 DEF StreamEnds, TerminatesAs, ClaimsTermination, LaneEnds, Interrupted
<1>7. ASSUME NEW l \in Lanes, ObserveHandoff(l) PROVE OneWinner'
  BY <1>7 DEF ObserveHandoff, HandedOff, LaneEnds
<1>8. ASSUME NEW l \in Lanes, Join(l) PROVE OneWinner'
  BY <1>8 DEF Join, LaneEnds, TerminatesAs, ClaimsTermination
<1>9. ASSUME NEW l \in Lanes, LaneInterrupted(l) PROVE OneWinner'
  BY <1>9 DEF LaneInterrupted, LaneEnds, Interrupted
<1>10. CASE BecomeReady \/ ObserveInterruption \/ BeginClosingScope \/ Acquire \/ Retry
               \/ StopBegins \/ InterruptSupervisor \/ PublishStopping \/ StopReturned
  BY <1>10 DEF BecomeReady, Publishes, Operational, ObserveInterruption, BeginClosingScope,
     Acquire, Retry, StopBegins, InterruptSupervisor, PublishStopping, StopReturned
<1>11. ASSUME NEW l \in Lanes,
               Receive(l) \/ TakeGate(l) \/ Apply(l) \/ Callback(l) \/ Refuse(l)
               \/ BeginPromotion(l) \/ Promote(l) \/ ChildInterrupted(l) \/ EffectEnds(l)
     PROVE  OneWinner'
  BY <1>11 DEF Receive, Interrupted, TakeGate, Apply, RecordsRejection, Publishes, Callback,
     Refuse, ChildEnds, BeginPromotion, Promote, ChildInterrupted, EffectEnds
<1>12. CASE UNCHANGED vars
  BY <1>12
<1>. QED
  BY <1>1, <1>2, <1>3, <1>4, <1>5, <1>6, <1>7, <1>8, <1>9, <1>10, <1>11, <1>12
     DEF Next, SupervisorStep, EnvironmentStep, StopStep, LaneStep, ChildStep

-----------------------------------------------------------------------------
LEMMA InvariantHolds == Spec => []IInv
<1>1. IInv /\ [Next]_vars => IInv'
  BY StepsKeepTypes, StepsKeepLanesRest, StepsKeepEventProgress, StepsKeepPromotionIsLocked,
     StepsKeepFreshAttempt, StepsKeepInterruptedByCancellation, StepsKeepCancelledByStop,
     StepsKeepOutcomeIsKnown, StepsKeepCancelledEffectsStop, StepsKeepOneWinner
     DEF IInv
<1>. QED
  BY <1>1, InitEstablishesInvariant, PTL DEF Spec

(* Every variable has its type; no attempt is begun beyond the schedule. *)
THEOREM TypesHold == Spec => []TypeOK
<1>1. IInv => TypeOK
  BY DEF IInv
<1>. QED
  BY <1>1, InvariantHolds, PTL

(* The settlement callback of an event runs at most once, and has run before *)
(* its lane goes on or ends, whichever lane, supervisor or stop() is         *)
(* interrupted at whichever point (applyWithSettlement).                     *)
THEOREM EverySettlementRunsOnce == Spec => []SettledOnce
<1>1. IInv => SettledOnce
  <2>1. ASSUME IInv, NEW l \in Lanes
        PROVE  /\ callbacks[l] <= 1
               /\ applicationExit[l] # "none" /\ lane[l] \in {"idle", "joining", "ended"}
                     => callbacks[l] = 1
    <3>1. callbacks[l] = IF child[l] \in {"none", "callback"} THEN 0 ELSE 1
      BY <2>1 DEF IInv, EventProgress
    <3>2. applicationExit[l] # "none" /\ lane[l] \in {"idle", "joining", "ended"}
             => child[l] \notin {"none", "callback"}
      BY <2>1 DEF IInv, EventProgress
    <3>. QED
      BY <3>1, <3>2
  <2>. QED
    BY <2>1 DEF SettledOnce
<1>. QED
  BY <1>1, InvariantHolds, PTL

(* Every settlement effect that runs in a cancelled attempt is interrupted:  *)
(* none is promoted past the cancellation (promoteReturnedEffect, cancel).   *)
THEOREM CancellationReachesEveryEffect == Spec => []CancelledEffectsStop
<1>1. IInv => CancelledEffectsStop
  BY DEF IInv
<1>. QED
  BY <1>1, InvariantHolds, PTL

(* An attempt is cancelled or comes to an end of its own, never both; only a *)
(* transition that threw is fatal (makeSourceAttemptArbitration, onFatal).   *)
THEOREM AttemptsHaveOneWinner == Spec => []OneWinner
<1>1. IInv => OneWinner
  BY DEF IInv
<1>. QED
  BY <1>1, InvariantHolds, PTL

-----------------------------------------------------------------------------
(***************************************************************************)
(* The leases of a leased source: SourceLease.                             *)
(***************************************************************************)

\* A row is delivered by one lane, as the adapters of the repository do.
OwnLanes == \A l1, l2 \in FeedLanes : l1 # l2 => IdsOf[l1] \intersect IdsOf[l2] = {}

Locked == {"retrying", "making", "activated", "unmaking", "cleaning"}
Entering == {"retrying", "making", "activated", "unmaking"}

\* The stages that clean up or make a runtime hold the lock, and know their lease.
LockIsHeld ==
    \A c \in Clients :
        /\ pc[c] \in Locked => leaseLock = c
        /\ pc[c] \in Entering => lease # 0 /\ ~closed
        /\ pc[c] \in {"attaching", "subscribed", "releasing"} => holds[c] # 0

\* A clean-up runs in its stage, and is of the lease that is entered, if there is one.
CleanupsAreOfLease ==
    /\ \A c \in Clients :
          cleaning[c].stage # "none" => pc[c] \in {"retrying", "unmaking", "cleaning"}
    /\ cleaning[Manager].stage # "none" => closed /\ pc[Manager] = "closing"
    /\ \A p \in Processes :
          cleaning[p].stage # "none" =>
              /\ cleaning[p].lease \in Leases
              /\ lease \in {0, cleaning[p].lease}

\* Rows are deleted after the lanes have ended, and none is left out.
DeletionsAreComplete ==
    /\ lease = 0 => stored = {}
    /\ \A p \in Processes :
          cleaning[p].stage = "deleting" =>
              /\ Stopped(cleaning[p].lease)
              /\ cleaning[p].failed \/ stored \subseteq cleaning[p].todo

LanesBelongToRuntime ==
    \A g \in Leases, l \in FeedLanes : laneWork[g][l] # Idle => runtime[g] \in {"running", "stopping"}

\* A row that a lane is busy with is its own; it is owned while it is published,
\* and not stored if its ownership is about to be given up.
LaneKeepsOwnership(g, l) ==
    /\ laneWork[g][l] # Idle => laneWork[g][l].id \in IdsOf[l]
    /\ laneWork[g][l].op = "upserting" =>
          /\ laneWork[g][l].id \in owned[g]
          /\ laneWork[g][l].previouslyOwned \/ laneWork[g][l].id \notin stored
    /\ laneWork[g][l].op = "deleting" => laneWork[g][l].id \notin stored

LanesKeepOwnership == \A g \in Leases, l \in FeedLanes : LaneKeepsOwnership(g, l)

LeaseInv ==
    /\ LeaseTypeOK /\ LockIsHeld /\ CleanupsAreOfLease /\ DeletionsAreComplete
    /\ LanesBelongToRuntime /\ LanesKeepOwnership /\ OneRuntime /\ RowsAreOwned

-----------------------------------------------------------------------------
(* Types *)

Stages == {"idle", "queued", "retrying", "making", "activated", "unmaking",
           "attaching", "subscribed", "releasing", "cleaning", "closing", "done"}

LEMMA CleanupsAreTyped ==
    /\ NoCleanup \in Cleanups
    /\ \A g \in 0..MaxLeases : CleanupOf(g) \in Cleanups
BY LeaseBound DEF NoCleanup, CleanupOf, Cleanups

LEMMA InitIsTyped == InitLease => LeaseTypeOK
<1>. SUFFICES ASSUME InitLease PROVE LeaseTypeOK
  OBVIOUS
<1>1. /\ cleaning \in [Processes -> Cleanups]
      /\ laneWork \in [Leases -> [FeedLanes -> {Idle} \union Mutations]]
  BY CleanupsAreTyped DEF InitLease
<1>2. /\ owned \in [Leases -> SUBSET Ids]
      /\ runtime \in [Leases -> {"none", "running", "stopping", "stopped"}]
      /\ pc \in [Processes -> Stages]
      /\ holds \in [Clients -> 0..MaxLeases]
  BY LeaseBound DEF InitLease, Stages
<1>3. /\ closed \in BOOLEAN /\ leaseLock \in Clients \union {Nobody}
      /\ leaseSequence \in 0..MaxLeases /\ lease \in 0..MaxLeases /\ subscribers \in Nat
      /\ stored \subseteq Ids
  <2>1. /\ closed = FALSE /\ leaseLock = Nobody /\ stored = {}
        /\ leaseSequence = 0 /\ lease = 0 /\ subscribers = 0
    BY DEF InitLease
  <2>2. closed \in BOOLEAN
    BY <2>1
  <2>3. leaseLock \in Clients \union {Nobody} /\ stored \subseteq Ids
    BY <2>1
  <2>4. leaseSequence \in 0..MaxLeases /\ lease \in 0..MaxLeases /\ subscribers \in Nat
    BY <2>1, LeaseBound
  <2>. QED
    BY <2>2, <2>3, <2>4
<1>. QED
  BY <1>1, <1>2, <1>3 DEF LeaseTypeOK, Stages

LEMMA ClientStepsKeepTypes ==
    ASSUME LeaseTypeOK, NEW c \in Clients, Subscribe(c) \/ Attach(c) \/ Leave(c) \/ ClientStep(c)
    PROVE  LeaseTypeOK'
<1>. USE LeaseBound, CleanupsAreTyped
     DEF LeaseTypeOK, leaseVars, runtimeVars, storeVars, Goes, Processes, Leases
<1>1. CASE Subscribe(c) \/ Attach(c) \/ Leave(c) \/ NotAdmitted(c)
  BY <1>1 DEF Subscribe, Attach, Leave, NotAdmitted
<1>2. CASE JoinFeed(c)
  BY <1>2 DEF JoinFeed
<1>3. CASE RetryCleanup(c)
  BY <1>3 DEF RetryCleanup
<1>4. CASE Create(c)
  BY <1>4 DEF Create, NewLease
<1>5. CASE Activate(c)
  BY <1>5 DEF Activate
<1>6. CASE MakeFails(c)
  BY <1>6 DEF MakeFails
<1>7. CASE Made(c)
  BY <1>7 DEF Made
<1>8. CASE ReleaseStale(c)
  BY <1>8 DEF ReleaseStale
<1>9. CASE ReleaseShared(c)
  BY <1>9 DEF ReleaseShared
<1>10. CASE ReleaseLast(c)
  BY <1>10 DEF ReleaseLast
<1>11. CASE EndCleanup(c) /\ ForgetsLease(c)
  BY <1>11 DEF EndCleanup, CleanupEffects, Unlocks
<1>12. CASE EndCleanup(c) /\ ~ForgetsLease(c)
  BY <1>12 DEF EndCleanup, CleanupEffects, Unlocks
<1>13. CASE EndRetry(c) /\ ForgetsLease(c)
  <2>1. leaseSequence' \in 0..MaxLeases /\ lease' \in 0..MaxLeases /\ subscribers' \in Nat
    BY <1>13 DEF EndRetry, NewLease
  <2>2. owned' \in [Leases -> SUBSET Ids]
    BY <1>13 DEF EndRetry
  <2>3. cleaning' \in [Processes -> Cleanups] /\ pc' \in [Processes -> Stages]
    BY <1>13 DEF EndRetry, Stages
  <2>. QED
    BY <1>13, <2>1, <2>2, <2>3 DEF EndRetry, Stages
<1>14. CASE EndRetry(c) /\ ~ForgetsLease(c)
  BY <1>14 DEF EndRetry, Unlocks
<1>. QED
  BY <1>1, <1>2, <1>3, <1>4, <1>5, <1>6, <1>7, <1>8, <1>9, <1>10, <1>11, <1>12, <1>13, <1>14
     DEF ClientStep, AcquireFeed, Make, Release

LEMMA CleanupStepsKeepTypes ==
    ASSUME LeaseTypeOK, CleanupsAreOfLease,
           (\E p \in Processes : Cleanup(p)) \/ RequestClose \/ BeginClose \/ EndClose
    PROVE  LeaseTypeOK'
<1>. USE LeaseBound, CleanupsAreTyped
     DEF LeaseTypeOK, leaseVars, runtimeVars, storeVars, Goes, Leases
<1>1. ASSUME NEW p \in Processes, StopRuntime(p) PROVE LeaseTypeOK'
  BY <1>1 DEF StopRuntime
<1>2. ASSUME NEW p \in Processes, BeginDeletion(p) PROVE LeaseTypeOK'
  <2>1. cleaning[p] \in Cleanups /\ owned[cleaning[p].lease] \subseteq Ids
    BY <1>2 DEF BeginDeletion, Cleanups, CleanupsAreOfLease
  <2>2. [cleaning[p] EXCEPT !.stage = "deleting", !.todo = owned[cleaning[p].lease]] \in Cleanups
    BY <2>1 DEF Cleanups
  <2>. QED
    BY <1>2, <2>2 DEF BeginDeletion
<1>3. ASSUME NEW p \in Processes, DeleteOwned(p) PROVE LeaseTypeOK'
  <2>1. cleaning' \in [Processes -> Cleanups] /\ stored' \subseteq Ids
    <3>1. PICK id \in cleaning[p].todo :
            /\ stored' \in {stored, stored \ {id}}
            /\ \/ cleaning' = [cleaning EXCEPT ![p] = [cleaning[p] EXCEPT !.todo = @ \ {id}]]
               \/ cleaning' = [cleaning EXCEPT ![p] = [cleaning[p] EXCEPT !.todo = @ \ {id}, !.failed = TRUE]]
      BY <1>3 DEF DeleteOwned
    <3>2. /\ [cleaning[p] EXCEPT !.todo = @ \ {id}] \in Cleanups
          /\ [cleaning[p] EXCEPT !.todo = @ \ {id}, !.failed = TRUE] \in Cleanups
      BY DEF Cleanups
    <3>3. stored' \subseteq Ids
      BY <3>1
    <3>4. cleaning' \in [Processes -> Cleanups]
      BY <3>1, <3>2
    <3>. QED
      BY <3>3, <3>4
  <2>. QED
    BY <1>3, <2>1 DEF DeleteOwned
<1>4. CASE RequestClose
  BY <1>4 DEF RequestClose, Processes
<1>5. CASE BeginClose
  BY <1>5 DEF BeginClose, Processes
<1>6. CASE EndClose /\ ForgetsLease(Manager)
  BY <1>6 DEF EndClose, CleanupEffects, Processes
<1>7. CASE EndClose /\ ~ForgetsLease(Manager)
  BY <1>7 DEF EndClose, CleanupEffects, Processes
<1>. QED
  BY <1>1, <1>2, <1>3, <1>4, <1>5, <1>6, <1>7 DEF Cleanup

LEMMA LaneStepsKeepTypes ==
    ASSUME LeaseTypeOK, NEW g \in Leases,
           \/ \E l \in FeedLanes : BeginUpsert(g, l) \/ BeginDelete(g, l) \/ FeedStep(g, l)
           \/ RuntimeStopped(g)
    PROVE  LeaseTypeOK'
<1>. USE LanesDeliverIds
     DEF LeaseTypeOK, leaseVars, runtimeVars, storeVars, unchangedByLane, Lane
<1>1. ASSUME NEW l \in FeedLanes, BeginUpsert(g, l) PROVE LeaseTypeOK'
  <2>1. PICK id \in IdsOf[l] :
            /\ Lane(g, l, Mutation("upserting", id, id \in owned[g]))
            /\ owned' = [owned EXCEPT ![g] = @ \union {id}]
    BY <1>1 DEF BeginUpsert
  <2>2. id \in Ids /\ Mutation("upserting", id, id \in owned[g]) \in Mutations
    BY DEF Mutation, Mutations
  <2>. QED
    BY <1>1, <2>1, <2>2 DEF BeginUpsert
<1>2. ASSUME NEW l \in FeedLanes, BeginDelete(g, l) PROVE LeaseTypeOK'
  <2>1. PICK id \in IdsOf[l] :
            /\ Lane(g, l, Mutation("deleting", id, id \in owned[g]))
            /\ stored' = stored \ {id}
    BY <1>2 DEF BeginDelete
  <2>2. id \in Ids /\ Mutation("deleting", id, id \in owned[g]) \in Mutations
    BY DEF Mutation, Mutations
  <2>. QED
    BY <1>2, <2>1, <2>2 DEF BeginDelete
<1>3. ASSUME NEW l \in FeedLanes, Publish(g, l) PROVE LeaseTypeOK'
  <2>1. laneWork[g][l].id \in Ids
    BY <1>3 DEF Publish, Mutations, Idle
  <2>. QED
    BY <1>3, <2>1 DEF Publish
<1>4. ASSUME NEW l \in FeedLanes, PublishFails(g, l) PROVE LeaseTypeOK'
  BY <1>4 DEF PublishFails
<1>5. ASSUME NEW l \in FeedLanes, Disown(g, l) PROVE LeaseTypeOK'
  BY <1>5 DEF Disown
<1>6. ASSUME NEW l \in FeedLanes, FeedInterrupted(g, l) PROVE LeaseTypeOK'
  BY <1>6 DEF FeedInterrupted
<1>7. CASE RuntimeStopped(g)
  BY <1>7 DEF RuntimeStopped
<1>. QED
  BY <1>1, <1>2, <1>3, <1>4, <1>5, <1>6, <1>7 DEF FeedStep

-----------------------------------------------------------------------------
(* The subscribers *)

Rows == DeletionsAreComplete /\ RowsAreOwned
LaneFacts == LanesBelongToRuntime /\ LanesKeepOwnership /\ OneRuntime
Control == LockIsHeld /\ CleanupsAreOfLease

\* A step that neither touches the rows nor the runtimes keeps what is said of them.
LEMMA RowsUntouched ==
    ASSUME Rows, stored' = stored, owned' = owned, lease' = lease, runtime' = runtime,
           \A p \in Processes :
              cleaning'[p].stage = "deleting" => cleaning'[p] = cleaning[p]
    PROVE  Rows'
BY DEF Rows, DeletionsAreComplete, RowsAreOwned, Stopped

LEMMA LanesUntouched ==
    ASSUME LaneFacts, laneWork' = laneWork, stored' = stored, owned' = owned, lease' = lease,
           runtime' = runtime
    PROVE  LaneFacts'
BY DEF LaneFacts, LanesBelongToRuntime, LanesKeepOwnership, LaneKeepsOwnership, OneRuntime

\* When a clean-up deleted every row nothing of the feed is left that could store one.
LEMMA ForgettingIsClean ==
    ASSUME LeaseTypeOK, Control, Rows, LaneFacts, NEW p \in Processes, Ends(p), ForgetsLease(p)
    PROVE  /\ stored = {}
           /\ \A g \in Leases : /\ runtime[g] \notin {"running", "stopping"}
                               /\ \A l \in FeedLanes : laneWork[g][l] = Idle
<1>1. /\ stored = {} /\ Stopped(cleaning[p].lease)
      /\ cleaning[p].lease \in Leases /\ lease \in {0, cleaning[p].lease}
  BY DEF Control, CleanupsAreOfLease, Rows, DeletionsAreComplete, Ends, ForgetsLease
<1>2. ASSUME NEW g \in Leases PROVE runtime[g] \notin {"running", "stopping"}
  BY <1>1 DEF LaneFacts, OneRuntime, Stopped, Leases
<1>. QED
  BY <1>1, <1>2 DEF LaneFacts, LanesBelongToRuntime

\* A clean-up that runs is of a client that holds the lock, or of close().
LEMMA OneCleanup ==
    ASSUME LeaseTypeOK, Control, NEW c \in Clients, leaseLock \in {c, Nobody}, ~closed
    PROVE  \A p \in Processes : cleaning[p].stage # "none" => p = c /\ leaseLock = c
BY ManagerIsNoClient
   DEF Control, LockIsHeld, CleanupsAreOfLease, Locked, Processes, LeaseTypeOK

LEMMA EmptyFeed ==
    ASSUME LaneFacts, stored = {}, stored' = {}, laneWork' = laneWork, runtime' = runtime,
           \A g \in Leases : /\ runtime[g] \notin {"running", "stopping"}
                            /\ \A l \in FeedLanes : laneWork[g][l] = Idle
    PROVE  LaneFacts'
BY DEF LaneFacts, LanesBelongToRuntime, LanesKeepOwnership, LaneKeepsOwnership, OneRuntime, Idle

LEMMA ClientStepsKeepInv ==
    ASSUME LeaseInv, NEW c \in Clients,
           Subscribe(c) \/ Attach(c) \/ Leave(c) \/ ClientStep(c)
    PROVE  Control' /\ Rows' /\ LaneFacts'
<1>. USE DEF leaseVars, runtimeVars, storeVars, Goes
<1>0. LeaseTypeOK /\ Control /\ Rows /\ LaneFacts
  BY DEF LeaseInv, Control, Rows, LaneFacts
<1>1. CASE Subscribe(c) \/ NotAdmitted(c) \/ Attach(c) \/ Leave(c)
  <2>1. /\ closed' = closed /\ leaseLock' = leaseLock /\ lease' = lease /\ holds' = holds
        /\ laneWork' = laneWork /\ stored' = stored /\ owned' = owned /\ runtime' = runtime
        /\ cleaning' = cleaning
        /\ \/ pc[c] = "idle" /\ pc' = [pc EXCEPT ![c] = "queued"]
           \/ pc[c] = "queued" /\ pc' = [pc EXCEPT ![c] = "idle"]
           \/ pc[c] = "attaching" /\ pc' = [pc EXCEPT ![c] = "subscribed"]
           \/ pc[c] \in {"attaching", "subscribed"} /\ pc' = [pc EXCEPT ![c] = "releasing"]
    BY <1>1 DEF Subscribe, NotAdmitted, Attach, Leave
  <2>2. Control'
    BY <1>0, <2>1, ManagerIsNoClient
       DEF Control, LockIsHeld, CleanupsAreOfLease, Locked, Entering, LeaseTypeOK, Processes
  <2>. QED
    BY <1>0, <2>1, <2>2, RowsUntouched, LanesUntouched
<1>2. CASE JoinFeed(c)
  <2>1. /\ closed' = closed /\ leaseLock' = leaseLock /\ lease' = lease
        /\ laneWork' = laneWork /\ stored' = stored /\ owned' = owned /\ runtime' = runtime
        /\ cleaning' = cleaning /\ lease # 0 /\ holds' = [holds EXCEPT ![c] = lease]
        /\ pc[c] = "queued" /\ pc' = [pc EXCEPT ![c] = "attaching"]
    BY <1>2 DEF JoinFeed
  <2>2. Control'
    BY <1>0, <2>1, ManagerIsNoClient
       DEF Control, LockIsHeld, CleanupsAreOfLease, Locked, Entering, LeaseTypeOK, Processes
  <2>. QED
    BY <1>0, <2>1, <2>2, RowsUntouched, LanesUntouched
<1>3. CASE RetryCleanup(c)
  <2>1. /\ closed' = closed /\ lease' = lease /\ holds' = holds
        /\ laneWork' = laneWork /\ stored' = stored /\ owned' = owned /\ runtime' = runtime
        /\ leaseLock = Nobody /\ leaseLock' = c /\ lease # 0 /\ ~closed
        /\ pc[c] = "queued" /\ pc' = [pc EXCEPT ![c] = "retrying"]
        /\ cleaning' = [cleaning EXCEPT ![c] = CleanupOf(lease)]
    BY <1>3 DEF RetryCleanup, CleanupPending
  <2>2. Control'
    BY <1>0, <2>1, ManagerIsNoClient
       DEF Control, LockIsHeld, CleanupsAreOfLease, Locked, Entering, LeaseTypeOK, Processes,
           CleanupOf, Leases
  <2>3. \A p \in Processes : cleaning'[p].stage = "deleting" => cleaning'[p] = cleaning[p]
    BY <1>0, <2>1 DEF LeaseTypeOK, CleanupOf
  <2>. QED
    BY <1>0, <2>1, <2>2, <2>3, RowsUntouched, LanesUntouched
<1>4. CASE Create(c)
  <2>1. /\ closed' = closed /\ lease' = leaseSequence + 1 /\ holds' = holds
        /\ laneWork' = laneWork /\ stored' = stored /\ owned' = owned /\ runtime' = runtime
        /\ cleaning' = cleaning /\ leaseLock = Nobody /\ leaseLock' = c /\ lease = 0 /\ ~closed
        /\ pc[c] = "queued" /\ pc' = [pc EXCEPT ![c] = "making"]
    BY <1>4 DEF Create, NewLease
  <2>2. \A p \in Processes : cleaning[p].stage = "none"
    BY <1>0, <2>1, OneCleanup, ManagerIsNoClient
  <2>3. LockIsHeld'
    BY <1>0, <2>1, ManagerIsNoClient
       DEF Control, LockIsHeld, Locked, Entering, LeaseTypeOK, Processes
  <2>4. CleanupsAreOfLease'
    BY <2>1, <2>2, ManagerIsNoClient DEF CleanupsAreOfLease, Processes
  <2>5. Rows'
    BY <1>0, <2>1, <2>2 DEF Rows, DeletionsAreComplete, RowsAreOwned
  <2>6. \A g \in Leases : /\ runtime[g] \notin {"running", "stopping"}
                         /\ \A l \in FeedLanes : laneWork[g][l] = Idle
    BY <1>0, <2>1 DEF LaneFacts, OneRuntime, Leases
  <2>7. LaneFacts'
    BY <1>0, <2>1, <2>6, EmptyFeed DEF Rows, DeletionsAreComplete
  <2>. QED
    BY <2>3, <2>4, <2>5, <2>7 DEF Control
<1>5. CASE Activate(c)
  <2>1. /\ closed' = closed /\ leaseLock' = leaseLock /\ lease' = lease /\ holds' = holds
        /\ laneWork' = laneWork /\ stored' = stored /\ owned' = owned
        /\ runtime' = [runtime EXCEPT ![lease] = "running"]
        /\ cleaning' = cleaning /\ pc[c] = "making" /\ pc' = [pc EXCEPT ![c] = "activated"]
    BY <1>5 DEF Activate
  <2>2. leaseLock = c /\ ~closed /\ lease \in Leases
    BY <1>0, <2>1 DEF Control, LockIsHeld, Locked, Entering, LeaseTypeOK, Leases
  <2>3. \A p \in Processes : cleaning[p].stage = "none"
    BY <1>0, <2>1, <2>2, OneCleanup, ManagerIsNoClient DEF Control, CleanupsAreOfLease
  <2>4. Control'
    BY <1>0, <2>1, ManagerIsNoClient
       DEF Control, LockIsHeld, CleanupsAreOfLease, Locked, Entering, LeaseTypeOK, Processes
  <2>5. Rows'
    BY <1>0, <2>1, <2>3 DEF Rows, DeletionsAreComplete, RowsAreOwned
  <2>6. \A g \in Leases : runtime'[g] = runtime[g] \/ (g = lease /\ runtime'[g] = "running")
    BY <1>0, <2>1, <2>2 DEF LeaseTypeOK
  <2>7. LaneFacts'
    BY <1>0, <2>1, <2>6 DEF LaneFacts, LanesBelongToRuntime, LanesKeepOwnership,
                            LaneKeepsOwnership, OneRuntime
  <2>. QED
    BY <2>4, <2>5, <2>7
<1>6. CASE MakeFails(c)
  <2>1. /\ closed' = closed /\ leaseLock' = leaseLock /\ lease' = lease /\ holds' = holds
        /\ laneWork' = laneWork /\ stored' = stored /\ owned' = owned /\ runtime' = runtime
        /\ cleaning' = [cleaning EXCEPT ![c] = CleanupOf(lease)]
        /\ pc[c] \in {"making", "activated"} /\ pc' = [pc EXCEPT ![c] = "unmaking"]
    BY <1>6 DEF MakeFails
  <2>2. Control'
    BY <1>0, <2>1, ManagerIsNoClient
       DEF Control, LockIsHeld, CleanupsAreOfLease, Locked, Entering, LeaseTypeOK, Processes,
           CleanupOf, Leases
  <2>3. \A p \in Processes : cleaning'[p].stage = "deleting" => cleaning'[p] = cleaning[p]
    BY <1>0, <2>1 DEF LeaseTypeOK, CleanupOf
  <2>. QED
    BY <1>0, <2>1, <2>2, <2>3, RowsUntouched, LanesUntouched
<1>7. CASE Made(c)
  <2>1. /\ closed' = closed /\ leaseLock' = Nobody /\ lease' = lease
        /\ holds' = [holds EXCEPT ![c] = lease]
        /\ laneWork' = laneWork /\ stored' = stored /\ owned' = owned /\ runtime' = runtime
        /\ cleaning' = cleaning
        /\ pc[c] = "activated" /\ pc' = [pc EXCEPT ![c] = "attaching"]
    BY <1>7 DEF Made
  <2>2. Control'
    BY <1>0, <2>1, ManagerIsNoClient
       DEF Control, LockIsHeld, CleanupsAreOfLease, Locked, Entering, LeaseTypeOK, Processes
  <2>. QED
    BY <1>0, <2>1, <2>2, RowsUntouched, LanesUntouched
<1>8. CASE ReleaseStale(c) \/ ReleaseShared(c)
  <2>1. /\ closed' = closed /\ leaseLock' = leaseLock /\ lease' = lease
        /\ holds' = [holds EXCEPT ![c] = 0]
        /\ laneWork' = laneWork /\ stored' = stored /\ owned' = owned /\ runtime' = runtime
        /\ cleaning' = cleaning
        /\ pc[c] = "releasing" /\ pc' = [pc EXCEPT ![c] = "idle"]
    BY <1>8 DEF ReleaseStale, ReleaseShared
  <2>2. Control'
    BY <1>0, <2>1, ManagerIsNoClient
       DEF Control, LockIsHeld, CleanupsAreOfLease, Locked, Entering, LeaseTypeOK, Processes
  <2>. QED
    BY <1>0, <2>1, <2>2, RowsUntouched, LanesUntouched
<1>9. CASE ReleaseLast(c)
  <2>1. /\ closed' = closed /\ lease' = lease /\ lease = holds[c]
        /\ holds' = [holds EXCEPT ![c] = 0]
        /\ laneWork' = laneWork /\ stored' = stored /\ owned' = owned /\ runtime' = runtime
        /\ leaseLock = Nobody /\ leaseLock' = c
        /\ cleaning' = [cleaning EXCEPT ![c] = CleanupOf(lease)]
        /\ pc[c] = "releasing" /\ pc' = [pc EXCEPT ![c] = "cleaning"]
    BY <1>9 DEF ReleaseLast
  <2>2. Control'
    BY <1>0, <2>1, ManagerIsNoClient
       DEF Control, LockIsHeld, CleanupsAreOfLease, Locked, Entering, LeaseTypeOK, Processes,
           CleanupOf, Leases
  <2>3. \A p \in Processes : cleaning'[p].stage = "deleting" => cleaning'[p] = cleaning[p]
    BY <1>0, <2>1 DEF LeaseTypeOK, CleanupOf
  <2>. QED
    BY <1>0, <2>1, <2>2, <2>3, RowsUntouched, LanesUntouched
<1>10. CASE EndCleanup(c)
  <2>1. /\ closed' = closed /\ holds' = holds
        /\ laneWork' = laneWork /\ stored' = stored /\ runtime' = runtime
        /\ leaseLock' = Nobody /\ Ends(c)
        /\ cleaning' = [cleaning EXCEPT ![c] = NoCleanup]
        /\ pc[c] \in {"cleaning", "unmaking"} /\ pc' = [pc EXCEPT ![c] = "idle"]
    BY <1>10 DEF EndCleanup, CleanupEffects, Unlocks
  <2>2. c \in Processes /\ leaseLock = c
    BY <1>0, <2>1 DEF Processes, Control, LockIsHeld, Locked
  <2>3. lease' \in {0, lease}
    BY <1>10 DEF EndCleanup, CleanupEffects
  <2>4. LockIsHeld'
    BY <1>0, <2>1, <2>2, <2>3, ManagerIsNoClient
       DEF Control, LockIsHeld, Locked, Entering, LeaseTypeOK, Processes
  <2>5. CleanupsAreOfLease'
    BY <1>0, <2>1, <2>3, ManagerIsNoClient
       DEF Control, CleanupsAreOfLease, NoCleanup, LeaseTypeOK, Processes
  <2>6. CASE ForgetsLease(c)
    <3>1. stored = {} /\ lease' = 0
      BY <1>0, <1>10, <2>1, <2>2, <2>6, ForgettingIsClean DEF EndCleanup, CleanupEffects
    <3>2. LaneFacts'
      BY <1>0, <2>1, <2>2, <2>6, <3>1, ForgettingIsClean, EmptyFeed
    <3>3. Rows'
      BY <1>0, <2>1, <3>1
         DEF Rows, DeletionsAreComplete, RowsAreOwned, Stopped, NoCleanup, LeaseTypeOK
    <3>. QED
      BY <2>4, <2>5, <3>2, <3>3 DEF Control
  <2>7. CASE ~ForgetsLease(c)
    <3>1. owned' = owned /\ lease' = lease
      BY <1>10, <2>7 DEF EndCleanup, CleanupEffects
    <3>2. \A p \in Processes : cleaning'[p].stage = "deleting" => cleaning'[p] = cleaning[p]
      BY <1>0, <2>1 DEF LeaseTypeOK, NoCleanup
    <3>. QED
      BY <1>0, <2>1, <2>4, <2>5, <3>1, <3>2, RowsUntouched, LanesUntouched DEF Control
  <2>. QED
    BY <2>6, <2>7
<1>11. CASE EndRetry(c) /\ ~ForgetsLease(c)
  <2>1. /\ closed' = closed /\ holds' = holds /\ lease' = lease
        /\ laneWork' = laneWork /\ stored' = stored /\ runtime' = runtime /\ owned' = owned
        /\ leaseLock' = Nobody
        /\ cleaning' = [cleaning EXCEPT ![c] = NoCleanup]
        /\ pc[c] = "retrying" /\ pc' = [pc EXCEPT ![c] = "idle"]
    BY <1>11 DEF EndRetry, Unlocks
  <2>2. Control'
    BY <1>0, <2>1, ManagerIsNoClient
       DEF Control, LockIsHeld, CleanupsAreOfLease, Locked, Entering, LeaseTypeOK, Processes,
           NoCleanup
  <2>3. \A p \in Processes : cleaning'[p].stage = "deleting" => cleaning'[p] = cleaning[p]
    BY <1>0, <2>1 DEF LeaseTypeOK, NoCleanup
  <2>. QED
    BY <1>0, <2>1, <2>2, <2>3, RowsUntouched, LanesUntouched
<1>12. CASE EndRetry(c) /\ ForgetsLease(c)
  <2>1. /\ closed' = closed /\ holds' = holds /\ lease' = leaseSequence + 1
        /\ laneWork' = laneWork /\ stored' = stored /\ runtime' = runtime
        /\ leaseLock' = leaseLock /\ Ends(c)
        /\ cleaning' = [cleaning EXCEPT ![c] = NoCleanup]
        /\ pc[c] = "retrying" /\ pc' = [pc EXCEPT ![c] = "making"]
    BY <1>12 DEF EndRetry, NewLease
  <2>2. c \in Processes /\ leaseLock = c /\ ~closed
    BY <1>0, <2>1 DEF Processes, Control, LockIsHeld, Locked, Entering
  <2>3. \A p \in Processes : cleaning'[p].stage = "none"
    BY <1>0, <2>1, <2>2, OneCleanup, ManagerIsNoClient DEF NoCleanup, LeaseTypeOK
  <2>4. LockIsHeld'
    BY <1>0, <2>1, <2>2, ManagerIsNoClient
       DEF Control, LockIsHeld, Locked, Entering, LeaseTypeOK, Processes
  <2>5. CleanupsAreOfLease'
    BY <2>3, ManagerIsNoClient DEF CleanupsAreOfLease, Processes
  <2>6. stored = {}
    BY <1>0, <1>12, <2>1, <2>2, ForgettingIsClean
  <2>7. LaneFacts'
    BY <1>0, <1>12, <2>1, <2>2, <2>6, ForgettingIsClean, EmptyFeed
  <2>8. Rows'
    BY <2>1, <2>3, <2>6 DEF Rows, DeletionsAreComplete, RowsAreOwned
  <2>. QED
    BY <2>4, <2>5, <2>7, <2>8 DEF Control
<1>. QED
  BY <1>1, <1>2, <1>3, <1>4, <1>5, <1>6, <1>7, <1>8, <1>9, <1>10, <1>11, <1>12
     DEF ClientStep, AcquireFeed, Make, Release

-----------------------------------------------------------------------------
(* Clean-ups and close() *)

LEMMA CleanupStepsKeepInv ==
    ASSUME LeaseInv, NEW p \in Processes, Cleanup(p)
    PROVE  Control' /\ Rows' /\ LaneFacts'
<1>. USE DEF leaseVars, runtimeVars, storeVars
<1>0. LeaseTypeOK /\ Control /\ Rows /\ LaneFacts
  BY DEF LeaseInv, Control, Rows, LaneFacts
<1>1. CASE StopRuntime(p)
  <2>1. /\ closed' = closed /\ leaseLock' = leaseLock /\ lease' = lease /\ holds' = holds
        /\ laneWork' = laneWork /\ stored' = stored /\ owned' = owned /\ pc' = pc
        /\ cleaning' = cleaning
        /\ runtime[cleaning[p].lease] = "running"
        /\ runtime' = [runtime EXCEPT ![cleaning[p].lease] = "stopping"]
        /\ cleaning[p].stage = "stopping"
    BY <1>1 DEF StopRuntime
  <2>2. cleaning[p].lease \in Leases
    BY <1>0, <2>1 DEF Control, CleanupsAreOfLease
  <2>3. \A g \in Leases :
            runtime'[g] = runtime[g] \/ (runtime[g] = "running" /\ runtime'[g] = "stopping")
    BY <1>0, <2>1, <2>2 DEF LeaseTypeOK
  <2>4. Control'
    BY <1>0, <2>1 DEF Control, LockIsHeld, CleanupsAreOfLease
  <2>5. Rows'
    BY <1>0, <2>1, <2>3
       DEF Rows, DeletionsAreComplete, RowsAreOwned, Stopped, Control, CleanupsAreOfLease
  <2>6. LaneFacts'
    BY <1>0, <2>1, <2>3 DEF LaneFacts, LanesBelongToRuntime, LanesKeepOwnership,
                            LaneKeepsOwnership, OneRuntime
  <2>. QED
    BY <2>4, <2>5, <2>6
<1>2. CASE BeginDeletion(p)
  <2>1. /\ closed' = closed /\ leaseLock' = leaseLock /\ lease' = lease /\ holds' = holds
        /\ laneWork' = laneWork /\ stored' = stored /\ owned' = owned /\ pc' = pc
        /\ runtime' = runtime /\ Stopped(cleaning[p].lease)
        /\ cleaning[p].stage = "stopping"
        /\ cleaning' = [cleaning EXCEPT ![p] =
                  [cleaning[p] EXCEPT !.stage = "deleting", !.todo = owned[cleaning[p].lease]]]
    BY <1>2 DEF BeginDeletion
  <2>2. /\ cleaning[p] \in Cleanups
        /\ cleaning'[p].lease = cleaning[p].lease /\ cleaning'[p].stage = "deleting"
        /\ cleaning'[p].todo = owned[cleaning[p].lease]
        /\ \A q \in Processes : q # p => cleaning'[q] = cleaning[q]
    BY <1>0, <2>1 DEF LeaseTypeOK, Cleanups
  <2>3. Control'
    BY <1>0, <2>1, <2>2 DEF Control, LockIsHeld, CleanupsAreOfLease, Processes
  <2>4. stored \subseteq owned[cleaning[p].lease]
    BY <1>0, <2>1 DEF Control, CleanupsAreOfLease, Rows, DeletionsAreComplete, RowsAreOwned
  <2>5. Rows'
    BY <1>0, <2>1, <2>2, <2>4 DEF Rows, DeletionsAreComplete, RowsAreOwned, Stopped
  <2>. QED
    BY <1>0, <2>1, <2>3, <2>5, LanesUntouched
<1>3. CASE DeleteOwned(p)
  <2>1. PICK id \in cleaning[p].todo :
            \/ /\ stored' = stored \ {id}
               /\ cleaning' = [cleaning EXCEPT ![p] = [cleaning[p] EXCEPT !.todo = @ \ {id}]]
            \/ /\ stored' = stored
               /\ cleaning' = [cleaning EXCEPT ![p] =
                                  [cleaning[p] EXCEPT !.todo = @ \ {id}, !.failed = TRUE]]
    BY <1>3 DEF DeleteOwned
  <2>2. /\ closed' = closed /\ leaseLock' = leaseLock /\ lease' = lease /\ holds' = holds
        /\ laneWork' = laneWork /\ owned' = owned /\ pc' = pc /\ runtime' = runtime
        /\ cleaning[p].stage = "deleting"
    BY <1>3 DEF DeleteOwned
  <2>3. /\ cleaning[p] \in Cleanups
        /\ cleaning'[p].lease = cleaning[p].lease /\ cleaning'[p].stage = cleaning[p].stage
        /\ cleaning'[p].todo = cleaning[p].todo \ {id}
        /\ \/ cleaning'[p].failed
           \/ cleaning'[p].failed = cleaning[p].failed /\ stored' = stored \ {id}
        /\ \A q \in Processes : q # p => cleaning'[q] = cleaning[q]
    <3>1. cleaning[p] \in Cleanups /\ DOMAIN cleaning = Processes
      BY <1>0 DEF LeaseTypeOK
    <3>2. CASE /\ stored' = stored \ {id}
               /\ cleaning' = [cleaning EXCEPT ![p] = [cleaning[p] EXCEPT !.todo = @ \ {id}]]
      BY <3>1, <3>2 DEF Cleanups
    <3>3. CASE cleaning' = [cleaning EXCEPT ![p] =
                              [cleaning[p] EXCEPT !.todo = @ \ {id}, !.failed = TRUE]]
      <4>. DEFINE after == [cleaning[p] EXCEPT !.todo = @ \ {id}, !.failed = TRUE]
      <4>1. /\ after.lease = cleaning[p].lease /\ after.stage = cleaning[p].stage
            /\ after.todo = cleaning[p].todo \ {id} /\ after.failed
        BY <3>1 DEF Cleanups
      <4>2. cleaning' = [cleaning EXCEPT ![p] = after]
        BY <3>3
      <4>. HIDE DEF after
      <4>3. cleaning'[p] = after /\ \A q \in Processes : q # p => cleaning'[q] = cleaning[q]
        BY <3>1, <4>2
      <4>4. cleaning'[p].failed
        BY <4>1, <4>3
      <4>5. /\ cleaning'[p].lease = cleaning[p].lease /\ cleaning'[p].stage = cleaning[p].stage
            /\ cleaning'[p].todo = cleaning[p].todo \ {id}
        BY <4>1, <4>3
      <4>. QED
        BY <3>1, <4>3, <4>4, <4>5
    <3>. QED
      BY <2>1, <3>2, <3>3
  <2>4. Control'
    BY <1>0, <2>2, <2>3 DEF Control, LockIsHeld, CleanupsAreOfLease, Processes
  <2>5. stored' \subseteq stored
    BY <2>1
  <2>6. Rows'
    BY <1>0, <2>2, <2>3, <2>5 DEF Rows, DeletionsAreComplete, RowsAreOwned, Stopped
  <2>7. LaneFacts'
    BY <1>0, <2>2, <2>5 DEF LaneFacts, LanesBelongToRuntime, LanesKeepOwnership,
                            LaneKeepsOwnership, OneRuntime
  <2>. QED
    BY <2>4, <2>6, <2>7
<1>. QED
  BY <1>1, <1>2, <1>3 DEF Cleanup

LEMMA ManagerStepsKeepInv ==
    ASSUME LeaseInv, RequestClose \/ BeginClose \/ EndClose
    PROVE  Control' /\ Rows' /\ LaneFacts'
<1>. USE DEF leaseVars, runtimeVars, storeVars, Goes
<1>0. LeaseTypeOK /\ Control /\ Rows /\ LaneFacts
  BY DEF LeaseInv, Control, Rows, LaneFacts
<1>1. CASE RequestClose
  <2>1. /\ closed' = closed /\ leaseLock' = leaseLock /\ lease' = lease /\ holds' = holds
        /\ laneWork' = laneWork /\ stored' = stored /\ owned' = owned /\ runtime' = runtime
        /\ cleaning' = cleaning
        /\ pc[Manager] = "idle" /\ pc' = [pc EXCEPT ![Manager] = "queued"]
    BY <1>1 DEF RequestClose
  <2>2. Control'
    BY <1>0, <2>1, ManagerIsNoClient
       DEF Control, LockIsHeld, CleanupsAreOfLease, Locked, Entering, LeaseTypeOK, Processes
  <2>. QED
    BY <1>0, <2>1, <2>2, RowsUntouched, LanesUntouched
<1>2. CASE BeginClose
  <2>1. /\ closed' = TRUE /\ leaseLock = Nobody /\ leaseLock' = leaseLock
        /\ lease' = lease /\ holds' = holds
        /\ laneWork' = laneWork /\ stored' = stored /\ owned' = owned /\ runtime' = runtime
        /\ pc[Manager] = "queued"
        /\ \/ cleaning' = cleaning /\ pc' = [pc EXCEPT ![Manager] = "done"]
           \/ /\ lease # 0 /\ pc' = [pc EXCEPT ![Manager] = "closing"]
              /\ cleaning' = [cleaning EXCEPT ![Manager] = CleanupOf(lease)]
    BY <1>2 DEF BeginClose
  <2>2. Control'
    BY <1>0, <2>1, ManagerIsNoClient
       DEF Control, LockIsHeld, CleanupsAreOfLease, Locked, Entering, LeaseTypeOK, Processes,
           CleanupOf, Leases
  <2>3. \A p \in Processes : cleaning'[p].stage = "deleting" => cleaning'[p] = cleaning[p]
    BY <1>0, <2>1 DEF LeaseTypeOK, CleanupOf
  <2>. QED
    BY <1>0, <2>1, <2>2, <2>3, RowsUntouched, LanesUntouched
<1>3. CASE EndClose
  <2>1. /\ closed' = closed /\ holds' = holds /\ leaseLock' = leaseLock
        /\ laneWork' = laneWork /\ stored' = stored /\ runtime' = runtime /\ Ends(Manager)
        /\ cleaning' = [cleaning EXCEPT ![Manager] = NoCleanup]
        /\ pc[Manager] = "closing" /\ pc' = [pc EXCEPT ![Manager] = "done"]
        /\ lease' \in {0, lease}
    BY <1>3 DEF EndClose, CleanupEffects
  <2>2. Manager \in Processes /\ closed
    BY <1>0, <2>1 DEF Processes, Control, CleanupsAreOfLease, Ends
  <2>3. LockIsHeld'
    BY <1>0, <2>1, <2>2, ManagerIsNoClient
       DEF Control, LockIsHeld, Locked, Entering, LeaseTypeOK, Processes
  <2>4. CleanupsAreOfLease'
    BY <1>0, <2>1, ManagerIsNoClient
       DEF Control, CleanupsAreOfLease, NoCleanup, LeaseTypeOK, Processes
  <2>5. CASE ForgetsLease(Manager)
    <3>1. stored = {} /\ lease' = 0
      BY <1>0, <1>3, <2>1, <2>2, <2>5, ForgettingIsClean DEF EndClose, CleanupEffects
    <3>2. LaneFacts'
      BY <1>0, <2>1, <2>2, <2>5, <3>1, ForgettingIsClean, EmptyFeed
    <3>3. Rows'
      BY <1>0, <2>1, <3>1
         DEF Rows, DeletionsAreComplete, RowsAreOwned, Stopped, NoCleanup, LeaseTypeOK
    <3>. QED
      BY <2>3, <2>4, <3>2, <3>3 DEF Control
  <2>6. CASE ~ForgetsLease(Manager)
    <3>1. owned' = owned /\ lease' = lease
      BY <1>3, <2>6 DEF EndClose, CleanupEffects
    <3>2. \A p \in Processes : cleaning'[p].stage = "deleting" => cleaning'[p] = cleaning[p]
      BY <1>0, <2>1 DEF LeaseTypeOK, NoCleanup
    <3>. QED
      BY <1>0, <2>1, <2>3, <2>4, <3>1, <3>2, RowsUntouched, LanesUntouched DEF Control
  <2>. QED
    BY <2>5, <2>6
<1>. QED
  BY <1>1, <1>2, <1>3

-----------------------------------------------------------------------------
(* The lanes *)

\* While a lane is busy or its runtime runs, the lease of it is the one entered, and
\* no clean-up deletes rows.
LEMMA LiveLane ==
    ASSUME LeaseTypeOK, Control, Rows, LaneFacts, NEW g \in Leases, NEW l \in FeedLanes,
           runtime[g] = "running" \/ laneWork[g][l] # Idle
    PROVE  /\ g = lease /\ lease # 0
           /\ \A p \in Processes : cleaning[p].stage # "deleting"
BY DEF Control, CleanupsAreOfLease, Rows, DeletionsAreComplete, LaneFacts, OneRuntime,
       LanesBelongToRuntime, Stopped, Leases

LEMMA LaneStepsKeepInv ==
    ASSUME LeaseInv, OwnLanes, NEW g \in Leases,
           \/ \E l \in FeedLanes : BeginUpsert(g, l) \/ BeginDelete(g, l) \/ FeedStep(g, l)
           \/ RuntimeStopped(g)
    PROVE  Control' /\ Rows' /\ LaneFacts'
<1>. USE DEF leaseVars, runtimeVars, storeVars, unchangedByLane, Lane
<1>0. LeaseTypeOK /\ Control /\ Rows /\ LaneFacts
  BY DEF LeaseInv, Control, Rows, LaneFacts
<1>1. ASSUME NEW l \in FeedLanes, BeginUpsert(g, l) PROVE Control' /\ Rows' /\ LaneFacts'
  <2>1. PICK id \in IdsOf[l] :
            /\ laneWork' = [laneWork EXCEPT ![g][l] = Mutation("upserting", id, id \in owned[g])]
            /\ owned' = [owned EXCEPT ![g] = @ \union {id}]
    BY <1>1 DEF BeginUpsert
  <2>2. /\ closed' = closed /\ leaseLock' = leaseLock /\ lease' = lease /\ holds' = holds
        /\ stored' = stored /\ pc' = pc /\ runtime' = runtime /\ cleaning' = cleaning
        /\ runtime[g] = "running"
    BY <1>1 DEF BeginUpsert
  <2>3. g = lease /\ lease # 0 /\ \A p \in Processes : cleaning[p].stage # "deleting"
    BY <1>0, <2>2, LiveLane
  <2>4. /\ owned'[g] = owned[g] \union {id}
        /\ \A h \in Leases : owned[h] \subseteq owned'[h]
        /\ laneWork'[g][l] = Mutation("upserting", id, id \in owned[g])
        /\ \A h \in Leases, k \in FeedLanes : laneWork'[h][k] = laneWork[h][k] \/ (h = g /\ k = l)
    BY <1>0, <2>1 DEF LeaseTypeOK
  <2>5. Control'
    BY <1>0, <2>2 DEF Control, LockIsHeld, CleanupsAreOfLease
  <2>6. Rows'
    BY <1>0, <2>2, <2>3, <2>4 DEF Rows, DeletionsAreComplete, RowsAreOwned
  <2>7. id \in owned[g] \/ id \notin stored
    BY <1>0, <2>3 DEF Rows, RowsAreOwned
  <2>8. LanesBelongToRuntime' /\ OneRuntime'
    BY <1>0, <2>2, <2>3, <2>4 DEF LaneFacts, LanesBelongToRuntime, OneRuntime
  <2>9. LanesKeepOwnership'
    <3>. SUFFICES ASSUME NEW h \in Leases, NEW k \in FeedLanes
                  PROVE  LaneKeepsOwnership(h, k)'
      BY DEF LanesKeepOwnership
    <3>1. CASE h = g /\ k = l
      <4>1. laneWork'[g][l].op = "upserting" /\ laneWork'[g][l].id = id
        BY <2>4 DEF Mutation
      <4>2. ASSUME id \in owned[g] PROVE laneWork'[g][l].previouslyOwned
        <5>1. (id \in owned[g]) = TRUE
          BY <4>2, Zenon
        <5>2. laneWork'[g][l] = Mutation("upserting", id, TRUE)
          BY <2>4, <5>1, Zenon
        <5>. QED
          BY <5>2 DEF Mutation
      <4>. QED
        BY <2>2, <2>4, <2>7, <3>1, <4>1, <4>2 DEF LaneKeepsOwnership
    <3>2. CASE ~(h = g /\ k = l)
      BY <1>0, <2>2, <2>4, <3>2 DEF LaneFacts, LanesKeepOwnership, LaneKeepsOwnership
    <3>. QED
      BY <3>1, <3>2
  <2>. QED
    BY <2>5, <2>6, <2>8, <2>9 DEF LaneFacts
<1>2. ASSUME NEW l \in FeedLanes, BeginDelete(g, l) PROVE Control' /\ Rows' /\ LaneFacts'
  <2>1. PICK id \in IdsOf[l] :
            /\ laneWork' = [laneWork EXCEPT ![g][l] = Mutation("deleting", id, id \in owned[g])]
            /\ stored' = stored \ {id}
    BY <1>2 DEF BeginDelete
  <2>2. /\ closed' = closed /\ leaseLock' = leaseLock /\ lease' = lease /\ holds' = holds
        /\ owned' = owned /\ pc' = pc /\ runtime' = runtime /\ cleaning' = cleaning
        /\ runtime[g] = "running"
    BY <1>2 DEF BeginDelete
  <2>3. g = lease /\ lease # 0 /\ \A p \in Processes : cleaning[p].stage # "deleting"
    BY <1>0, <2>2, LiveLane
  <2>4. /\ laneWork'[g][l] = Mutation("deleting", id, id \in owned[g])
        /\ \A h \in Leases, k \in FeedLanes : laneWork'[h][k] = laneWork[h][k] \/ (h = g /\ k = l)
    BY <1>0, <2>1 DEF LeaseTypeOK
  <2>5. Control'
    BY <1>0, <2>2 DEF Control, LockIsHeld, CleanupsAreOfLease
  <2>6. Rows'
    BY <1>0, <2>1, <2>2, <2>3 DEF Rows, DeletionsAreComplete, RowsAreOwned
  <2>7. LanesBelongToRuntime' /\ OneRuntime'
    BY <1>0, <2>2, <2>3, <2>4 DEF LaneFacts, LanesBelongToRuntime, OneRuntime
  <2>8. LanesKeepOwnership'
    <3>. SUFFICES ASSUME NEW h \in Leases, NEW k \in FeedLanes
                  PROVE  LaneKeepsOwnership(h, k)'
      BY DEF LanesKeepOwnership
    <3>1. CASE h = g /\ k = l
      BY <2>1, <2>4, <3>1 DEF LaneKeepsOwnership, Mutation
    <3>2. CASE ~(h = g /\ k = l)
      BY <1>0, <2>1, <2>2, <2>4, <3>2 DEF LaneFacts, LanesKeepOwnership, LaneKeepsOwnership
    <3>. QED
      BY <3>1, <3>2
  <2>. QED
    BY <2>5, <2>6, <2>7, <2>8 DEF LaneFacts
<1>3. ASSUME NEW l \in FeedLanes, laneWork[g][l] # Idle, laneWork' = [laneWork EXCEPT ![g][l] = Idle],
             closed' = closed, leaseLock' = leaseLock, lease' = lease, holds' = holds,
             pc' = pc, runtime' = runtime, cleaning' = cleaning,
             NEW id, id = laneWork[g][l].id,
             \/ stored' = stored /\ owned' = owned
             \/ stored' = stored \union {id} /\ owned' = owned /\ id \in owned[g]
             \/ stored' = stored /\ owned' = [owned EXCEPT ![g] = @ \ {id}] /\ id \notin stored
      PROVE  Control' /\ Rows' /\ LaneFacts'
  <2>1. g = lease /\ lease # 0 /\ \A p \in Processes : cleaning[p].stage # "deleting"
    BY <1>0, <1>3, LiveLane
  <2>2. /\ laneWork'[g][l] = Idle
        /\ \A h \in Leases, k \in FeedLanes : laneWork'[h][k] = laneWork[h][k] \/ (h = g /\ k = l)
        /\ \A h \in Leases : owned'[h] = owned[h] \/ (h = g /\ owned'[h] = owned[h] \ {id})
    BY <1>0, <1>3 DEF LeaseTypeOK
  <2>3. Control'
    BY <1>0, <1>3 DEF Control, LockIsHeld, CleanupsAreOfLease
  <2>4. Rows'
    BY <1>0, <1>3, <2>1, <2>2 DEF Rows, DeletionsAreComplete, RowsAreOwned
  <2>5. LanesBelongToRuntime' /\ OneRuntime'
    BY <1>0, <1>3, <2>1, <2>2 DEF LaneFacts, LanesBelongToRuntime, OneRuntime
  <2>6. LanesKeepOwnership'
    <3>. SUFFICES ASSUME NEW h \in Leases, NEW k \in FeedLanes
                  PROVE  LaneKeepsOwnership(h, k)'
      BY DEF LanesKeepOwnership
    <3>1. CASE laneWork'[h][k] = Idle
      BY <3>1 DEF LaneKeepsOwnership, Idle
    <3>2. CASE laneWork'[h][k] # Idle
      <4>1. laneWork'[h][k] = laneWork[h][k] /\ h = g /\ k # l
        BY <1>0, <2>1, <2>2, <3>2 DEF LaneFacts, OneRuntime
      <4>2. laneWork[h][k].id # id
        BY <1>0, <1>3, <3>2, <4>1, OwnLanes, LanesDeliverIds
           DEF LaneFacts, LanesKeepOwnership, LaneKeepsOwnership, OwnLanes
      <4>. QED
        BY <1>0, <1>3, <2>2, <4>1, <4>2 DEF LaneFacts, LanesKeepOwnership, LaneKeepsOwnership
    <3>. QED
      BY <3>1, <3>2
  <2>. QED
    BY <2>3, <2>4, <2>5, <2>6 DEF LaneFacts
<1>4. ASSUME NEW l \in FeedLanes, FeedStep(g, l) PROVE Control' /\ Rows' /\ LaneFacts'
  <2>1. /\ closed' = closed /\ leaseLock' = leaseLock /\ lease' = lease /\ holds' = holds
        /\ pc' = pc /\ runtime' = runtime /\ cleaning' = cleaning
        /\ laneWork' = [laneWork EXCEPT ![g][l] = Idle]
    BY <1>4 DEF FeedStep, Publish, PublishFails, Disown, FeedInterrupted
  <2>2. laneWork[g][l] # Idle
    BY <1>4 DEF FeedStep, Publish, PublishFails, Disown, FeedInterrupted, Idle
  <2>3. LaneKeepsOwnership(g, l)
    BY <1>0 DEF LaneFacts, LanesKeepOwnership
  <2>4. CASE Publish(g, l)
    BY <1>3, <2>1, <2>2, <2>3, <2>4 DEF Publish, LaneKeepsOwnership
  <2>5. CASE PublishFails(g, l)
    <3>1. CASE laneWork[g][l].previouslyOwned
      <4>1. owned' = owned
        BY <1>0, <2>5, <3>1 DEF PublishFails, GivenUp, LeaseTypeOK
      <4>. QED
        BY <1>3, <2>1, <2>2, <2>5, <4>1 DEF PublishFails
    <3>2. CASE ~laneWork[g][l].previouslyOwned
      <4>1. /\ owned' = [owned EXCEPT ![g] = @ \ {laneWork[g][l].id}]
            /\ laneWork[g][l].id \notin stored /\ stored' = stored
        BY <2>3, <2>5, <3>2 DEF PublishFails, GivenUp, LaneKeepsOwnership
      <4>. QED
        BY <1>3, <2>1, <2>2, <4>1
    <3>. QED
      BY <3>1, <3>2
  <2>6. CASE Disown(g, l)
    <3>1. /\ owned' = [owned EXCEPT ![g] = @ \ {laneWork[g][l].id}]
          /\ laneWork[g][l].id \notin stored /\ stored' = stored
      BY <2>3, <2>6 DEF Disown, LaneKeepsOwnership
    <3>. QED
      BY <1>3, <2>1, <2>2, <3>1
  <2>7. CASE FeedInterrupted(g, l)
    BY <1>3, <2>1, <2>2, <2>7 DEF FeedInterrupted
  <2>. QED
    BY <1>4, <2>4, <2>5, <2>6, <2>7 DEF FeedStep
<1>5. CASE RuntimeStopped(g)
  <2>1. /\ closed' = closed /\ leaseLock' = leaseLock /\ lease' = lease /\ holds' = holds
        /\ laneWork' = laneWork /\ stored' = stored /\ owned' = owned /\ pc' = pc
        /\ cleaning' = cleaning /\ \A l \in FeedLanes : laneWork[g][l] = Idle
        /\ runtime' = [runtime EXCEPT ![g] = "stopped"]
    BY <1>5 DEF RuntimeStopped
  <2>2. \A h \in Leases : runtime'[h] = runtime[h] \/ (h = g /\ runtime'[h] = "stopped")
    BY <1>0, <2>1 DEF LeaseTypeOK
  <2>3. Control'
    BY <1>0, <2>1 DEF Control, LockIsHeld, CleanupsAreOfLease
  <2>4. Rows'
    BY <1>0, <2>1, <2>2
       DEF Rows, DeletionsAreComplete, RowsAreOwned, Stopped, Control, CleanupsAreOfLease
  <2>5. LaneFacts'
    BY <1>0, <2>1, <2>2 DEF LaneFacts, LanesBelongToRuntime, LanesKeepOwnership,
                            LaneKeepsOwnership, OneRuntime
  <2>. QED
    BY <2>3, <2>4, <2>5
<1>. QED
  BY <1>1, <1>2, <1>4, <1>5

-----------------------------------------------------------------------------
(* Who holds a lease, whatever the lanes deliver *)

HoldersOf(g) == {c \in Clients : holds[c] = g}

\* The lanes have ended before the rows are deleted.
DeletionsFollowStop ==
    \A p \in Processes : cleaning[p].stage = "deleting" => Stopped(cleaning[p].lease)

HoldersCounted ==
    /\ \A g \in Leases : IsFiniteSet(HoldersOf(g))
    /\ lease # 0 => subscribers = Cardinality(HoldersOf(lease))

\* No client holds a lease that is still to come.
HoldersKnown ==
    /\ lease <= leaseSequence
    /\ \A c \in Clients :
          /\ holds[c] <= leaseSequence
          /\ pc[c] \notin {"attaching", "subscribed", "releasing"} => holds[c] = 0

\* Until close() whoever holds a lease holds the one that is entered, and whoever
\* cleans up or makes a runtime under the lock does so for nobody's lease.
ServedWhileOpen ==
    ~closed => \A c \in Clients :
        /\ holds[c] # 0 => lease = holds[c] /\ runtime[lease] = "running"
        /\ pc[c] \in Locked /\ lease # 0 => subscribers = 0
        /\ pc[c] = "activated" => runtime[lease] = "running"

RuntimesEnd == DeletionsFollowStop /\ LanesBelongToRuntime /\ OneRuntime
Holders == HoldersCounted /\ HoldersKnown /\ ServedWhileOpen

\* What holds also when several lanes deliver the same row.
ServeInv == LeaseTypeOK /\ Control /\ RuntimesEnd /\ Holders

LEMMA NobodyHolds ==
    ASSUME LeaseTypeOK, Holders, ~closed, lease # 0 => subscribers = 0
    PROVE  \A c \in Clients : holds[c] = 0
<1>. SUFFICES ASSUME NEW c \in Clients, holds[c] # 0 PROVE FALSE
  OBVIOUS
<1>1. lease = holds[c] /\ lease \in Leases
  BY LeaseBound DEF Holders, ServedWhileOpen, LeaseTypeOK, Leases
<1>2. IsFiniteSet(HoldersOf(lease)) /\ Cardinality(HoldersOf(lease)) = 0
  BY <1>1 DEF Holders, HoldersCounted
<1>3. HoldersOf(lease) = {}
  BY <1>2, FS_EmptySet
<1>. QED
  BY <1>1, <1>3 DEF HoldersOf

LEMMA HoldersUntouched ==
    ASSUME HoldersCounted, holds' = holds, lease' = lease, subscribers' = subscribers
    PROVE  HoldersCounted'
BY DEF HoldersCounted, HoldersOf

LEMMA HolderJoins ==
    ASSUME LeaseTypeOK, HoldersCounted, NEW c \in Clients, holds[c] = 0, lease # 0,
           holds' = [holds EXCEPT ![c] = lease], lease' = lease, subscribers' = subscribers + 1
    PROVE  HoldersCounted'
<1>1. lease \in Leases
  BY LeaseBound DEF LeaseTypeOK, Leases
<1>2. ASSUME NEW g \in Leases, g # lease PROVE HoldersOf(g)' = HoldersOf(g)
  BY <1>2, LeaseBound DEF HoldersOf, LeaseTypeOK, Leases
<1>3. HoldersOf(lease)' = HoldersOf(lease) \union {c} /\ c \notin HoldersOf(lease)
  BY DEF HoldersOf, LeaseTypeOK
<1>4. /\ IsFiniteSet(HoldersOf(lease) \union {c})
      /\ Cardinality(HoldersOf(lease) \union {c}) = Cardinality(HoldersOf(lease)) + 1
  BY <1>1, <1>3, FS_AddElement DEF HoldersCounted
<1>5. \A g \in Leases : IsFiniteSet(HoldersOf(g)')
  <2>. SUFFICES ASSUME NEW g \in Leases PROVE IsFiniteSet(HoldersOf(g)')
    OBVIOUS
  <2>1. CASE g = lease
    <3>1. HoldersOf(g)' = HoldersOf(lease) \union {c}
      BY <2>1 DEF HoldersOf, LeaseTypeOK
    <3>. QED
      BY <1>4, <3>1
  <2>2. CASE g # lease
    BY <1>2, <2>2 DEF HoldersCounted
  <2>. QED
    BY <2>1, <2>2
<1>6. HoldersOf(lease)' = {d \in Clients : holds'[d] = lease'}
  BY DEF HoldersOf
<1>. QED
  BY <1>3, <1>4, <1>5 DEF HoldersCounted

LEMMA HolderLeaves ==
    ASSUME LeaseTypeOK, HoldersCounted, NEW c \in Clients, holds[c] # 0,
           holds' = [holds EXCEPT ![c] = 0], lease' = lease, subscribers \in Nat, 
           subscribers' = (IF lease = holds[c] THEN subscribers - 1 ELSE subscribers)
    PROVE  HoldersCounted'
<1>1. ASSUME NEW g \in Leases PROVE HoldersOf(g)' = HoldersOf(g) \ {c}
  BY LeaseBound DEF HoldersOf, LeaseTypeOK, Leases
<1>2. ASSUME NEW g \in Leases
      PROVE  /\ IsFiniteSet(HoldersOf(g) \ {c})
             /\ Cardinality(HoldersOf(g) \ {c}) =
                   IF c \in HoldersOf(g) THEN Cardinality(HoldersOf(g)) - 1 ELSE Cardinality(HoldersOf(g))
  BY FS_RemoveElement DEF HoldersCounted
<1>3. \A g \in Leases : IsFiniteSet(HoldersOf(g)')
  BY <1>1, <1>2
<1>4. ASSUME lease # 0 PROVE subscribers' = Cardinality(HoldersOf(lease)')
  <2>1. lease \in Leases
    BY <1>4, LeaseBound DEF LeaseTypeOK, Leases
  <2>2. c \in HoldersOf(lease) <=> lease = holds[c]
    BY DEF HoldersOf
  <2>3. HoldersOf(lease)' = HoldersOf(lease) \ {c}
    BY <1>1, <2>1 DEF HoldersOf
  <2>. QED
    BY <1>2, <1>4, <2>1, <2>2, <2>3 DEF HoldersCounted
<1>. QED
  BY <1>3, <1>4 DEF HoldersCounted

\* A lease that is entered anew has no holders yet.
LEMMA NewLeaseIsFree ==
    ASSUME LeaseTypeOK, HoldersCounted, \A c \in Clients : holds[c] = 0, NewLease, holds' = holds
    PROVE  HoldersCounted' /\ lease' \in Leases /\ lease' <= leaseSequence'
<1>1. lease' \in Leases /\ lease' <= leaseSequence' /\ subscribers' = 0
  BY LeaseBound DEF NewLease, LeaseTypeOK, Leases
<1>2. \A g \in Leases : HoldersOf(g)' = {}
  BY LeaseBound DEF HoldersOf, Leases
<1>3. (HoldersOf(lease))' = {}
  BY <1>1, LeaseBound DEF HoldersOf, Leases
<1>. QED
  BY <1>1, <1>2, <1>3, FS_EmptySet DEF HoldersCounted

LEMMA RuntimesUntouched ==
    ASSUME RuntimesEnd, runtime' = runtime, laneWork' = laneWork, lease' = lease,
           \A p \in Processes : cleaning'[p].stage = "deleting" => cleaning'[p] = cleaning[p]
    PROVE  RuntimesEnd'
BY DEF RuntimesEnd, DeletionsFollowStop, LanesBelongToRuntime, OneRuntime, Stopped

LEMMA ClientStepsKeepServing ==
    ASSUME ServeInv, NEW c \in Clients, Subscribe(c) \/ Attach(c) \/ Leave(c) \/ ClientStep(c)
    PROVE  Control' /\ RuntimesEnd' /\ Holders'
<1>. USE DEF leaseVars, runtimeVars, storeVars, Goes
<1>0. LeaseTypeOK /\ Control /\ RuntimesEnd /\ Holders /\ c \in Processes /\ c # Manager
  BY ManagerIsNoClient DEF ServeInv, Processes
<1>1. CASE Subscribe(c) \/ NotAdmitted(c) \/ Attach(c) \/ Leave(c)
  <2>1. /\ closed' = closed /\ leaseLock' = leaseLock /\ lease' = lease /\ holds' = holds
        /\ laneWork' = laneWork /\ runtime' = runtime /\ cleaning' = cleaning
        /\ subscribers' = subscribers /\ leaseSequence' = leaseSequence
        /\ \/ pc[c] = "idle" /\ pc' = [pc EXCEPT ![c] = "queued"]
           \/ pc[c] = "queued" /\ pc' = [pc EXCEPT ![c] = "idle"]
           \/ pc[c] = "attaching" /\ pc' = [pc EXCEPT ![c] = "subscribed"]
           \/ pc[c] \in {"attaching", "subscribed"} /\ pc' = [pc EXCEPT ![c] = "releasing"]
    BY <1>1 DEF Subscribe, NotAdmitted, Attach, Leave
  <2>2. /\ \A p \in Processes : p # c => pc'[p] = pc[p]
        /\ pc[c] \notin Locked /\ pc'[c] \notin Locked
        /\ pc'[c] \in {"attaching", "subscribed", "releasing"}
              <=> pc[c] \in {"attaching", "subscribed", "releasing"}
    BY <1>0, <2>1 DEF LeaseTypeOK, Locked
  <2>3. Control'
    BY <1>0, <2>1, <2>2 DEF Control, LockIsHeld, CleanupsAreOfLease, Locked, Entering, Processes
  <2>4. HoldersKnown' /\ ServedWhileOpen'
    BY <1>0, <2>1, <2>2 DEF Holders, HoldersKnown, ServedWhileOpen, Locked, Processes
  <2>. QED
    BY <1>0, <2>1, <2>3, <2>4, RuntimesUntouched, HoldersUntouched DEF Holders
<1>2. CASE JoinFeed(c)
  <2>1. /\ closed' = closed /\ leaseLock' = leaseLock /\ lease' = lease /\ leaseLock = Nobody
        /\ laneWork' = laneWork /\ runtime' = runtime /\ leaseSequence' = leaseSequence
        /\ cleaning' = cleaning /\ lease # 0 /\ holds' = [holds EXCEPT ![c] = lease]
        /\ pc[c] = "queued" /\ pc' = [pc EXCEPT ![c] = "attaching"]
        /\ ~closed /\ subscribers # 0 /\ subscribers' = subscribers + 1
    BY <1>2 DEF JoinFeed, CleanupPending
  <2>2. Control'
    BY <1>0, <2>1 DEF Control, LockIsHeld, CleanupsAreOfLease, Locked, Entering, LeaseTypeOK
  <2>3. holds[c] = 0
    BY <1>0, <2>1 DEF Holders, HoldersKnown
  <2>4. runtime[lease] = "running"
    <3>1. lease \in Leases
      BY <1>0, <2>1, LeaseBound DEF LeaseTypeOK, Leases
    <3>2. HoldersOf(lease) # {}
      BY <1>0, <2>1, <3>1, FS_EmptySet DEF Holders, HoldersCounted
    <3>. QED
      BY <1>0, <2>1, <3>1, <3>2 DEF HoldersOf, Holders, ServedWhileOpen
  <2>5. HoldersKnown'
    BY <1>0, <2>1 DEF Holders, HoldersKnown, LeaseTypeOK
  <2>6. ServedWhileOpen'
    <3>1. \A d \in Clients : pc[d] \notin Locked
      BY <1>0, <2>1, ManagerIsNoClient DEF Control, LockIsHeld
    <3>. QED
      BY <1>0, <2>1, <2>4, <3>1 DEF Holders, ServedWhileOpen, Locked, LeaseTypeOK
  <2>7. HoldersCounted'
    BY <1>0, <2>1, <2>3, HolderJoins DEF Holders
  <2>. QED
    BY <1>0, <2>1, <2>2, <2>5, <2>6, <2>7, RuntimesUntouched DEF Holders
<1>3. CASE RetryCleanup(c)
  <2>1. /\ closed' = closed /\ lease' = lease /\ holds' = holds /\ leaseSequence' = leaseSequence
        /\ laneWork' = laneWork /\ runtime' = runtime /\ subscribers' = subscribers /\ subscribers = 0
        /\ leaseLock = Nobody /\ leaseLock' = c /\ lease # 0 /\ ~closed
        /\ pc[c] = "queued" /\ pc' = [pc EXCEPT ![c] = "retrying"]
        /\ cleaning' = [cleaning EXCEPT ![c] = CleanupOf(lease)]
    BY <1>3 DEF RetryCleanup, CleanupPending
  <2>2. Control'
    BY <1>0, <2>1, ManagerIsNoClient, LeaseBound
       DEF Control, LockIsHeld, CleanupsAreOfLease, Locked, Entering, LeaseTypeOK, Processes,
           CleanupOf, Leases
  <2>3. \A p \in Processes : cleaning'[p].stage = "deleting" => cleaning'[p] = cleaning[p]
    BY <1>0, <2>1 DEF LeaseTypeOK, CleanupOf
  <2>4. HoldersKnown' /\ ServedWhileOpen'
    BY <1>0, <2>1 DEF Holders, HoldersKnown, ServedWhileOpen, Locked, LeaseTypeOK
  <2>. QED
    BY <1>0, <2>1, <2>2, <2>3, <2>4, RuntimesUntouched, HoldersUntouched DEF Holders
<1>4. CASE Create(c)
  <2>1. /\ closed' = closed /\ NewLease /\ holds' = holds
        /\ laneWork' = laneWork /\ runtime' = runtime
        /\ cleaning' = cleaning /\ leaseLock = Nobody /\ leaseLock' = c /\ lease = 0 /\ ~closed
        /\ pc[c] = "queued" /\ pc' = [pc EXCEPT ![c] = "making"]
    BY <1>4 DEF Create
  <2>2. \A p \in Processes : cleaning[p].stage = "none"
    BY <1>0, <2>1, OneCleanup, ManagerIsNoClient
  <2>3. \A d \in Clients : holds[d] = 0
    BY <1>0, <2>1, NobodyHolds
  <2>4. HoldersCounted' /\ lease' \in Leases /\ lease' <= leaseSequence' /\ subscribers' = 0
    BY <1>0, <2>1, <2>3, NewLeaseIsFree DEF Holders, NewLease
  <2>5. Control'
    <3>1. LockIsHeld'
      BY <1>0, <2>1, <2>4, ManagerIsNoClient
         DEF Control, LockIsHeld, Locked, Entering, LeaseTypeOK, Leases
    <3>2. CleanupsAreOfLease'
      BY <1>0, <2>1, <2>2 DEF Control, CleanupsAreOfLease
    <3>. QED
      BY <3>1, <3>2 DEF Control
  <2>6. RuntimesEnd'
    <3>1. \A g \in Leases : runtime[g] \notin {"running", "stopping"} /\ \A l \in FeedLanes : laneWork[g][l] = Idle
      BY <1>0, <2>1 DEF RuntimesEnd, OneRuntime, Leases
    <3>. QED
      BY <2>1, <2>2, <3>1 DEF RuntimesEnd, DeletionsFollowStop, LanesBelongToRuntime, OneRuntime
  <2>7. HoldersKnown'
    BY <1>0, <2>1, <2>3, <2>4 DEF Holders, HoldersKnown, LeaseTypeOK, Leases, NewLease
  <2>8. ServedWhileOpen'
    <3>1. \A d \in Clients : pc[d] \notin Locked
      BY <1>0, <2>1, ManagerIsNoClient DEF Control, LockIsHeld
    <3>. QED
      BY <1>0, <2>1, <2>3, <2>4, <3>1 DEF ServedWhileOpen, Locked, LeaseTypeOK
  <2>. QED
    BY <2>4, <2>5, <2>6, <2>7, <2>8 DEF Holders
<1>5. CASE Activate(c)
  <2>1. /\ closed' = closed /\ leaseLock' = leaseLock /\ lease' = lease /\ holds' = holds
        /\ laneWork' = laneWork /\ runtime' = [runtime EXCEPT ![lease] = "running"]
        /\ subscribers' = subscribers /\ leaseSequence' = leaseSequence
        /\ cleaning' = cleaning /\ pc[c] = "making" /\ pc' = [pc EXCEPT ![c] = "activated"]
    BY <1>5 DEF Activate
  <2>2. /\ lease \in Leases /\ ~closed /\ leaseLock = c
        /\ \A g \in Leases : runtime'[g] = IF g = lease THEN "running" ELSE runtime[g]
    BY <1>0, <2>1, LeaseBound DEF Control, LockIsHeld, Locked, Entering, LeaseTypeOK, Leases
  <2>3. \A p \in Processes : cleaning[p].stage = "none"
    BY <1>0, <2>1, <2>2, OneCleanup DEF Control, CleanupsAreOfLease
  <2>4. Control'
    BY <1>0, <2>1 DEF Control, LockIsHeld, CleanupsAreOfLease, Locked, Entering, LeaseTypeOK
  <2>5. RuntimesEnd'
    BY <1>0, <2>1, <2>2, <2>3 DEF RuntimesEnd, DeletionsFollowStop, LanesBelongToRuntime, OneRuntime
  <2>6. HoldersKnown' /\ ServedWhileOpen'
    BY <1>0, <2>1, <2>2 DEF Holders, HoldersKnown, ServedWhileOpen, Locked, LeaseTypeOK
  <2>. QED
    BY <1>0, <2>1, <2>4, <2>5, <2>6, HoldersUntouched DEF Holders
<1>6. CASE MakeFails(c)
  <2>1. /\ closed' = closed /\ leaseLock' = leaseLock /\ lease' = lease /\ holds' = holds
        /\ laneWork' = laneWork /\ runtime' = runtime
        /\ subscribers' = subscribers /\ leaseSequence' = leaseSequence
        /\ pc[c] \in {"making", "activated"} /\ pc' = [pc EXCEPT ![c] = "unmaking"]
        /\ cleaning' = [cleaning EXCEPT ![c] = CleanupOf(lease)]
    BY <1>6 DEF MakeFails
  <2>2. Control'
    BY <1>0, <2>1, ManagerIsNoClient, LeaseBound
       DEF Control, LockIsHeld, CleanupsAreOfLease, Locked, Entering, LeaseTypeOK, Processes,
           CleanupOf, Leases
  <2>3. \A p \in Processes : cleaning'[p].stage = "deleting" => cleaning'[p] = cleaning[p]
    BY <1>0, <2>1 DEF LeaseTypeOK, CleanupOf
  <2>4. HoldersKnown' /\ ServedWhileOpen'
    BY <1>0, <2>1 DEF Holders, HoldersKnown, ServedWhileOpen, Locked, LeaseTypeOK
  <2>. QED
    BY <1>0, <2>1, <2>2, <2>3, <2>4, RuntimesUntouched, HoldersUntouched DEF Holders
<1>7. CASE Made(c)
  <2>1. /\ closed' = closed /\ leaseLock' = Nobody /\ lease' = lease
        /\ laneWork' = laneWork /\ runtime' = runtime /\ leaseSequence' = leaseSequence
        /\ cleaning' = cleaning /\ holds' = [holds EXCEPT ![c] = lease]
        /\ pc[c] = "activated" /\ pc' = [pc EXCEPT ![c] = "attaching"]
        /\ subscribers' = subscribers + 1
    BY <1>7 DEF Made
  <2>2. leaseLock = c /\ lease # 0 /\ ~closed /\ holds[c] = 0 /\ runtime[lease] = "running"
    BY <1>0, <2>1 DEF Control, LockIsHeld, Locked, Entering, Holders, HoldersKnown, ServedWhileOpen
  <2>3. \A d \in Clients : d # c => pc[d] \notin Locked
    BY <1>0, <2>2 DEF Control, LockIsHeld
  <2>4. \A p \in Processes : cleaning[p].stage = "none"
    BY <1>0, <2>1, <2>2, OneCleanup DEF Control, CleanupsAreOfLease
  <2>5. Control'
    BY <1>0, <2>1, <2>2, <2>3, <2>4
       DEF Control, LockIsHeld, CleanupsAreOfLease, Locked, Entering, LeaseTypeOK
  <2>6. HoldersKnown'
    BY <1>0, <2>1 DEF Holders, HoldersKnown, LeaseTypeOK
  <2>7. ServedWhileOpen'
    BY <1>0, <2>1, <2>2, <2>3 DEF Holders, ServedWhileOpen, Locked, LeaseTypeOK
  <2>8. HoldersCounted'
    BY <1>0, <2>1, <2>2, HolderJoins DEF Holders
  <2>. QED
    BY <1>0, <2>1, <2>5, <2>6, <2>7, <2>8, RuntimesUntouched DEF Holders
<1>8. CASE ReleaseStale(c) \/ ReleaseShared(c)
  <2>1. /\ closed' = closed /\ leaseLock' = leaseLock /\ lease' = lease /\ leaseLock = Nobody
        /\ laneWork' = laneWork /\ runtime' = runtime /\ leaseSequence' = leaseSequence
        /\ cleaning' = cleaning /\ holds' = [holds EXCEPT ![c] = 0]
        /\ pc[c] = "releasing" /\ pc' = [pc EXCEPT ![c] = "idle"]
        /\ subscribers' = IF lease = holds[c] THEN subscribers - 1 ELSE subscribers
    BY <1>8 DEF ReleaseStale, ReleaseShared
  <2>2. holds[c] # 0 /\ subscribers \in Nat
    BY <1>0, <2>1 DEF Control, LockIsHeld, LeaseTypeOK
  <2>3. Control'
    BY <1>0, <2>1 DEF Control, LockIsHeld, CleanupsAreOfLease, Locked, Entering, LeaseTypeOK
  <2>4. HoldersKnown'
    BY <1>0, <2>1 DEF Holders, HoldersKnown, LeaseTypeOK
  <2>5. ServedWhileOpen'
    <3>1. \A d \in Clients : pc[d] \notin Locked
      BY <1>0, <2>1, ManagerIsNoClient DEF Control, LockIsHeld
    <3>. QED
      BY <1>0, <2>1, <3>1 DEF Holders, ServedWhileOpen, Locked, LeaseTypeOK
  <2>6. HoldersCounted'
    BY <1>0, <2>1, <2>2, HolderLeaves DEF Holders
  <2>. QED
    BY <1>0, <2>1, <2>3, <2>4, <2>5, <2>6, RuntimesUntouched DEF Holders
<1>9. CASE ReleaseLast(c)
  <2>1. /\ closed' = closed /\ leaseLock' = c /\ lease' = lease /\ leaseLock = Nobody
        /\ laneWork' = laneWork /\ runtime' = runtime /\ leaseSequence' = leaseSequence
        /\ cleaning' = [cleaning EXCEPT ![c] = CleanupOf(lease)]
        /\ holds' = [holds EXCEPT ![c] = 0]
        /\ pc[c] = "releasing" /\ pc' = [pc EXCEPT ![c] = "cleaning"]
        /\ lease = holds[c] /\ subscribers = 1 /\ subscribers' = 0
    BY <1>9 DEF ReleaseLast
  <2>2. holds[c] # 0 /\ subscribers \in Nat
    BY <1>0, <2>1 DEF Control, LockIsHeld, LeaseTypeOK
  <2>3. Control'
    BY <1>0, <2>1, <2>2, ManagerIsNoClient, LeaseBound
       DEF Control, LockIsHeld, CleanupsAreOfLease, Locked, Entering, LeaseTypeOK, Processes,
           CleanupOf, Leases
  <2>4. \A p \in Processes : cleaning'[p].stage = "deleting" => cleaning'[p] = cleaning[p]
    BY <1>0, <2>1 DEF LeaseTypeOK, CleanupOf
  <2>5. HoldersKnown'
    BY <1>0, <2>1 DEF Holders, HoldersKnown, LeaseTypeOK
  <2>6. ServedWhileOpen'
    BY <1>0, <2>1 DEF Holders, ServedWhileOpen, Locked, LeaseTypeOK
  <2>7. HoldersCounted'
    <3>1. subscribers' = IF lease = holds[c] THEN subscribers - 1 ELSE subscribers
      BY <2>1
    <3>. QED
      BY <1>0, <2>1, <2>2, <3>1, HolderLeaves DEF Holders
  <2>. QED
    BY <1>0, <2>1, <2>3, <2>4, <2>5, <2>6, <2>7, RuntimesUntouched DEF Holders
<1>10. CASE EndCleanup(c)
  <2>1. /\ closed' = closed /\ leaseLock' = Nobody /\ holds' = holds
        /\ laneWork' = laneWork /\ runtime' = runtime /\ leaseSequence' = leaseSequence
        /\ cleaning' = [cleaning EXCEPT ![c] = NoCleanup] /\ lease' \in {lease, 0}
        /\ pc[c] \in {"cleaning", "unmaking"} /\ pc' = [pc EXCEPT ![c] = "idle"]
        /\ subscribers' = subscribers
        /\ Ends(c) /\ leaseLock = c
    BY <1>0, <1>10 DEF EndCleanup, CleanupEffects, Unlocks, Control, LockIsHeld, Locked
  <2>2. \A d \in Clients : d # c => pc[d] \notin Locked
    BY <1>0, <2>1 DEF Control, LockIsHeld
  <2>3. \A p \in Processes : p # c => cleaning'[p] = cleaning[p]
    BY <1>0, <2>1 DEF LeaseTypeOK
  <2>4. cleaning'[c] = NoCleanup
    BY <1>0, <2>1 DEF LeaseTypeOK
  <2>5. Control'
    BY <1>0, <2>1, <2>2, <2>3, <2>4
       DEF Control, LockIsHeld, CleanupsAreOfLease, Locked, Entering, LeaseTypeOK, NoCleanup
  <2>6. RuntimesEnd'
    <3>1. Stopped(cleaning[c].lease) /\ lease \in {0, cleaning[c].lease}
      BY <1>0, <2>1 DEF RuntimesEnd, DeletionsFollowStop, Ends, Control, CleanupsAreOfLease
    <3>2. DeletionsFollowStop'
      BY <1>0, <2>1, <2>3, <2>4 DEF RuntimesEnd, DeletionsFollowStop, Stopped, NoCleanup
    <3>3. LanesBelongToRuntime' /\ OneRuntime'
      BY <1>0, <2>1, <3>1 DEF RuntimesEnd, LanesBelongToRuntime, OneRuntime, Stopped
    <3>. QED
      BY <3>2, <3>3 DEF RuntimesEnd
  <2>7. ~closed => \A d \in Clients : holds[d] = 0
    <3>1. ~closed /\ lease # 0 => subscribers = 0
      BY <1>0, <2>1 DEF Holders, ServedWhileOpen, Locked
    <3>. QED
      BY <1>0, <3>1, NobodyHolds
  <2>8. HoldersKnown'
    BY <1>0, <2>1 DEF Holders, HoldersKnown, LeaseTypeOK
  <2>9. ServedWhileOpen'
    BY <1>0, <2>1, <2>2, <2>7 DEF Holders, ServedWhileOpen, Locked, LeaseTypeOK
  <2>10. HoldersCounted'
    BY <1>0, <2>1 DEF Holders, HoldersCounted, HoldersOf
  <2>. QED
    BY <2>5, <2>6, <2>8, <2>9, <2>10 DEF Holders
<1>11. CASE EndRetry(c)
  <2>1. /\ closed' = closed /\ holds' = holds /\ laneWork' = laneWork /\ runtime' = runtime
        /\ cleaning' = [cleaning EXCEPT ![c] = NoCleanup]
        /\ pc[c] = "retrying" /\ Ends(c)
    BY <1>11 DEF EndRetry
  <2>2. leaseLock = c /\ lease # 0 /\ ~closed
    BY <1>0, <2>1 DEF Control, LockIsHeld, Locked, Entering
  <2>3. \A d \in Clients : d # c => pc[d] \notin Locked
    BY <1>0, <2>2 DEF Control, LockIsHeld
  <2>4. \A p \in Processes : cleaning'[p].stage = "none"
    <3>1. \A p \in Processes : p # c => cleaning[p].stage = "none"
      BY <1>0, <2>2, OneCleanup
    <3>. QED
      BY <1>0, <2>1, <3>1 DEF LeaseTypeOK, NoCleanup
  <2>5. \A g \in Leases : runtime[g] \notin {"running", "stopping"} /\ \A l \in FeedLanes : laneWork[g][l] = Idle
    <3>1. Stopped(cleaning[c].lease) /\ lease = cleaning[c].lease
      BY <1>0, <2>1, <2>2 DEF RuntimesEnd, DeletionsFollowStop, Ends, Control, CleanupsAreOfLease
    <3>. QED
      BY <1>0, <3>1 DEF RuntimesEnd, OneRuntime, LanesBelongToRuntime, Stopped
  <2>6. RuntimesEnd'
    BY <2>1, <2>4, <2>5 DEF RuntimesEnd, DeletionsFollowStop, LanesBelongToRuntime, OneRuntime
  <2>7. subscribers = 0 /\ \A d \in Clients : holds[d] = 0
    <3>1. subscribers = 0
      BY <1>0, <2>1, <2>2 DEF Holders, ServedWhileOpen, Locked
    <3>. QED
      BY <1>0, <2>2, <3>1, NobodyHolds
  <2>8. CASE ForgetsLease(c)
    <3>1. /\ NewLease /\ pc' = [pc EXCEPT ![c] = "making"] /\ leaseLock' = leaseLock
      BY <1>11, <2>8 DEF EndRetry
    <3>2. HoldersCounted' /\ lease' \in Leases /\ lease' <= leaseSequence' /\ subscribers' = 0
      BY <1>0, <2>1, <2>7, <3>1, NewLeaseIsFree DEF Holders, NewLease
    <3>3. LockIsHeld'
      BY <1>0, <2>1, <2>2, <2>3, <3>1, <3>2 DEF Control, LockIsHeld, Locked, Entering, LeaseTypeOK, Leases
    <3>4. CleanupsAreOfLease'
      BY <2>4 DEF CleanupsAreOfLease, Processes
    <3>5. HoldersKnown'
      BY <1>0, <2>1, <2>7, <3>1, <3>2 DEF Holders, HoldersKnown, LeaseTypeOK, Leases, NewLease
    <3>6. ServedWhileOpen'
      BY <1>0, <2>1, <2>3, <2>7, <3>1, <3>2 DEF ServedWhileOpen, Locked, LeaseTypeOK
    <3>. QED
      BY <2>6, <3>2, <3>3, <3>4, <3>5, <3>6 DEF Control, Holders
  <2>9. CASE ~ForgetsLease(c)
    <3>1. /\ leaseLock' = Nobody /\ pc' = [pc EXCEPT ![c] = "idle"]
          /\ lease' = lease /\ leaseSequence' = leaseSequence /\ subscribers' = subscribers
      BY <1>11, <2>9 DEF EndRetry, Unlocks
    <3>2. LockIsHeld'
      BY <1>0, <2>1, <2>3, <3>1 DEF Control, LockIsHeld, Locked, Entering, LeaseTypeOK
    <3>3. CleanupsAreOfLease'
      BY <2>4 DEF CleanupsAreOfLease, Processes
    <3>4. HoldersKnown' /\ ServedWhileOpen'
      BY <1>0, <2>1, <2>3, <3>1 DEF Holders, HoldersKnown, ServedWhileOpen, Locked, LeaseTypeOK
    <3>5. HoldersCounted'
      BY <1>0, <2>1, <3>1, HoldersUntouched DEF Holders
    <3>. QED
      BY <2>6, <3>2, <3>3, <3>4, <3>5 DEF Control, Holders
  <2>. QED
    BY <2>8, <2>9
<1>. QED
  BY <1>1, <1>2, <1>3, <1>4, <1>5, <1>6, <1>7, <1>8, <1>9, <1>10, <1>11
     DEF ClientStep, AcquireFeed, Make, Release

\* A clean-up of close() comes after the flag, one of a client when nobody holds the lease.
LEMMA CleanupStepsKeepServing ==
    ASSUME ServeInv, NEW p \in Processes, Cleanup(p)
    PROVE  Control' /\ RuntimesEnd' /\ Holders'
<1>. USE DEF leaseVars, runtimeVars, storeVars
<1>0. LeaseTypeOK /\ Control /\ RuntimesEnd /\ Holders
  BY DEF ServeInv
<1>1. CASE StopRuntime(p)
  <2>. DEFINE g == cleaning[p].lease
  <2>1. /\ closed' = closed /\ leaseLock' = leaseLock /\ lease' = lease /\ holds' = holds
        /\ laneWork' = laneWork /\ runtime' = [runtime EXCEPT ![g] = "stopping"] /\ runtime[g] = "running"
        /\ subscribers' = subscribers /\ leaseSequence' = leaseSequence
        /\ cleaning' = cleaning /\ pc' = pc /\ cleaning[p].stage = "stopping"
    BY <1>1 DEF StopRuntime
  <2>2. g \in Leases /\ lease \in {0, g}
    BY <1>0, <2>1 DEF Control, CleanupsAreOfLease
  <2>. HIDE DEF g
  <2>3. \A h \in Leases : runtime'[h] = IF h = g THEN "stopping" ELSE runtime[h]
    BY <1>0, <2>1, <2>2 DEF LeaseTypeOK
  <2>4. Control'
    BY <1>0, <2>1 DEF Control, LockIsHeld, CleanupsAreOfLease
  <2>5. RuntimesEnd'
    <3>1. DeletionsFollowStop'
      <4>. SUFFICES ASSUME NEW q \in Processes, cleaning[q].stage = "deleting"
                    PROVE  runtime'[cleaning[q].lease] \in {"none", "stopped"}
        BY <2>1 DEF DeletionsFollowStop, Stopped
      <4>1. cleaning[q].lease \in Leases /\ runtime[cleaning[q].lease] \in {"none", "stopped"}
        BY <1>0 DEF RuntimesEnd, DeletionsFollowStop, Stopped, Control, CleanupsAreOfLease
      <4>. QED
        BY <2>1, <2>3, <4>1
    <3>2. LanesBelongToRuntime' /\ OneRuntime'
      BY <1>0, <2>1, <2>3 DEF RuntimesEnd, LanesBelongToRuntime, OneRuntime
    <3>. QED
      BY <3>1, <3>2 DEF RuntimesEnd
  <2>6. ServedWhileOpen'
    <3>. SUFFICES ASSUME ~closed PROVE ServedWhileOpen'
      BY <2>1 DEF ServedWhileOpen
    <3>1. PICK c \in Clients : pc[c] \in {"retrying", "unmaking", "cleaning"} /\ leaseLock = c
      <4>1. p \in Clients
        BY <1>0, <2>1 DEF Processes, Control, CleanupsAreOfLease
      <4>2. pc[p] \in {"retrying", "unmaking", "cleaning"}
        BY <1>0, <2>1, <4>1 DEF Control, CleanupsAreOfLease
      <4>. QED
        BY <1>0, <4>1, <4>2 DEF Control, LockIsHeld, Locked
    <3>2. lease # 0 => subscribers = 0
      BY <1>0, <3>1 DEF Holders, ServedWhileOpen, Locked
    <3>3. \A d \in Clients : holds[d] = 0 /\ pc[d] # "activated"
      BY <1>0, <3>1, <3>2, NobodyHolds DEF Control, LockIsHeld, Locked
    <3>. QED
      BY <1>0, <2>1, <3>3 DEF Holders, ServedWhileOpen
  <2>7. HoldersKnown'
    BY <1>0, <2>1 DEF Holders, HoldersKnown
  <2>. QED
    BY <1>0, <2>1, <2>4, <2>5, <2>6, <2>7, HoldersUntouched DEF Holders
<1>2. CASE BeginDeletion(p) \/ DeleteOwned(p)
  <2>1. /\ closed' = closed /\ leaseLock' = leaseLock /\ lease' = lease /\ holds' = holds
        /\ laneWork' = laneWork /\ runtime' = runtime
        /\ subscribers' = subscribers /\ leaseSequence' = leaseSequence /\ pc' = pc
    BY <1>2 DEF BeginDeletion, DeleteOwned
  <2>2. /\ cleaning[p].stage # "none" /\ cleaning'[p].lease = cleaning[p].lease
        /\ Stopped(cleaning[p].lease)
        /\ \A q \in Processes : q # p => cleaning'[q] = cleaning[q]
    <3>1. CASE BeginDeletion(p)
      BY <1>0, <3>1 DEF BeginDeletion, LeaseTypeOK, Cleanups
    <3>2. CASE DeleteOwned(p)
      <4>1. cleaning[p].stage = "deleting" /\ Stopped(cleaning[p].lease)
        BY <1>0, <3>2 DEF DeleteOwned, RuntimesEnd, DeletionsFollowStop
      <4>2. PICK id : \/ cleaning' = [cleaning EXCEPT ![p] = [cleaning[p] EXCEPT !.todo = @ \ {id}]]
                      \/ cleaning' = [cleaning EXCEPT ![p] = [cleaning[p] EXCEPT !.todo = @ \ {id}, !.failed = TRUE]]
        BY <3>2 DEF DeleteOwned
      <4>. QED
        BY <1>0, <4>1, <4>2 DEF LeaseTypeOK, Cleanups
    <3>. QED
      BY <1>2, <3>1, <3>2
  <2>3. \A q \in Processes : cleaning'[q].stage # "none" =>
           cleaning[q].stage # "none" /\ cleaning'[q].lease = cleaning[q].lease
    BY <2>2
  <2>4. Control'
    BY <1>0, <2>1, <2>3 DEF Control, LockIsHeld, CleanupsAreOfLease, Processes
  <2>5. RuntimesEnd'
    <3>1. DeletionsFollowStop'
      BY <1>0, <2>1, <2>2 DEF RuntimesEnd, DeletionsFollowStop, Stopped
    <3>. QED
      BY <1>0, <2>1, <3>1 DEF RuntimesEnd, LanesBelongToRuntime, OneRuntime
  <2>6. HoldersKnown' /\ ServedWhileOpen'
    BY <1>0, <2>1 DEF Holders, HoldersKnown, ServedWhileOpen
  <2>. QED
    BY <1>0, <2>1, <2>4, <2>5, <2>6, HoldersUntouched DEF Holders
<1>. QED
  BY <1>1, <1>2 DEF Cleanup

LEMMA ManagerStepsKeepServing ==
    ASSUME ServeInv, RequestClose \/ BeginClose \/ EndClose
    PROVE  Control' /\ RuntimesEnd' /\ Holders'
<1>. USE DEF leaseVars, runtimeVars, storeVars, Goes
<1>0. LeaseTypeOK /\ Control /\ RuntimesEnd /\ Holders /\ Manager \in Processes
      /\ Clients \subseteq Processes /\ \A c \in Clients : c # Manager
  BY ManagerIsNoClient DEF ServeInv, Processes
<1>1. /\ leaseLock' = leaseLock /\ holds' = holds /\ subscribers' = subscribers
      /\ leaseSequence' = leaseSequence /\ laneWork' = laneWork /\ runtime' = runtime
      /\ \A c \in Clients : pc'[c] = pc[c] /\ cleaning'[c] = cleaning[c]
  BY <1>0 DEF RequestClose, BeginClose, EndClose, CleanupEffects, LeaseTypeOK
<1>2. CASE RequestClose
  <2>1. closed' = closed /\ lease' = lease /\ cleaning' = cleaning
        /\ pc[Manager] = "idle" /\ pc'[Manager] = "queued"
    BY <1>0, <1>2 DEF RequestClose, LeaseTypeOK
  <2>2. Control'
    BY <1>0, <1>1, <2>1 DEF Control, LockIsHeld, CleanupsAreOfLease
  <2>3. HoldersKnown' /\ ServedWhileOpen'
    BY <1>0, <1>1, <2>1 DEF Holders, HoldersKnown, ServedWhileOpen
  <2>. QED
    BY <1>0, <1>1, <2>1, <2>2, <2>3, RuntimesUntouched, HoldersUntouched DEF Holders
<1>3. CASE BeginClose
  <2>1. /\ closed' = TRUE /\ lease' = lease /\ leaseLock = Nobody /\ pc[Manager] = "queued"
        /\ \/ cleaning' = cleaning
           \/ lease # 0 /\ pc'[Manager] = "closing"
              /\ cleaning' = [cleaning EXCEPT ![Manager] = CleanupOf(lease)]
    BY <1>0, <1>3 DEF BeginClose, LeaseTypeOK
  <2>2. \A c \in Clients : pc[c] \notin Locked
    BY <1>0, <2>1, ManagerIsNoClient DEF Control, LockIsHeld
  <2>3. LockIsHeld'
    BY <1>0, <1>1, <2>2 DEF Control, LockIsHeld, Locked, Entering
  <2>4. \A c \in Clients : cleaning[c].stage = "none"
    BY <1>0, <2>2 DEF Control, CleanupsAreOfLease, Locked
  <2>5. CleanupsAreOfLease'
    <3>1. CASE cleaning' = cleaning
      BY <1>0, <1>1, <2>1, <3>1 DEF Control, CleanupsAreOfLease
    <3>2. CASE lease # 0 /\ pc'[Manager] = "closing"
               /\ cleaning' = [cleaning EXCEPT ![Manager] = CleanupOf(lease)]
      <4>1. lease \in Leases
        BY <1>0, <3>2, LeaseBound DEF LeaseTypeOK, Leases
      <4>2. cleaning'[Manager] = CleanupOf(lease)
        BY <1>0, <3>2 DEF LeaseTypeOK
      <4>. QED
        BY <1>0, <1>1, <2>1, <2>4, <3>2, <4>1, <4>2 DEF CleanupsAreOfLease, CleanupOf, Processes
    <3>. QED
      BY <2>1, <3>1, <3>2
  <2>6. \A p \in Processes : cleaning'[p].stage = "deleting" => cleaning'[p] = cleaning[p]
    BY <1>0, <2>1 DEF LeaseTypeOK, CleanupOf
  <2>7. HoldersKnown' /\ ServedWhileOpen'
    BY <1>0, <1>1, <2>1 DEF Holders, HoldersKnown, ServedWhileOpen
  <2>. QED
    BY <1>0, <1>1, <2>1, <2>3, <2>5, <2>6, <2>7, RuntimesUntouched, HoldersUntouched DEF Control, Holders
<1>4. CASE EndClose
  <2>1. /\ closed' = closed /\ lease' \in {lease, 0} /\ Ends(Manager)
        /\ pc[Manager] = "closing" /\ cleaning'[Manager] = NoCleanup
    BY <1>0, <1>4 DEF EndClose, CleanupEffects, LeaseTypeOK
  <2>2. closed /\ Stopped(cleaning[Manager].lease) /\ lease \in {0, cleaning[Manager].lease}
    BY <1>0, <2>1 DEF Ends, Control, CleanupsAreOfLease, RuntimesEnd, DeletionsFollowStop
  <2>3. Control'
    BY <1>0, <1>1, <2>1, <2>2
       DEF Control, LockIsHeld, CleanupsAreOfLease, Locked, Entering, NoCleanup, Processes
  <2>4. RuntimesEnd'
    <3>1. DeletionsFollowStop'
      BY <1>0, <1>1, <2>1 DEF RuntimesEnd, DeletionsFollowStop, Stopped, NoCleanup, Processes
    <3>2. LanesBelongToRuntime' /\ OneRuntime'
      BY <1>0, <1>1, <2>1, <2>2 DEF RuntimesEnd, LanesBelongToRuntime, OneRuntime, Stopped
    <3>. QED
      BY <3>1, <3>2 DEF RuntimesEnd
  <2>5. HoldersKnown' /\ ServedWhileOpen'
    BY <1>0, <1>1, <2>1, <2>2 DEF Holders, HoldersKnown, ServedWhileOpen, LeaseTypeOK
  <2>6. HoldersCounted'
    BY <1>0, <1>1, <2>1 DEF Holders, HoldersCounted, HoldersOf
  <2>. QED
    BY <2>3, <2>4, <2>5, <2>6 DEF Holders
<1>. QED
  BY <1>2, <1>3, <1>4

LEMMA LaneStepsKeepServing ==
    ASSUME ServeInv, NEW g \in Leases,
           \/ \E l \in FeedLanes : BeginUpsert(g, l) \/ BeginDelete(g, l) \/ FeedStep(g, l)
           \/ RuntimeStopped(g)
    PROVE  Control' /\ RuntimesEnd' /\ Holders'
<1>. USE DEF leaseVars, runtimeVars, storeVars
<1>0. LeaseTypeOK /\ Control /\ RuntimesEnd /\ Holders
  BY DEF ServeInv
<1>1. /\ closed' = closed /\ leaseLock' = leaseLock /\ lease' = lease /\ holds' = holds
      /\ subscribers' = subscribers /\ leaseSequence' = leaseSequence /\ pc' = pc
      /\ cleaning' = cleaning
  BY DEF BeginUpsert, BeginDelete, FeedStep, Publish, PublishFails, Disown, FeedInterrupted,
         RuntimeStopped, unchangedByLane
<1>2. Control' /\ HoldersCounted' /\ HoldersKnown'
  BY <1>0, <1>1 DEF Control, LockIsHeld, CleanupsAreOfLease, Holders, HoldersCounted, HoldersOf, HoldersKnown
<1>3. ASSUME NEW l \in FeedLanes, BeginUpsert(g, l) \/ BeginDelete(g, l) \/ FeedStep(g, l)
      PROVE  RuntimesEnd' /\ ServedWhileOpen'
  <2>1. /\ runtime' = runtime
        /\ \A h \in Leases, k \in FeedLanes : laneWork'[h][k] = laneWork[h][k] \/ (h = g /\ k = l)
        /\ runtime[g] \in {"running", "stopping"}
    <3>1. PICK mutation : Lane(g, l, mutation)
      BY <1>3 DEF BeginUpsert, BeginDelete, FeedStep, Publish, PublishFails, Disown, FeedInterrupted
    <3>2. \A h \in Leases, k \in FeedLanes : laneWork'[h][k] = laneWork[h][k] \/ (h = g /\ k = l)
      BY <1>0, <3>1 DEF Lane, LeaseTypeOK
    <3>3. runtime' = runtime /\ (runtime[g] = "running" \/ laneWork[g][l] # Idle)
      BY <1>3 DEF BeginUpsert, BeginDelete, FeedStep, Publish, PublishFails, Disown, FeedInterrupted,
                  unchangedByLane, Idle
    <3>. QED
      BY <1>0, <3>2, <3>3 DEF RuntimesEnd, LanesBelongToRuntime
  <2>. QED
    BY <1>0, <1>1, <2>1 DEF RuntimesEnd, DeletionsFollowStop, Stopped, LanesBelongToRuntime, OneRuntime,
                            Holders, ServedWhileOpen
<1>4. CASE RuntimeStopped(g)
  <2>1. /\ laneWork' = laneWork /\ runtime' = [runtime EXCEPT ![g] = "stopped"] /\ runtime[g] = "stopping"
        /\ \A l \in FeedLanes : laneWork[g][l] = Idle
    BY <1>4 DEF RuntimeStopped
  <2>2. \A h \in Leases : runtime'[h] = IF h = g THEN "stopped" ELSE runtime[h]
    BY <1>0, <2>1 DEF LeaseTypeOK
  <2>3. DeletionsFollowStop'
    BY <1>0, <1>1, <2>2 DEF RuntimesEnd, DeletionsFollowStop, Stopped, Control, CleanupsAreOfLease
  <2>4. LanesBelongToRuntime' /\ OneRuntime'
    BY <1>0, <1>1, <2>1, <2>2 DEF RuntimesEnd, LanesBelongToRuntime, OneRuntime
  <2>5. ServedWhileOpen'
    <3>. SUFFICES ASSUME NEW c \in Clients, ~closed
                  PROVE  (/\ holds[c] # 0 => lease = holds[c] /\ runtime[lease] = "running"
                          /\ pc[c] \in Locked /\ lease # 0 => subscribers = 0
                          /\ pc[c] = "activated" => runtime[lease] = "running")'
      BY <1>1 DEF ServedWhileOpen
    <3>1. lease # 0 => lease \in Leases
      BY <1>0, LeaseBound DEF LeaseTypeOK, Leases
    <3>2. pc[c] = "activated" => lease # 0
      BY <1>0 DEF Control, LockIsHeld, Entering
    <3>3. lease # 0 /\ runtime[lease] = "running" => runtime'[lease] = "running"
      BY <2>1, <2>2, <3>1
    <3>. QED
      BY <1>0, <1>1, <3>2, <3>3 DEF Holders, ServedWhileOpen
  <2>. QED
    BY <1>2, <2>3, <2>4, <2>5 DEF RuntimesEnd, Holders
<1>. QED
  BY <1>2, <1>3, <1>4 DEF Holders

-----------------------------------------------------------------------------
(* Theorems *)

\* Everything that LeaseInv says holds from the start and is kept by every step.
THEOREM LeaseInvariance ==
    ASSUME OwnLanes
    PROVE  SpecLease => []LeaseInv
<1>1. InitLease => LeaseInv
  <2>. SUFFICES ASSUME InitLease PROVE LeaseInv
    OBVIOUS
  <2>1. LockIsHeld /\ CleanupsAreOfLease
    BY DEF InitLease, LockIsHeld, CleanupsAreOfLease, Locked, Entering, NoCleanup, Processes
  <2>2. DeletionsAreComplete /\ RowsAreOwned
    BY DEF InitLease, DeletionsAreComplete, RowsAreOwned, NoCleanup
  <2>3. LanesBelongToRuntime /\ LanesKeepOwnership /\ OneRuntime
    BY DEF InitLease, LanesBelongToRuntime, LanesKeepOwnership, LaneKeepsOwnership, OneRuntime, Idle
  <2>. QED
    BY <2>1, <2>2, <2>3, InitIsTyped DEF LeaseInv
<1>2. LeaseInv /\ [NextLease]_feedVars => LeaseInv'
  <2>. SUFFICES ASSUME LeaseInv, [NextLease]_feedVars PROVE LeaseInv'
    OBVIOUS
  <2>1. CASE \E c \in Clients : Subscribe(c) \/ Attach(c) \/ Leave(c) \/ ClientStep(c)
    BY <2>1, ClientStepsKeepInv, ClientStepsKeepTypes
       DEF LeaseInv, Control, Rows, LaneFacts
  <2>2. CASE \E p \in Processes : Cleanup(p)
    BY <2>2, CleanupStepsKeepInv, CleanupStepsKeepTypes
       DEF LeaseInv, Control, Rows, LaneFacts
  <2>3. CASE RequestClose \/ BeginClose \/ EndClose
    BY <2>3, ManagerStepsKeepInv, CleanupStepsKeepTypes
       DEF LeaseInv, Control, Rows, LaneFacts
  <2>4. CASE \E g \in Leases :
                \/ \E l \in FeedLanes : BeginUpsert(g, l) \/ BeginDelete(g, l) \/ FeedStep(g, l)
                \/ RuntimeStopped(g)
    BY <2>4, OwnLanes, LaneStepsKeepInv, LaneStepsKeepTypes
       DEF LeaseInv, Control, Rows, LaneFacts
  <2>5. CASE UNCHANGED feedVars
    BY <2>5 DEF feedVars, leaseVars, runtimeVars, storeVars, LeaseInv, LeaseTypeOK, LockIsHeld,
                CleanupsAreOfLease, DeletionsAreComplete, LanesBelongToRuntime,
                LanesKeepOwnership, LaneKeepsOwnership, OneRuntime, RowsAreOwned, Stopped
  <2>. QED
    BY <2>1, <2>2, <2>3, <2>4, <2>5 DEF NextLease
<1>. QED
  BY <1>1, <1>2, PTL DEF SpecLease

\* In every state each stored row of the feed is owned by the lease that is
\* entered for it, for any number of subscribers, leases, lanes and rows.
THEOREM RowsAreAlwaysOwned ==
    ASSUME OwnLanes
    PROVE  SpecLease => []RowsAreOwned
<1>1. LeaseInv => RowsAreOwned
  BY DEF LeaseInv
<1>. QED
  BY <1>1, OwnLanes, LeaseInvariance, PTL

\* What ServeInv says holds from the start and is kept by every step.
LEMMA ServeInvariance == SpecLease => []ServeInv
<1>1. InitLease => ServeInv
  <2>. SUFFICES ASSUME InitLease PROVE ServeInv
    OBVIOUS
  <2>1. Control
    BY DEF InitLease, Control, LockIsHeld, CleanupsAreOfLease, Locked, Entering, NoCleanup, Processes
  <2>2. RuntimesEnd
    BY DEF InitLease, RuntimesEnd, DeletionsFollowStop, LanesBelongToRuntime, OneRuntime, NoCleanup
  <2>3. HoldersCounted
    <3>1. \A g \in Leases : HoldersOf(g) = {}
      BY LeaseBound DEF InitLease, HoldersOf, Leases
    <3>. QED
      BY <3>1, FS_EmptySet DEF InitLease, HoldersCounted
  <2>4. HoldersKnown /\ ServedWhileOpen
    BY DEF InitLease, HoldersKnown, ServedWhileOpen, Locked, Processes
  <2>. QED
    BY <2>1, <2>2, <2>3, <2>4, InitIsTyped DEF ServeInv, Holders
<1>2. ServeInv /\ [NextLease]_feedVars => ServeInv'
  <2>. SUFFICES ASSUME ServeInv, [NextLease]_feedVars PROVE ServeInv'
    OBVIOUS
  <2>. USE DEF ServeInv
  <2>1. CASE \E c \in Clients : Subscribe(c) \/ Attach(c) \/ Leave(c) \/ ClientStep(c)
    BY <2>1, ClientStepsKeepServing, ClientStepsKeepTypes
  <2>2. CASE \E p \in Processes : Cleanup(p)
    BY <2>2, CleanupStepsKeepServing, CleanupStepsKeepTypes DEF Control
  <2>3. CASE RequestClose \/ BeginClose \/ EndClose
    BY <2>3, ManagerStepsKeepServing, CleanupStepsKeepTypes DEF Control
  <2>4. CASE \E g \in Leases :
                \/ \E l \in FeedLanes : BeginUpsert(g, l) \/ BeginDelete(g, l) \/ FeedStep(g, l)
                \/ RuntimeStopped(g)
    BY <2>4, LaneStepsKeepServing, LaneStepsKeepTypes
  <2>5. CASE UNCHANGED feedVars
    <3>1. LeaseTypeOK' /\ Control'
      BY <2>5 DEF feedVars, leaseVars, runtimeVars, storeVars, LeaseTypeOK, Control, LockIsHeld, CleanupsAreOfLease
    <3>2. RuntimesEnd' /\ Holders'
      BY <2>5 DEF feedVars, leaseVars, runtimeVars, storeVars, RuntimesEnd, DeletionsFollowStop, Stopped,
                  LanesBelongToRuntime, OneRuntime, Holders, HoldersCounted, HoldersOf, HoldersKnown,
                  ServedWhileOpen
    <3>. QED
      BY <3>1, <3>2
  <2>. QED
    BY <2>1, <2>2, <2>3, <2>4, <2>5 DEF NextLease
<1>. QED
  BY <1>1, <1>2, PTL DEF SpecLease

\* The lanes and the runtime of a lease have ended before another is entered,
\* whatever the lanes deliver.
THEOREM OneRuntimeAlways == SpecLease => []OneRuntime
<1>1. ServeInv => OneRuntime
  BY DEF ServeInv, RuntimesEnd
<1>. QED
  BY <1>1, ServeInvariance, PTL

\* The subscribers of a lease are counted exactly through releases, failed
\* clean-ups and interrupted acquisitions, and until close() each of them holds
\* the lease that is entered and its runtime runs (acquireLeased, cleanupLease).
THEOREM SubscribersAreServed == SpecLease => []SubscribersServed
<1>1. ServeInv => SubscribersServed
  BY DEF ServeInv, Holders, HoldersCounted, HoldersOf, ServedWhileOpen, SubscribersServed
<1>. QED
  BY <1>1, ServeInvariance, PTL

\* The variables keep their types.
THEOREM LeaseTypeCorrect == SpecLease => []LeaseTypeOK
<1>1. ServeInv => LeaseTypeOK
  BY DEF ServeInv
<1>. QED
  BY <1>1, ServeInvariance, PTL

-----------------------------------------------------------------------------
(***************************************************************************)
(* The pushed health: PushedHealth.                                        *)
(***************************************************************************)

\* The changes of the epochs up to n.
Covers(seen, n) == \A r \in Requests : epochOf[r] \in 1..n => r \in seen

\* An epoch belongs to a change that was made before.
EpochsAreOfChanges ==
    \A r \in Requests :
        /\ epochOf[r] <= requestedRefreshEpoch
        /\ epochOf[r] > 0 => request[r] \in {"claimed", "done"}
        /\ request[r] # "none" => r \in changed

\* Nothing is read or installed for an epoch that was not requested.
EpochsAreRequested ==
    /\ installedRefreshEpoch <= requestedRefreshEpoch
    /\ \A p \in Readers : epoch[p] <= requestedRefreshEpoch

\* A reading, what is installed and what is published show the epoch they are of.
ReadingsCoverEpochs ==
    /\ Covers(installed.seen, installedRefreshEpoch)
    /\ \A p \in Readers :
          /\ reader[p] = "installing" => Covers(reading[p], epoch[p])
          /\ reader[p] \in {"publishing", "finishing"} => epoch[p] <= installedRefreshEpoch
          /\ reader[p] = "finishing" => Covers(published.seen, epoch[p])

\* A call is answered from an epoch that is not older than the call.
CallsAreCovered ==
    \A p \in Readers : \A r \in asked[p] :
        /\ epochOf[r] > 0
        /\ reader[p] \in Reading => epochOf[r] <= epoch[p]
        /\ reader[p] = "flushed" /\ ~hubClosed => epochOf[r] <= installedRefreshEpoch

FreshInv ==
    /\ HealthTypeOK /\ EpochsAreOfChanges /\ EpochsAreRequested
    /\ ReadingsCoverEpochs /\ CallsAreCovered /\ AnswersAreFresh

-----------------------------------------------------------------------------
LEMMA InitEstablishesFreshInv == InitHealth => FreshInv
<1>. SUFFICES ASSUME InitHealth PROVE FreshInv
  OBVIOUS
<1>. USE BoundOnThrows, BoundOnRequests DEF InitHealth
<1>1. HealthTypeOK
  <2>1. installed \in Health /\ published \in Health
    BY DEF Health
  <2>2. /\ reader \in [Readers -> ReaderStages]
        /\ epoch \in [Readers -> Nat] /\ reading \in [Readers -> SUBSET Requests]
        /\ asked \in [Readers -> SUBSET Requests] /\ stale \subseteq Readers
    BY DEF ReaderStages
  <2>3. /\ request \in [Requests -> {"none", "changed", "claimed", "done"}]
        /\ epochOf \in [Requests -> Nat] /\ changed \subseteq Requests
    OBVIOUS
  <2>4. /\ subscription \in [Subscribers -> {"none", "active", "claimed", "ended"}]
        /\ finisher \in [Subscribers -> Readers \union {Closer, NoReader}]
        /\ activeRead \in Readers \union {NoReader} /\ throws \in 0..MaxThrows
    OBVIOUS
  <2>. QED
    BY <2>1, <2>2, <2>3, <2>4 DEF HealthTypeOK
<1>2. EpochsAreOfChanges /\ EpochsAreRequested
  BY DEF EpochsAreOfChanges, EpochsAreRequested
<1>3. ReadingsCoverEpochs /\ CallsAreCovered /\ AnswersAreFresh
  BY DEF ReadingsCoverEpochs, CallsAreCovered, AnswersAreFresh, Covers, Reading
<1>. QED
  BY <1>1, <1>2, <1>3 DEF FreshInv

-----------------------------------------------------------------------------
(* Types *)

LEMMA RequestStepsKeepTypes ==
    ASSUME HealthTypeOK, NEW r \in Requests, Change(r) \/ ClaimEpoch(r) \/ Schedule(r)
    PROVE  HealthTypeOK'
<1>. USE DEF HealthTypeOK, requestVars, installedVars, schedulerVars, readVars, queueVars, historyVars,
             hubVars
<1>1. CASE Change(r)
  BY <1>1 DEF Change
<1>2. CASE ClaimEpoch(r)
  BY <1>2 DEF ClaimEpoch
<1>3. CASE Schedule(r)
  BY <1>3 DEF Schedule, Moves, Readers, ReaderStages
<1>. QED
  BY <1>1, <1>2, <1>3

LEMMA DrainStepsKeepTypes ==
    ASSUME HealthTypeOK, Awake \/ EndRound \/ ClearActiveRun
    PROVE  HealthTypeOK'
<1>. USE DEF HealthTypeOK, requestVars, installedVars, schedulerVars, readVars, queueVars, historyVars,
             hubVars, unchangedByDrain, Moves, Readers, ReaderStages
<1>1. CASE Awake
  BY <1>1 DEF Awake
<1>2. CASE EndRound
  BY <1>2 DEF EndRound
<1>3. CASE ClearActiveRun
  BY <1>3 DEF ClearActiveRun
<1>. QED
  BY <1>1, <1>2, <1>3

LEMMA ReaderStepsKeepTypes ==
    ASSUME HealthTypeOK, NEW p \in Readers,
           \/ CallRefresh(p) \/ FlushPendingRefresh(p) \/ Decide(p) \/ Read(p) \/ Install(p)
           \/ Drop(p) \/ PublishHealth(p) \/ Complete(p)
    PROVE  HealthTypeOK'
<1>. USE DEF HealthTypeOK, requestVars, installedVars, schedulerVars, readVars, queueVars, historyVars,
             hubVars, unchangedByReader, unchangedByDecision, Moves, ReaderStages, Reading
<1>1. CASE CallRefresh(p)
  BY <1>1 DEF CallRefresh, Requested
<1>2. CASE FlushPendingRefresh(p)
  BY <1>2 DEF FlushPendingRefresh
<1>3. CASE Decide(p)
  BY <1>3 DEF Decide, EndsAs, Joins
<1>4. CASE Read(p)
  BY <1>4 DEF Read
<1>5. CASE Install(p)
  BY <1>5 DEF Install, Claim, Health, Active
<1>6. CASE Drop(p)
  BY <1>6 DEF Drop, Completes, Followers, EndsAs, Answer
<1>7. CASE PublishHealth(p)
  BY <1>7, BoundOnThrows DEF PublishHealth, Finish, Health
<1>8. CASE Complete(p)
  BY <1>8 DEF Complete, Completes, Followers, EndsAs, Answer
<1>. QED
  BY <1>1, <1>2, <1>3, <1>4, <1>5, <1>6, <1>7, <1>8

LEMMA SubscriberStepsKeepTypes ==
    ASSUME HealthTypeOK, NEW s \in Subscribers,
           \/ SubscribeHealth(s) \/ Register(s) \/ Abandon(s) \/ CloseSubscription(s)
           \/ FinishNormal(s)
    PROVE  HealthTypeOK'
<1>. USE DEF HealthTypeOK, requestVars, installedVars, schedulerVars, readVars, queueVars, historyVars,
             hubVars, unchangedByReader, unchangedByDecision, Moves, Readers, ReaderStages
<1>1. CASE SubscribeHealth(s)
  BY <1>1 DEF SubscribeHealth, Requested
<1>2. CASE Register(s)
  BY <1>2 DEF Register, Answer
<1>3. CASE Abandon(s)
  BY <1>3 DEF Abandon
<1>4. CASE CloseSubscription(s)
  BY <1>4 DEF CloseSubscription, Claim
<1>5. CASE FinishNormal(s)
  BY <1>5 DEF FinishNormal, Finish
<1>. QED
  BY <1>1, <1>2, <1>3, <1>4, <1>5

LEMMA CloserStepsKeepTypes ==
    ASSUME HealthTypeOK,
           CloseScheduler \/ DrainInterrupted \/ ClaimSubscriptions \/ TellStopping
    PROVE  HealthTypeOK'
<1>. USE DEF HealthTypeOK, requestVars, installedVars, schedulerVars, readVars, queueVars, historyVars,
             hubVars, unchangedByCloser, Readers, ReaderStages
<1>1. CASE CloseScheduler
  BY <1>1 DEF CloseScheduler
<1>2. CASE DrainInterrupted
  BY <1>2 DEF DrainInterrupted
<1>3. CASE ClaimSubscriptions
  BY <1>3 DEF ClaimSubscriptions, Claim, Health
<1>4. CASE TellStopping
  BY <1>4 DEF TellStopping, Finish
<1>. QED
  BY <1>1, <1>2, <1>3, <1>4

-----------------------------------------------------------------------------
(* Freshness *)

\* Whatever is covered stays so: later epochs are newer.
LEMMA RequestStepsKeepFresh ==
    ASSUME FreshInv, NEW r \in Requests, Change(r) \/ ClaimEpoch(r) \/ Schedule(r)
    PROVE  FreshInv'
<1>1. HealthTypeOK'
  BY RequestStepsKeepTypes DEF FreshInv
<1>. USE DEF FreshInv, requestVars, installedVars, schedulerVars, readVars, queueVars, historyVars,
             hubVars
<1>2. CASE Change(r)
  <2>. USE <1>2 DEF Change
  <2>1. EpochsAreOfChanges' /\ EpochsAreRequested'
    BY DEF EpochsAreOfChanges, EpochsAreRequested, HealthTypeOK
  <2>2. ReadingsCoverEpochs' /\ CallsAreCovered' /\ AnswersAreFresh'
    BY DEF ReadingsCoverEpochs, Covers, CallsAreCovered, AnswersAreFresh
  <2>. QED
    BY <1>1, <2>1, <2>2
<1>3. CASE ClaimEpoch(r)
  <2>. USE <1>3 DEF ClaimEpoch
  <2>1. EpochsAreOfChanges' /\ EpochsAreRequested'
    BY DEF EpochsAreOfChanges, EpochsAreRequested, HealthTypeOK
  <2>2. ReadingsCoverEpochs'
    BY DEF ReadingsCoverEpochs, Covers, EpochsAreRequested, HealthTypeOK
  <2>3. CallsAreCovered' /\ AnswersAreFresh'
    BY DEF CallsAreCovered, AnswersAreFresh, EpochsAreOfChanges, HealthTypeOK
  <2>. QED
    BY <1>1, <2>1, <2>2, <2>3
<1>4. CASE Schedule(r)
  <2>. USE <1>4 DEF Schedule, Moves
  <2>1. EpochsAreOfChanges' /\ EpochsAreRequested'
    BY DEF EpochsAreOfChanges, EpochsAreRequested, HealthTypeOK
  <2>2. ReadingsCoverEpochs'
    BY DEF ReadingsCoverEpochs, Covers, HealthTypeOK
  <2>3. CallsAreCovered' /\ AnswersAreFresh'
    BY DEF CallsAreCovered, AnswersAreFresh, Reading, HealthTypeOK
  <2>. QED
    BY <1>1, <2>1, <2>2, <2>3
<1>. QED
  BY <1>2, <1>3, <1>4

LEMMA DrainStepsKeepFresh ==
    ASSUME FreshInv, Awake \/ EndRound \/ ClearActiveRun
    PROVE  FreshInv'
<1>1. HealthTypeOK'
  BY DrainStepsKeepTypes DEF FreshInv
<1>2. /\ UNCHANGED <<requestVars, installedVars, published, hubVars, readVars, historyVars>>
      /\ \A p \in Readers :
            reader'[p] = reader[p] \/ reader'[p] \in {"sleeping", "flushing", "idle"}
  BY DEF FreshInv, HealthTypeOK, Awake, EndRound, ClearActiveRun, Moves, unchangedByDrain
<1>. USE <1>2 DEF FreshInv, requestVars, installedVars, readVars, historyVars, hubVars
<1>3. EpochsAreOfChanges' /\ EpochsAreRequested'
  BY DEF EpochsAreOfChanges, EpochsAreRequested
<1>4. ReadingsCoverEpochs'
  BY DEF ReadingsCoverEpochs, Covers
<1>5. CallsAreCovered' /\ AnswersAreFresh'
  BY DEF CallsAreCovered, AnswersAreFresh, Reading
<1>. QED
  BY <1>1, <1>3, <1>4, <1>5

LEMMA SubscriberStepsKeepFresh ==
    ASSUME FreshInv, NEW s \in Subscribers,
           \/ SubscribeHealth(s) \/ Register(s) \/ Abandon(s) \/ CloseSubscription(s)
           \/ FinishNormal(s)
    PROVE  FreshInv'
<1>1. HealthTypeOK'
  BY SubscriberStepsKeepTypes DEF FreshInv
<1>2. /\ changed' = changed /\ request' = request /\ epochOf' = epochOf
      /\ requestedRefreshEpoch' = requestedRefreshEpoch
      /\ installedRefreshEpoch' = installedRefreshEpoch /\ installed' = installed
      /\ published' = published /\ hubClosed' = hubClosed /\ reading' = reading
  BY DEF SubscribeHealth, Register, Abandon, CloseSubscription, FinishNormal, unchangedByReader,
         unchangedByDecision, readVars, requestVars, installedVars, hubVars
<1>7. \A p \in Readers : \/ reader'[p] = reader[p] /\ epoch'[p] = epoch[p]
                         \/ reader'[p] = "flushing" /\ epoch'[p] = epoch[p]
                         \/ reader'[p] = "done" /\ epoch'[p] \in {epoch[p], 0}
  BY DEF FreshInv, HealthTypeOK, SubscribeHealth, Register, Abandon, CloseSubscription, FinishNormal,
         Moves, readVars
<1>8. \A p \in Readers : \/ asked'[p] \subseteq asked[p]
                         \/ asked'[p] = Requested /\ reader'[p] = "flushing"
  <2>. USE DEF FreshInv, HealthTypeOK, Moves, historyVars, Readers
  <2>1. CASE SubscribeHealth(s)
    BY <2>1 DEF SubscribeHealth
  <2>2. CASE Register(s)
    BY <2>2 DEF Register, Answer
  <2>3. CASE Abandon(s)
    BY <2>3 DEF Abandon
  <2>4. CASE CloseSubscription(s) \/ FinishNormal(s)
    BY <2>4 DEF CloseSubscription, FinishNormal
  <2>. QED
    BY <2>1, <2>2, <2>3, <2>4
<1>. USE DEF FreshInv, requestVars, installedVars, historyVars, hubVars
<1>3. EpochsAreOfChanges' /\ EpochsAreRequested'
  BY <1>2, <1>7 DEF EpochsAreOfChanges, EpochsAreRequested, HealthTypeOK
<1>4. ReadingsCoverEpochs'
  BY <1>2, <1>7 DEF ReadingsCoverEpochs, Covers
<1>5. CallsAreCovered'
  BY <1>2, <1>7, <1>8 DEF CallsAreCovered, Reading, Requested, HealthTypeOK
<1>6. AnswersAreFresh'
  <2>1. CASE Register(s)
    <3>1. ~hubClosed => asked[s] \subseteq installed.seen
      BY <2>1 DEF CallsAreCovered, ReadingsCoverEpochs, Covers, Register, HealthTypeOK, Readers
    <3>. QED
      BY <2>1, <3>1 DEF AnswersAreFresh, Register, Answer, Readers
  <2>. QED
    BY <2>1 DEF AnswersAreFresh, SubscribeHealth, Abandon, CloseSubscription, FinishNormal
<1>. QED
  BY <1>1, <1>3, <1>4, <1>5, <1>6

LEMMA CloserStepsKeepFresh ==
    ASSUME FreshInv,
           CloseScheduler \/ DrainInterrupted \/ ClaimSubscriptions \/ TellStopping
    PROVE  FreshInv'
<1>1. HealthTypeOK'
  BY CloserStepsKeepTypes DEF FreshInv
<1>2. /\ changed' = changed /\ request' = request /\ epochOf' = epochOf
      /\ requestedRefreshEpoch' = requestedRefreshEpoch
      /\ installedRefreshEpoch' = installedRefreshEpoch /\ reading' = reading
      /\ asked' = asked /\ stale' = stale /\ hubClosed' \in {hubClosed, TRUE}
  BY DEF CloseScheduler, DrainInterrupted, ClaimSubscriptions, TellStopping,
         unchangedByCloser, requestVars, readVars, historyVars
<1>7. /\ installed'.seen = installed.seen
      /\ published'.seen \in {published.seen, installed.seen}
  BY DEF FreshInv, HealthTypeOK, Health, CloseScheduler, DrainInterrupted, ClaimSubscriptions,
         TellStopping
<1>8. \A p \in Readers : \/ reader'[p] = reader[p] /\ epoch'[p] = epoch[p]
                         \/ reader'[p] = "idle" /\ epoch'[p] = 0
  BY DEF FreshInv, HealthTypeOK, CloseScheduler, DrainInterrupted, ClaimSubscriptions,
         TellStopping, unchangedByCloser, readVars
<1>. USE <1>2, <1>7, <1>8 DEF FreshInv, requestVars, historyVars
<1>3. EpochsAreOfChanges' /\ EpochsAreRequested'
  BY DEF EpochsAreOfChanges, EpochsAreRequested, HealthTypeOK
<1>4. ReadingsCoverEpochs'
  BY DEF ReadingsCoverEpochs, Covers, HealthTypeOK
<1>5. CallsAreCovered' /\ AnswersAreFresh'
  BY DEF CallsAreCovered, AnswersAreFresh, Reading, HealthTypeOK
<1>. QED
  BY <1>1, <1>3, <1>4, <1>5

\* What a reader does before it takes its reading.
LEMMA DecidingKeepsFresh ==
    ASSUME FreshInv, NEW p \in Readers,
           CallRefresh(p) \/ FlushPendingRefresh(p) \/ Decide(p) \/ Read(p)
    PROVE  FreshInv'
<1>1. HealthTypeOK'
  BY ReaderStepsKeepTypes DEF FreshInv
<1>2. /\ changed' = changed /\ request' = request /\ epochOf' = epochOf
      /\ requestedRefreshEpoch' = requestedRefreshEpoch
      /\ installedRefreshEpoch' = installedRefreshEpoch /\ installed' = installed
      /\ published' = published /\ hubClosed' = hubClosed /\ stale' = stale
  BY DEF CallRefresh, FlushPendingRefresh, Decide, Read, unchangedByReader,
         unchangedByDecision, readVars, historyVars, requestVars, installedVars, hubVars
<1>. USE <1>2 DEF FreshInv
<1>3. EpochsAreOfChanges' /\ AnswersAreFresh'
  BY DEF EpochsAreOfChanges, AnswersAreFresh
<1>4. CASE CallRefresh(p)
  <2>. USE <1>4 DEF CallRefresh, Moves, readVars
  <2>1. EpochsAreRequested' /\ ReadingsCoverEpochs'
    BY DEF EpochsAreRequested, ReadingsCoverEpochs, Covers, HealthTypeOK
  <2>2. CallsAreCovered'
    BY DEF CallsAreCovered, Requested, Reading, HealthTypeOK
  <2>. QED
    BY <1>1, <1>3, <2>1, <2>2
<1>5. CASE FlushPendingRefresh(p)
  <2>. USE <1>5 DEF FlushPendingRefresh, Moves, readVars, historyVars
  <2>1. EpochsAreRequested' /\ ReadingsCoverEpochs'
    BY DEF EpochsAreRequested, ReadingsCoverEpochs, Covers, HealthTypeOK
  <2>2. CallsAreCovered'
    BY DEF CallsAreCovered, EpochsAreOfChanges, Reading, HealthTypeOK
  <2>. QED
    BY <1>1, <1>3, <2>1, <2>2
<1>6. CASE Decide(p)
  <2>. USE <1>6 DEF Decide, Moves, historyVars
  <2>1. /\ reader' = [reader EXCEPT ![p] = reader'[p]]
        /\ reader'[p] \in {"joining", "reading", "flushed", "done"}
        /\ reader'[p] \in {"joining", "reading"} =>
               epoch' = [epoch EXCEPT ![p] = requestedRefreshEpoch]
        /\ reader'[p] \in {"flushed", "done"} => epoch' = epoch /\ hubClosed
    BY DEF Joins, EndsAs, HealthTypeOK
  <2>2. EpochsAreRequested' /\ ReadingsCoverEpochs'
    BY <2>1 DEF EpochsAreRequested, ReadingsCoverEpochs, Covers, HealthTypeOK
  <2>3. CallsAreCovered'
    BY <2>1 DEF CallsAreCovered, EpochsAreOfChanges, Reading, HealthTypeOK
  <2>. QED
    BY <1>1, <1>3, <2>2, <2>3
<1>7. CASE Read(p)
  <2>. USE <1>7 DEF Read, Moves, historyVars
  <2>1. EpochsAreRequested'
    BY DEF EpochsAreRequested
  <2>2. ReadingsCoverEpochs'
    BY DEF ReadingsCoverEpochs, Covers, EpochsAreOfChanges, HealthTypeOK
  <2>3. CallsAreCovered'
    BY DEF CallsAreCovered, Reading, HealthTypeOK
  <2>. QED
    BY <1>1, <1>3, <2>1, <2>2, <2>3
<1>. QED
  BY <1>4, <1>5, <1>6, <1>7

\* A reading of an epoch takes the place of what was installed for an earlier one.
LEMMA InstallingKeepsFresh ==
    ASSUME FreshInv, NEW p \in Readers, Install(p) \/ PublishHealth(p)
    PROVE  FreshInv'
<1>1. HealthTypeOK'
  BY ReaderStepsKeepTypes DEF FreshInv
<1>2. /\ changed' = changed /\ request' = request /\ epochOf' = epochOf
      /\ requestedRefreshEpoch' = requestedRefreshEpoch /\ hubClosed' = hubClosed
      /\ epoch' = epoch /\ asked' = asked /\ stale' = stale
  BY DEF Install, PublishHealth, unchangedByReader, readVars, historyVars, requestVars, hubVars
<1>. USE <1>2 DEF FreshInv
<1>3. EpochsAreOfChanges' /\ AnswersAreFresh'
  BY DEF EpochsAreOfChanges, AnswersAreFresh
<1>4. CASE Install(p)
  <2>. USE <1>4 DEF Install, IsStale, Moves
  <2>1. EpochsAreRequested' /\ CallsAreCovered'
    BY DEF EpochsAreRequested, CallsAreCovered, Reading, HealthTypeOK
  <2>2. ReadingsCoverEpochs'
    BY DEF ReadingsCoverEpochs, Covers, HealthTypeOK
  <2>. QED
    BY <1>1, <1>3, <2>1, <2>2
<1>5. CASE PublishHealth(p)
  <2>. USE <1>5 DEF PublishHealth, Moves, installedVars, readVars
  <2>1. EpochsAreRequested' /\ CallsAreCovered'
    BY DEF EpochsAreRequested, CallsAreCovered, Reading, HealthTypeOK
  <2>2. ReadingsCoverEpochs'
    BY DEF ReadingsCoverEpochs, Covers, HealthTypeOK
  <2>. QED
    BY <1>1, <1>3, <2>1, <2>2
<1>. QED
  BY <1>4, <1>5

\* The reader and those who joined it are answered from an epoch that is at least
\* the one they read for.
LEMMA AnsweringKeepsFresh ==
    ASSUME FreshInv, NEW p \in Readers, Drop(p) \/ Complete(p)
    PROVE  FreshInv'
<1>. DEFINE answered == Followers(p) \union {p}
<1>1. HealthTypeOK'
  BY ReaderStepsKeepTypes DEF FreshInv
<1>2. /\ changed' = changed /\ request' = request /\ epochOf' = epochOf
      /\ requestedRefreshEpoch' = requestedRefreshEpoch
      /\ installedRefreshEpoch' = installedRefreshEpoch /\ installed' = installed
      /\ published' = published /\ hubClosed' = hubClosed
  BY DEF Drop, Complete, unchangedByReader, unchangedByDecision, requestVars, installedVars,
         hubVars
<1>3. /\ answered \subseteq Readers
      /\ \A q \in answered : epoch[q] = epoch[p] /\ reader[q] \in Reading
  BY DEF Followers, Drop, Complete, Reading
<1>. DEFINE failed == reader[p] = "failing"
            seen == IF reader[p] = "installing" THEN installed.seen ELSE published.seen
<1>10. Completes(p, failed, seen)
  BY DEF Drop, Complete
<1>4. /\ \A q \in Readers \ answered : reader'[q] = reader[q] /\ epoch'[q] = epoch[q]
      /\ \A q \in answered : reader'[q] \in {"flushed", "failed", "done"} /\ epoch'[q] = 0
      /\ failed => \A q \in answered : reader'[q] # "flushed"
  BY <1>3, <1>10 DEF Completes, EndsAs
<1>11. \A q \in Readers : reading'[q] = reading[q] \/ q \in answered
  BY DEF FreshInv, HealthTypeOK, Drop, Complete
<1>12. \A q \in Readers : asked'[q] \subseteq asked[q]
  BY <1>10 DEF Completes, Answer, historyVars
<1>5. /\ hubClosed \/ epoch[p] <= installedRefreshEpoch \/ failed
      /\ hubClosed \/ Covers(seen, epoch[p]) \/ failed
  <2>1. CASE Drop(p)
    BY <2>1 DEF FreshInv, HealthTypeOK, Drop, IsStale, ReadingsCoverEpochs, Covers
  <2>2. CASE Complete(p)
    BY <2>2 DEF FreshInv, Complete, ReadingsCoverEpochs
  <2>. QED
    BY <2>1, <2>2
<1>. HIDE DEF answered, failed, seen
<1>6. EpochsAreOfChanges' /\ EpochsAreRequested'
  BY <1>2, <1>4 DEF FreshInv, EpochsAreOfChanges, EpochsAreRequested, HealthTypeOK
<1>7. ReadingsCoverEpochs'
  BY <1>2, <1>4, <1>11 DEF FreshInv, ReadingsCoverEpochs, Covers, HealthTypeOK
<1>8. CallsAreCovered'
  <2>. SUFFICES ASSUME NEW q \in Readers, NEW r \in asked'[q]
                PROVE  /\ epochOf[r] > 0
                       /\ reader'[q] \in Reading => epochOf[r] <= epoch'[q]
                       /\ reader'[q] = "flushed" /\ ~hubClosed
                             => epochOf[r] <= installedRefreshEpoch
    BY <1>2 DEF CallsAreCovered
  <2>1. r \in asked[q] /\ r \in Requests
    BY <1>12 DEF FreshInv, HealthTypeOK
  <2>2. CASE q \in answered
    BY <1>3, <1>4, <1>5, <2>1, <2>2 DEF FreshInv, CallsAreCovered, Reading, HealthTypeOK
  <2>3. CASE q \notin answered
    BY <1>4, <2>1, <2>3 DEF FreshInv, CallsAreCovered
  <2>. QED
    BY <2>2, <2>3
<1>9. AnswersAreFresh'
  <2>1. CASE failed
    BY <1>10, <2>1 DEF Completes, historyVars, FreshInv, AnswersAreFresh
  <2>2. CASE ~failed
    <3>1. stale' = stale \union {q \in answered \ Flushers : ~hubClosed /\ ~(asked[q] \subseteq seen)}
      BY <1>10, <2>2 DEF Completes, Answer, answered
    <3>2. \A q \in answered : hubClosed \/ asked[q] \subseteq seen
      BY <1>3, <1>5, <2>2 DEF FreshInv, CallsAreCovered, Covers, HealthTypeOK
    <3>. QED
      BY <3>1, <3>2 DEF FreshInv, AnswersAreFresh
  <2>. QED
    BY <2>1, <2>2
<1>. QED
  BY <1>1, <1>6, <1>7, <1>8, <1>9 DEF FreshInv

\* The inductive invariant: whatever is read, installed, published or promised
\* to a call is of an epoch that is new enough for it (pushed-health.ts).
THEOREM FreshInvariance == SpecHealth => []FreshInv
<1>1. ASSUME FreshInv, [NextHealth]_healthVars PROVE FreshInv'
  <2>. USE <1>1
  <2>1. CASE \E r \in Requests : Change(r) \/ ClaimEpoch(r) \/ Schedule(r)
    BY <2>1, RequestStepsKeepFresh
  <2>2. CASE Awake \/ EndRound \/ ClearActiveRun
    BY <2>2, DrainStepsKeepFresh
  <2>3. CASE \E p \in Readers :
                \/ CallRefresh(p) \/ FlushPendingRefresh(p) \/ Decide(p) \/ Read(p)
                \/ Install(p) \/ Drop(p) \/ PublishHealth(p) \/ Complete(p)
    BY <2>3, DecidingKeepsFresh, InstallingKeepsFresh, AnsweringKeepsFresh
  <2>4. CASE \E s \in Subscribers :
                \/ SubscribeHealth(s) \/ Register(s) \/ Abandon(s) \/ CloseSubscription(s)
                \/ FinishNormal(s)
    BY <2>4, SubscriberStepsKeepFresh
  <2>5. CASE CloseScheduler \/ DrainInterrupted \/ ClaimSubscriptions \/ TellStopping
    BY <2>5, CloserStepsKeepFresh
  <2>6. CASE UNCHANGED healthVars
    <3>1. HealthTypeOK' /\ EpochsAreOfChanges' /\ EpochsAreRequested'
      BY <2>6 DEF FreshInv, HealthTypeOK, EpochsAreOfChanges, EpochsAreRequested, healthVars, requestVars,
                  installedVars, hubVars, schedulerVars, readVars, queueVars, historyVars
    <3>2. ReadingsCoverEpochs' /\ CallsAreCovered' /\ AnswersAreFresh'
      BY <2>6 DEF FreshInv, ReadingsCoverEpochs, Covers, CallsAreCovered, AnswersAreFresh, healthVars,
                  requestVars, installedVars, hubVars, schedulerVars, readVars, historyVars
    <3>. QED
      BY <3>1, <3>2 DEF FreshInv
  <2>. QED
    BY <2>1, <2>2, <2>3, <2>4, <2>5, <2>6 DEF NextHealth
<1>. QED
  BY <1>1, InitEstablishesFreshInv, PTL DEF SpecHealth

\* The hub, the reader and the scheduler keep their types.
THEOREM PushedHealthTypeCorrect == SpecHealth => []HealthTypeOK
BY FreshInvariance, PTL DEF FreshInv

\* For any number of subscribers, callers and changes: a refresh, and the first
\* snapshot of a subscription, show every change requested before the call
\* (refresh, flushPendingRefresh and installHealth).
THEOREM AnswersAreAlwaysFresh == SpecHealth => []AnswersAreFresh
BY FreshInvariance, PTL DEF FreshInv

-----------------------------------------------------------------------------
(* The end of close() *)

\* What is claimed is ended by its owner, by the process that publishes, or by close().
ClaimsAreOwed ==
    \A s \in Subscribers :
        subscription[s] = "claimed" =>
            \/ finisher[s] = Closer /\ closer = "publishing"
            \/ finisher[s] = s
            \/ finisher[s] \in Readers /\ reader[finisher[s]] = "publishing"

\* The fiber of the scheduler is started again only after it ended.
DrainIsScheduled == schedulerClosed \/ scheduled \/ reader[Drain] = "idle"

CloseInv ==
    /\ hubClosed <=> closer \in {"publishing", "closed"}
    /\ hubClosed => installed.stopping /\ Active = {}
    /\ closer = "closed" => published.stopping
    /\ ClaimsAreOwed /\ DrainIsScheduled

LEMMA ReadersKeepClose ==
    ASSUME HealthTypeOK, CloseInv, NEW p \in Readers,
           \/ CallRefresh(p) \/ FlushPendingRefresh(p) \/ Decide(p) \/ Read(p)
           \/ Drop(p) \/ Complete(p)
    PROVE  CloseInv'
<1>1. /\ hubClosed' = hubClosed /\ closer' = closer /\ installed' = installed
      /\ published' = published /\ subscription' = subscription /\ finisher' = finisher
  BY DEF CallRefresh, FlushPendingRefresh, Decide, Read, Drop, Complete, unchangedByReader,
         unchangedByDecision, hubVars, installedVars, queueVars
<1>2. \A q \in Readers : reader[q] = "publishing" => reader'[q] = "publishing"
  BY DEF HealthTypeOK, CallRefresh, FlushPendingRefresh, Decide, Read, Drop, Complete, Completes,
         Followers, Moves
<1>3. DrainIsScheduled'
  <2>1. schedulerClosed' = schedulerClosed /\ scheduled' = scheduled
    BY DEF CallRefresh, FlushPendingRefresh, Decide, Read, Drop, Complete, unchangedByReader,
           schedulerVars
  <2>2. reader[Drain] = "idle" => reader'[Drain] = "idle"
    BY ProcessesAreDistinct DEF HealthTypeOK, CallRefresh, FlushPendingRefresh, Decide, Read, Drop,
       Complete, Completes, Followers, Moves, Readers
  <2>. QED
    BY <2>1, <2>2 DEF CloseInv, DrainIsScheduled
<1>. QED
  BY <1>1, <1>2, <1>3 DEF CloseInv, ClaimsAreOwed, Active

LEMMA PublishingKeepsClose ==
    ASSUME HealthTypeOK, CloseInv, NEW p \in Readers, Install(p) \/ PublishHealth(p)
    PROVE  CloseInv'
<1>1. hubClosed' = hubClosed /\ closer' = closer
  BY DEF Install, PublishHealth, unchangedByReader, hubVars
<1>4. DrainIsScheduled'
  BY DEF Install, PublishHealth, unchangedByReader, schedulerVars, Moves, HealthTypeOK, CloseInv,
         DrainIsScheduled, Readers
<1>2. CASE Install(p)
  <2>1. ~hubClosed /\ closer # "closed"
    BY <1>2 DEF Install, IsStale, CloseInv
  <2>2. ClaimsAreOwed'
    BY <1>1, <1>2 DEF Install, Claim, Moves, CloseInv, ClaimsAreOwed, HealthTypeOK, Active
  <2>. QED
    BY <1>1, <1>4, <2>1, <2>2 DEF CloseInv
<1>3. CASE PublishHealth(p)
  <2>. USE <1>3 DEF PublishHealth, Finish, Owes, Moves, installedVars
  <2>1. installed' = installed /\ published' = installed
    OBVIOUS
  <2>2. Active' = Active
    BY DEF Active, HealthTypeOK
  <2>3. ClaimsAreOwed'
    BY <1>1 DEF CloseInv, ClaimsAreOwed, HealthTypeOK
  <2>. QED
    BY <1>1, <1>4, <2>1, <2>2, <2>3 DEF CloseInv
<1>. QED
  BY <1>2, <1>3

LEMMA SubscribersKeepClose ==
    ASSUME HealthTypeOK, CloseInv, NEW s \in Subscribers,
           \/ SubscribeHealth(s) \/ Register(s) \/ Abandon(s) \/ CloseSubscription(s)
           \/ FinishNormal(s)
    PROVE  CloseInv'
<1>1. /\ hubClosed' = hubClosed /\ closer' = closer /\ installed' = installed
      /\ published' = published
  BY DEF SubscribeHealth, Register, Abandon, CloseSubscription, FinishNormal, unchangedByReader,
         unchangedByDecision, hubVars, installedVars
<1>2. \A q \in Readers : reader[q] = "publishing" => reader'[q] = "publishing"
  BY DEF HealthTypeOK, SubscribeHealth, Register, Abandon, CloseSubscription, FinishNormal, Moves
<1>3. hubClosed => Active' \subseteq Active
  BY DEF HealthTypeOK, SubscribeHealth, Register, Abandon, CloseSubscription, FinishNormal, Active, Claim,
         Finish, unchangedByDecision, queueVars
<1>4. \A t \in Subscribers :
         subscription'[t] = "claimed" => \/ subscription[t] = "claimed" /\ finisher'[t] = finisher[t]
                                        \/ finisher'[t] = t
  BY DEF HealthTypeOK, SubscribeHealth, Register, Abandon, CloseSubscription, FinishNormal, Claim, Finish,
         unchangedByDecision, queueVars
<1>5. DrainIsScheduled'
  <2>1. schedulerClosed' = schedulerClosed /\ scheduled' = scheduled
    BY DEF SubscribeHealth, Register, Abandon, CloseSubscription, FinishNormal, unchangedByReader,
           schedulerVars
  <2>2. reader'[Drain] = reader[Drain]
    BY ProcessesAreDistinct DEF HealthTypeOK, SubscribeHealth, Register, Abandon, CloseSubscription,
       FinishNormal, Moves, Readers
  <2>. QED
    BY <2>1, <2>2 DEF CloseInv, DrainIsScheduled
<1>. QED
  BY <1>1, <1>2, <1>3, <1>4, <1>5 DEF CloseInv, ClaimsAreOwed

LEMMA OthersKeepClose ==
    ASSUME HealthTypeOK, CloseInv,
           \/ \E r \in Requests : Change(r) \/ ClaimEpoch(r) \/ Schedule(r)
           \/ Awake \/ EndRound \/ ClearActiveRun
           \/ UNCHANGED healthVars
    PROVE  CloseInv'
<1>1. /\ hubClosed' = hubClosed /\ closer' = closer /\ installed' = installed
      /\ published' = published /\ subscription' = subscription /\ finisher' = finisher
  BY DEF Change, ClaimEpoch, Schedule, Awake, EndRound, ClearActiveRun, unchangedByDrain, healthVars,
         hubVars, installedVars, queueVars
<1>2. \A q \in Readers : reader[q] = "publishing" => reader'[q] = "publishing"
  <2>1. CASE \E r \in Requests : Change(r) \/ ClaimEpoch(r)
    BY <2>1 DEF Change, ClaimEpoch
  <2>2. CASE \E r \in Requests : Schedule(r)
    BY <2>2 DEF Schedule, Moves, CloseInv, DrainIsScheduled, HealthTypeOK
  <2>3. CASE Awake \/ EndRound \/ ClearActiveRun
    BY <2>3 DEF Awake, EndRound, ClearActiveRun, Moves, HealthTypeOK
  <2>4. CASE UNCHANGED healthVars
    BY <2>4 DEF healthVars
  <2>. QED
    BY <2>1, <2>2, <2>3, <2>4
<1>3. DrainIsScheduled'
  <2>1. CASE \E r \in Requests : Change(r) \/ ClaimEpoch(r) \/ Schedule(r)
    BY <2>1 DEF Change, ClaimEpoch, Schedule, schedulerVars, CloseInv, DrainIsScheduled
  <2>2. CASE Awake \/ EndRound \/ ClearActiveRun
    BY <2>2 DEF Awake, EndRound, ClearActiveRun, Moves, unchangedByDrain, HealthTypeOK, CloseInv,
                DrainIsScheduled, Readers
  <2>3. CASE UNCHANGED healthVars
    BY <2>3 DEF healthVars, schedulerVars, CloseInv, DrainIsScheduled
  <2>. QED
    BY <2>1, <2>2, <2>3
<1>. QED
  BY <1>1, <1>2, <1>3 DEF CloseInv, ClaimsAreOwed, Active

LEMMA CloserKeepsClose ==
    ASSUME HealthTypeOK, CloseInv,
           CloseScheduler \/ DrainInterrupted \/ ClaimSubscriptions \/ TellStopping
    PROVE  CloseInv'
<1>5. DrainIsScheduled'
  BY DEF CloseScheduler, DrainInterrupted, ClaimSubscriptions, TellStopping, unchangedByCloser,
         schedulerVars, HealthTypeOK, CloseInv, DrainIsScheduled
<1>1. CASE CloseScheduler
  BY <1>1, <1>5 DEF CloseScheduler, CloseInv, ClaimsAreOwed, Active, queueVars
<1>2. CASE DrainInterrupted
  <2>1. \A q \in Readers : reader[q] = "publishing" => reader'[q] = "publishing"
    BY <1>2 DEF DrainInterrupted, Reading, HealthTypeOK
  <2>. QED
    BY <1>2, <1>5, <2>1 DEF DrainInterrupted, CloseInv, ClaimsAreOwed, Active, queueVars
<1>3. CASE ClaimSubscriptions
  <2>1. Active' = {} /\ ClaimsAreOwed'
    BY <1>3 DEF ClaimSubscriptions, Claim, CloseInv, ClaimsAreOwed, Active, HealthTypeOK
  <2>2. hubClosed' /\ closer' = "publishing" /\ installed'.stopping
    BY <1>3 DEF ClaimSubscriptions, HealthTypeOK, Health
  <2>. QED
    BY <1>5, <2>1, <2>2 DEF CloseInv
<1>4. CASE TellStopping
  <2>1. Active' = Active /\ ClaimsAreOwed'
    BY <1>4 DEF TellStopping, Finish, Owes, CloseInv, ClaimsAreOwed, Active, HealthTypeOK
  <2>. QED
    BY <1>4, <1>5, <2>1 DEF TellStopping, CloseInv
<1>. QED
  BY <1>1, <1>2, <1>3, <1>4

\* The inductive invariant of close(): who ends what is claimed, when the hub is
\* closed, and that the scheduler's fiber is not started twice (pushed-health.ts).
THEOREM CloseInvariance == SpecHealth => []CloseInv
<1>1. InitHealth => CloseInv
  BY DEF InitHealth, CloseInv, ClaimsAreOwed, DrainIsScheduled, Active, Readers
<1>2. ASSUME HealthTypeOK, CloseInv, [NextHealth]_healthVars PROVE CloseInv'
  BY <1>2, ReadersKeepClose, PublishingKeepsClose, SubscribersKeepClose, OthersKeepClose,
     CloserKeepsClose DEF NextHealth
<1>. QED
  BY <1>1, <1>2, PushedHealthTypeCorrect, PTL DEF SpecHealth

\* Once close() has returned the published health is stopping for good and no
\* subscription is left open, whatever readings are still in flight
\* (closeActiveHealthSubscriptions and installHealth).
THEOREM CloseIsAlwaysFinal == SpecHealth => []CloseIsFinal
<1>1. HealthTypeOK /\ CloseInv => CloseIsFinal
  <2>. SUFFICES ASSUME HealthTypeOK, CloseInv, closer = "closed" PROVE CloseIsFinal
    BY DEF CloseIsFinal
  <2>1. published.stopping /\ Active = {}
    BY DEF CloseInv
  <2>2. ASSUME NEW s \in Subscribers
        PROVE  \/ subscription[s] \in {"none", "ended"}
               \/ subscription[s] = "claimed" /\ finisher[s] # Closer
                     /\ (finisher[s] = s \/ reader[finisher[s]] = "publishing")
    <3>1. CASE subscription[s] = "claimed"
      BY <3>1, ProcessesAreDistinct DEF CloseInv, ClaimsAreOwed, Readers
    <3>. QED
      BY <2>1, <3>1 DEF Active, HealthTypeOK
  <2>. QED
    BY <2>1, <2>2 DEF CloseIsFinal
<1>. QED
  BY <1>1, PushedHealthTypeCorrect, CloseInvariance, PTL

=============================================================================
