---------------------------- MODULE SourceAttempt ----------------------------
(***************************************************************************)
(* The supervision of one logical source (makeLogicalRuntime and           *)
(* makeSourceAttemptArbitration in source-runtime.ts).                     *)
(*                                                                         *)
(* A supervisor fiber acquires an attempt, runs its lanes concurrently,    *)
(* and when a lane ends closes the attempt's scope and retries or gives    *)
(* up.  A lane applies one event at a time and settles it in a child       *)
(* fiber: the settlement callback cannot be interrupted, the effect it     *)
(* returns can.  The child is forked in the attempt's scope, so it         *)
(* outlives a lane that is interrupted while it waits.  stop() races all   *)
(* of this; the arbitration of an attempt decides whether it was           *)
(* cancelled or came to an end of its own, never both.                     *)
(*                                                                         *)
(* Interruption is modelled as in Effect: a flag that an interruptible     *)
(* wait observes and an uninterruptible region does not.  What adapters    *)
(* and the engine answer is chosen freely.  Maintenance, the other user    *)
(* of the lifecycle gate, is in SourceMaintenance.                         *)
(***************************************************************************)
EXTENDS Naturals

CONSTANTS Lanes, NoLane,
          MaxAttempts,          \* attempts the retry schedule allows
          MaxEvents             \* bound on the lane events of a behaviour

ASSUME AttemptBounds == MaxAttempts \in Nat \ {0} /\ MaxEvents \in Nat
ASSUME NobodyIsNoLane == NoLane \notin Lanes

VARIABLES
    supervisor,         \* progress of the supervisor fiber
    supervisorInterrupted,
    attempt,            \* currentAttempt
    outcome,            \* how the current attempt ended
    arbitration,        \* state of the current attempt's arbitration
    arbitrationLock,    \* child promoting its effect under the lock
    status,             \* tag of the published status
    latestRejection,    \* whether an item was ever rejected
    gate,               \* holder of the lifecycle gate
    lane,               \* progress of each lane worker
    event,              \* kind of the event a lane handles
    applicationExit,    \* exit of its application
    masked,             \* whether the lane joins its child uninterruptibly
    child,              \* progress of the settlement fiber of each lane
    childInterrupted,
    settlement,         \* exit of the settlement fiber
    callbacks,          \* times the settlement callback of the event ran
    events,             \* events received so far
    closing, stop,      \* the closing flag and progress of stop()
    fatal,              \* whether onFatal was called
    defected            \* history: an application transition threw

supervisorVars == <<supervisor, supervisorInterrupted, attempt, outcome>>
laneVars == <<lane, event, applicationExit, masked, events>>
childVars == <<child, childInterrupted, settlement, callbacks>>
stopVars == <<closing, stop>>
vars == <<supervisorVars, laneVars, childVars, stopVars, arbitration, arbitrationLock, status,
          latestRejection, gate, fatal, defected>>

TypeOK ==
    /\ supervisor \in {"starting", "acquiring", "publishing", "running", "ending", "closing",
                       "waiting", "exhausted", "done"}
    /\ supervisorInterrupted \in BOOLEAN
    /\ attempt \in 1..MaxAttempts
    /\ outcome \in {"none", "failed", "defect", "interrupted"}
    /\ arbitration \in {"Open", "CancellationWon", "OrdinaryTerminationWon"}
    /\ arbitrationLock \in Lanes \union {NoLane}
    /\ status \in {"Starting", "Ready", "Degraded", "Reacquiring", "WaitingToRetry", "Exhausted",
                   "Stopping"}
    /\ latestRejection \in BOOLEAN
    /\ gate \in Lanes \union {NoLane}
    /\ lane \in [Lanes -> {"idle", "queued", "applying", "handoff", "joining",
                           "ended"}]
    /\ event \in [Lanes -> {"none", "plain", "transition", "rejection"}]
    /\ applicationExit \in [Lanes -> {"none", "success", "failure", "interrupted", "defect"}]
    /\ masked \in [Lanes -> BOOLEAN]
    /\ child \in [Lanes -> {"none", "callback", "captured", "refused", "promoting", "running",
                            "ended"}]
    /\ childInterrupted \in [Lanes -> BOOLEAN]
    /\ settlement \in [Lanes -> {"none", "success", "failure", "interrupted", "CancellationWon"}]
    /\ callbacks \in [Lanes -> Nat]
    /\ events \in 0..MaxEvents
    /\ closing \in BOOLEAN
    /\ stop \in {"idle", "cancelling", "interrupting", "publishing", "awaiting", "stopped"}
    /\ fatal \in BOOLEAN /\ defected \in BOOLEAN

Init ==
    /\ supervisor = "starting" /\ supervisorInterrupted = FALSE
    /\ attempt = 1 /\ outcome = "none"
    /\ arbitration = "Open" /\ arbitrationLock = NoLane
    /\ status = "Starting" /\ latestRejection = FALSE
    /\ gate = NoLane
    /\ lane = [l \in Lanes |-> "ended"]
    /\ event = [l \in Lanes |-> "none"]
    /\ applicationExit = [l \in Lanes |-> "none"]
    /\ masked = [l \in Lanes |-> FALSE]
    /\ child = [l \in Lanes |-> "none"]
    /\ childInterrupted = [l \in Lanes |-> FALSE]
    /\ settlement = [l \in Lanes |-> "none"]
    /\ callbacks = [l \in Lanes |-> 0]
    /\ events = 0
    /\ closing = FALSE /\ stop = "idle"
    /\ fatal = FALSE /\ defected = FALSE

-----------------------------------------------------------------------------
(* Status and arbitration *)

\* publish: once the source closes only Stopping is published.
Publishes(next) == status' = IF closing /\ next # "Stopping" THEN status ELSE next

\* Ready, or Degraded for good once an item was rejected.
Operational(rejected) == IF rejected THEN "Degraded" ELSE "Ready"

\* claimCancellation
Cancelled(state) == IF state = "Open" THEN "CancellationWon" ELSE state

\* Mutant: a termination is reported although the attempt was cancelled.
ClaimAlways == arbitration' = "OrdinaryTerminationWon"

\* claimOrdinaryTermination, when it succeeds
ClaimsTermination ==
    /\ arbitration # "CancellationWon"
    /\ arbitration' = "OrdinaryTerminationWon"

\* handoffAttemptTermination: the termination is an ordinary failure, or the
\* attempt was cancelled first and it ends by interruption.
TerminatesAs(exit) ==
    \/ ClaimsTermination /\ exit = "failed"
    \/ arbitration = "CancellationWon" /\ exit = "interrupted" /\ UNCHANGED arbitration

-----------------------------------------------------------------------------
(* The supervisor *)

\* attemptWithObservation: a fresh arbitration; a retry reports Reacquiring.
BeginAttempt ==
    /\ supervisor = "starting" /\ ~supervisorInterrupted
    /\ supervisor' = "acquiring"
    /\ arbitration' = "Open"
    /\ outcome' = "none"
    /\ IF outcome = "failed"
       THEN attempt' = attempt + 1 /\ Publishes("Reacquiring")
       ELSE UNCHANGED <<attempt, status>>
    /\ UNCHANGED <<supervisorInterrupted, laneVars, childVars, stopVars, arbitrationLock,
                   latestRejection, gate, fatal, defected>>

\* The lifecycle returned an attempt with valid lanes.
Acquire ==
    /\ supervisor = "acquiring" /\ ~supervisorInterrupted
    /\ supervisor' = "publishing"
    /\ UNCHANGED <<supervisorInterrupted, attempt, outcome, laneVars, childVars, stopVars,
                   arbitration, arbitrationLock, status, latestRejection, gate, fatal, defected>>

\* Acquisition or the validation of the lanes failed; or, the lanes running
\* or not, the metrics that are sampled meanwhile did.
AttemptFails ==
    /\ supervisor \in {"acquiring", "publishing", "running"} /\ ~supervisorInterrupted
    /\ TerminatesAs(outcome')
    /\ supervisor' = "ending"
    /\ UNCHANGED <<supervisorInterrupted, attempt, laneVars, childVars, stopVars,
                   arbitrationLock, status, latestRejection, gate, fatal, defected>>

\* The attempt is operational, and its lanes start.
BecomeReady ==
    /\ supervisor = "publishing" /\ ~supervisorInterrupted
    /\ gate = NoLane
    /\ supervisor' = "running"
    /\ Publishes(Operational(latestRejection))
    /\ lane' = [l \in Lanes |-> "idle"]
    /\ UNCHANGED <<supervisorInterrupted, attempt, outcome, event, applicationExit, masked, events,
                   childVars, stopVars, arbitration, arbitrationLock, latestRejection, gate,
                   fatal, defected>>

\* A lane that ended ends the attempt; the first exit counts.
LaneEnds(l, exit) ==
    /\ lane' = [lane EXCEPT ![l] = "ended"]
    /\ IF supervisor = "running"
       THEN supervisor' = "ending" /\ outcome' = exit
       ELSE UNCHANGED <<supervisor, outcome>>
    /\ UNCHANGED <<supervisorInterrupted, attempt>>

\* The supervisor's fiber observes its interruption where it can.
ObserveInterruption ==
    /\ supervisorInterrupted
    /\ supervisor \in {"starting", "acquiring", "publishing", "running", "waiting"}
    /\ supervisor' = "ending"
    /\ outcome' = "interrupted"
    /\ UNCHANGED <<supervisorInterrupted, attempt, laneVars, childVars, stopVars, arbitration,
                   arbitrationLock, status, latestRejection, gate, fatal, defected>>

\* The lanes have ended: the attempt records its termination under the gate
\* and its scope starts to close, which interrupts the children.
BeginClosingScope ==
    /\ supervisor = "ending"
    /\ \A l \in Lanes : lane[l] = "ended"
    /\ gate = NoLane
    /\ supervisor' = "closing"
    /\ childInterrupted' = [l \in Lanes |-> child[l] \notin {"none", "ended"}]
    /\ UNCHANGED <<supervisorInterrupted, attempt, outcome, laneVars, child, settlement, callbacks,
                   stopVars, arbitration, arbitrationLock, status, latestRejection, gate, fatal,
                   defected>>

\* The children are gone, the scope's last finalizer cancels the arbitration.
ScopeClosed ==
    /\ supervisor = "closing"
    /\ \A l \in Lanes : child[l] \in {"none", "ended"}
    /\ arbitrationLock = NoLane
    /\ arbitration' = Cancelled(arbitration)

\* The next attempt has workers and children of its own.
ForgetLanes ==
    /\ applicationExit' = [l \in Lanes |-> "none"]
    /\ masked' = [l \in Lanes |-> FALSE]
    /\ child' = [l \in Lanes |-> "none"]
    /\ childInterrupted' = [l \in Lanes |-> FALSE]
    /\ settlement' = [l \in Lanes |-> "none"]
    /\ callbacks' = [l \in Lanes |-> 0]

\* onRetry: the schedule allows another attempt.
WaitToRetry ==
    /\ ScopeClosed
    /\ outcome = "failed" /\ ~supervisorInterrupted
    /\ attempt < MaxAttempts
    /\ Publishes("WaitingToRetry")
    /\ supervisor' = "waiting"
    /\ ForgetLanes
    /\ UNCHANGED <<supervisorInterrupted, attempt, outcome, lane, event, events, stopVars,
                   arbitrationLock, latestRejection, gate, fatal, defected>>

Retry ==
    /\ supervisor = "waiting" /\ ~supervisorInterrupted
    /\ supervisor' = "starting"
    /\ UNCHANGED <<supervisorInterrupted, attempt, outcome, laneVars, childVars, stopVars,
                   arbitration, arbitrationLock, status, latestRejection, gate, fatal, defected>>

\* The schedule is over.
Exhaust ==
    /\ ScopeClosed
    /\ outcome = "failed" /\ ~supervisorInterrupted
    /\ Publishes("Exhausted")
    /\ supervisor' = "exhausted"
    /\ UNCHANGED <<supervisorInterrupted, attempt, outcome, laneVars, childVars, stopVars,
                   arbitrationLock, latestRejection, gate, fatal, defected>>

\* supervisedRun: an exit the source did not ask for is fatal.
EndIsFatal == ~closing

\* Any other exit ends the supervisor; an interrupted fiber just unwinds.
SupervisorEnds ==
    /\ ScopeClosed
    /\ outcome # "failed" \/ supervisorInterrupted
    /\ supervisor' = "done"
    /\ fatal' = (fatal \/ (~supervisorInterrupted /\ EndIsFatal))
    /\ UNCHANGED <<supervisorInterrupted, attempt, outcome, laneVars, childVars, stopVars,
                   arbitrationLock, status, latestRejection, gate, defected>>

-----------------------------------------------------------------------------
(* Lanes *)

\* Siblings of an ended lane, and lanes of an interrupted supervisor.
Interrupted == supervisorInterrupted \/ supervisor = "ending"

\* runLane takes the next event; a delivery with a transition needs the gate.
Receive(l) ==
    /\ lane[l] = "idle" /\ ~Interrupted
    /\ events < MaxEvents
    /\ events' = events + 1
    /\ \E kind \in {"plain", "transition", "rejection"} :
          /\ event' = [event EXCEPT ![l] = kind]
          /\ lane' = [lane EXCEPT ![l] = IF kind = "transition" THEN "queued" ELSE "applying"]
    /\ applicationExit' = [applicationExit EXCEPT ![l] = "none"]
    /\ callbacks' = [callbacks EXCEPT ![l] = 0]
    /\ child' = [child EXCEPT ![l] = "none"]
    /\ settlement' = [settlement EXCEPT ![l] = "none"]
    /\ UNCHANGED <<supervisorVars, masked, childInterrupted, stopVars, arbitration,
                   arbitrationLock, status, latestRejection, gate, fatal, defected>>

\* The lane's stream fails or completes.
StreamEnds(l) ==
    /\ lane[l] = "idle" /\ ~Interrupted
    /\ \E exit \in {"failed", "interrupted"} : TerminatesAs(exit) /\ LaneEnds(l, exit)
    /\ UNCHANGED <<event, applicationExit, masked, events, childVars, stopVars, arbitrationLock,
                   status, latestRejection, gate, fatal, defected>>

TakeGate(l) ==
    /\ lane[l] = "queued" /\ gate = NoLane
    /\ gate' = l
    /\ lane' = [lane EXCEPT ![l] = "applying"]
    /\ UNCHANGED <<supervisorVars, event, applicationExit, masked, events, childVars, stopVars,
                   arbitration, arbitrationLock, status, latestRejection, fatal, defected>>

\* A rejection is recorded and degrades the source before it is settled.
RecordsRejection(l, exit) ==
    IF event[l] = "rejection" /\ exit = "success"
    THEN latestRejection' = TRUE /\ Publishes("Degraded")
    ELSE UNCHANGED <<latestRejection, status>>

\* The application ends, the gate is released, and the settlement child is
\* forked into the attempt's scope and registered.
Apply(l) ==
    /\ lane[l] = "applying"
    /\ \E exit \in {"success", "failure"}
                       \union (IF Interrupted THEN {"interrupted"} ELSE {})
                       \union (IF event[l] = "transition" THEN {"defect"} ELSE {}) :
          /\ applicationExit' = [applicationExit EXCEPT ![l] = exit]
          /\ defected' = (defected \/ exit = "defect")
          /\ RecordsRejection(l, exit)
    /\ gate' = IF gate = l THEN NoLane ELSE gate
    /\ lane' = [lane EXCEPT ![l] = "handoff"]
    /\ event' = [event EXCEPT ![l] = "none"]
    /\ child' = [child EXCEPT ![l] = "callback"]
    /\ childInterrupted' = [childInterrupted EXCEPT ![l] = FALSE]
    /\ UNCHANGED <<supervisorVars, masked, events, settlement, callbacks, stopVars, arbitration,
                   arbitrationLock, fatal>>

\* Mutant: the lane does not wait for the callback of an interrupted event.
HandedOffOrInterrupted(l) == child[l] # "callback" \/ Interrupted

\* The handoff is completed when the callback has been applied.
HandedOff(l) == child[l] # "callback"

\* After the handoff: a transition that threw is fatal at once, anything else
\* waits for the child, uninterruptibly only if the attempt was cancelled.
ObserveHandoff(l) ==
    /\ lane[l] = "handoff"
    /\ HandedOff(l)
    /\ IF applicationExit[l] = "defect"
       THEN fatal' = TRUE /\ LaneEnds(l, "defect") /\ UNCHANGED masked
       ELSE /\ masked' = [masked EXCEPT ![l] = (arbitration = "CancellationWon")]
            /\ lane' = [lane EXCEPT ![l] = "joining"]
            /\ UNCHANGED <<supervisorVars, fatal>>
    /\ UNCHANGED <<event, applicationExit, events, childVars, stopVars, arbitration,
                   arbitrationLock, status, latestRejection, gate, defected>>

\* The child has ended: next event, failure of the attempt, or interruption.
Join(l) ==
    /\ lane[l] = "joining" /\ child[l] = "ended"
    /\ \/ /\ settlement[l] = "success" /\ applicationExit[l] = "success"
          /\ lane' = [lane EXCEPT ![l] = "idle"]
          /\ UNCHANGED <<supervisorVars, arbitration>>
       \/ /\ settlement[l] \in {"CancellationWon", "interrupted"}
          /\ LaneEnds(l, "interrupted")
          /\ UNCHANGED arbitration
       \/ /\ settlement[l] \in {"success", "failure"}
          /\ settlement[l] = "failure" \/ applicationExit[l] # "success"
          /\ \E exit \in {"failed", "interrupted"} : TerminatesAs(exit) /\ LaneEnds(l, exit)
    /\ UNCHANGED <<event, applicationExit, masked, events, childVars, stopVars, arbitrationLock,
                   status, latestRejection, gate, fatal, defected>>

\* A lane is interrupted where it can be; its child goes on in the scope.
LaneInterrupted(l) ==
    /\ Interrupted
    /\ lane[l] \in {"idle", "queued"} \/ (lane[l] = "joining" /\ ~masked[l])
    /\ LaneEnds(l, "interrupted")
    /\ UNCHANGED <<event, applicationExit, masked, events, childVars, stopVars, arbitration,
                   arbitrationLock, status, latestRejection, gate, fatal, defected>>

-----------------------------------------------------------------------------
(* The settlement child *)

ChildEnds(l, exit) ==
    /\ child' = [child EXCEPT ![l] = "ended"]
    /\ settlement' = [settlement EXCEPT ![l] = exit]

unchangedByChild == <<supervisorVars, laneVars, stopVars, arbitration, status, latestRejection,
                      gate, fatal, defected>>

\* The callback returns its effect, or throws; the handoff is completed.
Callback(l) ==
    /\ child[l] = "callback"
    /\ callbacks' = [callbacks EXCEPT ![l] = @ + 1]
    /\ \E next \in {"captured", "refused"} : child' = [child EXCEPT ![l] = next]
    /\ UNCHANGED <<unchangedByChild, childInterrupted, settlement, arbitrationLock>>

\* The callback threw: that is the exit, unless the attempt was cancelled.
Refuse(l) ==
    /\ child[l] = "refused" /\ ~childInterrupted[l]
    /\ ChildEnds(l, IF arbitration = "CancellationWon" THEN "CancellationWon" ELSE "failure")
    /\ UNCHANGED <<unchangedByChild, childInterrupted, callbacks, arbitrationLock>>

\* Mutant: promotion does not exclude cancellation.
PromoteWithoutLock(l) ==
    /\ child[l] = "captured" /\ ~childInterrupted[l]
    /\ IF arbitration = "CancellationWon"
       THEN ChildEnds(l, "CancellationWon")
       ELSE child' = [child EXCEPT ![l] = "promoting"] /\ UNCHANGED settlement
    /\ UNCHANGED <<unchangedByChild, childInterrupted, callbacks, arbitrationLock>>

\* promoteReturnedEffect, the check under the lock
BeginPromotion(l) ==
    /\ child[l] = "captured" /\ ~childInterrupted[l]
    /\ arbitrationLock = NoLane
    /\ IF arbitration = "CancellationWon"
       THEN ChildEnds(l, "CancellationWon") /\ UNCHANGED arbitrationLock
       ELSE /\ arbitrationLock' = l
            /\ child' = [child EXCEPT ![l] = "promoting"]
            /\ UNCHANGED settlement
    /\ UNCHANGED <<unchangedByChild, childInterrupted, callbacks>>

\* The phase becomes ReturnedEffect, the lock is released, the effect starts.
Promote(l) ==
    /\ child[l] = "promoting"
    /\ arbitrationLock' = NoLane
    /\ child' = [child EXCEPT ![l] = "running"]
    /\ UNCHANGED <<unchangedByChild, childInterrupted, settlement, callbacks>>

\* The adapter's effect ends; it may also never do.
EffectEnds(l) ==
    /\ child[l] = "running" /\ ~childInterrupted[l]
    /\ \E exit \in {"success", "failure"} : ChildEnds(l, exit)
    /\ UNCHANGED <<unchangedByChild, childInterrupted, callbacks, arbitrationLock>>

\* Outside the callback and the promotion a child can be interrupted.
ChildInterrupted(l) ==
    /\ childInterrupted[l]
    /\ child[l] \in {"captured", "refused", "running"}
    /\ ChildEnds(l, "interrupted")
    /\ UNCHANGED <<unchangedByChild, childInterrupted, callbacks, arbitrationLock>>

-----------------------------------------------------------------------------
(* stop() *)

unchangedByStop == <<supervisor, attempt, outcome, laneVars, child, settlement, callbacks,
                     arbitrationLock, latestRejection, gate, fatal, defected>>

StopBegins ==
    /\ stop = "idle"
    /\ closing' = TRUE
    /\ stop' = "cancelling"
    /\ UNCHANGED <<unchangedByStop, supervisorInterrupted, childInterrupted, arbitration, status>>

\* Mutant: the running effects of a cancelled attempt are not interrupted.
CancelOnlyClaims ==
    /\ stop = "cancelling" /\ arbitrationLock = NoLane
    /\ arbitration' = Cancelled(arbitration)
    /\ stop' = "interrupting"
    /\ UNCHANGED <<unchangedByStop, supervisorInterrupted, closing, childInterrupted, status>>

\* cancel, under the lock: the effects already promoted are interrupted.
CancelActiveAttempt ==
    /\ stop = "cancelling" /\ arbitrationLock = NoLane
    /\ arbitration' = Cancelled(arbitration)
    /\ childInterrupted' = [l \in Lanes |-> childInterrupted[l] \/ child[l] = "running"]
    /\ stop' = "interrupting"
    /\ UNCHANGED <<unchangedByStop, supervisorInterrupted, closing, status>>

InterruptSupervisor ==
    /\ stop = "interrupting"
    /\ supervisorInterrupted' = TRUE
    /\ stop' = "publishing"
    /\ UNCHANGED <<unchangedByStop, closing, childInterrupted, arbitration, status>>

PublishStopping ==
    /\ stop = "publishing" /\ gate = NoLane
    /\ Publishes("Stopping")
    /\ stop' = "awaiting"
    /\ UNCHANGED <<unchangedByStop, supervisorInterrupted, closing, childInterrupted, arbitration>>

StopReturned ==
    /\ stop = "awaiting"
    /\ supervisor \in {"done", "exhausted"}
    /\ stop' = "stopped"
    /\ UNCHANGED <<unchangedByStop, supervisorInterrupted, closing, childInterrupted, arbitration,
                   status>>

-----------------------------------------------------------------------------
SupervisorStep ==
    BeginAttempt \/ BecomeReady \/ ObserveInterruption \/ BeginClosingScope \/ WaitToRetry
        \/ Exhaust \/ SupervisorEnds
EnvironmentStep == Acquire \/ AttemptFails \/ Retry
LaneStep(l) == TakeGate(l) \/ Apply(l) \/ ObserveHandoff(l) \/ Join(l)
                   \/ LaneInterrupted(l)
ChildStep(l) == Callback(l) \/ Refuse(l) \/ BeginPromotion(l) \/ Promote(l) \/ ChildInterrupted(l)
StopStep == CancelActiveAttempt \/ InterruptSupervisor \/ PublishStopping \/ StopReturned

Next ==
    \/ SupervisorStep \/ EnvironmentStep \/ StopBegins \/ StopStep
    \/ \E l \in Lanes : Receive(l) \/ StreamEnds(l) \/ LaneStep(l) \/ ChildStep(l) \/ EffectEnds(l)

Spec == Init /\ [][Next]_vars

\* Fibers that can run are run, and the engine and callbacks return.  Adapters
\* owe nothing: acquisition, streams and settlement effects may hang.
FairSpec ==
    /\ Spec
    /\ WF_vars(SupervisorStep)
    /\ WF_vars(StopStep)
    /\ \A l \in Lanes : WF_vars(LaneStep(l)) /\ WF_vars(ChildStep(l))

-----------------------------------------------------------------------------
(* Properties *)

\* A settlement callback runs at most once for an event, and a lane whose event
\* was applied does not go on before it ran, whatever is interrupted meanwhile
\* (applyWithSettlement waits for the handoff in its uninterruptible region).
SettledOnce ==
    \A l \in Lanes :
        /\ callbacks[l] <= 1
        /\ applicationExit[l] # "none" /\ lane[l] \in {"idle", "joining", "ended"}
              => callbacks[l] = 1

\* Once an attempt is cancelled no settlement effect of it runs that is not
\* being interrupted: promotion and cancellation share the arbitration's lock.
CancelledEffectsStop ==
    arbitration = "CancellationWon" =>
        \A l \in Lanes : child[l] = "running" => childInterrupted[l]

\* An attempt that is reported and retried won its ordinary termination, and
\* one that ended by interruption of its own was cancelled by stop(); so a stop
\* is never fatal to the runtime, in whichever order lanes, children and
\* supervisor notice it (supervisedRun and onFatal).
OneWinner ==
    /\ outcome = "failed" => arbitration = "OrdinaryTerminationWon"
    /\ outcome = "interrupted" /\ ~supervisorInterrupted
          => closing /\ arbitration = "CancellationWon"
    /\ fatal => defected

\* stop() returns even though settlement effects may never end: no lane waits
\* uninterruptibly for an effect that nobody interrupts.
StopReturns == closing ~> stop = "stopped"

=============================================================================
