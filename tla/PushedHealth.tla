----------------------------- MODULE PushedHealth -----------------------------
(***************************************************************************)
(* The health that the runtime core pushes (pushed-health.ts, and the      *)
(* coalescing reader and the refresh scheduler of health.ts).  A change    *)
(* requests a refresh and thereby claims an epoch; a scheduler reads and   *)
(* installs the health at a bounded cadence; a new subscriber and an       *)
(* explicit refresh read it at once.  Reads of one epoch share one         *)
(* reading, reads of several epochs run at the same time, and what is read *)
(* outside the lock is installed, published to listeners and pushed into   *)
(* bounded queues while the hub may be closing.                            *)
(*                                                                         *)
(* Health is the set of the changes a reading has seen.                    *)
(***************************************************************************)
EXTENDS Integers, FiniteSets

CONSTANTS MaxRequests,  \* bound on changes; each requests one refresh
          Subscribers,  \* health subscriptions
          Refreshers,   \* callers of refresh
          Drain,        \* the scheduler's fiber
          Closer,       \* the caller of close
          NoReader,
          MaxThrows     \* bound on listeners that throw

ASSUME ProcessesAreDistinct ==
    /\ Drain \notin Subscribers \union Refreshers /\ Subscribers \intersect Refreshers = {}
    /\ {Closer, NoReader} \intersect (Subscribers \union Refreshers \union {Drain}) = {}
ASSUME BoundOnThrows == MaxThrows \in Nat
ASSUME BoundOnRequests == MaxRequests \in Nat

Requests == 1..MaxRequests     \* in the order of the changes
Readers == Subscribers \union Refreshers \union {Drain}
Flushers == Subscribers \union {Drain}

VARIABLES
    changed,                \* changes that were made
    request, epochOf,       \* progress of each request, and its epoch
    requestedRefreshEpoch, installedRefreshEpoch,
    installed,              \* installedHealth
    published,              \* the atom that listeners see
    hubClosed, closer,      \* and progress of close()
    scheduled, pending,     \* of the scheduler
    schedulerClosed,
    activeRead,             \* reader whose read others join, or Nobody
    reader,                 \* progress of each reader
    epoch, reading,         \* of its read
    throws,
    subscription,           \* state of each subscription
    finisher,               \* who claimed it
    asked, stale            \* history: requests before a call; calls whose
                            \* answer does not show them

requestVars == <<changed, request, epochOf, requestedRefreshEpoch>>
installedVars == <<installedRefreshEpoch, installed>>
schedulerVars == <<scheduled, pending, schedulerClosed>>
readVars == <<activeRead, epoch, reading>>
queueVars == <<subscription, finisher>>
historyVars == <<asked, stale>>
hubVars == <<hubClosed, closer>>
healthVars == <<requestVars, installedVars, published, hubVars, schedulerVars, reader, readVars,
          throws, queueVars, historyVars>>

Reading == {"joining", "reading", "installing", "publishing", "finishing", "failing"}
ReaderStages == Reading \union {"idle", "sleeping", "flushing", "refreshing", "flushed",
                                "failed", "done"}
Health == [seen : SUBSET Requests, stopping : BOOLEAN]

HealthTypeOK ==
    /\ changed \subseteq Requests
    /\ request \in [Requests -> {"none", "changed", "claimed", "done"}]
    /\ epochOf \in [Requests -> Nat]
    /\ requestedRefreshEpoch \in Nat /\ installedRefreshEpoch \in Nat
    /\ installed \in Health /\ published \in Health
    /\ hubClosed \in BOOLEAN
    /\ closer \in {"open", "interrupting", "claiming", "publishing", "closed"}
    /\ scheduled \in BOOLEAN /\ pending \in BOOLEAN /\ schedulerClosed \in BOOLEAN
    /\ activeRead \in Readers \union {NoReader}
    /\ reader \in [Readers -> ReaderStages]
    /\ epoch \in [Readers -> Nat] /\ reading \in [Readers -> SUBSET Requests]
    /\ throws \in 0..MaxThrows
    /\ subscription \in [Subscribers -> {"none", "active", "claimed", "ended"}]
    /\ finisher \in [Subscribers -> Readers \union {Closer, NoReader}]
    /\ asked \in [Readers -> SUBSET Requests] /\ stale \subseteq Readers

InitHealth ==
    /\ changed = {} /\ request = [r \in Requests |-> "none"] /\ epochOf = [r \in Requests |-> 0]
    /\ requestedRefreshEpoch = 0 /\ installedRefreshEpoch = 0
    /\ installed = [seen |-> {}, stopping |-> FALSE] /\ published = installed
    /\ hubClosed = FALSE /\ closer = "open"
    /\ scheduled = FALSE /\ pending = FALSE /\ schedulerClosed = FALSE
    /\ activeRead = NoReader /\ reader = [p \in Readers |-> "idle"]
    /\ epoch = [p \in Readers |-> 0] /\ reading = [p \in Readers |-> {}]
    /\ throws = 0
    /\ subscription = [s \in Subscribers |-> "none"]
    /\ finisher = [s \in Subscribers |-> NoReader]
    /\ asked = [p \in Readers |-> {}] /\ stale = {}

Moves(p, stage) == reader' = [reader EXCEPT ![p] = stage]
Requested == {r \in Requests : epochOf[r] > 0}

-----------------------------------------------------------------------------
(* A change, and its requestRefresh: neither is interrupted in between. *)

\* The engine is closed before the hub: nothing changes any more.
Change(r) ==
    /\ closer = "open"
    /\ request[r] = "none" /\ (r > 1 => request[r - 1] # "none")
    /\ changed' = changed \union {r}
    /\ request' = [request EXCEPT ![r] = "changed"]
    /\ UNCHANGED <<epochOf, requestedRefreshEpoch, installedVars, published, hubVars,
                   schedulerVars, reader, readVars, throws, queueVars, historyVars>>

ClaimEpoch(r) ==
    /\ request[r] = "changed"
    /\ IF hubClosed
       THEN /\ request' = [request EXCEPT ![r] = "done"]
            /\ UNCHANGED <<epochOf, requestedRefreshEpoch>>
       ELSE /\ request' = [request EXCEPT ![r] = "claimed"]
            /\ requestedRefreshEpoch' = requestedRefreshEpoch + 1
            /\ epochOf' = [epochOf EXCEPT ![r] = requestedRefreshEpoch + 1]
    /\ UNCHANGED <<changed, installedVars, published, hubVars, schedulerVars, reader, readVars,
                   throws, queueVars, historyVars>>

\* request of the scheduler: remembered by the fiber that runs, or starts one,
\* which begins with a round.
Schedule(r) ==
    /\ request[r] = "claimed"
    /\ request' = [request EXCEPT ![r] = "done"]
    /\ IF schedulerClosed THEN UNCHANGED <<scheduled, pending, reader>>
       ELSE IF scheduled THEN pending' = TRUE /\ UNCHANGED <<scheduled, reader>>
       ELSE scheduled' = TRUE /\ pending' = FALSE /\ Moves(Drain, "sleeping")
    /\ UNCHANGED <<changed, epochOf, requestedRefreshEpoch, installedVars, published, hubVars,
                   schedulerClosed, readVars, throws, queueVars, historyVars>>

-----------------------------------------------------------------------------
(* drainRefreshes *)

unchangedByDrain == <<requestVars, installedVars, published, hubVars, schedulerClosed, readVars,
                      throws, queueVars, historyVars>>

Awake ==
    /\ reader[Drain] = "sleeping"
    /\ Moves(Drain, "flushing")
    /\ UNCHANGED <<unchangedByDrain, scheduled, pending>>

\* Mutant: a request that came during the refresh is taken for served.
NeverAgain == FALSE

RefreshesAgain == pending

\* The last request was served, or the next round begins.
EndRound ==
    /\ reader[Drain] = "flushed"
    /\ IF RefreshesAgain THEN Moves(Drain, "sleeping") /\ pending' = FALSE /\ UNCHANGED scheduled
       ELSE Moves(Drain, "idle") /\ scheduled' = FALSE /\ UNCHANGED pending
    /\ UNCHANGED unchangedByDrain

\* clearActiveRun, after a refresh that failed: what is pending is forgotten.
ClearActiveRun ==
    /\ reader[Drain] = "failed"
    /\ Moves(Drain, "idle")
    /\ scheduled' = FALSE /\ pending' = FALSE
    /\ UNCHANGED unchangedByDrain

DrainStep == Awake \/ EndRound \/ ClearActiveRun

-----------------------------------------------------------------------------
(* refresh, flushPendingRefresh and the coalescing reader *)

unchangedByReader == <<requestVars, hubVars, schedulerVars>>
unchangedByDecision == <<installedVars, published, throws, queueVars>>

CallRefresh(p) ==
    /\ p \in Refreshers /\ reader[p] = "idle"
    /\ asked' = [asked EXCEPT ![p] = Requested]
    /\ Moves(p, "refreshing")
    /\ UNCHANGED <<unchangedByReader, unchangedByDecision, readVars, stale>>

FlushPendingRefresh(p) ==
    /\ p \in Flushers /\ reader[p] = "flushing"
    /\ Moves(p, IF ~hubClosed /\ installedRefreshEpoch # requestedRefreshEpoch
                THEN "refreshing" ELSE "flushed")
    /\ UNCHANGED <<unchangedByReader, unchangedByDecision, readVars, historyVars>>

EndsAs(p) == IF p \in Flushers THEN "flushed" ELSE "done"

\* A call ends with this answer; one that the closing hub answers promises nothing.
Answer(callers, seen) ==
    /\ stale' = stale \union {p \in callers : ~hubClosed /\ ~(asked[p] \subseteq seen)}
    /\ asked' = [p \in Readers |-> IF p \in callers THEN {} ELSE asked[p]]

\* Mutant: an active read is joined whatever its epoch.
JoinsAny == activeRead # NoReader

Joins == activeRead # NoReader /\ epoch[activeRead] = requestedRefreshEpoch

\* The check that the hub is open, and the decision of the reader.  A follower
\* has the epoch of its leader and needs no read of its own.
Decide(p) ==
    /\ reader[p] = "refreshing"
    /\ IF hubClosed THEN Moves(p, EndsAs(p)) /\ UNCHANGED <<activeRead, epoch>>
       ELSE IF Joins THEN /\ Moves(p, "joining")
                          /\ epoch' = [epoch EXCEPT ![p] = epoch[activeRead]]
                          /\ UNCHANGED activeRead
       ELSE /\ Moves(p, "reading")
            /\ epoch' = [epoch EXCEPT ![p] = requestedRefreshEpoch]
            /\ activeRead' = p
    /\ UNCHANGED <<unchangedByReader, unchangedByDecision, reading, historyVars>>

Read(p) ==
    /\ reader[p] = "reading"
    /\ reading' = [reading EXCEPT ![p] = changed]
    /\ Moves(p, "installing")
    /\ UNCHANGED <<unchangedByReader, unchangedByDecision, activeRead, epoch, historyVars>>

\* Mutants: a late reading replaces a newer one; a closed hub installs it.
OnlyClosedIsStale(e) == hubClosed
OnlyOlderIsStale(e) == e < installedRefreshEpoch

IsStale(e) == hubClosed \/ e < installedRefreshEpoch

Active == {s \in Subscribers : subscription[s] = "active"}

\* Who takes a subscription out of the active ones is the one who ends it.
Claim(claimed, p) ==
    /\ subscription' = [s \in Subscribers |-> IF s \in claimed THEN "claimed" ELSE subscription[s]]
    /\ finisher' = [s \in Subscribers |-> IF s \in claimed THEN p ELSE finisher[s]]

Followers(p) == {q \in Readers : reader[q] = "joining" /\ epoch[q] = epoch[p]}

\* completeActiveRead hands the answer, or the failure, to the followers.
Completes(p, failed, seen) ==
    LET answered == Followers(p) \union {p}
    IN  /\ reader' = [q \in Readers |->
                         IF q \notin answered THEN reader[q]
                         ELSE IF ~failed THEN EndsAs(q)
                         ELSE IF q = Drain THEN "failed" ELSE "done"]
        /\ IF failed THEN UNCHANGED historyVars ELSE Answer(answered \ Flushers, seen)
        /\ epoch' = [q \in Readers |-> IF q \in answered THEN 0 ELSE epoch[q]]
        /\ activeRead' = IF activeRead = p THEN NoReader ELSE activeRead

\* installHealth under the lock: every active subscription gets the snapshot, or
\* is claimed for an end by backpressure if its consumer left the queue full.
Install(p) ==
    /\ reader[p] = "installing" /\ ~IsStale(epoch[p])
    /\ installedRefreshEpoch' = epoch[p]
    /\ installed' = [seen |-> reading[p], stopping |-> FALSE]
    /\ \E full \in SUBSET Active : Claim(full, p)
    /\ reading' = [reading EXCEPT ![p] = {}]
    /\ Moves(p, "publishing")
    /\ UNCHANGED <<unchangedByReader, published, activeRead, epoch, throws, historyVars>>

\* A stale reading is dropped, and answered with what is installed.  Nobody joins
\* the read between the two: its epoch is not the requested one.
Drop(p) ==
    /\ reader[p] = "installing" /\ IsStale(epoch[p])
    /\ reading' = [reading EXCEPT ![p] = {}]
    /\ Completes(p, FALSE, installed.seen)
    /\ UNCHANGED <<unchangedByReader, unchangedByDecision>>

Owes(p) == {s \in Subscribers : subscription[s] = "claimed" /\ finisher[s] = p}

\* The queues that a process claimed are cleared, told and ended.
Finish(p) ==
    /\ subscription' = [s \in Subscribers |-> IF s \in Owes(p) THEN "ended" ELSE subscription[s]]
    /\ finisher' = [s \in Subscribers |-> IF s \in Owes(p) THEN NoReader ELSE finisher[s]]

\* runAllFinalizers, outside the lock: the listeners run, and may throw, and what
\* overflowed ends all the same.
PublishHealth(p) ==
    /\ reader[p] = "publishing"
    /\ published' = installed
    /\ Finish(p)
    /\ \/ Moves(p, "finishing") /\ UNCHANGED throws
       \/ Moves(p, "failing") /\ throws < MaxThrows /\ throws' = throws + 1
    /\ UNCHANGED <<unchangedByReader, installedVars, readVars, historyVars>>

\* The answer is health.value as the listeners left it.
Complete(p) ==
    /\ reader[p] \in {"finishing", "failing"}
    /\ Completes(p, reader[p] = "failing", published.seen)
    /\ UNCHANGED <<unchangedByReader, unchangedByDecision, reading>>

ReadStep(p) ==
    \/ FlushPendingRefresh(p) \/ Decide(p) \/ Read(p) \/ Install(p) \/ Drop(p)
    \/ PublishHealth(p) \/ Complete(p)

-----------------------------------------------------------------------------
(* Subscriptions *)

SubscribeHealth(s) ==
    /\ s \in Subscribers /\ reader[s] = "idle"
    /\ asked' = [asked EXCEPT ![s] = Requested]
    /\ Moves(s, "flushing")
    /\ UNCHANGED <<unchangedByReader, unchangedByDecision, readVars, stale>>

\* The first snapshot is the installed one.
Register(s) ==
    /\ s \in Subscribers /\ reader[s] = "flushed"
    /\ Moves(s, "done")
    /\ Answer({s}, installed.seen)
    /\ IF hubClosed THEN UNCHANGED subscription
       ELSE subscription' = [subscription EXCEPT ![s] = "active"]
    /\ UNCHANGED <<unchangedByReader, installedVars, published, readVars, throws, finisher>>

\* Interrupted before it is registered; a read that others join goes on.
Abandon(s) ==
    /\ s \in Subscribers /\ reader[s] \in {"flushing", "refreshing", "joining", "flushed"}
    /\ Moves(s, "done")
    /\ epoch' = [epoch EXCEPT ![s] = 0] /\ asked' = [asked EXCEPT ![s] = {}]
    /\ UNCHANGED <<unchangedByReader, unchangedByDecision, activeRead, reading, stale>>

\* closeSubscription: it claims what is still active.
CloseSubscription(s) ==
    /\ s \in Active
    /\ Claim({s}, s)
    /\ UNCHANGED <<unchangedByReader, reader, installedVars, published, readVars, throws, historyVars>>

FinishNormal(s) ==
    /\ s \in Owes(s) /\ reader[s] = "done"
    /\ Finish(s)
    /\ UNCHANGED <<unchangedByReader, reader, installedVars, published, readVars, throws, historyVars>>

SubscriberStep(s) == Register(s) \/ FinishNormal(s)

-----------------------------------------------------------------------------
(* close: first the scheduler, then the subscriptions *)

unchangedByCloser == <<requestVars, installedRefreshEpoch, readVars, throws, historyVars>>

CloseScheduler ==
    /\ closer = "open"
    /\ schedulerClosed' = TRUE /\ scheduled' = FALSE /\ pending' = FALSE
    /\ closer' = IF scheduled THEN "interrupting" ELSE "claiming"
    /\ UNCHANGED <<unchangedByCloser, installed, published, hubClosed, reader, queueVars>>

\* The fiber is not interrupted while it reads for others.
DrainInterrupted ==
    /\ closer = "interrupting"
    /\ reader[Drain] \notin Reading \ {"joining"}
    /\ reader' = [reader EXCEPT ![Drain] = "idle"]
    /\ epoch' = [epoch EXCEPT ![Drain] = 0]
    /\ closer' = "claiming"
    /\ UNCHANGED <<requestVars, installedRefreshEpoch, activeRead, reading, throws, historyVars,
                   installed, published, hubClosed, schedulerVars, queueVars>>

ClaimSubscriptions ==
    /\ closer = "claiming"
    /\ hubClosed' = TRUE
    /\ installed' = [installed EXCEPT !.stopping = TRUE]
    /\ Claim(Active, Closer)
    /\ closer' = "publishing"
    /\ UNCHANGED <<unchangedByCloser, published, schedulerVars, reader>>

TellStopping ==
    /\ closer = "publishing"
    /\ published' = installed
    /\ Finish(Closer)
    /\ closer' = "closed"
    /\ UNCHANGED <<unchangedByCloser, installed, hubClosed, schedulerVars, reader>>

CloserStep == DrainInterrupted \/ ClaimSubscriptions \/ TellStopping

-----------------------------------------------------------------------------
RequestStep(r) == ClaimEpoch(r) \/ Schedule(r)

NextHealth ==
    \/ \E r \in Requests : Change(r) \/ ClaimEpoch(r) \/ Schedule(r)
    \/ Awake \/ EndRound \/ ClearActiveRun
    \/ \E p \in Readers :
          \/ CallRefresh(p) \/ FlushPendingRefresh(p) \/ Decide(p) \/ Read(p) \/ Install(p)
          \/ Drop(p) \/ PublishHealth(p) \/ Complete(p)
    \/ \E s \in Subscribers :
          SubscribeHealth(s) \/ Register(s) \/ Abandon(s) \/ CloseSubscription(s) \/ FinishNormal(s)
    \/ CloseScheduler \/ DrainInterrupted \/ ClaimSubscriptions \/ TellStopping

SpecHealth == InitHealth /\ [][NextHealth]_healthVars

\* Fibers that can run do run, reads and the cadence end; nobody has to make a
\* change, subscribe, read its queue or close.
FairSpecHealth ==
    /\ SpecHealth
    /\ \A r \in Requests : WF_healthVars(RequestStep(r))
    /\ WF_healthVars(DrainStep)
    /\ \A p \in Readers : WF_healthVars(ReadStep(p))
    /\ \A s \in Subscribers : WF_healthVars(SubscriberStep(s))
    /\ WF_healthVars(CloserStep)

-----------------------------------------------------------------------------
(* Properties *)

\* A refresh, and the first snapshot of a subscription, show every change that
\* was requested before the call, although readings are shared, run side by
\* side and are installed in any order (refresh, flushPendingRefresh,
\* installHealth and makeCoalescedHealthReader).
AnswersAreFresh == stale = {}

\* A listener may throw, or has thrown and nobody has got over it yet.
Failing == \/ throws < MaxThrows
           \/ reader[Drain] = "failed" \/ \E p \in Readers : reader[p] = "failing"

\* Once listeners no longer throw, every request is served or the hub closes.
\* A listener that throws ends the scheduler's fiber with what is pending
\* (clearActiveRun), which the next request recovers from.
RequestsServed ==
    \A r \in Requests :
        request[r] = "claimed" /\ ~Failing ~>
            installedRefreshEpoch >= epochOf[r] \/ schedulerClosed

\* Once close() has returned the published health is stopping for good, and no
\* subscription is left open: what is still to end was overflowing or was closed
\* by its owner, who is about to end it, whatever reads were in flight.
CloseIsFinal ==
    closer = "closed" =>
        /\ published.stopping
        /\ \A s \in Subscribers :
              \/ subscription[s] \in {"none", "ended"}
              \/ subscription[s] = "claimed" /\ finisher[s] # Closer
                    /\ (finisher[s] = s \/ reader[finisher[s]] = "publishing")

=============================================================================
