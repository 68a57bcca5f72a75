--------------------------- MODULE LiveTopic_proofs ---------------------------
(***************************************************************************)
(* Proofs about LiveTopic: the types, who holds which semaphore at which   *)
(* stage, the health ledger and the registry; that no update is lost; what *)
(* the event queues hold and what a consumer makes of them; the theorems.  *)
(* Each lemma "...Stay..." says that every step preserves one part of the  *)
(* inductive invariant TopicInv.                                           *)
(***************************************************************************)
EXTENDS LiveTopic, FiniteSetTheorems, SequenceTheorems, WellFoundedInduction, TLAPS

-----------------------------------------------------------------------------
(* The mutation barrier, whose steps the topic takes: for any finite number of *)
(* mutations and any number of lifecycle transactions, its types, its counter,  *)
(* its idle latch, and that it implements SharedExclusive.                      *)

\* The permit is held from the closing of the gate to its release.
PermitIsHeld ==
    \A t \in Transitions :
        lifecycle[t] \in {"draining", "exclusive", "reopening", "releasing"} =>
            lifecycleSemaphore = t

\* The gate stays closed until it is reopened.
GateIsClosed ==
    \A t \in Transitions :
        lifecycle[t] \in {"draining", "exclusive", "reopening"} => ~admissionGate

ExclusiveIsAlone ==
    \A t \in Transitions : lifecycle[t] = "exclusive" => Active = {}

BarrierInv ==
    BarrierTypeOK /\ IdleIsExact /\ PermitIsHeld /\ GateIsClosed /\ ExclusiveIsAlone

-----------------------------------------------------------------------------
\* The admitted mutations are finitely many, so they can be counted.
LEMMA ActiveIsFinite == IsFiniteSet(Active) /\ Cardinality(Active) \in Nat
<1>1. Active \in SUBSET Mutations
  BY DEF Active
<1>. QED
  BY <1>1, FiniteMutations, FS_Subset, FS_CardinalityType

\* A mutation that joins the admitted ones, or leaves them, is counted once.
LEMMA ActiveCounts ==
    ASSUME NEW m
    PROVE  /\ m \notin Active => Cardinality(Active \union {m}) = Cardinality(Active) + 1
           /\ m \in Active => Cardinality(Active \ {m}) = Cardinality(Active) - 1
           /\ Cardinality(Active) = 0 <=> Active = {}
           /\ Cardinality(Active \ {m}) = 0 <=> Active \ {m} = {}
<1>1. IsFiniteSet(Active) /\ IsFiniteSet(Active \ {m})
  BY ActiveIsFinite, FS_RemoveElement
<1>. QED
  BY <1>1, FS_AddElement, FS_RemoveElement, FS_EmptySet

LEMMA InitEstablishesInv == BarrierInit => BarrierInv
<1>. SUFFICES ASSUME BarrierInit PROVE BarrierInv
  OBVIOUS
<1>1. BarrierTypeOK
  BY DEF BarrierInit, BarrierTypeOK, CallStates, LifecycleStates
<1>2. Active = {}
  BY DEF BarrierInit, Active
<1>3. IdleIsExact
  BY <1>2, FS_EmptySet DEF BarrierInit, IdleIsExact
<1>4. PermitIsHeld /\ GateIsClosed /\ ExclusiveIsAlone
  BY DEF BarrierInit, PermitIsHeld, GateIsClosed, ExclusiveIsAlone
<1>. QED
  BY <1>1, <1>3, <1>4 DEF BarrierInv

-----------------------------------------------------------------------------
(* Steps that leave the admitted mutations alone *)

\* A step of a mutation that neither admits nor releases it.
LEMMA WaitingPreservesInv ==
    ASSUME BarrierInv, NEW m \in Mutations,
           CallMutation(m) \/ Refuse(m) \/ InterruptMutation(m)
    PROVE  BarrierInv' /\ Active' = Active
<1>. USE DEF CallMutation, Refuse, InterruptMutation
<1>1. BarrierTypeOK'
  BY DEF BarrierInv, BarrierTypeOK, CallStates
<1>2. Active' = Active
  BY DEF BarrierInv, BarrierTypeOK, Active
<1>3. (IdleIsExact /\ PermitIsHeld /\ GateIsClosed /\ ExclusiveIsAlone)'
  BY <1>2 DEF BarrierInv, IdleIsExact, PermitIsHeld, GateIsClosed, ExclusiveIsAlone
<1>. QED
  BY <1>1, <1>2, <1>3 DEF BarrierInv

LEMMA AdmitPreservesInv ==
    ASSUME BarrierInv, NEW m \in Mutations, Admit(m)
    PROVE  BarrierInv' /\ Active' = Active \union {m}
<1>1. BarrierTypeOK'
  <2>1. idle' \in BOOLEAN
    <3>1. CASE activeTransactions = 0
      BY <3>1 DEF Admit
    <3>2. CASE activeTransactions # 0
      BY <3>2, Zenon DEF Admit, BarrierInv, BarrierTypeOK
    <3>. QED
      BY <3>1, <3>2
  <2>2. call' \in [Mutations -> CallStates] /\ activeTransactions' \in Nat
    BY DEF BarrierInv, BarrierTypeOK, CallStates, Admit
  <2>3. UNCHANGED <<lifecycle, lifecycleSemaphore, admissionGate>>
    BY DEF Admit
  <2>. QED
    BY <2>1, <2>2, <2>3, Zenon DEF BarrierInv, BarrierTypeOK
<1>2. m \notin Active /\ Active' = Active \union {m}
  BY DEF BarrierInv, BarrierTypeOK, Active, Admit
<1>3. IdleIsExact'
  <2>1. activeTransactions' = Cardinality(Active')
    BY <1>2, ActiveCounts DEF Admit, BarrierInv, IdleIsExact
  <2>2. idle' <=> (Active' = {})
    BY <1>2, ActiveCounts DEF Admit, BarrierInv, IdleIsExact
  <2>. QED
    BY <2>1, <2>2 DEF IdleIsExact
<1>4. (PermitIsHeld /\ GateIsClosed)'
  BY DEF Admit, BarrierInv, PermitIsHeld, GateIsClosed
<1>5. ExclusiveIsAlone'
  BY DEF Admit, BarrierInv, GateIsClosed, ExclusiveIsAlone
<1>. QED
  BY <1>1, <1>2, <1>3, <1>4, <1>5 DEF BarrierInv

LEMMA LeavePreservesInv ==
    ASSUME BarrierInv, NEW m \in Mutations, LeaveMutation(m)
    PROVE  BarrierInv' /\ m \in Active /\ Active' = Active \ {m}
<1>1. m \in Active /\ Active' = Active \ {m}
  BY DEF BarrierInv, BarrierTypeOK, Active, LeaveMutation
<1>2. activeTransactions' = Cardinality(Active')
  BY <1>1, ActiveCounts DEF LeaveMutation, BarrierInv, IdleIsExact
<1>3. Cardinality(Active') \in Nat /\ (Cardinality(Active') = 0 <=> Active' = {})
  <2>1. IsFiniteSet(Active \ {m})
    BY ActiveIsFinite, FS_RemoveElement
  <2>. QED
    BY <1>1, <2>1, ActiveCounts, FS_CardinalityType
<1>4. BarrierTypeOK'
  BY <1>2, <1>3 DEF BarrierInv, BarrierTypeOK, CallStates, LeaveMutation
<1>5. IdleIsExact'
  <2>1. idle' <=> (Active' = {})
    BY <1>1, <1>2, <1>3 DEF LeaveMutation, BarrierInv, IdleIsExact
  <2>. QED
    BY <1>2, <2>1 DEF IdleIsExact
<1>6. (PermitIsHeld /\ GateIsClosed)'
  BY DEF LeaveMutation, BarrierInv, PermitIsHeld, GateIsClosed
<1>7. ExclusiveIsAlone'
  BY <1>1 DEF LeaveMutation, BarrierInv, ExclusiveIsAlone
<1>. QED
  BY <1>1, <1>4, <1>5, <1>6, <1>7 DEF BarrierInv

-----------------------------------------------------------------------------
(* Steps of a lifecycle transaction *)

LEMMA LifecycleKeepsActive ==
    ASSUME BarrierInv, NEW t \in Transitions,
           CallLifecycle(t) \/ BarrierLifecycle(t) \/ InterruptLifecycle(t)
    PROVE  Active' = Active /\ BarrierTypeOK' /\ IdleIsExact'
<1>. USE DEF BarrierLifecycle, CallLifecycle, CloseGate, BeginExclusive, EndExclusive,
             InterruptLifecycle, OpenGate, ReleasePermit
<1>1. Active' = Active
  BY DEF BarrierInv, BarrierTypeOK, Active
<1>2. BarrierTypeOK'
  <2>1. lifecycle' \in [Transitions -> LifecycleStates]
    BY DEF BarrierInv, BarrierTypeOK, LifecycleStates
  <2>2. call' \in [Mutations -> CallStates]
    BY DEF BarrierInv, BarrierTypeOK, CallStates
  <2>. QED
    BY <2>1, <2>2 DEF BarrierInv, BarrierTypeOK
<1>3. IdleIsExact'
  BY <1>1 DEF BarrierInv, IdleIsExact
<1>. QED
  BY <1>1, <1>2, <1>3

LEMMA LifecyclePreservesInv ==
    ASSUME BarrierInv, NEW t \in Transitions,
           CallLifecycle(t) \/ BarrierLifecycle(t) \/ InterruptLifecycle(t)
    PROVE  BarrierInv' /\ Active' = Active
<1>1. Active' = Active /\ BarrierTypeOK' /\ IdleIsExact'
  BY LifecycleKeepsActive
<1>2. PermitIsHeld'
  <2>. SUFFICES ASSUME NEW u \in Transitions,
                       lifecycle'[u] \in {"draining", "exclusive", "reopening", "releasing"}
                PROVE  lifecycleSemaphore' = u
    BY DEF PermitIsHeld
  <2>1. CASE CloseGate(t)
    BY <2>1, NobodyIsNoTransition DEF CloseGate, BarrierInv, BarrierTypeOK, PermitIsHeld
  <2>2. CASE ReleasePermit(t)
    BY <2>2 DEF ReleasePermit, BarrierInv, BarrierTypeOK, PermitIsHeld
  <2>3. CASE CallLifecycle(t) \/ BeginExclusive(t) \/ EndExclusive(t) \/ OpenGate(t)
                \/ InterruptLifecycle(t)
    BY <2>3 DEF CallLifecycle, BeginExclusive, EndExclusive, OpenGate, InterruptLifecycle,
                BarrierInv, BarrierTypeOK, PermitIsHeld
  <2>. QED
    BY <2>1, <2>2, <2>3 DEF BarrierLifecycle
<1>3. GateIsClosed'
  <2>. SUFFICES ASSUME NEW u \in Transitions,
                       lifecycle'[u] \in {"draining", "exclusive", "reopening"}
                PROVE  ~admissionGate'
    BY DEF GateIsClosed
  <2>1. CASE CloseGate(t)
    BY <2>1 DEF CloseGate
  <2>2. CASE OpenGate(t)
    BY <2>2 DEF OpenGate, BarrierInv, BarrierTypeOK, PermitIsHeld
  <2>3. CASE CallLifecycle(t) \/ BeginExclusive(t) \/ EndExclusive(t) \/ ReleasePermit(t)
                \/ InterruptLifecycle(t)
    BY <2>3 DEF CallLifecycle, BeginExclusive, EndExclusive, ReleasePermit, InterruptLifecycle,
                BarrierInv, BarrierTypeOK, GateIsClosed
  <2>. QED
    BY <2>1, <2>2, <2>3 DEF BarrierLifecycle
<1>4. ExclusiveIsAlone'
  <2>. SUFFICES ASSUME NEW u \in Transitions, lifecycle'[u] = "exclusive"
                PROVE  Active = {}
    BY <1>1 DEF ExclusiveIsAlone
  <2>1. CASE BeginExclusive(t)
    BY <2>1 DEF BeginExclusive, BarrierInv, IdleIsExact
  <2>2. CASE CallLifecycle(t) \/ CloseGate(t) \/ EndExclusive(t) \/ OpenGate(t)
                \/ ReleasePermit(t) \/ InterruptLifecycle(t)
    BY <2>2 DEF CallLifecycle, CloseGate, EndExclusive, OpenGate, ReleasePermit,
                InterruptLifecycle, BarrierInv, BarrierTypeOK, ExclusiveIsAlone
  <2>. QED
    BY <2>1, <2>2 DEF BarrierLifecycle
<1>. QED
  BY <1>1, <1>2, <1>3, <1>4 DEF BarrierInv

LEMMA StutterPreservesInv ==
    ASSUME BarrierInv, UNCHANGED barrierVars
    PROVE  BarrierInv' /\ Active' = Active
BY DEF barrierVars, BarrierInv, BarrierTypeOK, IdleIsExact, PermitIsHeld, GateIsClosed,
       ExclusiveIsAlone, Active

LEMMA StepPreservesInv == BarrierInv /\ [BarrierNext]_barrierVars => BarrierInv'
<1>. SUFFICES ASSUME BarrierInv, [BarrierNext]_barrierVars PROVE BarrierInv'
  OBVIOUS
<1>1. ASSUME NEW m \in Mutations,
             CallMutation(m) \/ BarrierMutation(m) \/ InterruptMutation(m)
      PROVE  BarrierInv'
  BY <1>1, WaitingPreservesInv, AdmitPreservesInv, LeavePreservesInv DEF BarrierMutation
<1>2. ASSUME NEW t \in Transitions,
             CallLifecycle(t) \/ BarrierLifecycle(t) \/ InterruptLifecycle(t)
      PROVE  BarrierInv'
  BY <1>2, LifecyclePreservesInv
<1>3. CASE UNCHANGED barrierVars
  BY <1>3, StutterPreservesInv
<1>. QED
  BY <1>1, <1>2, <1>3 DEF BarrierNext

\* The inductive invariant holds in every behaviour of the barrier.
THEOREM BarrierInvariance == BarrierSpec => []BarrierInv
BY InitEstablishesInv, StepPreservesInv, PTL DEF BarrierSpec

\* Type correctness: in particular the counter of active transactions never goes
\* below zero, so no call is released twice (release of EngineMutationBarrier).
THEOREM BarrierTypeCorrect == BarrierSpec => []BarrierTypeOK
<1>1. BarrierInv => BarrierTypeOK
  BY DEF BarrierInv
<1>. QED
  BY <1>1, BarrierInvariance, PTL

\* The counter is the number of admitted mutations and the idle latch is open
\* exactly when there is none (tryAcquire and release of EngineMutationBarrier).
THEOREM IdleIsAlwaysExact == BarrierSpec => []IdleIsExact
<1>1. BarrierInv => IdleIsExact
  BY DEF BarrierInv
<1>. QED
  BY <1>1, BarrierInvariance, PTL

-----------------------------------------------------------------------------
(* The barrier implements SharedExclusive *)

\* The holder of the permit is the only one that can be exclusive, so the owner
\* of the refinement mapping is the exclusive transaction, if there is one.
LEMMA OwnerIsExclusive ==
    ASSUME PermitIsHeld
    PROVE  /\ \A t \in Transitions : lifecycle[t] = "exclusive" => Owner = t
           /\ (\A t \in Transitions : lifecycle[t] # "exclusive") => Owner = Nobody
<1>1. ASSUME NEW t \in Transitions, lifecycle[t] = "exclusive"
      PROVE  Owner = t
  <2>1. \A u \in Transitions : lifecycle[u] = "exclusive" => u = t
    BY <1>1 DEF PermitIsHeld
  <2>. QED
    BY <1>1, <2>1 DEF Owner
<1>. QED
  BY <1>1 DEF Owner

\* While nobody's exclusivity changes, the owner stays.
LEMMA OwnerStays ==
    ASSUME PermitIsHeld, PermitIsHeld',
           \A t \in Transitions : (lifecycle'[t] = "exclusive") <=> (lifecycle[t] = "exclusive")
    PROVE  Owner' = Owner
<1>1. CASE \E t \in Transitions : lifecycle[t] = "exclusive"
  <2>1. PICK t \in Transitions : lifecycle[t] = "exclusive"
    BY <1>1
  <2>2. Owner = t
    BY <2>1, OwnerIsExclusive
  <2>3. lifecycle'[t] = "exclusive"
    BY <2>1
  <2>4. \A u \in Transitions : lifecycle'[u] = "exclusive" => u = t
    BY <2>3 DEF PermitIsHeld
  <2>5. Owner' = t
    BY <2>3, <2>4 DEF Owner
  <2>. QED
    BY <2>2, <2>5
<1>2. CASE ~\E t \in Transitions : lifecycle[t] = "exclusive"
  BY <1>2 DEF Owner
<1>. QED
  BY <1>1, <1>2

LEMMA InitRefines == BarrierInit => Promise!Init
BY DEF BarrierInit, Promise!Init, Active, Owner

LEMMA MutationRefines ==
    ASSUME BarrierInv, NEW m \in Mutations,
           CallMutation(m) \/ BarrierMutation(m) \/ InterruptMutation(m)
    PROVE  Promise!Next \/ UNCHANGED Promise!vars
<1>1. BarrierInv'
  BY WaitingPreservesInv, AdmitPreservesInv, LeavePreservesInv DEF BarrierMutation
<1>2. Owner' = Owner
  <2>1. lifecycle' = lifecycle
    BY DEF CallMutation, BarrierMutation, Admit, Refuse, LeaveMutation, InterruptMutation
  <2>. QED
    BY <1>1, <2>1, OwnerStays DEF BarrierInv
<1>3. CASE Admit(m)
  <2>1. Active' = Active \union {m}
    BY <1>3, AdmitPreservesInv
  <2>2. \A t \in Transitions : lifecycle[t] # "exclusive"
    BY <1>3 DEF Admit, BarrierInv, GateIsClosed
  <2>3. Owner = Nobody
    BY <2>2, OwnerIsExclusive DEF BarrierInv
  <2>4. Promise!Enter(m)
    BY <1>2, <2>1, <2>3 DEF Promise!Enter
  <2>. QED
    BY <2>4 DEF Promise!Next
<1>4. CASE LeaveMutation(m)
  <2>1. m \in Active /\ Active' = Active \ {m}
    BY <1>4, LeavePreservesInv
  <2>2. Promise!Leave(m)
    BY <1>2, <2>1 DEF Promise!Leave
  <2>. QED
    BY <2>2 DEF Promise!Next
<1>5. CASE CallMutation(m) \/ Refuse(m) \/ InterruptMutation(m)
  BY <1>2, <1>5, WaitingPreservesInv DEF Promise!vars
<1>. QED
  BY <1>3, <1>4, <1>5 DEF BarrierMutation

LEMMA LifecycleRefines ==
    ASSUME BarrierInv, NEW t \in Transitions,
           CallLifecycle(t) \/ BarrierLifecycle(t) \/ InterruptLifecycle(t)
    PROVE  Promise!Next \/ UNCHANGED Promise!vars
<1>1. BarrierInv' /\ Active' = Active
  BY LifecyclePreservesInv
<1>2. CASE BeginExclusive(t)
  <2>1. Active = {}
    BY <1>2 DEF BeginExclusive, BarrierInv, IdleIsExact
  <2>2. \A u \in Transitions : lifecycle[u] # "exclusive"
    BY <1>2 DEF BeginExclusive, BarrierInv, PermitIsHeld
  <2>3. Owner = Nobody
    BY <2>2, OwnerIsExclusive DEF BarrierInv
  <2>4. lifecycle'[t] = "exclusive"
    BY <1>2 DEF BeginExclusive, BarrierInv, BarrierTypeOK
  <2>5. \A u \in Transitions : lifecycle'[u] = "exclusive" => u = t
    BY <1>1, <2>4 DEF BarrierInv, PermitIsHeld
  <2>6. Owner' = t
    BY <2>4, <2>5 DEF Owner
  <2>7. Promise!Seize(t)
    BY <1>1, <2>1, <2>3, <2>6 DEF Promise!Seize
  <2>. QED
    BY <2>7 DEF Promise!Next
<1>3. CASE EndExclusive(t)
  <2>1. Owner = t
    BY <1>3, OwnerIsExclusive DEF EndExclusive, BarrierInv
  <2>2. \A u \in Transitions : lifecycle'[u] # "exclusive"
    BY <1>3 DEF EndExclusive, BarrierInv, BarrierTypeOK, PermitIsHeld
  <2>3. Owner' = Nobody
    BY <2>2 DEF Owner
  <2>4. Promise!Yield(t)
    BY <1>1, <2>1, <2>3 DEF Promise!Yield
  <2>. QED
    BY <2>4 DEF Promise!Next
<1>4. CASE CallLifecycle(t) \/ CloseGate(t) \/ OpenGate(t) \/ ReleasePermit(t)
              \/ InterruptLifecycle(t)
  <2>1. \A u \in Transitions : (lifecycle'[u] = "exclusive") <=> (lifecycle[u] = "exclusive")
    BY <1>4 DEF CallLifecycle, CloseGate, OpenGate, ReleasePermit, InterruptLifecycle,
                BarrierInv, BarrierTypeOK
  <2>2. Owner' = Owner
    BY <1>1, <2>1, OwnerStays DEF BarrierInv
  <2>. QED
    BY <1>1, <2>2 DEF Promise!vars
<1>. QED
  BY <1>2, <1>3, <1>4 DEF BarrierLifecycle

\* Every step of the barrier is a step of SharedExclusive, or none of it.
LEMMA StepRefines ==
    BarrierInv /\ [BarrierNext]_barrierVars => [Promise!Next]_(Promise!vars)
<1>. SUFFICES ASSUME BarrierInv, [BarrierNext]_barrierVars
              PROVE  Promise!Next \/ UNCHANGED Promise!vars
  OBVIOUS
<1>1. CASE UNCHANGED barrierVars
  <2>1. Owner' = Owner
    BY <1>1 DEF barrierVars, Owner
  <2>. QED
    BY <1>1, <2>1, StutterPreservesInv DEF Promise!vars
<1>. QED
  BY <1>1, MutationRefines, LifecycleRefines DEF BarrierNext

\* The barrier implements SharedExclusive: a reset or close runs with no admitted
\* mutation inside the engine and never beside another one (withLifecycle).
THEOREM BarrierImplementsPromise == BarrierSpec => BarrierKeepsPromise
BY InitRefines, StepRefines, BarrierInvariance, PTL
   DEF BarrierSpec, BarrierKeepsPromise, Promise!Spec

-----------------------------------------------------------------------------
(* The topic *)

\* A step of the topic is a step of the barrier, or none of it.
LEMMA TopicStepsAreBarrierSteps == [Next]_vars => [BarrierNext]_barrierVars
<1>. SUFFICES ASSUME [Next]_vars PROVE [BarrierNext]_barrierVars
  OBVIOUS
<1>1. CASE UNCHANGED vars
  BY <1>1 DEF vars
<1>2. ASSUME NEW m \in Mutations, CallPublish(m) \/ MutationStep(m) \/ InterruptMutation(m)
      PROVE  BarrierNext \/ UNCHANGED barrierVars
  BY <1>2 DEF CallPublish, MutationStep, BarrierNext, BarrierMutation, BeginMutation, Write,
              FailMutation, Commit, BeginNotify, SkipClosed, TellNothing, Deliver, Overflow,
              CloseBackpressured, FinishBackpressure, EndNotify, EndMutation
<1>3. ASSUME NEW t \in Transitions,
             TransitionStep(t) \/ CallLifecycle(t) \/ InterruptLifecycle(t)
      PROVE  BarrierNext \/ UNCHANGED barrierVars
  BY <1>3 DEF TransitionStep, BarrierNext, BarrierLifecycle, BeginTransition, LockForTransition,
              Drain, Terminate, UnlockTransition, EndTransition
<1>4. ASSUME NEW s \in Subscribers, Subscribe(s) \/ RequestClose(s) \/ CloseStep(s) \/ Consume(s)
      PROVE  UNCHANGED barrierVars
  BY <1>4 DEF Subscribe, RequestClose, CloseStep, LockForClose, CloseSubscription, Consume
<1>. QED
  BY <1>1, <1>2, <1>3, <1>4 DEF Next

-----------------------------------------------------------------------------
(* Types of results, evaluations and events *)

Evaluation == [version : Nat, content : Contents]

\* A result gives every key a content.
LEMMA ResultType ==
    ASSUME NEW p \in Routes, NEW content \in Contents
    PROVE  Result(p, content) \in Contents
BY DEF Result, Contents

\* An evaluation has the store's version and a content of every key.
LEMMA EvaluationType ==
    ASSUME TypeOK, NEW s \in Subscribers
    PROVE  Evaluations(s) \subseteq Evaluation
BY ResultType DEF TypeOK, Evaluations, Evaluation, Readable

\* The operations of a delta give contents to some of the keys.
LEMMA OperationsType ==
    ASSUME NEW a \in Contents, NEW b \in Contents
    PROVE  /\ DOMAIN Operations(a, b) \subseteq Keys
           /\ Operations(a, b) \in [DOMAIN Operations(a, b) -> Values \union {Absent}]
BY DEF Operations, Contents

\* What is offered to a queue is an event.
LEMMA EventType ==
    /\ \A v \in Nat, content \in Contents : Snapshot(v, content) \in Event
    /\ \A v \in Nat, w \in Nat, a \in Contents, b \in Contents :
           Delta(v, w, Operations(a, b)) \in Event
    /\ \A code \in {"BackpressureExceeded", "SubscriptionClosed"} : Status(code) \in Event
<1>1. \A v \in Nat, content \in Contents : Snapshot(v, content) \in Event
  BY DEF Snapshot, Event
<1>2. ASSUME NEW v \in Nat, NEW w \in Nat, NEW a \in Contents, NEW b \in Contents
      PROVE  Delta(v, w, Operations(a, b)) \in Event
  <2>1. Operations(a, b) \in UNION {[K -> Values \union {Absent}] : K \in SUBSET Keys}
    BY OperationsType
  <2>. QED
    BY <2>1 DEF Delta, Event
<1>3. \A code \in {"BackpressureExceeded", "SubscriptionClosed"} : Status(code) \in Event
  BY DEF Status, Event
<1>. QED
  BY <1>1, <1>2, <1>3

\* A consumer that replays an event has again a version and the contents of all keys.
LEMMA ReplayType ==
    ASSUME NEW state \in Evaluation, NEW event \in Event
    PROVE  Replay(state, event) \in Evaluation
<1>1. CASE event.type = "snapshot"
  BY <1>1 DEF Replay, Event, Evaluation
<1>2. CASE event.type = "delta"
  <2>1. /\ event.toVersion \in Nat
        /\ event.operations \in [DOMAIN event.operations -> Values \union {Absent}]
    BY <1>2 DEF Event
  <2>. QED
    BY <1>2, <2>1 DEF Replay, Evaluation, Contents
<1>3. CASE event.type = "status"
  BY <1>3 DEF Replay
<1>. QED
  BY <1>1, <1>2, <1>3 DEF Event

-----------------------------------------------------------------------------
(* The inductive invariant *)

\* The stages in which a semaphore is held, and by whom.
NotificationHolderKnown ==
    /\ \A m \in Mutations :
        stage[m] \in {"notifying", "overflow", "terminating"} <=> notificationSemaphore = m
    /\ \A t \in Transitions : phase[t] \in {"locked", "draining"} <=> notificationSemaphore = t
    /\ \A s \in Subscribers : closer[s] = "holding" <=> notificationSemaphore = s

MutationHolderKnown ==
    /\ \A m \in Mutations : stage[m] = "written" <=> mutationSemaphore = m
    /\ \A t \in Transitions : phase[t] = "draining" <=> mutationSemaphore = t

\* A mutation that has begun is admitted, and a transition that runs is exclusive.
StagesFollowCalls ==
    /\ \A m \in Mutations : stage[m] # "idle" <=> call[m] = "active"
    /\ \A t \in Transitions :
        phase[t] \in {"entering", "locked", "draining"} => lifecycle[t] = "exclusive"

\* While the engine drains, nobody is registered; who is owed a terminal status
\* is closed already.
DrainedIsEmpty ==
    /\ \A t \in Transitions : phase[t] = "draining" => registered = {}
    /\ closing # {} => \E t \in Transitions : phase[t] = "draining"
    /\ \A s \in closing : subscriber[s] = "closed" /\ ~ended[s]

\* The subscriber whose queue overflowed is in the hands of one mutation, and
\* nobody else ends its queue.
OverflowIsHandled ==
    /\ overflowing # Nobody =>
        \E m \in Mutations : stage[m] \in {"overflow", "terminating"}
    /\ \A m \in Mutations :
        stage[m] \in {"overflow", "terminating"} =>
            /\ overflowing \in Subscribers
            /\ subscriber[overflowing] # "none"
            /\ ~ended[overflowing]
    /\ \A m \in Mutations : stage[m] = "terminating" => subscriber[overflowing] = "closed"

\* Only a mutation that committed, and has not told everybody, has somebody to tell.
CapturedIsCommitted ==
    \A m \in Mutations :
        captured[m] # {} => stage[m] \in {"committed", "notifying", "overflow", "terminating"}

EndedIsClosed == \A s \in Subscribers : ended[s] => subscriber[s] = "closed"

\* Rows that are not committed were written, in its partition, by the mutation
\* that holds the mutation semaphore.
UncommittedIsWritten ==
    \A k \in Keys :
        rows[k] # committed[k] =>
            \E m \in Mutations : stage[m] = "written" /\ k \in Visible(route[m])

\* Who is not captured has seen each row as committed, or as written.
CursorIsReadable ==
    \A s \in Subscribers :
        subscriber[s] = "open" /\ overflowing # s /\ (\A m \in Mutations : s \notin captured[m]) =>
            \E content \in Readable : cursor[s].content = Result(scope[s], content)

\* The events of a queue lead to the version of the cursor.
LastVersion(s) ==
    IF queue[s] = <<>> THEN view[s].version ELSE queue[s][Len(queue[s])].toVersion

QueueReachesVersion ==
    \A s \in Subscribers :
        subscriber[s] = "open" /\ overflowing # s => LastVersion(s) = cursor[s].version

ControlInv ==
    /\ NotificationHolderKnown
    /\ MutationHolderKnown
    /\ StagesFollowCalls
    /\ DrainedIsEmpty
    /\ OverflowIsHandled
    /\ CapturedIsCommitted
    /\ EndedIsClosed

-----------------------------------------------------------------------------
(* Types *)

RegistryTypes ==
    /\ subscriber \in [Subscribers -> {"none", "open", "closed"}]
    /\ scope \in [Subscribers -> Routes]
    /\ registered \in SUBSET Subscribers
    /\ leases \in [Routes -> Nat]

\* Unregistering, or not, keeps the types of the registry.
LEMMA UnregisterType ==
    ASSUME TypeOK, NEW s \in Subscribers, Unregister(s) \/ UNCHANGED registryVars
    PROVE  RegistryTypes'
<1>1. CASE Unregister(s)
  <2>1. leases' \in [Routes -> Nat]
    BY <1>1 DEF TypeOK, Unregister
  <2>2. subscriber' \in [Subscribers -> {"none", "open", "closed"}]
    BY <1>1 DEF TypeOK, Unregister
  <2>. QED
    BY <1>1, <2>1, <2>2 DEF TypeOK, Unregister, RegistryTypes
<1>2. CASE UNCHANGED registryVars
  BY <1>2 DEF TypeOK, registryVars, RegistryTypes
<1>. QED
  BY <1>1, <1>2

\* The steps of a mutation keep the types.
LEMMA MutationKeepsTypes ==
    ASSUME TypeOK, ControlInv, BarrierTypeOK', NEW m \in Mutations,
           CallPublish(m) \/ MutationStep(m) \/ (InterruptMutation(m) /\ UNCHANGED topicVars)
    PROVE  TypeOK'
<1>. USE DEF storeVars, mutationVars, lifecycleVars, registryVars, streamVars, semaphoreVars
<1>1. CASE CallPublish(m)
  BY <1>1 DEF TypeOK, CallPublish
<1>2. CASE BeginMutation(m)
  BY <1>2 DEF TypeOK, BeginMutation
<1>3. CASE Write(m)
  <2>1. rows' \in Contents /\ route' \in [Mutations -> Routes]
    BY <1>3 DEF TypeOK, Write
  <2>. QED
    BY <1>3, <2>1 DEF TypeOK, Write
<1>4. CASE FailMutation(m)
  BY <1>4 DEF TypeOK, FailMutation
<1>5. CASE Commit(m)
  <2>1. captured' \in [Mutations -> SUBSET Subscribers]
    <3>1. {s \in registered : Listens(s, route[m])} \in SUBSET Subscribers
      BY DEF TypeOK
    <3>. QED
      BY <1>5, <3>1 DEF TypeOK, Commit
  <2>2. committed' \in Contents /\ version' \in Nat
    BY <1>5 DEF TypeOK, Commit
  <2>. QED
    BY <1>5, <2>1, <2>2 DEF TypeOK, Commit
<1>6. CASE BeginNotify(m)
  BY <1>6 DEF TypeOK, BeginNotify
<1>7. ASSUME NEW s \in Subscribers, SkipClosed(m, s) \/ TellNothing(m, s)
      PROVE  TypeOK'
  BY <1>7 DEF TypeOK, SkipClosed, TellNothing, Told
<1>8. ASSUME NEW s \in Subscribers, Deliver(m, s)
      PROVE  TypeOK'
  <2>1. PICK next \in Evaluations(s) :
            /\ cursor' = [cursor EXCEPT ![s] = next]
            /\ queue' = [queue EXCEPT ![s] = Append(@, Delta(cursor[s].version, next.version,
                             Operations(cursor[s].content, next.content)))]
    BY <1>8 DEF Deliver
  <2>2. next \in Evaluation /\ cursor[s] \in Evaluation
    BY <2>1, EvaluationType DEF TypeOK, Evaluation
  <2>3. Delta(cursor[s].version, next.version, Operations(cursor[s].content, next.content))
            \in Event
    BY <2>2, EventType DEF Evaluation
  <2>4. cursor' \in [Subscribers -> Evaluation] /\ queue' \in [Subscribers -> Seq(Event)]
    BY <2>1, <2>2, <2>3 DEF TypeOK, Evaluation
  <2>. QED
    BY <1>8, <2>4 DEF TypeOK, Deliver, Told, Evaluation
<1>9. ASSUME NEW s \in Subscribers, Overflow(m, s)
      PROVE  TypeOK'
  <2>1. cursor' \in [Subscribers -> Evaluation]
    BY <1>9, EvaluationType DEF TypeOK, Overflow, Evaluation
  <2>. QED
    BY <1>9, <2>1 DEF TypeOK, Overflow, Evaluation
<1>10. CASE CloseBackpressured(m)
  <2>1. overflowing \in Subscribers
    BY <1>10 DEF CloseBackpressured, ControlInv, OverflowIsHandled
  <2>2. RegistryTypes'
    BY <1>10, <2>1, UnregisterType, Zenon DEF CloseBackpressured
  <2>. QED
    BY <1>10, <2>2 DEF TypeOK, CloseBackpressured, RegistryTypes
<1>11. CASE FinishBackpressure(m)
  <2>1. overflowing \in Subscribers
    BY <1>11 DEF FinishBackpressure, ControlInv, OverflowIsHandled
  <2>2. <<Status("BackpressureExceeded")>> \in Seq(Event)
    BY EventType
  <2>. QED
    BY <1>11, <2>1, <2>2 DEF TypeOK, FinishBackpressure, TerminateQueue
<1>12. CASE EndNotify(m)
  BY <1>12 DEF TypeOK, EndNotify
<1>13. CASE EndMutation(m)
  BY <1>13 DEF TypeOK, EndMutation, Routes
<1>14. CASE (Refuse(m) \/ InterruptMutation(m)) /\ UNCHANGED topicVars
  BY <1>14 DEF TypeOK, topicVars
<1>. QED
  BY <1>1, <1>2, <1>3, <1>4, <1>5, <1>6, <1>7, <1>8, <1>9, <1>10, <1>11, <1>12, <1>13, <1>14
     DEF MutationStep

\* The steps of a subscription keep the types.
LEMMA SubscriptionKeepsTypes ==
    ASSUME TypeOK, BarrierTypeOK', NEW s \in Subscribers,
           Subscribe(s) \/ RequestClose(s) \/ CloseStep(s) \/ Consume(s)
    PROVE  TypeOK'
<1>. USE DEF storeVars, mutationVars, lifecycleVars, registryVars, streamVars, semaphoreVars
<1>1. CASE Subscribe(s)
  <2>1. PICK p \in Routes :
            /\ scope' = [scope EXCEPT ![s] = p]
            /\ leases' = [leases EXCEPT ![p] = @ + 1]
            /\ cursor' = [cursor EXCEPT ![s] = [version |-> version, content |-> Result(p, rows)]]
            /\ queue' = [queue EXCEPT ![s] = <<Snapshot(version, Result(p, rows))>>]
    BY <1>1 DEF Subscribe
  <2>2. Result(p, rows) \in Contents /\ <<Snapshot(version, Result(p, rows))>> \in Seq(Event)
    BY ResultType, EventType DEF TypeOK
  <2>. QED
    BY <1>1, <2>1, <2>2 DEF TypeOK, Subscribe
<1>2. CASE RequestClose(s)
  BY <1>2 DEF TypeOK, RequestClose
<1>3. CASE LockForClose(s)
  BY <1>3 DEF TypeOK, LockForClose
<1>4. CASE CloseSubscription(s)
  <2>1. RegistryTypes'
    BY <1>4, UnregisterType, Zenon DEF CloseSubscription, registryVars
  <2>2. ended' \in [Subscribers -> BOOLEAN]
    BY <1>4 DEF CloseSubscription, TypeOK
  <2>. QED
    BY <1>4, <2>1, <2>2 DEF TypeOK, CloseSubscription, RegistryTypes
<1>5. CASE Consume(s)
  <2>1. queue[s] \in Seq(Event) /\ queue[s] # <<>>
    BY <1>5 DEF TypeOK, Consume
  <2>2. Head(queue[s]) \in Event /\ Tail(queue[s]) \in Seq(Event)
    BY <2>1
  <2>3. Replay(view[s], Head(queue[s])) \in Evaluation
    BY <2>2, ReplayType DEF TypeOK, Evaluation
  <2>. QED
    BY <1>5, <2>2, <2>3 DEF TypeOK, Consume, Evaluation
<1>. QED
  BY <1>1, <1>2, <1>3, <1>4, <1>5 DEF CloseStep

\* The steps of a lifecycle transaction keep the types.
LEMMA TransitionKeepsTypes ==
    ASSUME TypeOK, BarrierTypeOK', NEW t \in Transitions,
           \/ TransitionStep(t)
           \/ (CallLifecycle(t) \/ InterruptLifecycle(t)) /\ UNCHANGED topicVars
    PROVE  TypeOK'
<1>. USE DEF storeVars, mutationVars, lifecycleVars, registryVars, streamVars, semaphoreVars
<1>1. CASE BeginTransition(t)
  <2>1. closed' \in BOOLEAN
    BY <1>1, Zenon DEF TypeOK, BeginTransition
  <2>2. phase' \in [Transitions -> {"idle", "entering", "locked", "draining", "finished"}]
    BY <1>1 DEF TypeOK, BeginTransition
  <2>. QED
    BY <1>1, <2>1, <2>2 DEF TypeOK, BeginTransition
<1>2. CASE LockForTransition(t)
  BY <1>2 DEF TypeOK, LockForTransition
<1>3. CASE Drain(t)
  <2>1. NoRows \in Contents
    BY DEF NoRows, Contents
  <2>. QED
    BY <1>3, <2>1 DEF TypeOK, Drain
<1>4. ASSUME NEW s \in Subscribers, Terminate(t, s)
      PROVE  TypeOK'
  <2>1. <<Status("SubscriptionClosed")>> \in Seq(Event)
    BY EventType
  <2>. QED
    BY <1>4, <2>1 DEF TypeOK, Terminate, TerminateQueue
<1>5. CASE UnlockTransition(t)
  BY <1>5 DEF TypeOK, UnlockTransition
<1>6. CASE EndTransition(t)
  BY <1>6 DEF TypeOK, EndTransition
<1>7. CASE UNCHANGED topicVars
  BY <1>7 DEF TypeOK, topicVars
<1>. QED
  BY <1>1, <1>2, <1>3, <1>4, <1>5, <1>6, <1>7 DEF TransitionStep

-----------------------------------------------------------------------------
(* Control *)

\* The stages still tell who holds the semaphores.
LEMMA HoldersStayKnown ==
    ASSUME TypeOK, ControlInv, Next
    PROVE  NotificationHolderKnown' /\ MutationHolderKnown'
<1>a. /\ DOMAIN stage = Mutations /\ DOMAIN phase = Transitions /\ DOMAIN closer = Subscribers
      /\ StagesFollowCalls /\ NotificationHolderKnown /\ MutationHolderKnown
  BY DEF TypeOK, ControlInv
<1>. USE ProcessesAreDistinct, NobodyIsNoTransition, <1>a
     DEF NotificationHolderKnown, MutationHolderKnown, semaphoreVars,
         lifecycleVars, mutationVars
<1>1. ASSUME NEW m \in Mutations, BeginMutation(m) \/ EndMutation(m)
      PROVE  NotificationHolderKnown' /\ MutationHolderKnown'
  <2>1. /\ stage[m] \in {"idle", "finished"}
        /\ stage' = [stage EXCEPT ![m] = "admitted"] \/ stage' = [stage EXCEPT ![m] = "idle"]
        /\ UNCHANGED <<phase, closer, semaphoreVars>>
    BY <1>1 DEF BeginMutation, Admit, EndMutation, StagesFollowCalls
  <2>. QED
    BY <2>1
<1>9. ASSUME NEW m \in Mutations,
             FailMutation(m) \/ CloseBackpressured(m) \/ FinishBackpressure(m)
      PROVE  NotificationHolderKnown' /\ MutationHolderKnown'
  BY <1>9 DEF FailMutation, CloseBackpressured, FinishBackpressure
<1>2. ASSUME NEW m \in Mutations, NEW s \in Subscribers, Overflow(m, s)
      PROVE  NotificationHolderKnown' /\ MutationHolderKnown'
  BY <1>2 DEF Overflow, Telling
<1>3. ASSUME NEW m \in Mutations, Write(m) \/ Commit(m) \/ BeginNotify(m) \/ EndNotify(m)
      PROVE  NotificationHolderKnown' /\ MutationHolderKnown'
  BY <1>3 DEF Write, Commit, BeginNotify, EndNotify
<1>4. ASSUME NEW s \in Subscribers, RequestClose(s) \/ LockForClose(s) \/ CloseSubscription(s)
      PROVE  NotificationHolderKnown' /\ MutationHolderKnown'
  BY <1>4 DEF RequestClose, LockForClose, CloseSubscription
<1>5. ASSUME NEW t \in Transitions, BeginTransition(t)
      PROVE  NotificationHolderKnown' /\ MutationHolderKnown'
  BY <1>5 DEF BeginTransition, BeginExclusive, StagesFollowCalls
<1>6. ASSUME NEW t \in Transitions, LockForTransition(t) \/ Drain(t) \/ UnlockTransition(t)
      PROVE  NotificationHolderKnown' /\ MutationHolderKnown'
  BY <1>6 DEF LockForTransition, Drain, UnlockTransition
<1>7. CASE UNCHANGED <<stage, phase, closer, semaphoreVars>>
  BY <1>7
<1>8. \/ UNCHANGED <<stage, phase, closer, semaphoreVars>>
      \/ \E m \in Mutations :
            \/ BeginMutation(m) \/ FailMutation(m) \/ CloseBackpressured(m)
            \/ FinishBackpressure(m) \/ EndMutation(m)
            \/ \E s \in Subscribers : Overflow(m, s)
            \/ Write(m) \/ Commit(m) \/ BeginNotify(m) \/ EndNotify(m)
      \/ \E s \in Subscribers : RequestClose(s) \/ LockForClose(s) \/ CloseSubscription(s)
      \/ \E t \in Transitions :
            BeginTransition(t) \/ LockForTransition(t) \/ Drain(t) \/ UnlockTransition(t)
  BY DEF Next, MutationStep, TransitionStep, CloseStep, CallPublish, SkipClosed, TellNothing,
         Deliver, Subscribe, Consume, Terminate, EndTransition, topicVars
<1>. QED
  BY <1>1, <1>2, <1>3, <1>4, <1>5, <1>6, <1>7, <1>8, <1>9

\* A stage begins and ends with the admission, a phase with the exclusive turn.
LEMMA StagesStayWithCalls ==
    ASSUME TypeOK, ControlInv, Next
    PROVE  StagesFollowCalls'
<1>. USE DEF StagesFollowCalls, semaphoreVars, lifecycleVars, mutationVars, barrierVars
<1>a. /\ DOMAIN stage = Mutations /\ DOMAIN call = Mutations
      /\ DOMAIN phase = Transitions /\ DOMAIN lifecycle = Transitions
      /\ StagesFollowCalls
  BY DEF TypeOK, BarrierTypeOK, ControlInv
<1>1. ASSUME NEW m \in Mutations,
             \/ CallPublish(m) \/ BeginMutation(m) \/ EndMutation(m)
             \/ (Refuse(m) \/ InterruptMutation(m)) /\ UNCHANGED topicVars
      PROVE  StagesFollowCalls'
  BY <1>a, <1>1 DEF CallPublish, CallMutation, BeginMutation, Admit, EndMutation, LeaveMutation,
                    Refuse, InterruptMutation, topicVars
<1>2. ASSUME NEW m \in Mutations, NEW s \in Subscribers, Overflow(m, s)
      PROVE  StagesFollowCalls'
  BY <1>a, <1>2 DEF Overflow, Telling
<1>3. ASSUME NEW m \in Mutations,
             \/ Write(m) \/ FailMutation(m) \/ Commit(m) \/ BeginNotify(m) \/ EndNotify(m)
             \/ CloseBackpressured(m) \/ FinishBackpressure(m)
      PROVE  StagesFollowCalls'
  BY <1>a, <1>3 DEF Write, FailMutation, Commit, BeginNotify, EndNotify, CloseBackpressured,
                    FinishBackpressure
<1>4. ASSUME NEW t \in Transitions,
             \/ BeginTransition(t) \/ LockForTransition(t) \/ Drain(t) \/ UnlockTransition(t)
             \/ EndTransition(t)
      PROVE  StagesFollowCalls'
  BY <1>a, <1>4 DEF BeginTransition, BeginExclusive, LockForTransition, Drain, UnlockTransition,
                    EndTransition, EndExclusive
<1>5. ASSUME NEW t \in Transitions,
             (CloseGate(t) \/ OpenGate(t) \/ ReleasePermit(t) \/ CallLifecycle(t)
                  \/ InterruptLifecycle(t)) /\ UNCHANGED topicVars
      PROVE  StagesFollowCalls'
  BY <1>a, <1>5 DEF CloseGate, OpenGate, ReleasePermit, CallLifecycle, InterruptLifecycle, topicVars
<1>6. CASE UNCHANGED <<stage, phase, call, lifecycle>>
  BY <1>a, <1>6
<1>7. ASSUME NEW m \in Mutations, NEW s \in Subscribers,
             SkipClosed(m, s) \/ TellNothing(m, s) \/ Deliver(m, s)
      PROVE  UNCHANGED <<stage, phase, call, lifecycle>>
  BY <1>7 DEF SkipClosed, TellNothing, Deliver
<1>8. ASSUME NEW s \in Subscribers,
             Subscribe(s) \/ RequestClose(s) \/ CloseStep(s) \/ Consume(s)
      PROVE  UNCHANGED <<stage, phase, call, lifecycle>>
  BY <1>8 DEF Subscribe, RequestClose, CloseStep, LockForClose, CloseSubscription, Consume
<1>9. ASSUME NEW t \in Transitions, NEW s \in Subscribers, Terminate(t, s)
      PROVE  UNCHANGED <<stage, phase, call, lifecycle>>
  BY <1>9 DEF Terminate
<1>. QED
  BY <1>1, <1>2, <1>3, <1>4, <1>5, <1>6, <1>7, <1>8, <1>9 DEF Next, MutationStep, TransitionStep

\* The ledger is counted up and down with the admitted mutations, and zeroed
\* only when there are none.
LEMMA PendingBatchesStayExact ==
    ASSUME TypeOK, BarrierInv, ControlInv, PendingBatchesExact, Next
    PROVE  PendingBatchesExact'
<1>. USE DEF PendingBatchesExact
<1>1. ASSUME NEW m \in Mutations, BeginMutation(m)
      PROVE  PendingBatchesExact'
  <2>1. m \notin Active
    BY <1>1 DEF BeginMutation, Admit, Active
  <2>. QED
    BY <1>1, <2>1, AdmitPreservesInv, ActiveCounts DEF BeginMutation
<1>2. ASSUME NEW m \in Mutations, EndMutation(m)
      PROVE  PendingBatchesExact'
  <2>1. m \in Active /\ Active' = Active \ {m}
    BY <1>2, LeavePreservesInv DEF EndMutation
  <2>2. pendingMutationBatches \in Nat /\ pendingMutationBatches # 0
    BY <2>1, ActiveCounts DEF TypeOK
  <2>. QED
    BY <1>2, <2>1, <2>2, ActiveCounts DEF EndMutation
<1>3. ASSUME NEW t \in Transitions, Drain(t)
      PROVE  PendingBatchesExact'
  <2>1. Active = {} /\ Active' = Active
    BY <1>3, StutterPreservesInv
       DEF Drain, ControlInv, StagesFollowCalls, BarrierInv, ExclusiveIsAlone
  <2>. QED
    BY <1>3, <2>1, FS_EmptySet DEF Drain
<1>4. CASE UNCHANGED pendingMutationBatches /\ Active' = Active
  BY <1>4
<1>. DEFINE Waits ==
         \/ UNCHANGED barrierVars
         \/ \E m \in Mutations : CallMutation(m) \/ Refuse(m) \/ InterruptMutation(m)
         \/ \E t \in Transitions : CallLifecycle(t) \/ BarrierLifecycle(t) \/ InterruptLifecycle(t)
            Counts ==
         \/ \E m \in Mutations : BeginMutation(m) \/ EndMutation(m)
         \/ \E t \in Transitions : Drain(t)
<1>5. Counts \/ (UNCHANGED pendingMutationBatches /\ Waits)
  <2>. USE DEF mutationVars, topicVars
  <2>1. ASSUME NEW m \in Mutations,
               \/ CallPublish(m) \/ MutationStep(m)
               \/ InterruptMutation(m) /\ UNCHANGED topicVars
        PROVE  Counts \/ (UNCHANGED pendingMutationBatches /\ Waits)
    BY <2>1 DEF MutationStep, CallPublish, Write, FailMutation, Commit, BeginNotify, SkipClosed,
                TellNothing, Deliver, Overflow, CloseBackpressured, FinishBackpressure, EndNotify
  <2>2. ASSUME NEW t \in Transitions,
               \/ TransitionStep(t)
               \/ (CallLifecycle(t) \/ InterruptLifecycle(t)) /\ UNCHANGED topicVars
        PROVE  Counts \/ (UNCHANGED pendingMutationBatches /\ Waits)
    BY <2>2 DEF TransitionStep, BarrierLifecycle, BeginTransition, LockForTransition, Terminate,
                UnlockTransition, EndTransition
  <2>3. ASSUME NEW s \in Subscribers,
               Subscribe(s) \/ RequestClose(s) \/ CloseStep(s) \/ Consume(s)
        PROVE  Counts \/ (UNCHANGED pendingMutationBatches /\ Waits)
    BY <2>3 DEF Subscribe, RequestClose, CloseStep, LockForClose, CloseSubscription, Consume
  <2>. QED
    <3>. HIDE DEF Counts, Waits
    <3>. QED
      BY <2>1, <2>2, <2>3 DEF Next
<1>6. Waits => Active' = Active
  BY WaitingPreservesInv, LifecyclePreservesInv, StutterPreservesInv
<1>. QED
  BY <1>1, <1>2, <1>3, <1>4, <1>5, <1>6

\* Whoever holds a semaphore keeps the others out.
LEMMA HolderIsAlone ==
    ASSUME ControlInv
    PROVE  /\ \A t \in Transitions : phase[t] = "draining" =>
                /\ \A m \in Mutations : stage[m] \notin {"notifying", "overflow", "terminating"}
                /\ \A s \in Subscribers : closer[s] # "holding"
                /\ \A u \in Transitions : phase[u] \in {"locked", "draining"} => u = t
                /\ mutationSemaphore # Nobody
           /\ \A m \in Mutations : stage[m] \in {"notifying", "overflow", "terminating"} =>
                /\ \A n \in Mutations :
                    stage[n] \in {"notifying", "overflow", "terminating"} => n = m
                /\ \A s \in Subscribers : closer[s] # "holding"
                /\ \A t \in Transitions : phase[t] # "locked"
           /\ \A s \in Subscribers, t \in Transitions :
                closer[s] = "holding" => phase[t] # "locked"
BY ProcessesAreDistinct, NobodyIsNoTransition
   DEF ControlInv, NotificationHolderKnown, MutationHolderKnown

\* Nobody registers, and nobody else ends a queue, while the engine drains.
LEMMA DrainedStaysEmpty ==
    ASSUME TypeOK, ControlInv, RegistryExact, Next
    PROVE  DrainedIsEmpty'
<1>. USE DEF registryVars, lifecycleVars, streamVars
<1>a. /\ DOMAIN phase = Transitions /\ registered \subseteq Subscribers
      /\ DOMAIN subscriber = Subscribers /\ DOMAIN ended = Subscribers
      /\ DrainedIsEmpty /\ EndedIsClosed /\ OverflowIsHandled
      /\ registered = {s \in Subscribers : subscriber[s] = "open"}
  BY DEF TypeOK, ControlInv, RegistryExact
<1>1. ASSUME NEW t \in Transitions, BeginTransition(t)
      PROVE  DrainedIsEmpty'
  BY <1>a, <1>1 DEF BeginTransition, BeginExclusive, ControlInv, StagesFollowCalls, DrainedIsEmpty
<1>2. ASSUME NEW t \in Transitions, LockForTransition(t)
      PROVE  DrainedIsEmpty'
  BY <1>a, <1>2 DEF LockForTransition, DrainedIsEmpty
<1>3. ASSUME NEW t \in Transitions, Drain(t)
      PROVE  DrainedIsEmpty'
  BY <1>a, <1>3, Zenon DEF Drain, DrainedIsEmpty, EndedIsClosed
<1>4. ASSUME NEW t \in Transitions, NEW s \in Subscribers, Terminate(t, s)
      PROVE  DrainedIsEmpty'
  BY <1>a, <1>4 DEF Terminate, TerminateQueue, DrainedIsEmpty
<1>5. ASSUME NEW t \in Transitions, UnlockTransition(t)
      PROVE  DrainedIsEmpty'
  BY <1>a, <1>5, HolderIsAlone DEF UnlockTransition, DrainedIsEmpty
<1>6. ASSUME NEW m \in Mutations, CloseBackpressured(m) \/ FinishBackpressure(m)
      PROVE  DrainedIsEmpty'
  <2>1. closing = {} /\ \A t \in Transitions : phase[t] # "draining"
    BY <1>a, <1>6, HolderIsAlone DEF CloseBackpressured, FinishBackpressure, DrainedIsEmpty
  <2>. QED
    BY <1>6, <2>1 DEF CloseBackpressured, FinishBackpressure, DrainedIsEmpty
<1>7. ASSUME NEW s \in Subscribers, Subscribe(s) \/ CloseSubscription(s)
      PROVE  DrainedIsEmpty'
  <2>1. closing = {} /\ \A t \in Transitions : phase[t] # "draining"
    BY <1>a, <1>7, HolderIsAlone DEF Subscribe, CloseSubscription, DrainedIsEmpty
  <2>. QED
    BY <1>7, <2>1 DEF Subscribe, CloseSubscription, DrainedIsEmpty
<1>8. CASE UNCHANGED <<phase, closing, registered, subscriber, ended>>
  BY <1>8, <1>a DEF DrainedIsEmpty
<1>9. \/ UNCHANGED <<phase, closing, registered, subscriber, ended>>
      \/ \E m \in Mutations : CloseBackpressured(m) \/ FinishBackpressure(m)
      \/ \E s \in Subscribers : Subscribe(s) \/ CloseSubscription(s)
      \/ \E t \in Transitions :
            \/ BeginTransition(t) \/ LockForTransition(t) \/ Drain(t) \/ UnlockTransition(t)
            \/ \E s \in Subscribers : Terminate(t, s)
  BY DEF Next, MutationStep, TransitionStep, CloseStep, CallPublish, BeginMutation, Write,
         FailMutation, Commit, BeginNotify, SkipClosed, TellNothing, Deliver, Overflow, EndNotify,
         EndMutation, RequestClose, LockForClose, Consume, EndTransition, topicVars
<1>. QED
  BY <1>1, <1>2, <1>3, <1>4, <1>5, <1>6, <1>7, <1>8, <1>9

\* Subscribers are captured by a commit and all told before the mutation finishes.
LEMMA CapturedStaysCommitted ==
    ASSUME TypeOK, ControlInv, Next
    PROVE  CapturedIsCommitted'
<1>. USE DEF mutationVars
<1>a. /\ DOMAIN stage = Mutations /\ DOMAIN captured = Mutations
      /\ CapturedIsCommitted /\ StagesFollowCalls
  BY DEF TypeOK, ControlInv
<1>1. ASSUME NEW m \in Mutations,
             \/ BeginMutation(m) \/ Write(m) \/ FailMutation(m) \/ Commit(m) \/ EndNotify(m)
             \/ EndMutation(m)
      PROVE  CapturedIsCommitted'
  <2>1. stage'[m] = "committed" \/ (captured[m] = {} /\ captured'[m] = {})
    <3>1. CASE Commit(m)
      <4>1. stage' = [stage EXCEPT ![m] = "committed"]
        BY <3>1, Zenon DEF Commit
      <4>. QED
        BY <1>a, <4>1
    <3>2. CASE BeginMutation(m)
      <4>1. stage[m] = "idle" /\ UNCHANGED captured
        BY <1>a, <3>2 DEF BeginMutation, Admit, StagesFollowCalls
      <4>. QED
        BY <1>a, <4>1 DEF CapturedIsCommitted
    <3>3. CASE Write(m) \/ FailMutation(m) \/ EndMutation(m)
      <4>1. stage[m] \in {"admitted", "finished"} /\ UNCHANGED captured
        BY <3>3 DEF Write, FailMutation, EndMutation
      <4>. QED
        BY <1>a, <4>1 DEF CapturedIsCommitted
    <3>4. CASE EndNotify(m)
      BY <3>4 DEF EndNotify
    <3>. QED
      BY <1>1, <3>1, <3>2, <3>3, <3>4
  <2>2. \A n \in Mutations : n # m => captured'[n] = captured[n] /\ stage'[n] = stage[n]
    BY <1>a, <1>1 DEF BeginMutation, Write, FailMutation, Commit, EndNotify, EndMutation
  <2>. QED
    BY <1>a, <2>1, <2>2 DEF CapturedIsCommitted
<1>2. ASSUME NEW m \in Mutations,
             BeginNotify(m) \/ CloseBackpressured(m) \/ FinishBackpressure(m)
      PROVE  CapturedIsCommitted'
  BY <1>a, <1>2 DEF BeginNotify, CloseBackpressured, FinishBackpressure, CapturedIsCommitted
<1>3. ASSUME NEW m \in Mutations, NEW s \in Subscribers,
             SkipClosed(m, s) \/ TellNothing(m, s) \/ Deliver(m, s) \/ Overflow(m, s)
      PROVE  CapturedIsCommitted'
  BY <1>a, <1>3 DEF SkipClosed, TellNothing, Deliver, Overflow, Telling, Told, CapturedIsCommitted
<1>4. CASE UNCHANGED <<stage, captured>>
  BY <1>a, <1>4 DEF CapturedIsCommitted
<1>5. \/ UNCHANGED <<stage, captured>>
      \/ \E m \in Mutations :
            \/ BeginMutation(m) \/ Write(m) \/ FailMutation(m) \/ Commit(m) \/ EndNotify(m)
            \/ EndMutation(m) \/ BeginNotify(m) \/ CloseBackpressured(m) \/ FinishBackpressure(m)
            \/ \E s \in Subscribers :
                SkipClosed(m, s) \/ TellNothing(m, s) \/ Deliver(m, s) \/ Overflow(m, s)
  BY DEF Next, MutationStep, TransitionStep, CloseStep, CallPublish, Subscribe, RequestClose,
         LockForClose, CloseSubscription, Consume, BeginTransition, LockForTransition, Drain,
         Terminate, UnlockTransition, EndTransition, topicVars
<1>. QED
  BY <1>1, <1>2, <1>3, <1>4, <1>5

\* A queue is ended only with its subscription.
LEMMA EndedStaysClosed ==
    ASSUME TypeOK, ControlInv, Next
    PROVE  EndedIsClosed'
<1>. USE DEF registryVars, streamVars
<1>a. /\ DOMAIN subscriber = Subscribers /\ DOMAIN ended = Subscribers
      /\ registered \subseteq Subscribers
      /\ DrainedIsEmpty /\ EndedIsClosed /\ OverflowIsHandled
  BY DEF TypeOK, ControlInv
<1>1. ASSUME NEW m \in Mutations, CloseBackpressured(m) \/ FinishBackpressure(m)
      PROVE  EndedIsClosed'
  BY <1>a, <1>1 DEF CloseBackpressured, Unregister, FinishBackpressure, TerminateQueue,
                    EndedIsClosed, OverflowIsHandled
<1>2. ASSUME NEW s \in Subscribers, Subscribe(s) \/ CloseSubscription(s)
      PROVE  EndedIsClosed'
  BY <1>a, <1>2 DEF Subscribe, CloseSubscription, Unregister, EndedIsClosed
<1>3. ASSUME NEW t \in Transitions, Drain(t)
      PROVE  EndedIsClosed'
  BY <1>a, <1>3 DEF Drain, EndedIsClosed
<1>4. ASSUME NEW t \in Transitions, NEW s \in Subscribers, Terminate(t, s)
      PROVE  EndedIsClosed'
  BY <1>a, <1>4 DEF Terminate, TerminateQueue, EndedIsClosed, DrainedIsEmpty
<1>5. CASE UNCHANGED <<subscriber, ended>>
  BY <1>5, <1>a DEF EndedIsClosed
<1>6. \/ UNCHANGED <<subscriber, ended>>
      \/ \E m \in Mutations : CloseBackpressured(m) \/ FinishBackpressure(m)
      \/ \E s \in Subscribers : Subscribe(s) \/ CloseSubscription(s)
      \/ \E t \in Transitions : Drain(t) \/ \E s \in Subscribers : Terminate(t, s)
  BY DEF Next, MutationStep, TransitionStep, CloseStep, CallPublish, BeginMutation, Write,
         FailMutation, Commit, BeginNotify, SkipClosed, TellNothing, Deliver, Overflow, EndNotify,
         EndMutation, RequestClose, LockForClose, Consume, BeginTransition, LockForTransition,
         UnlockTransition, EndTransition, topicVars
<1>. QED
  BY <1>1, <1>2, <1>3, <1>4, <1>5, <1>6

\* One mutation at a time closes a subscriber that overflowed.
LEMMA OverflowStaysHandled ==
    ASSUME TypeOK, ControlInv, Next
    PROVE  OverflowIsHandled'
<1>. USE DEF registryVars, streamVars, mutationVars
<1>a. /\ DOMAIN subscriber = Subscribers /\ DOMAIN ended = Subscribers
      /\ DOMAIN stage = Mutations
      /\ \A s \in Subscribers : subscriber[s] \in {"none", "open", "closed"}
      /\ Nobody \notin Subscribers
      /\ DrainedIsEmpty /\ EndedIsClosed /\ OverflowIsHandled /\ StagesFollowCalls
  BY ProcessesAreDistinct DEF TypeOK, ControlInv
<1>1. ASSUME NEW m \in Mutations, NEW s \in Subscribers, Overflow(m, s)
      PROVE  OverflowIsHandled'
  <2>1. \A n \in Mutations : stage[n] \notin {"overflow", "terminating"}
    BY <1>1, HolderIsAlone DEF Overflow, Telling
  <2>2. overflowing' = s /\ subscriber'[s] = "open" /\ ~ended'[s]
    BY <1>a, <1>1 DEF Overflow, EndedIsClosed
  <2>3. stage' = [stage EXCEPT ![m] = "overflow"]
    BY <1>1 DEF Overflow
  <2>. QED
    BY <1>a, <2>1, <2>2, <2>3 DEF OverflowIsHandled
<1>2. ASSUME NEW m \in Mutations, CloseBackpressured(m)
      PROVE  OverflowIsHandled'
  <2>1. \A n \in Mutations : n # m => stage[n] \notin {"overflow", "terminating"}
    BY <1>2, HolderIsAlone DEF CloseBackpressured
  <2>2. overflowing \in Subscribers /\ ~ended[overflowing]
    BY <1>a, <1>2 DEF CloseBackpressured, OverflowIsHandled
  <2>3. subscriber'[overflowing] = "closed"
    BY <1>a, <1>2, <2>2 DEF CloseBackpressured, Unregister, OverflowIsHandled
  <2>. QED
    BY <1>a, <1>2, <2>1, <2>2, <2>3 DEF CloseBackpressured, OverflowIsHandled
<1>3. ASSUME NEW m \in Mutations, FinishBackpressure(m)
      PROVE  OverflowIsHandled'
  <2>1. \A n \in Mutations : n # m => stage[n] \notin {"overflow", "terminating"}
    BY <1>3, HolderIsAlone DEF FinishBackpressure
  <2>. QED
    BY <1>a, <1>3, <2>1 DEF FinishBackpressure, OverflowIsHandled
<1>4. ASSUME NEW m \in Mutations,
             \/ BeginMutation(m) \/ Write(m) \/ FailMutation(m) \/ Commit(m)
             \/ BeginNotify(m) \/ EndNotify(m) \/ EndMutation(m)
      PROVE  OverflowIsHandled'
  <2>1. PICK x \in {"admitted", "written", "finished", "committed", "notifying", "idle"} :
            stage' = [stage EXCEPT ![m] = x]
    BY <1>4 DEF BeginMutation, Write, FailMutation, Commit, BeginNotify, EndNotify, EndMutation
  <2>2. stage[m] \notin {"overflow", "terminating"}
    BY <1>a, <1>4 DEF BeginMutation, Admit, Write, FailMutation, Commit, BeginNotify, EndNotify,
                      EndMutation, StagesFollowCalls
  <2>3. UNCHANGED <<subscriber, ended, overflowing>>
    BY <1>4 DEF BeginMutation, Write, FailMutation, Commit, BeginNotify, EndNotify, EndMutation
  <2>. QED
    BY <1>a, <2>1, <2>2, <2>3 DEF OverflowIsHandled
<1>5. ASSUME NEW s \in Subscribers, Subscribe(s)
      PROVE  OverflowIsHandled'
  BY <1>a, <1>5 DEF Subscribe, OverflowIsHandled
<1>6. ASSUME NEW s \in Subscribers, CloseSubscription(s)
      PROVE  OverflowIsHandled'
  <2>1. \A n \in Mutations : stage[n] \notin {"overflow", "terminating"}
    BY <1>6, HolderIsAlone DEF CloseSubscription
  <2>. QED
    BY <1>a, <1>6, <2>1 DEF CloseSubscription, OverflowIsHandled
<1>7. ASSUME NEW t \in Transitions, NEW s \in Subscribers, Terminate(t, s)
      PROVE  OverflowIsHandled'
  <2>1. \A n \in Mutations : stage[n] \notin {"overflow", "terminating"}
    BY <1>7, HolderIsAlone DEF Terminate
  <2>. QED
    BY <1>a, <1>7, <2>1 DEF Terminate, OverflowIsHandled
<1>8. ASSUME NEW t \in Transitions, Drain(t)
      PROVE  OverflowIsHandled'
  <2>1. \A n \in Mutations : stage[n] \notin {"overflow", "terminating"}
    BY <1>8, HolderIsAlone DEF Drain
  <2>. QED
    BY <1>a, <1>8, <2>1 DEF Drain, OverflowIsHandled
<1>9. CASE UNCHANGED <<stage, subscriber, ended, overflowing>>
  BY <1>a, <1>9 DEF OverflowIsHandled
<1>10. \/ UNCHANGED <<stage, subscriber, ended, overflowing>>
       \/ \E m \in Mutations :
             \/ BeginMutation(m) \/ Write(m) \/ FailMutation(m) \/ Commit(m)
             \/ BeginNotify(m) \/ EndNotify(m) \/ EndMutation(m)
             \/ CloseBackpressured(m) \/ FinishBackpressure(m)
             \/ \E s \in Subscribers : Overflow(m, s)
       \/ \E s \in Subscribers : Subscribe(s) \/ CloseSubscription(s)
       \/ \E t \in Transitions : Drain(t) \/ \E s \in Subscribers : Terminate(t, s)
  BY DEF Next, MutationStep, TransitionStep, CloseStep, CallPublish, SkipClosed, TellNothing,
         Deliver, RequestClose, LockForClose, Consume, BeginTransition, LockForTransition,
         UnlockTransition, EndTransition, topicVars
<1>. QED
  BY <1>1, <1>2, <1>3, <1>4, <1>5, <1>6, <1>7, <1>8, <1>9, <1>10

-----------------------------------------------------------------------------
(* The registry *)

\* The open subscriptions of a scope are finitely many.
Sharers(p) == {s \in registered : scope[s] = p}

\* Adding or removing one of them changes their number by one.
LEMMA SharersCount ==
    ASSUME TypeOK, NEW p \in Routes, NEW s
    PROVE  /\ IsFiniteSet(Sharers(p)) /\ Cardinality(Sharers(p)) \in Nat
           /\ s \notin Sharers(p) =>
                Cardinality(Sharers(p) \union {s}) = Cardinality(Sharers(p)) + 1
           /\ s \in Sharers(p) =>
                /\ Cardinality(Sharers(p) \ {s}) = Cardinality(Sharers(p)) - 1
                /\ Cardinality(Sharers(p)) # 0
<1>1. Sharers(p) \subseteq Subscribers
  BY DEF TypeOK, Sharers
<1>2. IsFiniteSet(Sharers(p))
  BY <1>1, FiniteSubscribers, FS_Subset
<1>. QED
  BY <1>2, FS_CardinalityType, FS_AddElement, FS_RemoveElement, FS_EmptySet

\* Closing an open subscription gives back exactly its reference.
LEMMA UnregisterKeepsExact ==
    ASSUME TypeOK, RegistryExact, NEW s \in Subscribers, subscriber[s] = "open", Unregister(s)
    PROVE  RegistryExact'
<1>a. /\ registered = {x \in Subscribers : subscriber[x] = "open"}
      /\ \A p \in Routes : leases[p] = Cardinality(Sharers(p))
      /\ DOMAIN subscriber = Subscribers /\ scope[s] \in Routes /\ DOMAIN leases = Routes
  BY DEF RegistryExact, TypeOK, Sharers
<1>1. registered' = {x \in Subscribers : subscriber'[x] = "open"}
  BY <1>a DEF Unregister
<1>2. ASSUME NEW p \in Routes
      PROVE  leases'[p] = Cardinality(Sharers(p)')
  <2>1. CASE p = scope[s]
    <3>1. s \in Sharers(p) /\ Sharers(p)' = Sharers(p) \ {s}
      BY <1>a, <2>1 DEF Unregister, Sharers
    <3>2. leases'[p] = leases[p] - 1
      BY <1>a, <2>1, <3>1, SharersCount DEF Unregister
    <3>. QED
      BY <1>a, <3>1, <3>2, SharersCount
  <2>2. CASE p # scope[s]
    <3>1. Sharers(p)' = Sharers(p)
      BY <2>2 DEF Unregister, Sharers
    <3>2. leases'[p] = leases[p]
      BY <1>a, <2>2 DEF Unregister
    <3>. QED
      BY <1>a, <3>1, <3>2
  <2>. QED
    BY <2>1, <2>2
<1>. QED
  BY <1>1, <1>2 DEF RegistryExact, Sharers

\* Every step keeps the registry exact.
LEMMA RegistryStaysExact ==
    ASSUME TypeOK, ControlInv, RegistryExact, Next
    PROVE  RegistryExact'
<1>a. /\ registered = {x \in Subscribers : subscriber[x] = "open"}
      /\ \A p \in Routes : leases[p] = Cardinality(Sharers(p))
      /\ DOMAIN subscriber = Subscribers /\ DOMAIN leases = Routes
      /\ DOMAIN scope = Subscribers
  BY DEF RegistryExact, TypeOK, Sharers
<1>1. CASE UNCHANGED registryVars
  BY <1>1 DEF RegistryExact, registryVars
<1>2. ASSUME NEW s \in Subscribers, Subscribe(s)
      PROVE  RegistryExact'
  <2>1. registered' = {x \in Subscribers : subscriber'[x] = "open"}
    BY <1>a, <1>2 DEF Subscribe
  <2>2. PICK q \in Routes :
            scope' = [scope EXCEPT ![s] = q] /\ leases' = [leases EXCEPT ![q] = @ + 1]
    BY <1>2 DEF Subscribe
  <2>3. s \notin registered /\ registered' = registered \union {s}
    BY <1>a, <1>2 DEF Subscribe
  <2>4. ASSUME NEW p \in Routes
        PROVE  leases'[p] = Cardinality(Sharers(p)')
    <3>1. CASE p = q
      <4>1. s \notin Sharers(p) /\ Sharers(p)' = Sharers(p) \union {s}
        BY <1>a, <2>2, <2>3, <3>1 DEF Sharers
      <4>. QED
        BY <1>a, <2>2, <3>1, <4>1, SharersCount
    <3>2. CASE p # q
      <4>1. Sharers(p)' = Sharers(p)
        BY <1>a, <2>2, <2>3, <3>2 DEF Sharers
      <4>. QED
        BY <1>a, <2>2, <3>2, <4>1
    <3>. QED
      BY <3>1, <3>2
  <2>. QED
    BY <2>1, <2>4 DEF RegistryExact, Sharers
<1>3. ASSUME NEW s \in Subscribers, CloseSubscription(s)
      PROVE  RegistryExact'
  BY <1>1, <1>3, UnregisterKeepsExact DEF CloseSubscription, registryVars
<1>4. ASSUME NEW m \in Mutations, CloseBackpressured(m)
      PROVE  RegistryExact'
  <2>1. overflowing \in Subscribers
    BY <1>4 DEF CloseBackpressured, ControlInv, OverflowIsHandled
  <2>. QED
    BY <1>1, <1>4, <2>1, UnregisterKeepsExact DEF CloseBackpressured
<1>5. ASSUME NEW t \in Transitions, Drain(t)
      PROVE  RegistryExact'
  <2>1. registered' = {} /\ \A p \in Routes : leases'[p] = 0
    BY <1>5 DEF Drain
  <2>2. \A x \in Subscribers : subscriber'[x] # "open"
    BY <1>a, <1>5 DEF Drain
  <2>3. \A p \in Routes : Sharers(p)' = {}
    BY <2>1 DEF Sharers
  <2>. QED
    BY <2>1, <2>2, <2>3, FS_EmptySet DEF RegistryExact, Sharers
<1>6. ASSUME NEW t \in Transitions, NEW s \in Subscribers, Terminate(t, s)
      PROVE  RegistryExact'
  <2>1. \A p \in Routes : Sharers(p) = {}
    BY <1>6 DEF Terminate, ControlInv, DrainedIsEmpty, Sharers
  <2>2. \A p \in Routes : leases[p] = 0
    BY <1>a, <2>1, FS_EmptySet
  <2>3. \A p \in Routes : leases'[p] = leases[p]
    BY <1>a, <1>6, <2>2 DEF Terminate
  <2>. QED
    BY <1>6, <2>3 DEF Terminate, RegistryExact
<1>7. \/ UNCHANGED registryVars
      \/ \E m \in Mutations : CloseBackpressured(m)
      \/ \E s \in Subscribers : Subscribe(s) \/ CloseSubscription(s)
      \/ \E t \in Transitions : Drain(t) \/ \E s \in Subscribers : Terminate(t, s)
  BY DEF Next, MutationStep, TransitionStep, CloseStep, CallPublish, BeginMutation, Write,
         FailMutation, Commit, BeginNotify, SkipClosed, TellNothing, Deliver, Overflow,
         FinishBackpressure, EndNotify, EndMutation, RequestClose, LockForClose, Consume,
         BeginTransition, LockForTransition, UnlockTransition, EndTransition, topicVars
<1>. QED
  BY <1>1, <1>2, <1>3, <1>4, <1>5, <1>6, <1>7

-----------------------------------------------------------------------------
(* No lost update *)

\* Nothing is uncommitted while the mutation semaphore is free.
LEMMA FreeMeansCommitted ==
    ASSUME TypeOK, ControlInv, UncommittedIsWritten, mutationSemaphore \notin Mutations
    PROVE  rows = committed /\ Readable = {committed}
<1>1. \A k \in Keys : rows[k] = committed[k]
  BY DEF UncommittedIsWritten, ControlInv, MutationHolderKnown
<1>2. rows = committed
  BY <1>1 DEF TypeOK, Contents
<1>3. committed \in Readable
  BY DEF TypeOK, Readable
<1>4. ASSUME NEW content \in Readable
      PROVE  content = committed
  BY <1>1, <1>4 DEF TypeOK, Readable, Contents
<1>. QED
  BY <1>2, <1>3, <1>4

\* Rows stay uncommitted only under the mutation that wrote them.
LEMMA UncommittedStaysWritten ==
    ASSUME TypeOK, ControlInv, UncommittedIsWritten, Next
    PROVE  UncommittedIsWritten'
<1>. USE DEF storeVars, mutationVars
<1>a. /\ DOMAIN stage = Mutations /\ DOMAIN route = Mutations
      /\ rows \in [Keys -> Values \union {Absent}]
      /\ StagesFollowCalls
  BY DEF TypeOK, Contents, ControlInv
<1>1. ASSUME NEW m \in Mutations, Write(m)
      PROVE  UncommittedIsWritten'
  <2>1. rows = committed
    BY <1>1, FreeMeansCommitted, ProcessesAreDistinct DEF Write
  <2>2. \A k \in Keys : rows'[k] # rows[k] => k \in Visible(route'[m])
    BY <1>a, <1>1 DEF Write
  <2>3. stage'[m] = "written"
    BY <1>a, <1>1 DEF Write
  <2>. QED
    BY <1>1, <2>1, <2>2, <2>3 DEF Write, UncommittedIsWritten, Visible
<1>2. ASSUME NEW m \in Mutations, Commit(m)
      PROVE  UncommittedIsWritten'
  BY <1>2 DEF Commit, UncommittedIsWritten
<1>3. ASSUME NEW t \in Transitions, Drain(t)
      PROVE  UncommittedIsWritten'
  <2>1. rows = committed
    BY <1>3, FreeMeansCommitted, ProcessesAreDistinct DEF Drain
  <2>2. rows' = committed'
    BY <1>3, <2>1 DEF Drain
  <2>. QED
    BY <2>2 DEF UncommittedIsWritten
<1>4. ASSUME NEW m \in Mutations,
             \/ BeginMutation(m) \/ FailMutation(m) \/ BeginNotify(m) \/ EndNotify(m)
             \/ EndMutation(m) \/ CloseBackpressured(m) \/ FinishBackpressure(m)
             \/ \E s \in Subscribers : Overflow(m, s)
      PROVE  UncommittedIsWritten'
  <2>1. /\ stage[m] # "written"
        /\ \A n \in Mutations : n # m => stage'[n] = stage[n] /\ route'[n] = route[n]
    BY <1>a, <1>4 DEF BeginMutation, Admit, FailMutation, BeginNotify, EndNotify, EndMutation,
                      CloseBackpressured, FinishBackpressure, Overflow, Telling, StagesFollowCalls
  <2>2. UNCHANGED <<rows, committed>>
    BY <1>4 DEF BeginMutation, FailMutation, BeginNotify, EndNotify, EndMutation,
                CloseBackpressured, FinishBackpressure, Overflow
  <2>. QED
    BY <2>1, <2>2 DEF UncommittedIsWritten, Visible
<1>5. CASE UNCHANGED <<rows, committed, stage, route>>
  BY <1>5 DEF UncommittedIsWritten, Visible
<1>6. \/ UNCHANGED <<rows, committed, stage, route>>
      \/ \E m \in Mutations :
            \/ Write(m) \/ Commit(m)
            \/ BeginMutation(m) \/ FailMutation(m) \/ BeginNotify(m) \/ EndNotify(m)
            \/ EndMutation(m) \/ CloseBackpressured(m) \/ FinishBackpressure(m)
            \/ \E s \in Subscribers : Overflow(m, s)
      \/ \E t \in Transitions : Drain(t)
  BY DEF Next, MutationStep, TransitionStep, CloseStep, CallPublish, SkipClosed, TellNothing,
         Deliver, Subscribe, RequestClose, LockForClose, CloseSubscription, Consume,
         BeginTransition, LockForTransition, Terminate, UnlockTransition, EndTransition, topicVars
<1>. QED
  BY <1>1, <1>2, <1>3, <1>4, <1>5, <1>6

\* Who does not listen to a partition sees none of its keys.
LEMMA UnheardIsUnseen ==
    ASSUME NEW s \in Subscribers, NEW p \in Routes, ~Listens(s, p), NEW k \in Keys,
           k \in Visible(p)
    PROVE  k \notin Visible(scope[s])
BY DEF Listens, Visible

\* No mutation has captured the subscription.
Caught(s) == \A m \in Mutations : s \notin captured[m]

\* Its cursor shows rows that can be read now.
Seen(s) == \E content \in Readable : cursor[s].content = Result(scope[s], content)

\* Who is not captured keeps having seen readable rows.
LEMMA CursorStaysReadable ==
    ASSUME TypeOK, ControlInv, RegistryExact, UncommittedIsWritten, CursorIsReadable, Next
    PROVE  CursorIsReadable'
<1>. USE DEF storeVars, mutationVars, registryVars, streamVars
<1>a. /\ DOMAIN captured = Mutations /\ DOMAIN cursor = Subscribers
      /\ DOMAIN subscriber = Subscribers /\ DOMAIN scope = Subscribers
      /\ registered = {x \in Subscribers : subscriber[x] = "open"}
      /\ Nobody \notin Subscribers
  BY ProcessesAreDistinct DEF TypeOK, RegistryExact
<1>b. \A s \in Subscribers : subscriber[s] = "open" /\ overflowing # s /\ Caught(s) => Seen(s)
  BY DEF CursorIsReadable, Caught, Seen
<1>. SUFFICES ASSUME NEW s \in Subscribers, subscriber'[s] = "open", overflowing' # s, Caught(s)'
              PROVE  Seen(s)'
  BY DEF CursorIsReadable, Caught, Seen
<1>c. ASSUME Seen(s), UNCHANGED <<rows, committed>>, cursor'[s] = cursor[s],
             scope'[s] = scope[s]
      PROVE  Seen(s)'
  <2>1. PICK content \in Readable : cursor[s].content = Result(scope[s], content)
    BY <1>c DEF Seen
  <2>2. content \in Readable'
    BY <1>c, <2>1 DEF Readable
  <2>3. Result(scope[s], content)' = Result(scope[s], content)
    BY <1>c DEF Result, Visible
  <2>. QED
    BY <1>c, <2>1, <2>2, <2>3 DEF Seen
<1>1. ASSUME NEW m \in Mutations, Write(m)
      PROVE  Seen(s)'
  <2>1. Seen(s)
    BY <1>1, <1>b DEF Write, Caught
  <2>2. Readable = {committed}
    BY <1>1, FreeMeansCommitted, ProcessesAreDistinct DEF Write
  <2>3. committed \in Readable'
    BY <1>1 DEF Write, Readable, TypeOK
  <2>. QED
    BY <1>1, <2>1, <2>2, <2>3 DEF Write, Seen, Result, Visible
<1>2. ASSUME NEW m \in Mutations, Commit(m)
      PROVE  Seen(s)'
  <2>0. subscriber[s] = "open" /\ overflowing # s
    BY <1>2 DEF Commit
  <2>1. CASE rows = committed /\ UNCHANGED <<committed, version, captured>>
    <3>1. Seen(s)
      BY <1>2, <1>b, <2>0, <2>1 DEF Caught
    <3>2. Readable' = Readable
      BY <1>2, <2>1 DEF Commit, Readable
    <3>. QED
      BY <1>2, <3>1, <3>2 DEF Commit, Seen, Result, Visible
  <2>2. CASE /\ committed' = rows
             /\ captured' = [captured EXCEPT ![m] = {x \in registered : Listens(x, route[m])}]
    <3>1. route[m] \in Routes /\ ~Listens(s, route[m])
      BY <1>a, <2>0, <2>2 DEF Caught, TypeOK
    <3>2. Caught(s)
      BY <1>a, <1>2, <2>2 DEF Caught, Commit, ControlInv, CapturedIsCommitted
    <3>3. PICK content \in Readable : cursor[s].content = Result(scope[s], content)
      BY <1>b, <2>0, <3>2 DEF Seen
    <3>4. \A n \in Mutations : stage[n] = "written" => n = m
      BY <1>2 DEF Commit, ControlInv, MutationHolderKnown
    <3>5. \A k \in Keys : k \in Visible(scope[s]) => content[k] = rows[k]
      BY <3>1, <3>4, UnheardIsUnseen DEF Readable, UncommittedIsWritten
    <3>6. Result(scope[s], content) = Result(scope[s], rows)
      BY <3>5 DEF Result
    <3>7. rows \in Readable'
      BY <1>2, <2>2 DEF Commit, Readable, TypeOK
    <3>. QED
      BY <1>2, <3>3, <3>6, <3>7 DEF Commit, Seen, Result, Visible
  <2>. QED
    BY <1>2, <2>1, <2>2 DEF Commit
<1>3. ASSUME NEW m \in Mutations, NEW x \in Subscribers, TellNothing(m, x) \/ Deliver(m, x)
      PROVE  Seen(s)'
  <2>0. Readable' = Readable /\ UNCHANGED <<subscriber, scope, overflowing>>
    BY <1>3 DEF TellNothing, Deliver, Readable
  <2>1. CASE x = s
    <3>1. PICK next \in Evaluations(s) : next.content = cursor'[s].content
      BY <1>a, <1>3, <2>1 DEF TellNothing, Deliver
    <3>. QED
      BY <2>0, <3>1 DEF Evaluations, Seen, Result, Visible
  <2>2. CASE x # s
    <3>1. Caught(s) /\ cursor'[s] = cursor[s]
      BY <1>a, <1>3, <2>2 DEF TellNothing, Deliver, Told, Caught
    <3>. QED
      BY <1>b, <2>0, <3>1 DEF Seen, Result, Visible
  <2>. QED
    BY <2>1, <2>2
<1>4. ASSUME NEW m \in Mutations, NEW x \in Subscribers, SkipClosed(m, x)
      PROVE  Seen(s)'
  <2>1. x # s /\ Caught(s)
    BY <1>a, <1>4 DEF SkipClosed, Told, Caught
  <2>. QED
    BY <1>b, <1>4, <2>1 DEF SkipClosed, Seen, Readable, Result, Visible
<1>5. ASSUME NEW m \in Mutations, NEW x \in Subscribers, Overflow(m, x)
      PROVE  Seen(s)'
  <2>1. overflowing = Nobody
    BY <1>5, HolderIsAlone DEF Overflow, Telling, ControlInv, OverflowIsHandled
  <2>2. x # s /\ cursor'[s] = cursor[s]
    BY <1>a, <1>5 DEF Overflow
  <2>. QED
    BY <1>a, <1>b, <1>c, <1>5, <2>1, <2>2 DEF Overflow, Caught
<1>6. ASSUME NEW m \in Mutations, CloseBackpressured(m)
      PROVE  Seen(s)'
  BY <1>a, <1>b, <1>c, <1>6 DEF CloseBackpressured, Unregister, Caught
<1>7. ASSUME NEW m \in Mutations, FinishBackpressure(m)
      PROVE  Seen(s)'
  <2>1. overflowing # s
    BY <1>7 DEF FinishBackpressure, ControlInv, OverflowIsHandled
  <2>2. Caught(s)
    BY <1>a, <1>7, <2>1 DEF FinishBackpressure, Caught
  <2>. QED
    BY <1>b, <1>c, <1>7, <2>1, <2>2 DEF FinishBackpressure
<1>8. ASSUME NEW x \in Subscribers, Subscribe(x)
      PROVE  Seen(s)'
  <2>0. Readable' = Readable
    BY <1>8 DEF Subscribe, Readable
  <2>1. CASE x = s
    <3>1. rows \in Readable
      BY DEF Readable, TypeOK
    <3>. QED
      BY <1>a, <1>8, <2>0, <2>1, <3>1 DEF Subscribe, Seen, Result, Visible
  <2>2. CASE x # s
    BY <1>a, <1>b, <1>c, <1>8, <2>2 DEF Subscribe, Caught
  <2>. QED
    BY <2>1, <2>2
<1>9. ASSUME NEW x \in Subscribers, CloseSubscription(x)
      PROVE  Seen(s)'
  BY <1>a, <1>b, <1>c, <1>9 DEF CloseSubscription, Unregister, Caught
<1>10. ASSUME NEW t \in Transitions, Drain(t)
       PROVE  Seen(s)'
  BY <1>a, <1>10 DEF Drain
<1>11. CASE UNCHANGED <<rows, committed, version, captured, subscriber, scope, cursor, overflowing>>
  BY <1>b, <1>11 DEF Caught, Seen, Readable, Result, Visible
<1>12. \/ UNCHANGED <<rows, committed, version, captured, subscriber, scope, cursor, overflowing>>
       \/ \E m \in Mutations :
            \/ Write(m) \/ Commit(m) \/ CloseBackpressured(m) \/ FinishBackpressure(m)
            \/ \E x \in Subscribers :
                TellNothing(m, x) \/ Deliver(m, x) \/ SkipClosed(m, x) \/ Overflow(m, x)
       \/ \E x \in Subscribers : Subscribe(x) \/ CloseSubscription(x)
       \/ \E t \in Transitions : Drain(t)
  BY DEF Next, MutationStep, TransitionStep, CloseStep, CallPublish, BeginMutation, FailMutation,
         BeginNotify, EndNotify, EndMutation, RequestClose, LockForClose, Consume,
         BeginTransition, LockForTransition, Terminate, UnlockTransition, EndTransition, topicVars
<1>. QED
  BY <1>1, <1>2, <1>3, <1>4, <1>5, <1>6, <1>7, <1>8, <1>9, <1>10, <1>11, <1>12

\* If whoever is not captured has seen readable rows, no update is lost.
LEMMA ReadableLosesNothing ==
    ASSUME TypeOK, UncommittedIsWritten, CursorIsReadable
    PROVE  NoLostUpdate
<1>. SUFFICES ASSUME NEW s \in Subscribers, subscriber[s] = "open", overflowing # s,
                     ~WillBeTold(s)
              PROVE  cursor[s].content = Result(scope[s], committed)
  BY DEF NoLostUpdate
<1>1. PICK content \in Readable : cursor[s].content = Result(scope[s], content)
  BY DEF CursorIsReadable, WillBeTold
<1>2. ASSUME NEW k \in Keys, k \in Visible(scope[s])
      PROVE  content[k] = committed[k]
  <2>1. ASSUME NEW m \in Mutations, stage[m] = "written"
        PROVE  k \notin Visible(route[m])
    BY <1>2, <2>1, UnheardIsUnseen DEF WillBeTold, TypeOK
  <2>. QED
    BY <2>1 DEF UncommittedIsWritten, Readable
<1>3. Result(scope[s], content) = Result(scope[s], committed)
  BY <1>2 DEF Result
<1>. QED
  BY <1>1, <1>3

-----------------------------------------------------------------------------
(* Queues *)

\* A sequence is a suffix of itself and its tail is one of it.
LEMMA TailIsSuffix ==
    ASSUME NEW S, NEW q \in Seq(S)
    PROVE  /\ IsSuffix(q, q)
           /\ q # <<>> => IsSuffix(Tail(q), q)
<1>1. ASSUME NEW s \in Seq(S)
      PROVE  /\ Reverse(s) \in Seq(S) /\ Len(Reverse(s)) = Len(s)
             /\ \A i \in 1..Len(s) : Reverse(s)[i] = s[Len(s) - i + 1]
  BY DEF Reverse
<1>2. IsSuffix(q, q)
  BY <1>1 DEF IsSuffix, IsPrefix
<1>3. ASSUME q # <<>>
      PROVE  IsSuffix(Tail(q), q)
  <2>1. /\ Tail(q) \in Seq(S) /\ Len(Tail(q)) = Len(q) - 1
        /\ \A i \in 1..Len(Tail(q)) : Tail(q)[i] = q[i + 1]
    BY <1>3, HeadTailProperties
  <2>2. \A i \in 1..Len(Tail(q)) : Reverse(Tail(q))[i] = Reverse(q)[i]
    <3>. SUFFICES ASSUME NEW i \in 1..Len(Tail(q))
                  PROVE  Reverse(Tail(q))[i] = Reverse(q)[i]
      OBVIOUS
    <3>1. /\ Len(q) \in Nat /\ i \in 1..Len(q)
          /\ Len(Tail(q)) - i + 1 \in 1..Len(Tail(q))
          /\ Len(Tail(q)) - i + 1 + 1 = Len(q) - i + 1
      BY <2>1
    <3>2. Reverse(Tail(q))[i] = Tail(q)[Len(Tail(q)) - i + 1]
      BY <1>1, <2>1
    <3>3. Tail(q)[Len(Tail(q)) - i + 1] = q[Len(q) - i + 1]
      BY <2>1, <3>1
    <3>4. Reverse(q)[i] = q[Len(q) - i + 1]
      BY <1>1, <3>1
    <3>. QED
      BY <3>2, <3>3, <3>4
  <2>3. SubSeq(Reverse(Tail(q)), 1, Len(Tail(q))) = SubSeq(Reverse(q), 1, Len(Tail(q)))
    BY <1>1, <2>1, <2>2
  <2>4. Len(Reverse(Tail(q))) = Len(Tail(q)) /\ Len(Reverse(q)) = Len(q)
    BY <1>1, <2>1
  <2>. QED
    BY <2>1, <2>3, <2>4 DEF IsSuffix, IsPrefix
<1>. QED
  BY <1>2, <1>3

\* The queue of an open subscription holds no terminal status.
LEMMA OpenHasNoStatus ==
    ASSUME StatusIsLast, NEW s \in Subscribers, subscriber[s] # "closed",
           NEW i \in 1..Len(queue[s])
    PROVE  queue[s][i].type # "status"
BY DEF StatusIsLast

\* StatusIsLast, VersionChain and QueueReachesVersion of one subscription.
StatusLast(s) ==
    \A i \in 1..Len(queue[s]) :
        queue[s][i].type = "status" => i = Len(queue[s]) /\ ended[s] /\ subscriber[s] = "closed"

\* A queue that was just ended holds the status alone.
LEMMA TerminatedHoldsStatus ==
    ASSUME TypeOK, NEW x \in Subscribers, NEW code, TerminateQueue(x, code)
    PROVE  /\ queue'[x] = <<Status(code)>> /\ ended'[x]
           /\ \A s \in Subscribers \ {x} : queue'[s] = queue[s] /\ ended'[s] = ended[s]
BY DEF TypeOK, TerminateQueue

\* Every step keeps a terminal status last.
LEMMA StatusStaysLast ==
    ASSUME TypeOK, ControlInv, StatusIsLast, Next
    PROVE  StatusIsLast'
<1>. USE DEF registryVars, streamVars
<1>a. /\ DOMAIN subscriber = Subscribers /\ DOMAIN ended = Subscribers
      /\ DOMAIN queue = Subscribers /\ \A s \in Subscribers : queue[s] \in Seq(Event)
  BY DEF TypeOK
<1>. SUFFICES ASSUME NEW s \in Subscribers
              PROVE  StatusLast(s)'
  BY DEF StatusIsLast, StatusLast
<1>b. StatusLast(s)
  BY DEF StatusIsLast, StatusLast
<1>c. ASSUME queue'[s] = queue[s], ended[s] => ended'[s],
             subscriber[s] = "closed" => subscriber'[s] = "closed"
      PROVE  StatusLast(s)'
  BY <1>b, <1>c DEF StatusLast
<1>1. ASSUME NEW m \in Mutations, NEW x \in Subscribers, Deliver(m, x)
      PROVE  StatusLast(s)'
  <2>1. UNCHANGED <<ended, subscriber>> /\ \E event \in Event :
            /\ event.type = "delta"
            /\ queue' = [queue EXCEPT ![x] = Append(@, event)]
    <3>1. PICK next \in Evaluations(x) :
            queue' = [queue EXCEPT ![x] =
                Append(@, Delta(cursor[x].version, next.version,
                                Operations(cursor[x].content, next.content)))]
      BY <1>1 DEF Deliver
    <3>2. next \in Evaluation /\ cursor[x] \in Evaluation
      BY EvaluationType DEF TypeOK, Evaluation
    <3>3. Delta(cursor[x].version, next.version, Operations(cursor[x].content, next.content))
              \in Event
      BY <3>2, EventType DEF Evaluation
    <3>. QED
      BY <1>1, <3>1, <3>3 DEF Deliver, Delta
  <2>2. PICK event \in Event :
            event.type = "delta" /\ queue' = [queue EXCEPT ![x] = Append(@, event)]
    BY <2>1
  <2>3. CASE x = s
    <3>1. queue'[s] = Append(queue[s], event)
      BY <1>a, <2>2, <2>3
    <3>2. \A i \in 1..Len(queue[s]) : queue[s][i].type # "status"
      BY <1>1, <2>3, OpenHasNoStatus DEF Deliver
    <3>. QED
      BY <1>a, <2>2, <3>1, <3>2, AppendProperties DEF StatusLast
  <2>4. CASE x # s
    BY <1>a, <1>c, <2>1, <2>2, <2>4
  <2>. QED
    BY <2>3, <2>4
<1>2. ASSUME NEW m \in Mutations, CloseBackpressured(m)
      PROVE  StatusLast(s)'
  BY <1>a, <1>c, <1>2 DEF CloseBackpressured, Unregister
<1>3. ASSUME NEW m \in Mutations, FinishBackpressure(m)
      PROVE  StatusLast(s)'
  <2>1. overflowing \in Subscribers /\ subscriber[overflowing] = "closed"
    BY <1>3 DEF FinishBackpressure, ControlInv, OverflowIsHandled
  <2>2. CASE overflowing = s
    <3>1. TerminateQueue(s, "BackpressureExceeded")
      BY <1>3, <2>2 DEF FinishBackpressure
    <3>2. queue'[s] = <<Status("BackpressureExceeded")>> /\ ended'[s]
      BY <3>1, TerminatedHoldsStatus
    <3>3. subscriber'[s] = "closed"
      BY <1>3, <2>1, <2>2 DEF FinishBackpressure
    <3>4. \A i \in 1..Len(queue'[s]) : i = Len(queue'[s])
      BY <3>2
    <3>. QED
      BY <3>2, <3>3, <3>4, Zenon DEF StatusLast
  <2>3. CASE overflowing # s
    BY <1>c, <1>3, <2>1, <2>3, TerminatedHoldsStatus DEF FinishBackpressure
  <2>. QED
    BY <2>2, <2>3
<1>4. ASSUME NEW x \in Subscribers, Subscribe(x)
      PROVE  StatusLast(s)'
  <2>1. CASE x = s
    <3>1. PICK p \in Routes :
              queue' = [queue EXCEPT ![x] = <<Snapshot(version, Result(p, rows))>>]
      BY <1>4 DEF Subscribe
    <3>. QED
      BY <1>a, <2>1, <3>1 DEF Snapshot, StatusLast
  <2>2. CASE x # s
    BY <1>a, <1>c, <1>4, <2>2 DEF Subscribe
  <2>. QED
    BY <2>1, <2>2
<1>5. ASSUME NEW x \in Subscribers, CloseSubscription(x)
      PROVE  StatusLast(s)'
  BY <1>a, <1>c, <1>5 DEF CloseSubscription, Unregister
<1>6. ASSUME NEW x \in Subscribers, Consume(x)
      PROVE  StatusLast(s)'
  <2>1. CASE x = s
    <3>1. queue'[s] = Tail(queue[s]) /\ queue[s] # <<>> /\ UNCHANGED <<ended, subscriber>>
      BY <1>a, <1>6, <2>1 DEF Consume
    <3>. QED
      BY <1>a, <1>b, <3>1, HeadTailProperties DEF StatusLast
  <2>2. CASE x # s
    BY <1>a, <1>c, <1>6, <2>2 DEF Consume
  <2>. QED
    BY <2>1, <2>2
<1>7. ASSUME NEW t \in Transitions, Drain(t)
      PROVE  StatusLast(s)'
  BY <1>a, <1>c, <1>7 DEF Drain
<1>8. ASSUME NEW t \in Transitions, NEW x \in Subscribers, Terminate(t, x)
      PROVE  StatusLast(s)'
  <2>1. subscriber[x] = "closed"
    BY <1>8 DEF Terminate, ControlInv, DrainedIsEmpty
  <2>2. CASE x = s
    <3>1. TerminateQueue(s, "SubscriptionClosed")
      BY <1>8, <2>2 DEF Terminate
    <3>2. queue'[s] = <<Status("SubscriptionClosed")>> /\ ended'[s]
      BY <3>1, TerminatedHoldsStatus
    <3>3. subscriber'[s] = "closed"
      BY <1>8, <2>1, <2>2 DEF Terminate
    <3>4. \A i \in 1..Len(queue'[s]) : i = Len(queue'[s])
      BY <3>2
    <3>. QED
      BY <3>2, <3>3, <3>4, Zenon DEF StatusLast
  <2>3. CASE x # s
    BY <1>c, <1>8, <2>3, TerminatedHoldsStatus DEF Terminate
  <2>. QED
    BY <2>2, <2>3
<1>9. CASE UNCHANGED <<queue, ended, subscriber>>
  BY <1>c, <1>9
<1>10. \/ UNCHANGED <<queue, ended, subscriber>>
       \/ \E m \in Mutations :
            \/ CloseBackpressured(m) \/ FinishBackpressure(m)
            \/ \E x \in Subscribers : Deliver(m, x)
       \/ \E x \in Subscribers : Subscribe(x) \/ CloseSubscription(x) \/ Consume(x)
       \/ \E t \in Transitions : Drain(t) \/ \E x \in Subscribers : Terminate(t, x)
  BY DEF Next, MutationStep, TransitionStep, CloseStep, CallPublish, BeginMutation, Write,
         FailMutation, Commit, BeginNotify, SkipClosed, TellNothing, Overflow, EndNotify,
         EndMutation, RequestClose, LockForClose, BeginTransition, LockForTransition,
         UnlockTransition, EndTransition, topicVars
<1>. QED
  BY <1>1, <1>2, <1>3, <1>4, <1>5, <1>6, <1>7, <1>8, <1>9, <1>10

\* What the consumer has after an event of a row change is the event's version.
LEMMA ReplayVersion ==
    ASSUME NEW state, NEW event \in Event, event.type # "status"
    PROVE  Replay(state, event).version = event.toVersion
<1>1. CASE event.type = "snapshot"
  BY <1>1 DEF Replay
<1>2. CASE event.type = "delta"
  BY <1>2 DEF Replay
<1>. QED
  BY <1>1, <1>2 DEF Event

Chained(s) ==
    \A i \in 1..Len(queue[s]) :
        queue[s][i].type = "delta" =>
            queue[s][i].fromVersion =
                IF i = 1 THEN view[s].version ELSE queue[s][i - 1].toVersion

Reaches(s) == subscriber[s] = "open" /\ overflowing # s => LastVersion(s) = cursor[s].version

\* Every step keeps the versions of a queue chained, up to the cursor.
LEMMA VersionsStayChained ==
    ASSUME TypeOK, ControlInv, StatusIsLast, VersionChain, QueueReachesVersion, Next
    PROVE  VersionChain' /\ QueueReachesVersion'
<1>. USE DEF registryVars, streamVars
<1>a. /\ DOMAIN subscriber = Subscribers /\ DOMAIN cursor = Subscribers
      /\ DOMAIN view = Subscribers
      /\ DOMAIN queue = Subscribers /\ \A s \in Subscribers : queue[s] \in Seq(Event)
      /\ Nobody \notin Subscribers
  BY ProcessesAreDistinct DEF TypeOK
<1>. SUFFICES ASSUME NEW s \in Subscribers
              PROVE  Chained(s)' /\ Reaches(s)'
  BY DEF VersionChain, QueueReachesVersion, Chained, Reaches
<1>b. Chained(s) /\ Reaches(s)
  BY DEF VersionChain, QueueReachesVersion, Chained, Reaches
<1>c. ASSUME queue'[s] = queue[s], view'[s] = view[s]
      PROVE  Chained(s)' /\ LastVersion(s)' = LastVersion(s)
  BY <1>b, <1>c DEF Chained, LastVersion
<1>1. ASSUME NEW m \in Mutations, NEW x \in Subscribers, Deliver(m, x)
      PROVE  Chained(s)' /\ Reaches(s)'
  <2>0. UNCHANGED <<view, subscriber, overflowing>>
    BY <1>1 DEF Deliver
  <2>1. CASE x = s
    <3>1. PICK next \in Evaluations(s) :
              /\ cursor' = [cursor EXCEPT ![s] = next]
              /\ queue' = [queue EXCEPT ![s] =
                    Append(@, Delta(cursor[s].version, next.version,
                                    Operations(cursor[s].content, next.content)))]
      BY <1>1, <2>1 DEF Deliver
    <3>. DEFINE event == Delta(cursor[s].version, next.version,
                               Operations(cursor[s].content, next.content))
    <3>2. event \in Event
      BY EvaluationType, EventType DEF TypeOK, Evaluation
    <3>3. event.fromVersion = cursor[s].version /\ event.toVersion = next.version
      BY DEF Delta
    <3>4. cursor'[s] = next /\ queue'[s] = Append(queue[s], event)
      BY <1>a, <3>1
    <3>. HIDE DEF event
    <3>5. LastVersion(s) = cursor[s].version
      <4>1. overflowing = Nobody
        BY <1>1, HolderIsAlone DEF Deliver, Telling, ControlInv, OverflowIsHandled
      <4>. QED
        BY <1>a, <1>b, <1>1, <2>1, <4>1 DEF Deliver, Reaches
    <3>6. /\ Len(queue'[s]) = Len(queue[s]) + 1
          /\ \A i \in 1..Len(queue[s]) : queue'[s][i] = queue[s][i]
          /\ queue'[s][Len(queue[s]) + 1] = event
          /\ Len(queue[s]) \in Nat /\ (queue[s] = <<>> <=> Len(queue[s]) = 0)
          /\ queue'[s] # <<>>
      BY <1>a, <3>2, <3>4, AppendProperties
    <3>7. LastVersion(s)' = cursor'[s].version
      BY <3>3, <3>4, <3>6 DEF LastVersion
    <3>8. ASSUME NEW i \in 1..Len(queue'[s]), queue'[s][i].type = "delta"
          PROVE  queue'[s][i].fromVersion =
                     IF i = 1 THEN view'[s].version ELSE queue'[s][i - 1].toVersion
      <4>1. CASE i = Len(queue[s]) + 1
        BY <2>0, <3>3, <3>5, <3>6, <4>1 DEF LastVersion
      <4>2. CASE i \in 1..Len(queue[s])
        BY <1>b, <2>0, <3>6, <3>8, <4>2 DEF Chained
      <4>. QED
        BY <3>6, <4>1, <4>2
    <3>. QED
      BY <3>7, <3>8 DEF Chained, Reaches
  <2>2. CASE x # s
    <3>1. queue'[s] = queue[s] /\ cursor'[s] = cursor[s]
      BY <1>a, <1>1, <2>2 DEF Deliver
    <3>. QED
      BY <1>b, <1>c, <2>0, <3>1 DEF Reaches
  <2>. QED
    BY <2>1, <2>2
<1>2. ASSUME NEW x \in Subscribers, Consume(x)
      PROVE  Chained(s)' /\ Reaches(s)'
  <2>0. UNCHANGED <<cursor, subscriber, overflowing>>
    BY <1>2 DEF Consume
  <2>1. CASE x = s
    <3>. DEFINE q == queue[s]
    <3>1. /\ q \in Seq(Event) /\ q # <<>>
          /\ queue'[s] = Tail(q) /\ view'[s] = Replay(view[s], Head(q))
      BY <1>a, <1>2, <2>1 DEF Consume
    <3>2. /\ Head(q) = q[1] /\ Head(q) \in Event /\ Len(q) \in Nat \ {0}
          /\ Len(Tail(q)) = Len(q) - 1 /\ \A i \in 1..Len(Tail(q)) : Tail(q)[i] = q[i + 1]
          /\ (Tail(q) = <<>> <=> Len(q) = 1)
      <4>1. /\ Head(q) \in Event /\ Tail(q) \in Seq(Event) /\ Len(Tail(q)) = Len(q) - 1
            /\ \A i \in 1..Len(Tail(q)) : Tail(q)[i] = q[i + 1]
        BY <3>1, HeadTailProperties
      <4>2. Len(q) \in Nat \ {0} /\ Head(q) = q[1]
        BY <3>1
      <4>3. Tail(q) = <<>> <=> Len(Tail(q)) = 0
        BY <4>1, EmptySeq
      <4>. QED
        BY <4>1, <4>2, <4>3
    <3>3. q[1].type # "status" => view'[s].version = q[1].toVersion
      BY <3>1, <3>2, ReplayVersion
    <3>4. q[1].type = "status" => Len(q) = 1 /\ subscriber[s] = "closed"
      BY <3>2 DEF StatusIsLast
    <3>5. ASSUME NEW i \in 1..Len(queue'[s]), queue'[s][i].type = "delta"
          PROVE  queue'[s][i].fromVersion =
                     IF i = 1 THEN view'[s].version ELSE queue'[s][i - 1].toVersion
      <4>1. i + 1 \in 1..Len(q) /\ i + 1 # 1 /\ queue'[s][i] = q[i + 1]
        BY <3>1, <3>2
      <4>2. q[i + 1].fromVersion = q[i].toVersion
        BY <1>b, <3>5, <4>1 DEF Chained
      <4>3. CASE i = 1
        BY <3>2, <3>3, <3>4, <4>1, <4>2, <4>3
      <4>4. CASE i # 1
        BY <3>1, <3>2, <4>1, <4>2, <4>4
      <4>. QED
        BY <4>3, <4>4
    <3>6. ASSUME subscriber[s] = "open", overflowing # s
          PROVE  LastVersion(s)' = cursor[s].version
      <4>1. q[Len(q)].toVersion = cursor[s].version
        BY <1>b, <3>1, <3>6 DEF Reaches, LastVersion
      <4>2. CASE Len(q) = 1
        BY <3>1, <3>2, <3>3, <3>4, <3>6, <4>1, <4>2 DEF LastVersion
      <4>3. CASE Len(q) # 1
        <5>1. Tail(q)[Len(Tail(q))] = q[Len(q)]
          BY <3>2, <4>3
        <5>. QED
          BY <3>1, <3>2, <4>1, <4>3, <5>1 DEF LastVersion
      <4>. QED
        BY <4>2, <4>3
    <3>. QED
      BY <2>0, <3>5, <3>6 DEF Chained, Reaches
  <2>2. CASE x # s
    <3>1. queue'[s] = queue[s] /\ view'[s] = view[s]
      BY <1>a, <1>2, <2>2 DEF Consume
    <3>. QED
      BY <1>b, <1>c, <2>0, <3>1 DEF Reaches
  <2>. QED
    BY <2>1, <2>2
<1>3. ASSUME NEW m \in Mutations, NEW x \in Subscribers, Overflow(m, x)
      PROVE  Chained(s)' /\ Reaches(s)'
  <2>1. overflowing = Nobody
    BY <1>3, HolderIsAlone DEF Overflow, Telling, ControlInv, OverflowIsHandled
  <2>2. x # s => cursor'[s] = cursor[s]
    BY <1>a, <1>3 DEF Overflow
  <2>. QED
    BY <1>a, <1>b, <1>c, <1>3, <2>1, <2>2 DEF Overflow, Reaches
<1>4. ASSUME NEW m \in Mutations, CloseBackpressured(m)
      PROVE  Chained(s)' /\ Reaches(s)'
  BY <1>a, <1>b, <1>c, <1>4 DEF CloseBackpressured, Unregister, Reaches
<1>5. ASSUME NEW x \in Subscribers, NEW code, TerminateQueue(x, code), subscriber[x] = "closed",
             UNCHANGED <<view, cursor, subscriber>>, overflowing' = overflowing \/ overflowing = x
      PROVE  Chained(s)' /\ Reaches(s)'
  <2>1. CASE x = s
    <3>1. queue'[s] = <<Status(code)>>
      BY <1>5, <2>1, TerminatedHoldsStatus
    <3>2. Chained(s)'
      BY <3>1 DEF Chained, Status
    <3>. QED
      BY <1>5, <2>1, <3>2 DEF Reaches
  <2>2. CASE x # s
    <3>1. queue'[s] = queue[s]
      BY <1>5, <2>2, TerminatedHoldsStatus
    <3>. QED
      BY <1>b, <1>c, <1>5, <2>2, <3>1 DEF Reaches
  <2>. QED
    BY <2>1, <2>2
<1>6. ASSUME NEW m \in Mutations, FinishBackpressure(m)
      PROVE  Chained(s)' /\ Reaches(s)'
  <2>1. overflowing \in Subscribers /\ subscriber[overflowing] = "closed"
    BY <1>6 DEF FinishBackpressure, ControlInv, OverflowIsHandled
  <2>. QED
    BY <1>5, <1>6, <2>1 DEF FinishBackpressure
<1>7. ASSUME NEW t \in Transitions, NEW x \in Subscribers, Terminate(t, x)
      PROVE  Chained(s)' /\ Reaches(s)'
  BY <1>5, <1>7 DEF Terminate, ControlInv, DrainedIsEmpty
<1>8. ASSUME NEW x \in Subscribers, Subscribe(x)
      PROVE  Chained(s)' /\ Reaches(s)'
  <2>1. CASE x = s
    <3>1. PICK p \in Routes :
              /\ cursor' = [cursor EXCEPT ![s] = [version |-> version, content |-> Result(p, rows)]]
              /\ queue' = [queue EXCEPT ![s] = <<Snapshot(version, Result(p, rows))>>]
      BY <1>8, <2>1 DEF Subscribe
    <3>2. cursor'[s].version = version /\ queue'[s] = <<Snapshot(version, Result(p, rows))>>
      BY <1>a, <3>1
    <3>. QED
      BY <3>2 DEF Snapshot, Chained, Reaches, LastVersion
  <2>2. CASE x # s
    <3>1. /\ queue'[s] = queue[s] /\ view'[s] = view[s] /\ cursor'[s] = cursor[s]
          /\ subscriber'[s] = subscriber[s] /\ overflowing' = overflowing
      BY <1>a, <1>8, <2>2 DEF Subscribe
    <3>. QED
      BY <1>b, <1>c, <3>1 DEF Reaches
  <2>. QED
    BY <2>1, <2>2
<1>9. ASSUME NEW x \in Subscribers, CloseSubscription(x)
      PROVE  Chained(s)' /\ Reaches(s)'
  BY <1>a, <1>b, <1>c, <1>9 DEF CloseSubscription, Unregister, Reaches
<1>10. ASSUME NEW t \in Transitions, Drain(t)
       PROVE  Chained(s)' /\ Reaches(s)'
  BY <1>b, <1>c, <1>10 DEF Drain, Reaches
<1>11. CASE UNCHANGED <<queue, view, cursor, subscriber, overflowing>>
  BY <1>b, <1>c, <1>11 DEF Reaches
<1>12. \/ UNCHANGED <<queue, view, cursor, subscriber, overflowing>>
       \/ \E m \in Mutations :
            \/ CloseBackpressured(m) \/ FinishBackpressure(m)
            \/ \E x \in Subscribers : Deliver(m, x) \/ Overflow(m, x)
       \/ \E x \in Subscribers : Subscribe(x) \/ CloseSubscription(x) \/ Consume(x)
       \/ \E t \in Transitions : Drain(t) \/ \E x \in Subscribers : Terminate(t, x)
  BY DEF Next, MutationStep, TransitionStep, CloseStep, CallPublish, BeginMutation, Write,
         FailMutation, Commit, BeginNotify, SkipClosed, TellNothing, EndNotify,
         EndMutation, RequestClose, LockForClose, BeginTransition, LockForTransition,
         UnlockTransition, EndTransition, topicVars
<1>. QED
  BY <1>1, <1>2, <1>3, <1>4, <1>6, <1>7, <1>8, <1>9, <1>10, <1>11, <1>12

\* An ended queue is only read.
LEMMA EndedQueueStepDrains ==
    ASSUME TypeOK, ControlInv, [Next]_vars
    PROVE  \A s \in Subscribers : ended[s] => ended'[s] /\ IsSuffix(queue'[s], queue[s])
<1>. USE DEF registryVars, streamVars
<1>a. /\ DOMAIN ended = Subscribers
      /\ DOMAIN queue = Subscribers /\ \A s \in Subscribers : queue[s] \in Seq(Event)
  BY DEF TypeOK
<1>. SUFFICES ASSUME NEW s \in Subscribers, ended[s]
              PROVE  ended'[s] /\ IsSuffix(queue'[s], queue[s])
  OBVIOUS
<1>b. queue'[s] = queue[s] \/ (queue[s] # <<>> /\ queue'[s] = Tail(queue[s]))
      => IsSuffix(queue'[s], queue[s])
  BY <1>a, TailIsSuffix
<1>c. subscriber[s] = "closed"
  BY DEF ControlInv, EndedIsClosed
<1>1. ASSUME NEW m \in Mutations, NEW x \in Subscribers, Deliver(m, x)
      PROVE  ended'[s] /\ IsSuffix(queue'[s], queue[s])
  <2>1. x # s /\ UNCHANGED ended
    BY <1>c, <1>1 DEF Deliver
  <2>2. queue'[s] = queue[s]
    BY <1>a, <1>1, <2>1 DEF Deliver
  <2>. QED
    BY <1>b, <2>1, <2>2
<1>2. ASSUME NEW x \in Subscribers, NEW code, TerminateQueue(x, code), ~ended[x]
      PROVE  ended'[s] /\ IsSuffix(queue'[s], queue[s])
  BY <1>b, <1>2, TerminatedHoldsStatus, Zenon
<1>3. ASSUME NEW m \in Mutations, FinishBackpressure(m)
      PROVE  ended'[s] /\ IsSuffix(queue'[s], queue[s])
  <2>1. overflowing \in Subscribers /\ ~ended[overflowing]
    BY <1>3 DEF FinishBackpressure, ControlInv, OverflowIsHandled
  <2>. QED
    BY <1>2, <1>3, <2>1 DEF FinishBackpressure
<1>4. ASSUME NEW t \in Transitions, NEW x \in Subscribers, Terminate(t, x)
      PROVE  ended'[s] /\ IsSuffix(queue'[s], queue[s])
  BY <1>2, <1>4 DEF Terminate, ControlInv, DrainedIsEmpty
<1>5. ASSUME NEW x \in Subscribers, Subscribe(x)
      PROVE  ended'[s] /\ IsSuffix(queue'[s], queue[s])
  <2>1. x # s /\ UNCHANGED ended
    BY <1>c, <1>5 DEF Subscribe
  <2>2. queue'[s] = queue[s]
    BY <1>a, <1>5, <2>1 DEF Subscribe
  <2>. QED
    BY <1>b, <2>1, <2>2
<1>6. ASSUME NEW x \in Subscribers, CloseSubscription(x)
      PROVE  ended'[s] /\ IsSuffix(queue'[s], queue[s])
  <2>1. ended'[s] /\ UNCHANGED queue
    BY <1>a, <1>6 DEF CloseSubscription
  <2>. QED
    BY <1>b, <2>1
<1>7. ASSUME NEW x \in Subscribers, Consume(x)
      PROVE  ended'[s] /\ IsSuffix(queue'[s], queue[s])
  <2>1. UNCHANGED ended
    BY <1>7 DEF Consume
  <2>2. queue'[s] = queue[s] \/ (queue[s] # <<>> /\ queue'[s] = Tail(queue[s]))
    BY <1>a, <1>7 DEF Consume
  <2>. QED
    BY <1>b, <2>1, <2>2
<1>8. CASE UNCHANGED <<queue, ended>>
  BY <1>b, <1>8
<1>9. \/ UNCHANGED <<queue, ended>>
      \/ \E m \in Mutations : FinishBackpressure(m) \/ \E x \in Subscribers : Deliver(m, x)
      \/ \E x \in Subscribers : Subscribe(x) \/ CloseSubscription(x) \/ Consume(x)
      \/ \E t \in Transitions, x \in Subscribers : Terminate(t, x)
  BY DEF Next, MutationStep, TransitionStep, CloseStep, CallPublish, BeginMutation, Write,
         FailMutation, Commit, BeginNotify, SkipClosed, TellNothing, Overflow, CloseBackpressured,
         EndNotify, EndMutation, RequestClose, LockForClose, BeginTransition, LockForTransition,
         Drain, UnlockTransition, EndTransition, topicVars, vars
<1>. QED
  BY <1>1, <1>3, <1>4, <1>5, <1>6, <1>7, <1>8, <1>9

-----------------------------------------------------------------------------
(* Induction over numbers, and functions defined by it *)

\* A set of numbers that is not empty has a least one.
LEMMA LeastNumber ==
  ASSUME NEW T \in SUBSET Nat, T # {}
  PROVE \E x \in T : \A y \in T : x <= y
<1>. DEFINE R == {ss \in Nat \X Nat : ss[1] < ss[2]}
<1>1. R = OpToRel(<,Nat)
  BY DEF OpToRel
<1>2. IsWellFoundedOn(R, Nat)
  BY <1>1, NatLessThanWellFounded
<1>3. \A x, y \in Nat : y < x => <<y, x>> \in R
  OBVIOUS
<1>. HIDE DEF R
<1>4. \E x \in T : \A y \in T : ~ (<<y, x>> \in R)
  BY <1>2, WFMin
<1>5. PICK x \in T : \A y \in T : ~ (<<y, x>> \in R)
  BY <1>4
<1>6. \A y \in T : ~(y < x)
  BY <1>3, <1>5
<1>7. \A y \in T : x <= y
  BY <1>6
<1>. QED
  BY <1>7

\* Induction from 0 to n.
LEMMA Induction ==
  ASSUME NEW n \in Nat, NEW P, 0 \in P, \A i \in 1..n : i - 1 \in P => i \in P
  PROVE  \A i \in 0..n : i \in P
<1>. DEFINE T == {i \in 0..n : i \notin P}
<1>. SUFFICES ASSUME T # {} PROVE FALSE
  OBVIOUS
<1>0. T \in SUBSET Nat
  OBVIOUS
<1>1. PICK x \in T : \A y \in T : x <= y
  <2>. HIDE DEF T
  <2>. QED BY <1>0, LeastNumber
<1>2. x \in 1..n /\ x - 1 \in 0..n
  BY <1>1
<1>3. x - 1 \in P
  BY <1>1, <1>2
<1>. QED
  BY <1>1, <1>2, <1>3

\* The function f of 0..n is defined from base and, by g, from its value before.
IsRecursive(f, S, base, n, g) ==
  f \in [0..n -> S] /\ f[0] = base /\ \A i \in 1..n : f[i] = g[<<f[i - 1], i>>]

\* Such a function exists.
LEMMA Recursion ==
  ASSUME NEW S, NEW base \in S, NEW n \in Nat, NEW g \in [S \X (1..n) -> S]
  PROVE  \E f : IsRecursive(f, S, base, n, g)
<1>. DEFINE IsUpTo(f, k) == f[0] = base /\ \A i \in 1..k : f[i] = g[<<f[i - 1], i>>]
            P == {k \in 0..n : \E f \in [0..k -> S] : IsUpTo(f, k)}
<1>1. 0 \in P
  <2>1. [i \in 0..0 |-> base] \in [0..0 -> S] /\ IsUpTo([i \in 0..0 |-> base], 0)
    OBVIOUS
  <2>. HIDE DEF IsUpTo
  <2>. QED
    BY <2>1
<1>2. ASSUME NEW k \in 1..n, k - 1 \in P
      PROVE  k \in P
  <2>1. PICK f \in [0..(k - 1) -> S] : IsUpTo(f, k - 1)
    BY <1>2
  <2>. DEFINE h == [i \in 0..k |-> IF i = k THEN g[<<f[k - 1], k>>] ELSE f[i]]
  <2>2. f[k - 1] \in S /\ g[<<f[k - 1], k>>] \in S
    OBVIOUS
  <2>3. h \in [0..k -> S]
    BY <2>2
  <2>4. h[0] = base
    BY <2>1
  <2>5. \A i \in 1..(k - 1) : h[i] = f[i] /\ h[i - 1] = f[i - 1]
    OBVIOUS
  <2>6. h[k] = g[<<f[k - 1], k>>] /\ h[k - 1] = f[k - 1]
    OBVIOUS
  <2>. HIDE DEF h
  <2>7. \A i \in 1..(k - 1) : h[i] = g[<<h[i - 1], i>>]
    BY <2>1, <2>5
  <2>8. IsUpTo(h, k)
    BY <2>4, <2>6, <2>7
  <2>. HIDE DEF IsUpTo
  <2>. QED
    BY <2>3, <2>8
<1>. HIDE DEF P
<1>3. n \in P
  BY <1>1, <1>2, Induction
<1>. QED
  BY <1>3 DEF P, IsRecursive

-----------------------------------------------------------------------------
(* Replaying a queue *)

\* Events replayed one after the other: the states in between.
IsReplay(after, state, events) ==
    /\ after \in [0..Len(events) -> Evaluation]
    /\ after[0] = state
    /\ \A i \in 1..Len(events) : after[i] = Replay(after[i - 1], events[i])

\* What Replayed computes is the last of these states.
LEMMA ReplayedIsLast ==
    ASSUME NEW state \in Evaluation, NEW events \in Seq(Event)
    PROVE  \E after : IsReplay(after, state, events) /\ Replayed(state, events) = after[Len(events)]
<1>. DEFINE n == Len(events)
            Step(f) == [i \in 0..n |-> IF i = 0 THEN state ELSE Replay(f[i - 1], events[i])]
            g == [x \in Evaluation \X (1..n) |-> Replay(x[1], events[x[2]])]
<1>0. n \in Nat /\ \A i \in 1..n : events[i] \in Event
  OBVIOUS
<1>1. g \in [Evaluation \X (1..n) -> Evaluation]
  BY <1>0, ReplayType
<1>2. \A e \in Evaluation, i \in 1..n : g[<<e, i>>] = Replay(e, events[i])
  OBVIOUS
<1>3. \E f : IsRecursive(f, Evaluation, state, n, g)
  <2>. HIDE DEF g, n
  <2>. QED
    BY <1>0, <1>1, Recursion
<1>4. PICK f \in [0..n -> Evaluation] :
          f[0] = state /\ \A i \in 1..n : f[i] = g[<<f[i - 1], i>>]
  BY <1>3 DEF IsRecursive
<1>5. f = Step(f)
  <2>. HIDE DEF g
  <2>1. \A i \in 1..n : f[i - 1] \in Evaluation
    BY <1>0, <1>4
  <2>2. \A i \in 1..n : f[i] = Replay(f[i - 1], events[i])
    BY <1>2, <1>4, <2>1
  <2>3. \A i \in 0..n : f[i] = IF i = 0 THEN state ELSE Replay(f[i - 1], events[i])
    BY <1>0, <1>4, <2>2
  <2>. QED
    BY <1>4, <2>3
<1>. DEFINE after == CHOOSE a : a = Step(a)
<1>6. after = Step(after)
  BY <1>5
<1>7. Replayed(state, events) = after[n]
  BY DEF Replayed
<1>. HIDE DEF after
<1>8. after[0] = state
  BY <1>0, <1>6
<1>9. \A i \in 1..n : after[i] = Replay(after[i - 1], events[i])
  BY <1>0, <1>6
<1>10. \A i \in 0..n : after[i] \in Evaluation
  <2>. DEFINE P == {i \in 0..n : after[i] \in Evaluation}
  <2>1. 0 \in P
    BY <1>0, <1>8
  <2>2. ASSUME NEW i \in 1..n, i - 1 \in P
        PROVE  i \in P
    BY <1>0, <1>9, <2>2, ReplayType
  <2>. HIDE DEF P, n
  <2>3. \A i \in 0..n : i \in P
    BY <1>0, <2>1, <2>2, Induction
  <2>. QED
    BY <2>3 DEF P
<1>11. after \in [0..n -> Evaluation]
  BY <1>6, <1>10
<1>. QED
  BY <1>7, <1>8, <1>9, <1>11 DEF IsReplay

\* The states in between are determined by the first one and the events.
LEMMA ReplaysAgree ==
    ASSUME NEW state, NEW events \in Seq(Event), NEW a, NEW b,
           IsReplay(a, state, events), IsReplay(b, state, events)
    PROVE  a[Len(events)] = b[Len(events)]
<1>. DEFINE n == Len(events)
            P == {i \in 0..n : a[i] = b[i]}
<1>0. n \in Nat
  OBVIOUS
<1>1. 0 \in P
  BY <1>0 DEF IsReplay
<1>2. ASSUME NEW i \in 1..n, i - 1 \in P
      PROVE  i \in P
  BY <1>0, <1>2 DEF IsReplay
<1>3. n \in P
  <2>. HIDE DEF P, n
  <2>1. \A i \in 0..n : i \in P
    BY <1>0, <1>1, <1>2, Induction
  <2>. QED
    BY <1>0, <2>1
<1>. QED
  BY <1>3

\* Events that come later are replayed on what the earlier ones lead to.
LEMMA ReplayedAppend ==
    ASSUME NEW state \in Evaluation, NEW events \in Seq(Event), NEW event \in Event
    PROVE  Replayed(state, Append(events, event)) = Replay(Replayed(state, events), event)
<1>. DEFINE q == Append(events, event)
<1>1. PICK a : IsReplay(a, state, events) /\ Replayed(state, events) = a[Len(events)]
  BY ReplayedIsLast
<1>2. /\ q \in Seq(Event) /\ Len(q) = Len(events) + 1 /\ Len(events) \in Nat
      /\ q[Len(events) + 1] = event /\ \A i \in 1..Len(events) : q[i] = events[i]
  BY AppendProperties
<1>3. PICK c : IsReplay(c, state, q) /\ Replayed(state, q) = c[Len(q)]
  BY <1>2, ReplayedIsLast
<1>. DEFINE b == [i \in 0..Len(events) |-> c[i]]
<1>4. IsReplay(b, state, events)
  BY <1>2, <1>3 DEF IsReplay
<1>5. a[Len(events)] = c[Len(events)]
  <2>1. a[Len(events)] = b[Len(events)]
    BY <1>1, <1>4, ReplaysAgree
  <2>. QED
    BY <1>2, <2>1
<1>6. c[Len(q)] = Replay(c[Len(events)], event)
  BY <1>2, <1>3 DEF IsReplay
<1>. QED
  BY <1>1, <1>3, <1>5, <1>6

\* Nothing to replay, and one event.
LEMMA ReplayedShort ==
    ASSUME NEW state \in Evaluation
    PROVE  /\ Replayed(state, <<>>) = state
           /\ \A event \in Event : Replayed(state, <<event>>) = Replay(state, event)
<1>1. <<>> \in Seq(Event) /\ Len(<<>>) = 0
  OBVIOUS
<1>2. Replayed(state, <<>>) = state
  BY <1>1, ReplayedIsLast DEF IsReplay
<1>3. ASSUME NEW event \in Event
      PROVE  Replayed(state, <<event>>) = Replay(state, event)
  <2>1. Append(<<>>, event) = <<event>>
    OBVIOUS
  <2>. QED
    BY <1>1, <1>2, <2>1, ReplayedAppend
<1>. QED
  BY <1>2, <1>3

\* Replaying the first event and then the others.
LEMMA ReplayedTail ==
    ASSUME NEW state \in Evaluation, NEW events \in Seq(Event), events # <<>>
    PROVE  Replayed(Replay(state, Head(events)), Tail(events)) = Replayed(state, events)
<1>. DEFINE t == Tail(events)
            next == Replay(state, Head(events))
<1>1. /\ t \in Seq(Event) /\ Len(t) = Len(events) - 1 /\ Len(events) \in Nat \ {0}
      /\ Head(events) = events[1] /\ Head(events) \in Event
      /\ \A i \in 1..Len(t) : t[i] = events[i + 1]
  BY HeadTailProperties
<1>2. next \in Evaluation
  BY <1>1, ReplayType
<1>3. PICK c : IsReplay(c, state, events) /\ Replayed(state, events) = c[Len(events)]
  BY ReplayedIsLast
<1>. HIDE DEF next, t
<1>4. PICK a : IsReplay(a, next, t) /\ Replayed(next, t) = a[Len(t)]
  BY <1>1, <1>2, ReplayedIsLast
<1>. DEFINE b == [i \in 0..Len(t) |-> c[i + 1]]
<1>5. b \in [0..Len(t) -> Evaluation]
  BY <1>1, <1>3 DEF IsReplay
<1>6. b[0] = next
  BY <1>1, <1>3 DEF IsReplay, next
<1>7. \A i \in 1..Len(t) : b[i] = Replay(b[i - 1], t[i])
  BY <1>1, <1>3 DEF IsReplay
<1>8. a[Len(t)] = b[Len(t)]
  <2>. HIDE DEF b
  <2>1. IsReplay(b, next, t)
    BY <1>5, <1>6, <1>7 DEF IsReplay
  <2>. QED
    BY <1>1, <1>4, <2>1, ReplaysAgree
<1>9. b[Len(t)] = c[Len(events)]
  BY <1>1
<1>. QED
  BY <1>3, <1>4, <1>8, <1>9 DEF next, t

\* Operations(a, b) replayed on a give b.
LEMMA OperationsReplay ==
    ASSUME NEW state \in Evaluation, NEW next \in Evaluation, NEW v
    PROVE  Replay(state, Delta(v, next.version, Operations(state.content, next.content))) = next
<1>. DEFINE operations == Operations(state.content, next.content)
            content == [k \in Keys |-> IF k \in DOMAIN operations
                                       THEN operations[k] ELSE state.content[k]]
<1>1. Replay(state, Delta(v, next.version, operations))
          = [version |-> next.version, content |-> content]
  BY DEF Replay, Delta
<1>2. \A k \in Keys : content[k] = next.content[k]
  BY DEF Operations
<1>3. content = next.content
  BY <1>2 DEF Evaluation, Contents
<1>4. next = [version |-> next.version, content |-> next.content]
  BY DEF Evaluation
<1>. QED
  BY <1>1, <1>3, <1>4

Followed(s) ==
    subscriber[s] = "open" /\ overflowing # s => Replayed(view[s], queue[s]) = cursor[s]

\* Every step keeps the consumer, with what its queue holds, at the cursor.
LEMMA ReplayStaysExact ==
    ASSUME TypeOK, ControlInv, ReplayReachesCursor, Next
    PROVE  ReplayReachesCursor'
<1>. USE DEF registryVars, streamVars
<1>a. /\ DOMAIN subscriber = Subscribers /\ DOMAIN cursor = Subscribers
      /\ DOMAIN view = Subscribers /\ DOMAIN queue = Subscribers
      /\ \A s \in Subscribers :
            queue[s] \in Seq(Event) /\ view[s] \in Evaluation /\ cursor[s] \in Evaluation
      /\ Nobody \notin Subscribers
  BY ProcessesAreDistinct DEF TypeOK, Evaluation
<1>. SUFFICES ASSUME NEW s \in Subscribers
              PROVE  Followed(s)'
  BY DEF ReplayReachesCursor, Followed
<1>b. Followed(s)
  BY DEF ReplayReachesCursor, Followed
<1>c. ASSUME queue'[s] = queue[s], view'[s] = view[s], cursor'[s] = cursor[s],
             subscriber'[s] = "open" /\ overflowing' # s
                => subscriber[s] = "open" /\ overflowing # s
      PROVE  Followed(s)'
  BY <1>b, <1>c DEF Followed
<1>1. ASSUME NEW m \in Mutations, NEW x \in Subscribers, Deliver(m, x)
      PROVE  Followed(s)'
  <2>1. CASE x = s
    <3>1. PICK next \in Evaluations(s) :
              /\ cursor' = [cursor EXCEPT ![s] = next]
              /\ queue' = [queue EXCEPT ![s] =
                    Append(@, Delta(cursor[s].version, next.version,
                                    Operations(cursor[s].content, next.content)))]
      BY <1>1, <2>1 DEF Deliver
    <3>. DEFINE event == Delta(cursor[s].version, next.version,
                               Operations(cursor[s].content, next.content))
    <3>2. next \in Evaluation /\ cursor[s] \in Evaluation
      BY <1>a, EvaluationType
    <3>3. event \in Event
      BY <3>2, EventType DEF Evaluation
    <3>4. Replay(cursor[s], event) = next
      BY <3>2, OperationsReplay
    <3>5. cursor'[s] = next /\ queue'[s] = Append(queue[s], event) /\ view'[s] = view[s]
      BY <1>a, <1>1, <3>1 DEF Deliver
    <3>. HIDE DEF event
    <3>6. Replayed(view[s], queue[s]) = cursor[s]
      <4>1. overflowing = Nobody
        BY <1>1, HolderIsAlone DEF Deliver, Telling, ControlInv, OverflowIsHandled
      <4>. QED
        BY <1>a, <1>b, <1>1, <2>1, <4>1 DEF Deliver, Followed
    <3>7. Replayed(view[s], Append(queue[s], event)) = next
      BY <1>a, <3>3, <3>4, <3>6, ReplayedAppend
    <3>. QED
      BY <3>5, <3>7 DEF Followed
  <2>2. CASE x # s
    BY <1>a, <1>c, <1>1, <2>2 DEF Deliver
  <2>. QED
    BY <2>1, <2>2
<1>2. ASSUME NEW x \in Subscribers, Consume(x)
      PROVE  Followed(s)'
  <2>1. CASE x = s
    <3>1. /\ queue[s] \in Seq(Event) /\ queue[s] # <<>> /\ view[s] \in Evaluation
          /\ queue'[s] = Tail(queue[s]) /\ view'[s] = Replay(view[s], Head(queue[s]))
          /\ UNCHANGED <<cursor, subscriber, overflowing>>
      BY <1>a, <1>2, <2>1 DEF Consume
    <3>2. Replayed(view'[s], queue'[s]) = Replayed(view[s], queue[s])
      BY <3>1, ReplayedTail
    <3>. QED
      BY <1>b, <3>1, <3>2 DEF Followed
  <2>2. CASE x # s
    BY <1>a, <1>c, <1>2, <2>2 DEF Consume
  <2>. QED
    BY <2>1, <2>2
<1>3. ASSUME NEW m \in Mutations, NEW x \in Subscribers, Overflow(m, x)
      PROVE  Followed(s)'
  <2>1. overflowing = Nobody
    BY <1>3, HolderIsAlone DEF Overflow, Telling, ControlInv, OverflowIsHandled
  <2>2. CASE x = s
    BY <1>3, <2>2 DEF Overflow, Followed
  <2>3. CASE x # s
    BY <1>a, <1>c, <1>3, <2>1, <2>3 DEF Overflow
  <2>. QED
    BY <2>2, <2>3
<1>4. ASSUME NEW m \in Mutations, CloseBackpressured(m)
      PROVE  Followed(s)'
  BY <1>a, <1>c, <1>4 DEF CloseBackpressured, Unregister
<1>5. ASSUME NEW x \in Subscribers, NEW code, TerminateQueue(x, code), subscriber[x] = "closed",
             UNCHANGED <<view, cursor, subscriber>>, overflowing' = overflowing \/ overflowing = x
      PROVE  Followed(s)'
  <2>1. CASE x = s
    BY <1>5, <2>1 DEF Followed
  <2>2. CASE x # s
    <3>1. queue'[s] = queue[s]
      BY <1>5, <2>2, TerminatedHoldsStatus
    <3>. QED
      BY <1>c, <1>5, <2>2, <3>1
  <2>. QED
    BY <2>1, <2>2
<1>6. ASSUME NEW m \in Mutations, FinishBackpressure(m)
      PROVE  Followed(s)'
  <2>1. overflowing \in Subscribers /\ subscriber[overflowing] = "closed"
    BY <1>6 DEF FinishBackpressure, ControlInv, OverflowIsHandled
  <2>. QED
    BY <1>5, <1>6, <2>1 DEF FinishBackpressure
<1>7. ASSUME NEW t \in Transitions, NEW x \in Subscribers, Terminate(t, x)
      PROVE  Followed(s)'
  BY <1>5, <1>7 DEF Terminate, ControlInv, DrainedIsEmpty
<1>8. ASSUME NEW x \in Subscribers, Subscribe(x)
      PROVE  Followed(s)'
  <2>1. CASE x = s
    <3>1. PICK p \in Routes :
              /\ cursor' = [cursor EXCEPT ![s] = [version |-> version, content |-> Result(p, rows)]]
              /\ queue' = [queue EXCEPT ![s] = <<Snapshot(version, Result(p, rows))>>]
      BY <1>8, <2>1 DEF Subscribe
    <3>. DEFINE event == Snapshot(version, Result(p, rows))
    <3>2. event \in Event
      BY EventType, ResultType DEF TypeOK
    <3>3. Replay(view[s], event) = [version |-> version, content |-> Result(p, rows)]
      BY DEF Replay, Snapshot
    <3>. HIDE DEF event
    <3>4. Replayed(view[s], <<event>>) = Replay(view[s], event)
      BY <1>a, <3>2, ReplayedShort
    <3>5. /\ cursor'[s] = [version |-> version, content |-> Result(p, rows)]
          /\ queue'[s] = <<event>> /\ view'[s] = view[s]
      BY <1>a, <1>8, <3>1 DEF Subscribe, event
    <3>. QED
      BY <3>3, <3>4, <3>5 DEF Followed
  <2>2. CASE x # s
    BY <1>a, <1>c, <1>8, <2>2 DEF Subscribe
  <2>. QED
    BY <2>1, <2>2
<1>9. ASSUME NEW x \in Subscribers, CloseSubscription(x)
      PROVE  Followed(s)'
  BY <1>a, <1>c, <1>9 DEF CloseSubscription, Unregister
<1>10. ASSUME NEW t \in Transitions, Drain(t)
       PROVE  Followed(s)'
  BY <1>a, <1>c, <1>10 DEF Drain
<1>11. CASE UNCHANGED <<queue, view, cursor, subscriber, overflowing>>
  BY <1>c, <1>11
<1>12. \/ UNCHANGED <<queue, view, cursor, subscriber, overflowing>>
       \/ \E m \in Mutations :
            \/ CloseBackpressured(m) \/ FinishBackpressure(m)
            \/ \E x \in Subscribers : Deliver(m, x) \/ Overflow(m, x)
       \/ \E x \in Subscribers : Subscribe(x) \/ CloseSubscription(x) \/ Consume(x)
       \/ \E t \in Transitions : Drain(t) \/ \E x \in Subscribers : Terminate(t, x)
  BY DEF Next, MutationStep, TransitionStep, CloseStep, CallPublish, BeginMutation, Write,
         FailMutation, Commit, BeginNotify, SkipClosed, TellNothing, EndNotify,
         EndMutation, RequestClose, LockForClose, BeginTransition, LockForTransition,
         UnlockTransition, EndTransition, topicVars
<1>. QED
  BY <1>1, <1>2, <1>3, <1>4, <1>6, <1>7, <1>8, <1>9, <1>10, <1>11, <1>12

-----------------------------------------------------------------------------
(* A closed engine is quiet *)

QuietMutations ==
    closed => \A m \in Mutations : stage[m] \in {"idle", "admitted", "finished"}

QuietRegistry ==
    closed /\ (\A t \in Transitions : phase[t] \notin {"entering", "locked"}) => registered = {}

\* The flag is set when no mutation is admitted, and nobody writes after it.
LEMMA MutationsStayQuiet ==
    ASSUME TypeOK, BarrierInv, ControlInv, QuietMutations, Next
    PROVE  QuietMutations'
<1>. USE DEF storeVars, mutationVars
<1>a. DOMAIN stage = Mutations /\ QuietMutations
  BY DEF TypeOK
<1>1. ASSUME NEW t \in Transitions, BeginTransition(t)
      PROVE  QuietMutations'
  <2>1. Active = {}
    BY <1>1 DEF BeginTransition, BeginExclusive, BarrierInv, IdleIsExact
  <2>2. \A m \in Mutations : stage[m] = "idle"
    BY <2>1 DEF Active, ControlInv, StagesFollowCalls
  <2>. QED
    BY <1>1, <2>2 DEF BeginTransition, QuietMutations
<1>2. ASSUME NEW m \in Mutations,
             BeginMutation(m) \/ FailMutation(m) \/ EndNotify(m) \/ EndMutation(m)
      PROVE  QuietMutations'
  BY <1>a, <1>2 DEF BeginMutation, FailMutation, EndNotify, EndMutation, QuietMutations
<1>3. ASSUME NEW m \in Mutations,
             \/ Write(m) \/ Commit(m) \/ BeginNotify(m) \/ CloseBackpressured(m)
             \/ FinishBackpressure(m) \/ \E s \in Subscribers : Overflow(m, s)
      PROVE  QuietMutations'
  BY <1>a, <1>3 DEF Write, Commit, BeginNotify, CloseBackpressured, FinishBackpressure, Overflow,
                    Telling, QuietMutations
<1>4. CASE UNCHANGED <<stage, closed>>
  BY <1>a, <1>4 DEF QuietMutations
<1>5. \/ UNCHANGED <<stage, closed>>
      \/ \E m \in Mutations :
            \/ BeginMutation(m) \/ FailMutation(m) \/ EndNotify(m) \/ EndMutation(m)
            \/ Write(m) \/ Commit(m) \/ BeginNotify(m) \/ CloseBackpressured(m)
            \/ FinishBackpressure(m) \/ \E s \in Subscribers : Overflow(m, s)
      \/ \E t \in Transitions : BeginTransition(t)
  BY DEF Next, MutationStep, TransitionStep, CloseStep, CallPublish, SkipClosed, TellNothing,
         Deliver, Subscribe, RequestClose, LockForClose, CloseSubscription, Consume,
         LockForTransition, Drain, Terminate, UnlockTransition, EndTransition, topicVars
<1>. QED
  BY <1>1, <1>2, <1>3, <1>4, <1>5

\* Nobody registers once the flag is set, and only a transition that empties the
\* registry leaves the phases before the drain.
LEMMA RegistryStaysQuiet ==
    ASSUME TypeOK, ControlInv, QuietRegistry, Next
    PROVE  QuietRegistry'
<1>. USE DEF storeVars, registryVars, lifecycleVars
<1>a. DOMAIN phase = Transitions /\ QuietRegistry
  BY DEF TypeOK
<1>1. ASSUME NEW t \in Transitions, BeginTransition(t)
      PROVE  QuietRegistry'
  <2>1. phase[t] \notin {"entering", "locked"}
    BY <1>1 DEF BeginTransition, BeginExclusive, ControlInv, StagesFollowCalls
  <2>2. CASE phase' = [phase EXCEPT ![t] = "entering"]
    BY <1>a, <2>2 DEF QuietRegistry
  <2>3. CASE phase' = [phase EXCEPT ![t] = "finished"] /\ UNCHANGED closed
    BY <1>a, <1>1, <2>1, <2>3 DEF BeginTransition, QuietRegistry
  <2>. QED
    BY <1>1, <2>2, <2>3 DEF BeginTransition
<1>2. ASSUME NEW t \in Transitions, LockForTransition(t) \/ Drain(t) \/ UnlockTransition(t)
      PROVE  QuietRegistry'
  BY <1>a, <1>2 DEF LockForTransition, Drain, UnlockTransition, QuietRegistry
<1>3. ASSUME NEW s \in Subscribers, Subscribe(s)
      PROVE  QuietRegistry'
  BY <1>3 DEF Subscribe, QuietRegistry
<1>4. CASE UNCHANGED <<closed, phase>> /\ registered' \subseteq registered
  BY <1>a, <1>4 DEF QuietRegistry
<1>5. \/ UNCHANGED <<closed, phase>> /\ registered' \subseteq registered
      \/ \E t \in Transitions :
            BeginTransition(t) \/ LockForTransition(t) \/ Drain(t) \/ UnlockTransition(t)
      \/ \E s \in Subscribers : Subscribe(s)
  BY DEF Next, MutationStep, TransitionStep, CloseStep, CallPublish, BeginMutation, Write,
         FailMutation, Commit, BeginNotify, SkipClosed, TellNothing, Deliver, Overflow, EndNotify,
         EndMutation, CloseBackpressured, FinishBackpressure, Unregister, RequestClose,
         LockForClose, CloseSubscription, Consume, Terminate, EndTransition, topicVars
<1>. QED
  BY <1>1, <1>2, <1>3, <1>4, <1>5

\* An empty registry has no references to the executions left.
LEMMA QuietIsEmpty ==
    ASSUME RegistryExact, QuietMutations, QuietRegistry
    PROVE  QuietOnceClosed
<1>1. ASSUME registered = {}, NEW p \in Routes
      PROVE  leases[p] = 0
  <2>1. {s \in registered : scope[s] = p} = {}
    BY <1>1
  <2>. QED
    BY <2>1, FS_EmptySet DEF RegistryExact
<1>. QED
  BY <1>1 DEF QuietMutations, QuietRegistry, QuietOnceClosed

-----------------------------------------------------------------------------
(* The invariant and what follows from it *)

TopicInv ==
    /\ BarrierInv
    /\ TypeOK
    /\ ControlInv
    /\ PendingBatchesExact
    /\ RegistryExact
    /\ UncommittedIsWritten
    /\ CursorIsReadable
    /\ StatusIsLast
    /\ VersionChain
    /\ QueueReachesVersion
    /\ ReplayReachesCursor

\* The invariant holds initially.
LEMMA TopicInit == Init => TopicInv
<1>. SUFFICES ASSUME Init PROVE TopicInv
  OBVIOUS
<1>1. BarrierInv /\ BarrierTypeOK
  BY InitEstablishesInv DEF Init, BarrierInv
<1>2. TypeOK
  <2>1. NoRows \in Contents /\ Empty \in [version : Nat, content : Contents]
    BY DEF NoRows, Contents, Empty
  <2>2. /\ NoPartition \in Routes /\ \A s \in Subscribers : <<>> \in Seq(Event)
    BY EmptySeq DEF Routes
  <2>3. /\ cursor \in [Subscribers -> [version : Nat, content : Contents]]
        /\ view \in [Subscribers -> [version : Nat, content : Contents]]
        /\ queue \in [Subscribers -> Seq(Event)]
        /\ route \in [Mutations -> Routes] /\ scope \in [Subscribers -> Routes]
        /\ rows \in Contents /\ committed \in Contents
    BY <2>1, <2>2 DEF Init
  <2>4. /\ version \in Nat /\ closed \in BOOLEAN /\ pendingMutationBatches \in Nat
        /\ mutationSemaphore = Nobody /\ notificationSemaphore = Nobody /\ overflowing = Nobody
        /\ closing = {} /\ registered = {} /\ leases \in [Routes -> Nat]
    BY DEF Init
  <2>5. /\ stage = [m \in Mutations |-> "idle"] /\ phase = [t \in Transitions |-> "idle"]
        /\ captured = [m \in Mutations |-> {}] /\ subscriber = [s \in Subscribers |-> "none"]
        /\ ended = [s \in Subscribers |-> FALSE] /\ closer = [s \in Subscribers |-> "idle"]
    BY DEF Init
  <2>. QED
    BY <1>1, <2>3, <2>4, <2>5 DEF TypeOK
<1>3. ControlInv
  BY ProcessesAreDistinct, NobodyIsNoTransition
     DEF Init, BarrierInit, ControlInv, NotificationHolderKnown, MutationHolderKnown,
         StagesFollowCalls, DrainedIsEmpty, OverflowIsHandled, CapturedIsCommitted, EndedIsClosed
<1>4. PendingBatchesExact
  <2>1. Active = {}
    BY DEF Init, BarrierInit, Active
  <2>. QED
    BY <2>1, FS_EmptySet DEF Init, PendingBatchesExact
<1>5. RegistryExact
  <2>1. \A p \in Routes : {s \in registered : scope[s] = p} = {}
    BY DEF Init
  <2>. QED
    BY <2>1, FS_EmptySet DEF Init, RegistryExact
<1>6. /\ UncommittedIsWritten /\ CursorIsReadable
      /\ StatusIsLast /\ VersionChain /\ QueueReachesVersion /\ ReplayReachesCursor
  BY DEF Init, UncommittedIsWritten, CursorIsReadable, StatusIsLast, VersionChain,
         QueueReachesVersion, ReplayReachesCursor
<1>. QED
  BY <1>1, <1>2, <1>3, <1>4, <1>5, <1>6 DEF TopicInv

\* A step that changes nothing keeps the invariant.
LEMMA TopicStutter ==
    ASSUME TopicInv, UNCHANGED vars
    PROVE  TopicInv'
<1>1. BarrierInv' /\ Active' = Active
  BY StutterPreservesInv DEF TopicInv, vars
<1>. USE DEF vars, topicVars, storeVars, mutationVars, lifecycleVars, registryVars, streamVars,
             semaphoreVars, barrierVars, TopicInv
<1>2. TypeOK'
  BY <1>1 DEF TypeOK, BarrierInv
<1>3. ControlInv'
  BY DEF ControlInv, NotificationHolderKnown, MutationHolderKnown,
         StagesFollowCalls, DrainedIsEmpty, OverflowIsHandled, CapturedIsCommitted, EndedIsClosed
<1>4. PendingBatchesExact' /\ RegistryExact'
  BY <1>1 DEF PendingBatchesExact, RegistryExact
<1>5. UncommittedIsWritten' /\ CursorIsReadable'
  BY DEF UncommittedIsWritten, CursorIsReadable, Readable, Result, Visible
<1>6. StatusIsLast' /\ VersionChain' /\ QueueReachesVersion' /\ ReplayReachesCursor'
  BY DEF StatusIsLast, VersionChain, QueueReachesVersion, LastVersion, ReplayReachesCursor
<1>. QED
  BY <1>1, <1>2, <1>3, <1>4, <1>5, <1>6

\* Every step keeps the types.
LEMMA TypesStayCorrect ==
    ASSUME TypeOK, ControlInv, BarrierTypeOK', Next
    PROVE  TypeOK'
BY MutationKeepsTypes, TransitionKeepsTypes, SubscriptionKeepsTypes DEF Next

\* The invariant is inductive.
LEMMA TopicStep == TopicInv /\ [Next]_vars => TopicInv'
<1>1. ASSUME TopicInv, Next
      PROVE  TopicInv'
  <2>. USE <1>1 DEF TopicInv
  <2>1. BarrierInv' /\ BarrierTypeOK'
    BY TopicStepsAreBarrierSteps, StepPreservesInv DEF BarrierInv
  <2>2. TypeOK'
    BY <2>1, TypesStayCorrect
  <2>3. ControlInv'
    BY HoldersStayKnown, StagesStayWithCalls, DrainedStaysEmpty, OverflowStaysHandled,
       CapturedStaysCommitted, EndedStaysClosed DEF ControlInv
  <2>4. PendingBatchesExact' /\ RegistryExact'
    BY PendingBatchesStayExact, RegistryStaysExact
  <2>5. UncommittedIsWritten' /\ CursorIsReadable'
    BY UncommittedStaysWritten, CursorStaysReadable
  <2>6. StatusIsLast' /\ VersionChain' /\ QueueReachesVersion' /\ ReplayReachesCursor'
    BY StatusStaysLast, VersionsStayChained, ReplayStaysExact
  <2>. QED
    BY <2>1, <2>2, <2>3, <2>4, <2>5, <2>6
<1>. QED
  BY <1>1, TopicStutter

\* The inductive invariant holds in every behaviour of the topic.
THEOREM TopicInvariance == Spec => []TopicInv
BY TopicInit, TopicStep, PTL DEF Spec

\* Type correctness of the topic store, its subscriptions and the barrier.
THEOREM TopicTypeCorrect == Spec => []TypeOK
<1>1. TopicInv => TypeOK
  BY DEF TopicInv
<1>. QED
  BY <1>1, TopicInvariance, PTL

\* No update is lost: an open subscription that differs from the committed rows
\* still has a notification coming, however mutations overtake each other between
\* the two semaphores and whatever a notification reads of an uncommitted one
\* (commitTopicStoreState, notifyTopicStoreSubscribers).
THEOREM NoUpdateIsLost == Spec => []NoLostUpdate
<1>1. TopicInv => NoLostUpdate
  BY ReadableLosesNothing DEF TopicInv
<1>. QED
  BY <1>1, TopicInvariance, PTL

\* The registry holds the open subscriptions and every execution has one reference
\* for each of its own: closing, overflowing and draining one subscription in any
\* order neither leaks a reference nor gives one back twice.
THEOREM RegistryIsAlwaysExact == Spec => []RegistryExact
<1>1. TopicInv => RegistryExact
  BY DEF TopicInv
<1>. QED
  BY <1>1, TopicInvariance, PTL

\* The health ledger counts the admitted mutations: a reset, which zeroes the
\* counter, never runs beside one (beginMutationBatch, endMutationBatch).
THEOREM PendingBatchesAlwaysExact == Spec => []PendingBatchesExact
<1>1. TopicInv => PendingBatchesExact
  BY DEF TopicInv
<1>. QED
  BY <1>1, TopicInvariance, PTL

\* Every delta starts at the version the event before it ended at, so a consumer
\* never meets a gap (deltaEvent and the cursor of live-subscription.ts).
THEOREM ConsumersMeetNoGap == Spec => []VersionChain
<1>1. TopicInv => VersionChain
  BY DEF TopicInv
<1>. QED
  BY <1>1, TopicInvariance, PTL

\* What a consumer has replayed, followed by what its queue still holds, is what the
\* engine believes it told the subscriber, for a queue of any length (deltaEvent,
\* notify of live-subscription.ts).
THEOREM ConsumersReachTheCursor == Spec => []ReplayReachesCursor
<1>1. TopicInv => ReplayReachesCursor
  BY DEF TopicInv
<1>. QED
  BY <1>1, TopicInvariance, PTL

\* Once close() has set its flag no mutation writes, commits or notifies, and once it
\* has drained the registry nobody registers again and no execution is referenced, for
\* any number of calls that wait at the gate or for a semaphore (engine.ts close,
\* mutationsAllowed, ensureOpen).
THEOREM ClosedEngineStaysQuiet == Spec => []QuietOnceClosed
<1>1. Init => QuietMutations /\ QuietRegistry
  BY DEF Init, QuietMutations, QuietRegistry
<1>2. TopicInv /\ QuietMutations /\ QuietRegistry /\ [Next]_vars =>
          (QuietMutations /\ QuietRegistry)'
  <2>1. CASE UNCHANGED vars
    BY <2>1 DEF vars, topicVars, storeVars, mutationVars, lifecycleVars, registryVars,
                QuietMutations, QuietRegistry
  <2>. QED
    BY <2>1, MutationsStayQuiet, RegistryStaysQuiet DEF TopicInv
<1>3. TopicInv /\ QuietMutations /\ QuietRegistry => QuietOnceClosed
  BY QuietIsEmpty DEF TopicInv
<1>. QED
  BY <1>1, <1>2, <1>3, TopicInvariance, PTL DEF Spec

\* A terminal status is the last event of a queue that has ended (closeWithStatus,
\* closeForBackpressure).
THEOREM StatusIsAlwaysLast == Spec => []StatusIsLast
<1>1. TopicInv => StatusIsLast
  BY DEF TopicInv
<1>. QED
  BY <1>1, TopicInvariance, PTL

\* Once ended, a queue is only read: no later mutation, reset or second close adds
\* to it or takes from it.
THEOREM EndedQueuesOnlyDrain == Spec => EndedQueueOnlyDrains
<1>1. TopicInv /\ [Next]_vars =>
          [\A s \in Subscribers : ended[s] => ended'[s] /\ IsSuffix(queue'[s], queue[s])]_vars
  BY EndedQueueStepDrains DEF TopicInv
<1>. QED
  BY <1>1, TopicInvariance, PTL DEF Spec, EndedQueueOnlyDrains
=============================================================================
