------------------------ MODULE EngineMutationBarrier ------------------------
(***************************************************************************)
(* The admission barrier of the column live view engine (engine.ts, class  *)
(* EngineMutationBarrier).  Every publish, patch and delete of every topic *)
(* runs inside withMutation; reset() and close() run inside withLifecycle. *)
(* A lifecycle transaction closes the admission gate, waits for the        *)
(* mutations already admitted, runs alone, and reopens the gate.           *)
(*                                                                         *)
(* A process is ONE CALL of the engine: it runs once.  Interruption is a   *)
(* step of the environment: an Effect may be interrupted at each point     *)
(* where the code waits interruptibly, and nowhere else.                   *)
(***************************************************************************)
EXTENDS Naturals, FiniteSets

CONSTANTS Mutations,   \* calls that mutate rows
          Transitions, \* calls of reset() and close()
          Nobody       \* holder of a free semaphore

ASSUME FiniteMutations == IsFiniteSet(Mutations)
ASSUME NobodyIsNoTransition == Nobody \notin Transitions

VARIABLES
    call,                 \* progress of each mutation
    lifecycle,            \* progress of each lifecycle transaction
    lifecycleSemaphore,   \* its holder
    admissionGate,        \* Latch: TRUE when open
    idle,                 \* Latch: TRUE when no transaction is active
    activeTransactions    \* the barrier's counter

barrierVars == <<call, lifecycle, lifecycleSemaphore, admissionGate, idle,
                 activeTransactions>>

CallStates == {"ready", "trying", "gated", "active", "done"}
LifecycleStates ==
    {"ready", "queued", "draining", "exclusive", "reopening", "releasing", "done"}

BarrierTypeOK ==
    /\ call \in [Mutations -> CallStates]
    /\ lifecycle \in [Transitions -> LifecycleStates]
    /\ lifecycleSemaphore \in Transitions \union {Nobody}
    /\ admissionGate \in BOOLEAN
    /\ idle \in BOOLEAN
    /\ activeTransactions \in Nat

BarrierInit ==
    /\ call = [m \in Mutations |-> "ready"]
    /\ lifecycle = [t \in Transitions |-> "ready"]
    /\ lifecycleSemaphore = Nobody
    /\ admissionGate = TRUE
    /\ idle = TRUE
    /\ activeTransactions = 0

-----------------------------------------------------------------------------
(* Mutations: withMutation *)

CallMutation(m) ==
    /\ call[m] = "ready"
    /\ call' = [call EXCEPT ![m] = "trying"]
    /\ UNCHANGED <<lifecycle, lifecycleSemaphore, admissionGate, idle, activeTransactions>>

\* Mutant: the gate is not consulted.
AdmitThroughClosedGate(m) ==
    /\ call[m] = "trying"
    /\ call' = [call EXCEPT ![m] = "active"]
    /\ idle' = IF activeTransactions = 0 THEN FALSE ELSE idle
    /\ activeTransactions' = activeTransactions + 1
    /\ UNCHANGED <<lifecycle, lifecycleSemaphore, admissionGate>>

\* tryAcquire with the gate open.
Admit(m) ==
    /\ call[m] = "trying"
    /\ admissionGate
    /\ call' = [call EXCEPT ![m] = "active"]
    /\ idle' = IF activeTransactions = 0 THEN FALSE ELSE idle
    /\ activeTransactions' = activeTransactions + 1
    /\ UNCHANGED <<lifecycle, lifecycleSemaphore, admissionGate>>

\* tryAcquire with the gate closed: wait for the gate, then try again.
Refuse(m) ==
    /\ call[m] = "trying"
    /\ ~admissionGate
    /\ call' = [call EXCEPT ![m] = "gated"]
    /\ UNCHANGED <<lifecycle, lifecycleSemaphore, admissionGate, idle, activeTransactions>>

\* Only the wait at the gate is interruptible: the transaction is not.
InterruptMutation(m) ==
    /\ call[m] = "gated"
    /\ call' = [call EXCEPT ![m] = "done"]
    /\ UNCHANGED <<lifecycle, lifecycleSemaphore, admissionGate, idle, activeTransactions>>

\* The release of acquireUseRelease, whether the transaction succeeded or failed.
LeaveMutation(m) ==
    /\ call[m] = "active"
    /\ call' = [call EXCEPT ![m] = "done"]
    /\ activeTransactions' = activeTransactions - 1
    /\ idle' = IF activeTransactions' = 0 THEN TRUE ELSE idle
    /\ UNCHANGED <<lifecycle, lifecycleSemaphore, admissionGate>>

-----------------------------------------------------------------------------
(* Lifecycle transactions: withLifecycle *)

CallLifecycle(t) ==
    /\ lifecycle[t] = "ready"
    /\ lifecycle' = [lifecycle EXCEPT ![t] = "queued"]
    /\ UNCHANGED <<call, lifecycleSemaphore, admissionGate, idle, activeTransactions>>

\* Take the permit and close the gate.
CloseGate(t) ==
    /\ lifecycle[t] = "queued"
    /\ lifecycleSemaphore = Nobody
    /\ lifecycleSemaphore' = t
    /\ admissionGate' = FALSE
    /\ lifecycle' = [lifecycle EXCEPT ![t] = "draining"]
    /\ UNCHANGED <<call, idle, activeTransactions>>

\* Mutant: the transaction does not wait for the admitted mutations.
BeginWithoutDraining(t) ==
    /\ lifecycle[t] = "draining"
    /\ lifecycle' = [lifecycle EXCEPT ![t] = "exclusive"]
    /\ UNCHANGED <<call, lifecycleSemaphore, admissionGate, idle, activeTransactions>>

\* idle.await returns: from here the transaction is uninterruptible.
BeginExclusive(t) ==
    /\ lifecycle[t] = "draining"
    /\ idle
    /\ lifecycle' = [lifecycle EXCEPT ![t] = "exclusive"]
    /\ UNCHANGED <<call, lifecycleSemaphore, admissionGate, idle, activeTransactions>>

EndExclusive(t) ==
    /\ lifecycle[t] = "exclusive"
    /\ lifecycle' = [lifecycle EXCEPT ![t] = "reopening"]
    /\ UNCHANGED <<call, lifecycleSemaphore, admissionGate, idle, activeTransactions>>

\* Interrupted while it waits: for the permit (nothing to undo), or for the
\* active mutations (the gate is reopened and the transaction never runs).
InterruptLifecycle(t) ==
    /\ lifecycle[t] \in {"queued", "draining"}
    /\ lifecycle' = [lifecycle EXCEPT ![t] = IF @ = "queued" THEN "done" ELSE "reopening"]
    /\ UNCHANGED <<call, lifecycleSemaphore, admissionGate, idle, activeTransactions>>

\* Effect.ensuring(admissionGate.open): every waiter of the latch is resumed.
OpenGate(t) ==
    /\ lifecycle[t] = "reopening"
    /\ admissionGate' = TRUE
    /\ call' = [m \in Mutations |-> IF call[m] = "gated" THEN "trying" ELSE call[m]]
    /\ lifecycle' = [lifecycle EXCEPT ![t] = "releasing"]
    /\ UNCHANGED <<lifecycleSemaphore, idle, activeTransactions>>

ReleasePermit(t) ==
    /\ lifecycle[t] = "releasing"
    /\ lifecycleSemaphore' = Nobody
    /\ lifecycle' = [lifecycle EXCEPT ![t] = "done"]
    /\ UNCHANGED <<call, admissionGate, idle, activeTransactions>>

-----------------------------------------------------------------------------
BarrierMutation(m) == Admit(m) \/ Refuse(m) \/ LeaveMutation(m)

BarrierLifecycle(t) ==
    \/ CloseGate(t)
    \/ BeginExclusive(t)
    \/ EndExclusive(t)
    \/ OpenGate(t)
    \/ ReleasePermit(t)

BarrierNext ==
    \/ \E m \in Mutations : CallMutation(m) \/ BarrierMutation(m) \/ InterruptMutation(m)
    \/ \E t \in Transitions : CallLifecycle(t) \/ BarrierLifecycle(t) \/ InterruptLifecycle(t)

\* Once called, a fiber that can run does run; nobody has to call or interrupt.
BarrierFairness ==
    /\ \A m \in Mutations : WF_barrierVars(BarrierMutation(m))
    /\ \A t \in Transitions : WF_barrierVars(BarrierLifecycle(t))

BarrierSpec == BarrierInit /\ [][BarrierNext]_barrierVars /\ BarrierFairness

-----------------------------------------------------------------------------
Active == {m \in Mutations : call[m] = "active"}

\* The counter and the idle latch are exact, so no await on idle hangs or
\* returns early (tryAcquire and release of EngineMutationBarrier).
IdleIsExact ==
    /\ activeTransactions = Cardinality(Active)
    /\ idle <=> (Active = {})

\* Refinement mapping: the admitted mutations share, the exclusive call owns.
Owner ==
    IF \E t \in Transitions : lifecycle[t] = "exclusive"
    THEN CHOOSE t \in Transitions : lifecycle[t] = "exclusive"
    ELSE Nobody

Promise == INSTANCE SharedExclusive WITH sharers <- Active, owner <- Owner

\* reset and close run alone: no admitted mutation is inside the engine while a
\* lifecycle transaction runs, and no second one either (engine.ts withLifecycle).
BarrierKeepsPromise == Promise!Spec
=============================================================================
