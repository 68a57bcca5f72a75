-------------------------- MODULE SharedExclusive --------------------------
(***************************************************************************)
(* What the engine's mutation barrier promises its callers, and nothing    *)
(* about how: mutations share the engine, a lifecycle transaction (reset   *)
(* or close) has it for itself.  EngineMutationBarrier implements this.    *)
(***************************************************************************)

CONSTANTS Mutations,   \* calls that mutate rows
          Transitions, \* calls of reset() and close()
          Nobody       \* "no lifecycle transaction runs"

VARIABLES sharers,     \* the mutations inside the engine
          owner        \* the lifecycle transaction inside the engine

vars == <<sharers, owner>>

Init == sharers = {} /\ owner = Nobody

Enter(m) ==
    /\ owner = Nobody
    /\ sharers' = sharers \union {m}
    /\ UNCHANGED owner

Leave(m) ==
    /\ m \in sharers
    /\ sharers' = sharers \ {m}
    /\ UNCHANGED owner

Seize(t) ==
    /\ owner = Nobody
    /\ sharers = {}
    /\ owner' = t
    /\ UNCHANGED sharers

Yield(t) ==
    /\ owner = t
    /\ owner' = Nobody
    /\ UNCHANGED sharers

Next ==
    \/ \E m \in Mutations : Enter(m) \/ Leave(m)
    \/ \E t \in Transitions : Seize(t) \/ Yield(t)

Spec == Init /\ [][Next]_vars
=============================================================================
