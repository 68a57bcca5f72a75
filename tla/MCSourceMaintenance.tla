------------------------- MODULE MCSourceMaintenance -------------------------
(* Two regions, of which one has the keys and the other only fails and
   rejects; and the index of the deadlines, whatever was set and removed. *)
EXTENDS SourceMaintenance

CONSTANTS k1, k2, l1, l2

MCLaneOf == (k1 :> l1) @@ (k2 :> l1)

-----------------------------------------------------------------------------
Index == INSTANCE RetentionDeadlineIndex

\* Two deadlines that agree in the time, and so on.
IndexPlaces == 0..7
DeadlineAt(n, generation) ==
    [deadlineNanos |-> n \div 2, id |-> n % 2, generation |-> generation]

\* The indexes a number of settings and removals lead to.
IndexesAfter[n \in Nat] ==
    IF n = 0 THEN {Index!Leaf}
    ELSE LET before == IndexesAfter[n - 1]
         IN  before \union {Index!Set(t, DeadlineAt(p, 1)) : t \in before, p \in IndexPlaces}
                    \union {Index!Removed(t, DeadlineAt(p, 1)) : t \in before, p \in IndexPlaces}

\* An index has the deadlines that were set, the new generation of one that is
\* set again, and loses what is removed, in order and balanced all the time.
ASSUME IndexKeepsDeadlines ==
    \A t \in IndexesAfter[9] :
        LET indexed == ToSet(Index!Values(t))
        IN  /\ Index!IndexOf(t, indexed)
            /\ \A p \in IndexPlaces :
                  LET old == DeadlineAt(p, 1)
                      new == DeadlineAt(p, 2)
                  IN  /\ Index!IndexOf(Index!Removed(t, old), indexed \ {old})
                      /\ Index!IndexOf(Index!Set(t, new), (indexed \ {old}) \union {new})

=============================================================================
