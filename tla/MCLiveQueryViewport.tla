------------------------- MODULE MCLiveQueryViewport -------------------------
(* Instance of LiveQueryViewport for TLC.                                   *)
EXTENDS LiveQueryViewport

CONSTANTS k1, k2, k3, r1, r2, s1, s2, s3
MCKeys == {k1, k2, k3}
MCRows == {r1, r2}
MCSinks == {s1, s2, s3}
MCFirstRows == {0, 1}
MCStrayWindows == {w \in Windows : \A i \in DOMAIN w : w[i].row = r1}
\* Neighbours in the order of creation are far apart in the tree.
MCPriority(id) == (id * 7) % 11
Symmetry == {sinks @@ keys : sinks \in Permutations(MCSinks), keys \in Permutations(MCKeys)}
=============================================================================
