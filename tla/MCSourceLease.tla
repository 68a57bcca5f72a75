----------------------------- MODULE MCSourceLease -----------------------------
(* Two lanes, with a row each or with the same row. *)
EXTENDS SourceLease, TLC

CONSTANTS l1, l2, a, b

DisjointIds == (l1 :> {a}) @@ (l2 :> {b})
SharedIds == (l1 :> {a}) @@ (l2 :> {a})

=============================================================================
