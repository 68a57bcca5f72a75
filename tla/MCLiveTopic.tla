----------------------------- MODULE MCLiveTopic -----------------------------
(* Two keys, one of them in a partition, as many calls as the cfg names. *)
EXTENDS LiveTopic, TLC

CONSTANTS k1, k2, p1

MCKeys == {k1, k2}
MCPartitions == {p1}
MCPartitionOf == k1 :> NoPartition @@ k2 :> p1
MCPartitionOfOne == k1 :> NoPartition
MCSymmetry == Permutations(Subscribers) \union Permutations(Mutations)
=============================================================================
