---------------------------- MODULE MCKafkaOffsets ----------------------------
(* A partition with records, two that may be added; every start position. *)
EXTENDS KafkaOffsets

MCStarts == {[mode |-> "earliest", fallback |-> "earliest"],
             [mode |-> "latest", fallback |-> "latest"],
             [mode |-> "usable", fallback |-> "latest"],
             [mode |-> "usable", fallback |-> "earliest"]}

\* The mode finds an offset in the first partition only.
MCUsable == [p \in Partitions |-> IF p = 0 THEN 1 ELSE Missing]

MCMaxEnd == [p \in Partitions |-> IF p = 0 THEN 2 ELSE 1]

=============================================================================
