----------------------- MODULE MCTopicRowChangeJournal -----------------------
(* Instance of TopicRowChangeJournal for TLC: one partition, tiny limits.   *)
EXTENDS TopicRowChangeJournal

CONSTANTS p1
MCPartitions == {p1}
=============================================================================
