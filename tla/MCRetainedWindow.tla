--------------------------- MODULE MCRetainedWindow ---------------------------
(* Instance of RetainedWindow for TLC: one field value the query rejects.   *)
EXTENDS RetainedWindow

MCKeys == 1..3
MCFields == 1..3
MCMatching == 1..2
MCEnds == {0, 1, 2, Unlimited}
MCTornEnds == {1}
=============================================================================
