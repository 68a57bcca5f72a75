--------------------------- MODULE MCSourceAttempt ---------------------------
(* Two lanes that handle two events, and two attempts. *)
EXTENDS SourceAttempt

=============================================================================
