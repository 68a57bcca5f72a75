---------------------------- MODULE MCPushedHealth ----------------------------
(* Two changes, a subscription and a caller of refresh beside the scheduler. *)
EXTENDS PushedHealth

CONSTANTS s1, f1

MCSubscribers == {s1}
MCRefreshers == {f1}

=============================================================================
