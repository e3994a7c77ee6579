------------------------- MODULE MCPullRequestFollow -------------------------
(* An instance of PullRequestFollow for TLC. *)
EXTENDS PullRequestFollow

CONSTANTS c1
=============================================================================
