--------------------------- MODULE MCProjectTicks ---------------------------
(* An instance of ProjectTicks for TLC: an instant is about a quarter of an hour. *)
EXTENDS ProjectTicks

CONSTANTS g1
=============================================================================
