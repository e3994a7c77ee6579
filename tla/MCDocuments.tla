---------------------------- MODULE MCDocuments ----------------------------
(* Instances of Documents for TLC: a creation and an update on the first     *)
(* replica, an update or a deletion on the second.                          *)
EXTENDS Documents

CONSTANTS r1, r2, c1, c2, c3

MCHost == [c \in Callers |-> IF c = c3 THEN r2 ELSE r1]
MCKinds == [c \in Callers |->
  CASE c = c1 -> {"create"} [] c = c2 -> {"read"} [] OTHER -> {"read", "delete"}]
============================================================================
