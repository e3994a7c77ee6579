--------------------------- MODULE MCRunRecovery ---------------------------
(* Instances of RunRecovery for TLC: a tick is about a minute. *)
EXTENDS RunRecovery, TLC

CONSTANTS r1, r2, s1, s2, s3, w1, w2

\* s1 and s3 on one replica, two of its queue workers, and s2 on the other.
MCHost == [s \in Slots |-> IF s = s2 THEN r2 ELSE r1]
\* All slots on one replica.
MCOneHost == [s \in Slots |-> r2]

\* For safety alone: works are alike, and so are the slots of a replica.
Symmetry == {p @@ q : p \in Permutations(Works), q \in Permutations({s1, s3})}

\* Works are triggered in one order, and calls fail only while there is one:
\* every fair action has a step that this allows.
FirstMayFail == (w2 \in used' => w1 \in used') /\ (faults' > 0 => w2 \notin used')
============================================================================
