------------------------------ MODULE MCLease ------------------------------
(* Instances of Lease for TLC. *)
EXTENDS Lease

\* One user per process: an election.
MCElection == [u \in Users |-> u]
============================================================================
