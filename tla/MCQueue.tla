------------------------------ MODULE MCQueue ------------------------------
(* Instances of Queue for TLC. *)
EXTENDS Queue

\* An at-most-once topic of one task, and a topic that may be tried twice.
MCTopics == [t \in Tasks |-> IF t = 1 THEN "once" ELSE "twice"]
\* One topic, whose tasks compete for the places of a batch.
MCOneTopic == [t \in Tasks |-> "twice"]
MCMaxAttempts == [t \in Tasks |-> IF Topic[t] = "once" THEN 1 ELSE 2]
============================================================================
