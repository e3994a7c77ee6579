------------------------------ MODULE Register ------------------------------
(***************************************************************************)
(* What internal/store/documents.go promises its callers, without caches,  *)
(* replicas or tags: one document on which every call acts in an instant   *)
(* of its own.  A call that answers without an error has taken effect; one *)
(* that fails may have.  An Update acts on the document as it is at that   *)
(* instant, and may act again before it answers.                           *)
(***************************************************************************)
EXTENDS Naturals

CONSTANTS
  Callers,
  Kinds     \* what a caller may be: "create", "read" (Update), "delete"

VARIABLES
  document,  \* the document
  outcome    \* "open", "applied" (will answer without an error), "ok" or "failed"

register == <<document, outcome>>

Missing == [there |-> FALSE, body |-> {}]
Holding(b) == [there |-> TRUE, body |-> b]

Init ==
  /\ document \in {Missing, Holding({})}
  /\ outcome = [c \in Callers |-> "open"]

Turn(c, from, to) == outcome[c] = from /\ outcome' = [outcome EXCEPT ![c] = to]

(* A call takes effect; a failing one as well, while it is open. *)
Effect(c) == \E to \in {"open", "applied", "failed"} : Turn(c, "open", to)

CreateDocument(c) ==
  /\ "create" \in Kinds[c] /\ ~document.there
  /\ document' = Holding({c})
  /\ Effect(c) /\ outcome'[c] # "open"

ChangeDocument(c) ==
  /\ "read" \in Kinds[c] /\ document.there
  /\ document' = Holding(document.body \cup {c})
  /\ Effect(c)

DeleteDocument(c) ==
  /\ "delete" \in Kinds[c]
  /\ document' = Missing
  /\ Effect(c) /\ outcome'[c] # "open"

GiveUp(c) == Turn(c, "open", "failed") /\ UNCHANGED document
Answer(c) == Turn(c, "applied", "ok") /\ UNCHANGED document

Next ==
  \E c \in Callers :
    CreateDocument(c) \/ ChangeDocument(c) \/ DeleteDocument(c) \/ GiveUp(c) \/ Answer(c)

Spec == Init /\ [][Next]_register
=============================================================================
