--------------------------- MODULE RegisterProofs ---------------------------
(* Documents implements Register, for every set of replicas and callers, *)
(* every placement of the callers and any number of failing calls.       *)
EXTENDS DocumentsProofs

UpdateLabels == {"read", "fetch", "fill", "put", "refetch", "refill"}

(* A caller does only what it came for. *)
KindKept ==
  \A c \in Callers :
    /\ call[c].pc = "create" => "create" \in Kinds[c]
    /\ call[c].pc \in UpdateLabels => "read" \in Kinds[c]
    /\ call[c].pc = "delete" => "delete" \in Kinds[c]

(* A call knows that it will succeed only once its write has returned. *)
OkWhenApplied == \A c \in Callers : call[c].ok => call[c].pc \in {"remove", "done"}

RegisterInv == DocumentsInv /\ KindKept /\ OkWhenApplied

----------------------------------------------------------------------------
(* What a step of a caller does to its label and to the stored document. *)
Moves(c) ==
  LET from == call[c].pc
      to == call'[c].pc
      known == call'[c].ok = call[c].ok
  IN \/ from = "new" /\ to \in Kinds[c] /\ known /\ UNCHANGED bucket
     \/ from \in UpdateLabels /\ to \in UpdateLabels \cup {"remove", "failed"} /\ known
        /\ UNCHANGED bucket
     \/ from = "put" /\ to \in {"refetch", "ack", "failed"} /\ known
        /\ bucket.there /\ bucket' = Stored(bucket.body \cup {c})
     \/ from = "create" /\ to \in {"ack", "failed"} /\ known
        /\ ~bucket.there /\ bucket' = Stored({c})
     \/ from = "delete" /\ to = "remove" /\ call'[c].ok /\ bucket' = Absent
     \/ from = "delete" /\ to = "failed" /\ known /\ bucket' = Absent
     \/ from \in {"create", "delete"} /\ to = "failed" /\ known /\ UNCHANGED bucket
     \/ from = "ack" /\ to = "done" /\ call'[c].ok /\ UNCHANGED bucket
     \/ from = "remove" /\ to = (IF call[c].ok THEN "done" ELSE "failed") /\ known
        /\ UNCHANGED bucket

(* Every step of a caller is one of these, and moves that caller alone. *)
LEMMA CallStepMoves ==
  ASSUME DocumentsInv, NEW c \in Callers, CallStep(c)
  PROVE  Moves(c) /\ \A d \in Callers : d # c => call'[d] = call[d]
<1> DEFINE Alone == \A d \in Callers : d # c => call'[d] = call[d]
<1>t. TypeOK
  BY DEF DocumentsInv
<1>k. call[c].doc \in Document /\ Cached(c) \in Document /\ bucket \in Document
  BY <1>t, DocumentsAssumption, CallType DEF TypeOK, Cached
<1>a. Absent \in Document /\ Stored({c}) \in Document /\ Changed(c) \in Document
  BY <1>t, DocumentShape, ChangedType
<1>g. ASSUME NEW pc \in {"new", "create", "read", "fetch", "fill", "put", "refetch", "refill",
                         "ack", "delete", "remove", "done", "failed"},
             NEW doc \in Document,
             \/ Goto(c, pc) /\ doc = call[c].doc
             \/ GotoWith(c, pc, doc)
      PROVE  call'[c].pc = pc /\ call'[c].ok = call[c].ok /\ Alone
  BY <1>g, <1>t, GotoAt
<1>p. ASSUME At(c, "put"), bucket = call[c].doc, bucket' = Changed(c)
      PROVE  bucket.there /\ bucket' = Stored(bucket.body \cup {c})
  BY <1>p DEF At, DocumentsInv, PutsStored, Changed
<1>1. CASE Begin(c)
  <2>1. PICK kind \in Kinds[c] : Goto(c, kind)
    BY <1>1 DEF Begin
  <2>2. kind \in {"create", "read", "delete"}
    BY <2>1, DocumentsAssumption
  <2>3. call'[c].pc = kind /\ call'[c].ok = call[c].ok /\ Alone
    BY <2>1, <2>2, <1>k, <1>g
  <2> QED
    BY <1>1, <2>3 DEF Begin, At, Moves
<1>2. CASE Create(c)
  <2>1. CASE bucket.there
    BY <1>2, <2>1, <1>k, <1>g DEF Create, At, Moves
  <2>2. CASE ~bucket.there
    BY <1>2, <2>2, <1>a, <1>g DEF Create, At, Moves
  <2> QED
    BY <2>1, <2>2
<1>3. CASE UpdateRead(c)
  BY <1>3, <1>k, <1>g DEF UpdateRead, At, Moves, UpdateLabels
<1>4. CASE UpdateFetch(c)
  BY <1>4, <1>k, <1>g DEF UpdateFetch, At, Moves, UpdateLabels
<1>5. CASE UpdateFill(c)
  BY <1>5, <1>k, <1>g DEF UpdateFill, At, Moves, UpdateLabels
<1>6. CASE UpdatePut(c)
  BY <1>6, <1>a, <1>g, <1>p DEF UpdatePut, At, Moves
<1>7. CASE UpdateConflict(c)
  <2>1. CASE bucket # call[c].doc /\ UNCHANGED bucket
    BY <1>7, <2>1, <1>k, <1>g DEF UpdateConflict, At, Moves, UpdateLabels
  <2>2. CASE bucket = call[c].doc /\ bucket' = Changed(c)
    <3>1. bucket.there /\ bucket' = Stored(bucket.body \cup {c})
      BY <1>7, <2>2, <1>p DEF UpdateConflict
    <3> QED
      BY <1>7, <3>1, <1>k, <1>g DEF UpdateConflict, At, Moves
  <2> QED
    BY <1>7, <2>1, <2>2 DEF UpdateConflict
<1>8. CASE UpdateRefetch(c)
  BY <1>8, <1>k, <1>g DEF UpdateRefetch, At, Moves, UpdateLabels
<1>9. CASE UpdateRefill(c)
  <2>1. call[c].attempt < MaxRetries
    BY <1>9 DEF UpdateRefill, At, DocumentsInv, RetriesLeft
  <2>2. call'[c].pc = "read" /\ call'[c].ok = call[c].ok /\ Alone
    BY <1>9, <1>t, <2>1, RefillAt
  <2> QED
    BY <1>9, <2>2 DEF UpdateRefill, At, Moves, UpdateLabels
<1>10. CASE Ack(c)
  <2>1. call'[c].pc = "done" /\ call'[c].ok /\ Alone
    BY <1>10, <1>t, AckAt
  <2> QED
    BY <1>10, <2>1 DEF Ack, At, Moves
<1>11. CASE Delete(c)
  <2>1. call'[c].pc = "remove" /\ call'[c].ok /\ Alone
    BY <1>11, <1>t, DeleteAt
  <2> QED
    BY <1>11, <2>1 DEF Delete, At, Moves
<1>12. CASE Remove(c)
  <2>1. GotoWith(c, IF call[c].ok THEN "done" ELSE "failed", Absent)
    BY <1>12 DEF Remove, GotoWith
  <2>2. /\ call'[c].pc = (IF call[c].ok THEN "done" ELSE "failed")
        /\ call'[c].ok = call[c].ok /\ Alone
    BY <2>1, <1>a, <1>g
  <2> QED
    BY <1>12, <2>2 DEF Remove, At, Moves
<1>13. CASE CallFails(c)
  <2>1. call'[c].pc = "failed" /\ call'[c].ok = call[c].ok /\ Alone
    BY <1>13, <1>k, <1>g DEF CallFails
  <2>2. CASE At(c, "create") /\ bucket' \in {bucket, IF bucket.there THEN bucket ELSE Stored({c})}
    BY <2>1, <2>2 DEF At, Moves
  <2>3. CASE At(c, "put") /\ bucket' \in {bucket, IF bucket = call[c].doc THEN Changed(c) ELSE bucket}
    BY <2>1, <2>3, <1>p DEF At, Moves, UpdateLabels
  <2>4. CASE At(c, "delete") /\ bucket' \in {bucket, Absent}
    BY <2>1, <2>4 DEF At, Moves
  <2>5. CASE (At(c, "fetch") \/ At(c, "refetch")) /\ UNCHANGED bucket
    BY <2>1, <2>5 DEF At, Moves, UpdateLabels
  <2> QED
    BY <1>13, <2>2, <2>3, <2>4, <2>5 DEF CallFails
<1> HIDE DEF Alone
<1> QED
  BY <1>1, <1>2, <1>3, <1>4, <1>5, <1>6, <1>7, <1>8, <1>9, <1>10, <1>11, <1>12, <1>13
     DEF CallStep, Alone

(* A moving caller keeps to its kind, and knows of its success in time. *)
LEMMA RegisterInvStep == RegisterInv /\ [Next]_vars => RegisterInv'
<1> SUFFICES ASSUME RegisterInv, [Next]_vars PROVE RegisterInv'
  OBVIOUS
<1>d. DocumentsInv /\ DocumentsInv'
  BY DocumentsStep DEF RegisterInv
<1>1. ASSUME NEW c \in Callers, CallStep(c) PROVE KindKept' /\ OkWhenApplied'
  <2>1. Moves(c) /\ \A d \in Callers : d # c => call'[d] = call[d]
    BY <1>1, <1>d, CallStepMoves
  <2>2. Kinds[c] \subseteq {"create", "read", "delete"}
    BY DocumentsAssumption
  <2>3. /\ call'[c].pc = "create" => "create" \in Kinds[c]
        /\ call'[c].pc \in UpdateLabels => "read" \in Kinds[c]
        /\ call'[c].pc = "delete" => "delete" \in Kinds[c]
    BY <2>1, <2>2 DEF Moves, UpdateLabels, RegisterInv, KindKept
  <2>4. call'[c].ok => call'[c].pc \in {"remove", "done"}
    BY <2>1, <2>2 DEF Moves, UpdateLabels, RegisterInv, OkWhenApplied
  <2>5. KindKept'
    BY <2>1, <2>3 DEF RegisterInv, KindKept
  <2>6. OkWhenApplied'
    BY <2>1, <2>4 DEF RegisterInv, OkWhenApplied
  <2> QED
    BY <2>5, <2>6
<1>2. ASSUME UNCHANGED call PROVE KindKept' /\ OkWhenApplied'
  BY <1>2 DEF RegisterInv, KindKept, OkWhenApplied
<1>3. KindKept' /\ OkWhenApplied'
  BY <1>1, <1>2, <1>d, RefreshStepInv DEF Next, vars
<1> QED
  BY <1>d, <1>3 DEF RegisterInv

(* Before the first call nobody has done or learnt anything. *)
LEMMA RegisterInvInit == Init => RegisterInv
<1> SUFFICES ASSUME Init PROVE RegisterInv
  OBVIOUS
<1>1. \A c \in Callers : call[c].pc = "new" /\ call[c].ok = FALSE
  BY DEF Init
<1> QED
  BY <1>1, DocumentsInit DEF RegisterInv, KindKept, OkWhenApplied, UpdateLabels

----------------------------------------------------------------------------
(* The state of the register that a state of Documents stands for. *)
Outcomes == [c \in Callers |-> Outcome(c)]

(* The initial documents are initial registers. *)
LEMMA RefinesInit == Init => AsRegister!Init
BY DEF Init, AsRegister!Init, AsRegister!Missing, AsRegister!Holding, Absent, Stored, Outcome, At

(* A step of one caller takes its own outcome only. *)
LEMMA OutcomeTurns ==
  ASSUME NEW c \in Callers, \A d \in Callers : d # c => call'[d] = call[d],
         NEW from, NEW to, Outcome(c) = from, Outcome(c)' = to
  PROVE  AsRegister!Turn(c, from, to)
<1>1. \A d \in Callers : d # c => Outcome(d)' = Outcome(d)
  BY DEF Outcome, At
<1> QED
  BY <1>1 DEF AsRegister!Turn

(* A caller's step is a step of the register, or changes nothing of it. *)
LEMMA CallRefines ==
  ASSUME RegisterInv, NEW c \in Callers, CallStep(c)
  PROVE  AsRegister!Next \/ UNCHANGED <<bucket, Outcomes>>
<1> DEFINE from == call[c].pc
           to == call'[c].pc
           known == call'[c].ok = call[c].ok
<1>1. Moves(c) /\ \A d \in Callers : d # c => call'[d] = call[d]
  BY CallStepMoves DEF RegisterInv
<1>2. \A before, after : Outcome(c) = before /\ Outcome(c)' = after
                          => AsRegister!Turn(c, before, after)
  BY <1>1, OutcomeTurns
<1>3. ASSUME Outcome(c)' = Outcome(c) PROVE UNCHANGED Outcomes
  <2>1. \A d \in Callers : Outcome(d)' = Outcome(d)
    BY <1>1, <1>3 DEF Outcome, At
  <2> QED
    BY <2>1 DEF Outcomes
<1>4. /\ from \in UpdateLabels \cup {"new", "create", "delete"} => Outcome(c) = "open"
      /\ to \in UpdateLabels \cup {"create", "delete"} => Outcome(c)' = "open"
      /\ to = "failed" => Outcome(c)' = "failed"
      /\ to = "ack" => Outcome(c)' = "applied"
  BY DEF Outcome, At, UpdateLabels
<1>5. Kinds[c] \subseteq {"create", "read", "delete"}
  BY DocumentsAssumption
<1>6. CASE from = "new" /\ to \in Kinds[c] /\ UNCHANGED bucket
  BY <1>3, <1>4, <1>5, <1>6 DEF UpdateLabels
<1>7. CASE from \in UpdateLabels /\ to \in UpdateLabels \cup {"remove", "failed"} /\ known
           /\ UNCHANGED bucket
  <2>1. CASE to \in UpdateLabels
    BY <1>3, <1>4, <1>7, <2>1
  <2>2. CASE to \in {"remove", "failed"}
    <3>1. Outcome(c) \in {"open"} /\ ~call[c].ok
      BY <1>4, <1>7 DEF RegisterInv, OkWhenApplied, UpdateLabels
    <3>2. to = "failed" => AsRegister!GiveUp(c)
      BY <1>2, <1>4, <1>7, <3>1 DEF AsRegister!GiveUp
    <3>3. to = "remove" => Outcome(c)' = "open"
      BY <1>7, <3>1 DEF Outcome, At
    <3> QED
      BY <1>3, <1>7, <2>2, <3>1, <3>2, <3>3 DEF AsRegister!Next
  <2> QED
    BY <1>7, <2>1, <2>2
<1>8. CASE from = "put" /\ to \in {"refetch", "ack", "failed"}
           /\ bucket.there /\ bucket' = Stored(bucket.body \cup {c})
  <2>1. "read" \in Kinds[c]
    BY <1>8 DEF RegisterInv, KindKept, UpdateLabels
  <2>2. Outcome(c) = "open" /\ Outcome(c)' \in {"open", "applied", "failed"}
    BY <1>4, <1>8 DEF UpdateLabels
  <2>3. AsRegister!Effect(c)
    BY <1>2, <2>2 DEF AsRegister!Effect
  <2>4. AsRegister!ChangeDocument(c)
    BY <1>8, <2>1, <2>3 DEF AsRegister!ChangeDocument, AsRegister!Holding, Stored
  <2> QED
    BY <2>4 DEF AsRegister!Next
<1>9. CASE from = "create" /\ to \in {"ack", "failed"} /\ ~bucket.there /\ bucket' = Stored({c})
  <2>1. "create" \in Kinds[c]
    BY <1>9 DEF RegisterInv, KindKept
  <2>2. Outcome(c) = "open" /\ Outcome(c)' \in {"applied", "failed"}
    BY <1>4, <1>9
  <2>3. AsRegister!Effect(c)
    BY <1>2, <2>2 DEF AsRegister!Effect
  <2>4. AsRegister!CreateDocument(c)
    BY <1>9, <2>1, <2>2, <2>3 DEF AsRegister!CreateDocument, AsRegister!Holding, Stored
  <2> QED
    BY <2>4 DEF AsRegister!Next
<1>10. CASE /\ from = "delete" /\ bucket' = Absent
            /\ (to = "remove" /\ call'[c].ok) \/ to = "failed"
  <2>1. "delete" \in Kinds[c]
    BY <1>10 DEF RegisterInv, KindKept
  <2>2. Outcome(c) = "open" /\ Outcome(c)' \in {"applied", "failed"}
    BY <1>4, <1>10 DEF Outcome, At
  <2>3. AsRegister!Effect(c)
    BY <1>2, <2>2 DEF AsRegister!Effect
  <2>4. AsRegister!DeleteDocument(c)
    BY <1>10, <2>1, <2>2, <2>3 DEF AsRegister!DeleteDocument, AsRegister!Missing, Absent
  <2> QED
    BY <2>4 DEF AsRegister!Next
<1>11. CASE from \in {"create", "delete"} /\ to = "failed" /\ UNCHANGED bucket
  <2>1. AsRegister!GiveUp(c)
    BY <1>2, <1>4, <1>11 DEF AsRegister!GiveUp
  <2> QED
    BY <2>1 DEF AsRegister!Next
<1>12. CASE /\ UNCHANGED bucket
            /\ from = "ack" \/ (from = "remove" /\ call[c].ok)
            /\ to = "done"
  <2>1. Outcome(c) = "applied" /\ Outcome(c)' = "ok"
    BY <1>12 DEF Outcome, At
  <2>2. AsRegister!Answer(c)
    BY <1>2, <1>12, <2>1 DEF AsRegister!Answer
  <2> QED
    BY <2>2 DEF AsRegister!Next
<1>13. CASE from = "remove" /\ ~call[c].ok /\ to = "failed" /\ UNCHANGED bucket
  <2>1. Outcome(c) = "open" /\ Outcome(c)' = "failed"
    BY <1>13 DEF Outcome, At
  <2>2. AsRegister!GiveUp(c)
    BY <1>2, <1>13, <2>1 DEF AsRegister!GiveUp
  <2> QED
    BY <2>2 DEF AsRegister!Next
<1> QED
  BY <1>1, <1>6, <1>7, <1>8, <1>9, <1>10, <1>11, <1>12, <1>13 DEF Moves

(* A step of a refresher changes nothing of the register. *)
LEMMA StepRefines ==
  RegisterInv /\ [Next]_vars => AsRegister!Next \/ UNCHANGED <<bucket, Outcomes>>
<1> SUFFICES ASSUME RegisterInv, [Next]_vars
             PROVE  AsRegister!Next \/ UNCHANGED <<bucket, Outcomes>>
  OBVIOUS
<1>1. UNCHANGED call => UNCHANGED Outcomes
  BY DEF Outcomes, Outcome, At
<1>2. CASE \E c \in Callers : CallStep(c)
  BY <1>2, CallRefines
<1>3. CASE \E r \in Replicas : RefreshStep(r)
  BY <1>1, <1>3, RefreshStepInv DEF RegisterInv
<1>4. CASE UNCHANGED vars
  BY <1>1, <1>4 DEF vars
<1> QED
  BY <1>2, <1>3, <1>4 DEF Next

(* Through its caches, refreshes, conflicts and retries, the documents cache *)
(* implements a register on which every call acts atomically: one that       *)
(* succeeds has taken effect, one that fails may have.                       *)
THEOREM Implements == Spec => ImplementsRegister
<1>1. RegisterInv /\ [Next]_vars => [AsRegister!Next]_<<bucket, Outcomes>>
  BY StepRefines
<1>2. Spec => []RegisterInv
  BY RegisterInvInit, RegisterInvStep, PTL DEF Spec
<1> QED
  BY <1>1, <1>2, RefinesInit, PTL DEF Spec, ImplementsRegister, AsRegister!Spec,
     AsRegister!register, Outcomes
=============================================================================
