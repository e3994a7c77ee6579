-------------------------- MODULE DocumentsProofs --------------------------
(* Safety of the documents cache, for every set of replicas and callers, *)
(* every placement of the callers and any number of failing calls.       *)
EXTENDS Documents, TLAPS

(* A changed copy is made from an entry that was stored: an Update never puts *)
(* under the tag of a missing document (its cached or fetched entry exists).  *)
PutsStored == \A c \in Callers : call[c].pc \in {"fill", "put"} => call[c].doc.there

(* Update gives up before it re-reads more often than maxUpdateAttempts. *)
RetriesLeft ==
  \A c \in Callers : call[c].pc \in {"refetch", "refill"} => call[c].attempt < MaxRetries

DocumentsInv == TypeOK /\ PutsStored /\ RetriesLeft

----------------------------------------------------------------------------
(* The documents are the absent one and the stored ones. *)
LEMMA DocumentShape ==
  /\ Absent \in Document /\ ~Absent.there /\ Absent.body = {}
  /\ \A b \in SUBSET Callers : Stored(b) \in Document /\ Stored(b).there /\ Stored(b).body = b
  /\ \A d \in Document : d.there \in BOOLEAN /\ d.body \in SUBSET Callers
<1>1. Absent \in Document /\ ~Absent.there /\ Absent.body = {}
  BY DEF Document, Absent
<1>2. ASSUME NEW b \in SUBSET Callers
      PROVE  Stored(b) \in Document /\ Stored(b).there /\ Stored(b).body = b
  BY DEF Document, Stored
<1>3. ASSUME NEW d \in Document PROVE d.there \in BOOLEAN /\ d.body \in SUBSET Callers
  <2>1. CASE d = Absent
    BY <2>1 DEF Absent
  <2>2. CASE d \in [there: {TRUE}, body: SUBSET Callers]
    BY <2>2
  <2> QED
    BY <2>1, <2>2 DEF Document
<1> QED
  BY <1>1, <1>2, <1>3

(* What a caller puts is a document. *)
LEMMA ChangedType ==
  ASSUME TypeOK, NEW c \in Callers
  PROVE  Changed(c) \in Document /\ Changed(c).there
                    /\ Changed(c).body = call[c].doc.body \cup {c}
<1>1. call[c].doc \in Document
  BY DEF TypeOK, Call
<1>2. call[c].doc.body \cup {c} \in SUBSET Callers
  BY <1>1, DocumentShape
<1> QED
  BY <1>2, DocumentShape DEF Changed

(* A step of one caller that leaves its record well-formed, and its part of *)
(* the invariant true, preserves the callers' part of the invariant.        *)
LEMMA CallMoves ==
  ASSUME DocumentsInv, NEW c \in Callers, call' \in [Callers -> Call],
         \A d \in Callers : d # c => call'[d] = call[d],
         call'[c].pc \in {"fill", "put"} => call'[c].doc.there,
         call'[c].pc \in {"refetch", "refill"} => call'[c].attempt < MaxRetries
  PROVE  call' \in [Callers -> Call] /\ PutsStored' /\ RetriesLeft'
<1>1. PutsStored'
  BY DEF DocumentsInv, PutsStored
<1>2. RetriesLeft'
  BY DEF DocumentsInv, RetriesLeft
<1> QED
  BY <1>1, <1>2

(* Goto changes the label of one caller and GotoWith its document as well. *)
LEMMA GotoAt ==
  ASSUME TypeOK, NEW c \in Callers, NEW pc, NEW doc \in Document,
         pc \in {"new", "create", "read", "fetch", "fill", "put", "refetch", "refill",
                 "ack", "delete", "remove", "done", "failed"},
         \/ Goto(c, pc) /\ doc = call[c].doc
         \/ GotoWith(c, pc, doc)
  PROVE  /\ call' \in [Callers -> Call]
         /\ call'[c].pc = pc /\ call'[c].doc = doc
         /\ call'[c].attempt = call[c].attempt /\ call'[c].ok = call[c].ok
         /\ \A d \in Callers : d # c => call'[d] = call[d]
<1> DEFINE mid == [call EXCEPT ![c].pc = pc]
<1>1. call \in [Callers -> Call] /\ call[c] \in Call
  BY DEF TypeOK
<1>2. /\ mid \in [Callers -> Call]
      /\ mid[c].pc = pc /\ mid[c].doc = call[c].doc
      /\ mid[c].attempt = call[c].attempt /\ mid[c].ok = call[c].ok
      /\ \A d \in Callers : d # c => mid[d] = call[d]
  BY <1>1 DEF Call
<1>3. CASE Goto(c, pc) /\ doc = call[c].doc
  BY <1>2, <1>3 DEF Goto
<1>4. CASE GotoWith(c, pc, doc)
  <2>1. call' = [mid EXCEPT ![c].doc = doc]
    BY <1>4 DEF GotoWith
  <2> HIDE DEF mid
  <2> QED
    BY <1>2, <2>1 DEF Call
<1> QED
  BY <1>3, <1>4

(* Such a move preserves the invariant when the new label's demand is met. *)
LEMMA GotoMoves ==
  ASSUME DocumentsInv, NEW c \in Callers, NEW pc, NEW doc \in Document,
         pc \in {"new", "create", "read", "fetch", "fill", "put", "refetch", "refill",
                 "ack", "delete", "remove", "done", "failed"},
         \/ Goto(c, pc) /\ doc = call[c].doc
         \/ GotoWith(c, pc, doc),
         pc \in {"fill", "put"} => doc.there,
         pc \in {"refetch", "refill"} => call[c].attempt < MaxRetries
  PROVE  call' \in [Callers -> Call] /\ PutsStored' /\ RetriesLeft'
BY GotoAt, CallMoves DEF DocumentsInv

(* An acknowledged call is done, and so is one whose document is gone. *)
LEMMA AckAt ==
  ASSUME TypeOK, NEW c \in Callers, Ack(c)
  PROVE  /\ call' \in [Callers -> Call] /\ call'[c].pc = "done" /\ call'[c].ok
         /\ \A d \in Callers : d # c => call'[d] = call[d]
<1> DEFINE first == [call EXCEPT ![c].pc = "done"]
           mid == [call EXCEPT ![c].pc = "done", ![c].doc = Absent]
<1>1. /\ first \in [Callers -> Call] /\ first[c].pc = "done"
      /\ \A d \in Callers : d # c => first[d] = call[d]
  BY DEF TypeOK, Call
<1>2. mid = [first EXCEPT ![c].doc = Absent]
  OBVIOUS
<1>3. call' = [mid EXCEPT ![c].ok = TRUE]
  BY DEF Ack
<1> HIDE DEF first, mid
<1>4. /\ mid \in [Callers -> Call] /\ mid[c].pc = "done"
      /\ \A d \in Callers : d # c => mid[d] = call[d]
  BY <1>1, <1>2, DocumentShape DEF Call
<1> QED
  BY <1>3, <1>4 DEF Call

(* A deletion that was applied is bound to answer without an error. *)
LEMMA DeleteAt ==
  ASSUME TypeOK, NEW c \in Callers, Delete(c)
  PROVE  /\ call' \in [Callers -> Call] /\ call'[c].pc = "remove" /\ call'[c].ok
         /\ \A d \in Callers : d # c => call'[d] = call[d]
BY DEF Delete, TypeOK, Call

(* A retried Update starts over with one retry less. *)
LEMMA RefillAt ==
  ASSUME TypeOK, NEW c \in Callers, UpdateRefill(c), call[c].attempt < MaxRetries
  PROVE  /\ call' \in [Callers -> Call] /\ call'[c].pc = "read" /\ call'[c].ok = call[c].ok
         /\ \A d \in Callers : d # c => call'[d] = call[d]
<1> DEFINE k == [pc |-> "read", doc |-> Absent, attempt |-> call[c].attempt + 1,
                 ok |-> call[c].ok]
<1>1. call[c] \in Call /\ call[c].attempt \in 0 .. MaxRetries
  BY DEF TypeOK, Call
<1>2. call[c].attempt + 1 \in 0 .. MaxRetries
  BY <1>1, DocumentsAssumption
<1>3. k \in Call
  BY <1>1, <1>2, DocumentShape DEF Call
<1>4. call[c] = [pc |-> call[c].pc, doc |-> call[c].doc, attempt |-> call[c].attempt,
                 ok |-> call[c].ok]
  BY <1>1 DEF Call
<1>5. call' = [call EXCEPT ![c] = k]
  BY <1>4 DEF UpdateRefill, TypeOK, Call
<1> QED
  BY <1>3, <1>5 DEF TypeOK

(* A caller's record has the types of its parts. *)
LEMMA CallType ==
  ASSUME TypeOK, NEW c \in Callers
  PROVE  call[c] \in Call /\ call[c].doc \in Document /\ call[c].attempt \in 0 .. MaxRetries
BY DEF TypeOK, Call

(* A cache that takes a document is a cache of documents. *)
LEMMA SetCacheType ==
  ASSUME TypeOK, NEW r \in Replicas, NEW doc \in Document, SetCache(r, doc)
  PROVE  cache' \in [Replicas -> Document]
BY DEF TypeOK, SetCache

(* A failing call stays within the bound of failures. *)
LEMMA FaultCounts ==
  ASSUME TypeOK, Fault \/ UNCHANGED faults
  PROVE  faults' \in 0 .. MaxFaults
BY DocumentsAssumption DEF TypeOK, Fault

(* A step of the refresher leaves it at a label with a document. *)
LEMMA RefreshMoves ==
  ASSUME TypeOK, NEW r \in Replicas, NEW pc, NEW doc \in Document,
         pc \in {"boot", "idle", "diff", "fetch", "fill", "gone"}, RefreshGoto(r, pc, doc)
  PROVE  refresh' \in [Replicas -> Refresh]
BY DEF TypeOK, RefreshGoto, Refresh

(* What is reported are watched callers. *)
LEMMA ReportType ==
  ASSUME TypeOK, NEW r \in Replicas, NEW doc, Report(r, doc) \/ UNCHANGED reported
  PROVE  reported' \in [Replicas -> SUBSET Watched]
BY DEF TypeOK, Report
----------------------------------------------------------------------------
(* The first step of every call and every store call or cache write of a    *)
(* caller preserves the invariant.                                          *)
LEMMA CallStepInv ==
  ASSUME DocumentsInv, NEW c \in Callers, CallStep(c)
  PROVE  DocumentsInv'
<1> DEFINE Goal == call' \in [Callers -> Call] /\ PutsStored' /\ RetriesLeft'
<1> USE DocumentsAssumption
<1>t. TypeOK
  BY DEF DocumentsInv
<1>h. Host[c] \in Replicas /\ Cached(c) \in Document /\ bucket \in Document
  BY <1>t DEF TypeOK, Cached
<1>k. call[c] \in Call /\ call[c].doc \in Document /\ call[c].attempt \in 0 .. MaxRetries
  BY <1>t, CallType
<1>a. Absent \in Document /\ Stored({c}) \in Document /\ Changed(c) \in Document
  BY <1>t, DocumentShape, ChangedType
<1> SUFFICES /\ Goal
             /\ bucket' \in Document
             /\ cache' \in [Replicas -> Document]
             /\ faults' \in 0 .. MaxFaults
             /\ UNCHANGED <<refresh, reported>>
  BY <1>t DEF DocumentsInv, TypeOK
<1>u. /\ UNCHANGED bucket => bucket' \in Document
      /\ UNCHANGED cache => cache' \in [Replicas -> Document]
      /\ UNCHANGED faults => faults' \in 0 .. MaxFaults
  BY <1>t DEF TypeOK
<1>c. \A doc \in Document : SetCache(Host[c], doc) => cache' \in [Replicas -> Document]
  BY <1>t, <1>h, SetCacheType
<1>s. ASSUME NEW pc \in {"new", "create", "read", "fetch", "ack", "delete", "remove", "done",
                         "failed"},
             NEW doc \in Document,
             \/ Goto(c, pc) /\ doc = call[c].doc
             \/ GotoWith(c, pc, doc)
      PROVE  Goal
  BY <1>s, GotoMoves
<1>1. CASE Begin(c)
  <2>1. PICK kind \in Kinds[c] : Goto(c, kind)
    BY <1>1 DEF Begin
  <2>2. kind \in {"create", "read", "delete"}
    BY <2>1
  <2> QED
    BY <1>1, <2>1, <2>2, <1>k, <1>s, <1>u DEF Begin
<1>2. CASE Create(c)
  <2>1. Goal
    BY <1>2, <1>k, <1>a, <1>s DEF Create
  <2> QED
    BY <1>2, <2>1, <1>a, <1>u DEF Create
<1>3. CASE UpdateRead(c)
  <2>1. CASE Cached(c).there
    <3>1. GotoWith(c, "put", Cached(c))
      BY <1>3, <2>1 DEF UpdateRead
    <3>2. Goal
      BY <2>1, <3>1, <1>h, GotoMoves
    <3> QED
      BY <1>3, <3>2, <1>u DEF UpdateRead
  <2>2. CASE ~Cached(c).there
    BY <1>3, <2>2, <1>k, <1>s, <1>u DEF UpdateRead
  <2> QED
    BY <2>1, <2>2
<1>4. CASE UpdateFetch(c)
  <2>1. CASE bucket.there
    <3>1. GotoWith(c, "fill", bucket)
      BY <1>4, <2>1 DEF UpdateFetch
    <3>2. Goal
      BY <2>1, <3>1, <1>h, GotoMoves
    <3> QED
      BY <1>4, <3>2, <1>u DEF UpdateFetch
  <2>2. CASE ~bucket.there
    BY <1>4, <2>2, <1>k, <1>s, <1>u DEF UpdateFetch
  <2> QED
    BY <2>1, <2>2
<1>5. CASE UpdateFill(c)
  <2>1. call[c].doc.there
    BY <1>5 DEF UpdateFill, At, DocumentsInv, PutsStored
  <2>2. Goal
    BY <1>5, <2>1, <1>k, GotoMoves DEF UpdateFill
  <2> QED
    BY <1>5, <2>2, <1>k, <1>c, <1>u DEF UpdateFill
<1>6. CASE UpdatePut(c)
  <2>1. Goal
    BY <1>6, <1>a, <1>s DEF UpdatePut
  <2> QED
    BY <1>6, <2>1, <1>a, <1>u DEF UpdatePut
<1>7. CASE UpdateConflict(c)
  <2>1. ASSUME bucket.there /\ call[c].attempt < MaxRetries PROVE Goal
    <3>1. Goto(c, "refetch")
      BY <1>7, <2>1 DEF UpdateConflict
    <3> QED
      BY <2>1, <3>1, <1>k, GotoMoves
  <2>2. ASSUME ~(bucket.there /\ call[c].attempt < MaxRetries) PROVE Goal
    <3>1. Goto(c, "remove") \/ Goto(c, "failed")
      BY <1>7, <2>2 DEF UpdateConflict
    <3> QED
      BY <3>1, <1>k, <1>s
  <2>3. Goal
    BY <2>1, <2>2
  <2>4. bucket' \in Document /\ faults' \in 0 .. MaxFaults
    BY <1>7, <1>t, <1>a, <1>u, FaultCounts DEF UpdateConflict
  <2> QED
    BY <1>7, <2>3, <2>4, <1>u DEF UpdateConflict
<1>8. CASE UpdateRefetch(c)
  <2>1. call[c].attempt < MaxRetries
    BY <1>8 DEF UpdateRefetch, At, DocumentsInv, RetriesLeft
  <2>2. CASE bucket.there
    <3>1. GotoWith(c, "refill", bucket)
      BY <1>8, <2>2 DEF UpdateRefetch
    <3>2. Goal
      BY <2>1, <3>1, <1>h, GotoMoves
    <3> QED
      BY <1>8, <3>2, <1>u DEF UpdateRefetch
  <2>3. CASE ~bucket.there
    BY <1>8, <2>3, <1>k, <1>s, <1>u DEF UpdateRefetch
  <2> QED
    BY <2>2, <2>3
<1>9. CASE UpdateRefill(c)
  <2>1. call[c].attempt < MaxRetries
    BY <1>9 DEF UpdateRefill, At, DocumentsInv, RetriesLeft
  <2>2. Goal
    BY <1>9, <1>t, <2>1, RefillAt, CallMoves
  <2> QED
    BY <1>9, <2>2, <1>k, <1>c, <1>u DEF UpdateRefill
<1>10. CASE Ack(c)
  <2>1. Goal
    BY <1>10, <1>t, AckAt, CallMoves
  <2> QED
    BY <1>10, <2>1, <1>k, <1>c, <1>u DEF Ack
<1>11. CASE Delete(c)
  <2>1. Goal
    BY <1>11, <1>t, DeleteAt, CallMoves
  <2> QED
    BY <1>11, <2>1, <1>a, <1>u DEF Delete
<1>12. CASE Remove(c)
  <2>1. GotoWith(c, IF call[c].ok THEN "done" ELSE "failed", Absent)
    BY <1>12 DEF Remove, GotoWith
  <2>2. Goal
    BY <2>1, <1>a, <1>s
  <2> QED
    BY <1>12, <2>2, <1>a, <1>c, <1>u DEF Remove
<1>13. CASE CallFails(c)
  <2>1. Goal
    BY <1>13, <1>k, <1>s DEF CallFails
  <2>2. bucket' \in Document
    BY <1>13, <1>h, <1>a DEF CallFails
  <2>3. faults' \in 0 .. MaxFaults
    BY <1>13, <1>t, FaultCounts DEF CallFails
  <2> QED
    BY <1>13, <2>1, <2>2, <2>3, <1>u DEF CallFails
<1> HIDE DEF Goal
<1> QED
  BY <1>1, <1>2, <1>3, <1>4, <1>5, <1>6, <1>7, <1>8, <1>9, <1>10, <1>11, <1>12, <1>13
     DEF CallStep

(* The refresher touches neither the document nor the callers. *)
LEMMA RefreshStepInv ==
  ASSUME DocumentsInv, NEW r \in Replicas, RefreshStep(r)
  PROVE  DocumentsInv' /\ UNCHANGED <<bucket, call>>
<1>t. TypeOK
  BY DEF DocumentsInv
<1>a. Absent \in Document /\ bucket \in Document /\ refresh[r].doc \in Document
  BY <1>t, DocumentShape DEF TypeOK, Refresh
<1>b. UNCHANGED <<bucket, call>>
  BY DEF RefreshStep, Load, List, Diff, RefreshFetch, RefreshFill, RefreshGone, RefreshFails
<1>g. \A doc \in Document : \A pc \in {"boot", "idle", "diff", "fetch", "fill", "gone"} :
        RefreshGoto(r, pc, doc) => refresh' \in [Replicas -> Refresh]
  BY <1>t, RefreshMoves
<1>1. refresh' \in [Replicas -> Refresh]
  BY <1>a, <1>g DEF RefreshStep, Load, List, Diff, RefreshFetch, RefreshFill, RefreshGone,
                    RefreshFails, RefreshEnds
<1>c. /\ \A doc \in Document : SetCache(r, doc) => cache' \in [Replicas -> Document]
      /\ UNCHANGED cache => cache' \in [Replicas -> Document]
  BY <1>t, SetCacheType DEF TypeOK
<1>2. cache' \in [Replicas -> Document]
  BY <1>a, <1>c DEF RefreshStep, Load, List, Diff, RefreshFetch, RefreshFill, RefreshGone,
                    RefreshFails
<1>r. /\ \A doc \in Document : Report(r, doc) => reported' \in [Replicas -> SUBSET Watched]
      /\ UNCHANGED reported => reported' \in [Replicas -> SUBSET Watched]
  BY <1>t, ReportType
<1>3. reported' \in [Replicas -> SUBSET Watched]
  BY <1>a, <1>r DEF RefreshStep, Load, List, Diff, RefreshFetch, RefreshFill, RefreshGone,
                    RefreshFails
<1>4. faults' \in 0 .. MaxFaults
  BY <1>t, FaultCounts DEF RefreshStep, Load, List, Diff, RefreshFetch, RefreshFill,
                           RefreshGone, RefreshFails
<1>5. TypeOK'
  BY <1>t, <1>b, <1>1, <1>2, <1>3, <1>4 DEF TypeOK
<1>6. PutsStored' /\ RetriesLeft'
  BY <1>b DEF DocumentsInv, PutsStored, RetriesLeft
<1> QED
  BY <1>b, <1>5, <1>6 DEF DocumentsInv

(* Nothing is being put or re-read before the first call. *)
LEMMA DocumentsInit == Init => DocumentsInv
<1> SUFFICES ASSUME Init PROVE DocumentsInv
  OBVIOUS
<1>1. bucket \in Document
  BY DocumentShape DEF Init
<1>2. cache \in [Replicas -> Document] /\ refresh \in [Replicas -> Refresh]
  BY DocumentShape DEF Init, Refresh
<1>3. call \in [Callers -> Call] /\ \A c \in Callers : call[c].pc = "new"
  BY DocumentShape, DocumentsAssumption DEF Init, Call
<1>4. reported \in [Replicas -> SUBSET Watched] /\ faults \in 0 .. MaxFaults
  BY DocumentsAssumption DEF Init
<1> QED
  BY <1>1, <1>2, <1>3, <1>4 DEF DocumentsInv, TypeOK, PutsStored, RetriesLeft

(* Every step preserves the invariant. *)
LEMMA DocumentsStep == DocumentsInv /\ [Next]_vars => DocumentsInv'
<1>1. DocumentsInv /\ Next => DocumentsInv'
  BY CallStepInv, RefreshStepInv DEF Next
<1>2. DocumentsInv /\ UNCHANGED vars => DocumentsInv'
  BY DEF DocumentsInv, TypeOK, PutsStored, RetriesLeft, vars
<1> QED
  BY <1>1, <1>2

(* Every reachable state satisfies the invariant. *)
LEMMA DocumentsAlways == Spec => []DocumentsInv
BY DocumentsInit, DocumentsStep, PTL DEF Spec

(* The types of TypeOK hold in every reachable state: an Update is retried at *)
(* most maxUpdateAttempts times, and only stored documents are cached.        *)
THEOREM TypeCorrect == Spec => []TypeOK
<1>1. DocumentsInv => TypeOK
  BY DEF DocumentsInv
<1> QED
  BY <1>1, DocumentsAlways, PTL

----------------------------------------------------------------------------
(* Which writes reach the bucket: a creation of a missing document, a change *)
(* made from the very document that is stored, or a deletion.                *)
LEMMA Writes ==
  ASSUME DocumentsInv, [Next]_vars
  PROVE  \/ UNCHANGED bucket
         \/ \E c \in Callers : At(c, "create") /\ ~bucket.there /\ bucket' = Stored({c})
         \/ \E c \in Callers : /\ bucket.there /\ bucket'.there
                               /\ bucket'.body = bucket.body \cup {c}
         \/ bucket' = Absent
<1>t. TypeOK
  BY DEF DocumentsInv
<1>1. ASSUME NEW c \in Callers, At(c, "put"), bucket = call[c].doc, bucket' = Changed(c)
      PROVE  bucket.there /\ bucket'.there /\ bucket'.body = bucket.body \cup {c}
  <2>1. bucket.there
    BY <1>1 DEF DocumentsInv, PutsStored, At
  <2> QED
    BY <1>t, <1>1, <2>1, ChangedType
<1>2. ASSUME NEW c \in Callers, CallStep(c)
      PROVE  \/ UNCHANGED bucket
             \/ At(c, "create") /\ ~bucket.there /\ bucket' = Stored({c})
             \/ At(c, "put") /\ bucket = call[c].doc /\ bucket' = Changed(c)
             \/ bucket' = Absent
  <2>1. CASE CallFails(c)
    BY <2>1 DEF CallFails
  <2>2. CASE ~CallFails(c)
    BY <1>2, <2>2 DEF CallStep, Begin, Create, UpdateRead, UpdateFetch, UpdateFill, UpdatePut,
                      UpdateConflict, UpdateRefetch, UpdateRefill, Ack, Delete, Remove
  <2> QED
    BY <2>1, <2>2
<1>3. CASE \E c \in Callers : CallStep(c)
  <2>1. PICK c \in Callers : CallStep(c)
    BY <1>3
  <2> QED
    BY <1>1, <1>2, <2>1
<1>4. CASE \E r \in Replicas : RefreshStep(r)
  BY <1>4, RefreshStepInv
<1>5. CASE UNCHANGED vars
  BY <1>5 DEF vars
<1> QED
  BY <1>3, <1>4, <1>5 DEF Next

(* No write of any caller on any replica, however stale its cache, loses *)
(* another caller's change to the stored document.                       *)
THEOREM ChangesKept == Spec => NoLostUpdate
<1>1. DocumentsInv /\ [Next]_vars
        => [bucket.there /\ bucket'.there => bucket.body \subseteq bucket'.body]_vars
  <2> SUFFICES ASSUME DocumentsInv, [Next]_vars, bucket.there, bucket'.there
               PROVE  bucket.body \subseteq bucket'.body
    OBVIOUS
  <2>1. bucket' # Absent
    BY DocumentShape
  <2> QED
    BY <2>1, Writes
<1> QED
  BY <1>1, DocumentsAlways, PTL DEF Spec, NoLostUpdate

(* Only a Create brings a missing document into the bucket: no Update of a *)
(* replica that has not heard of a deletion undoes it.                     *)
THEOREM NoResurrection == Spec => DeletedStaysDeleted
<1>1. DocumentsInv /\ [Next]_vars
        => [~bucket.there /\ bucket'.there => \E c \in Callers : At(c, "create")]_vars
  <2> SUFFICES ASSUME DocumentsInv, [Next]_vars, ~bucket.there, bucket'.there
               PROVE  \E c \in Callers : At(c, "create")
    OBVIOUS
  <2>1. bucket' # Absent
    BY DocumentShape
  <2> QED
    BY <2>1, Writes
<1> QED
  BY <1>1, DocumentsAlways, PTL DEF Spec, DeletedStaysDeleted
============================================================================
