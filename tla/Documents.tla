----------------------------- MODULE Documents -----------------------------
(***************************************************************************)
(* internal/store/documents.go: every replica's write-through cache of the *)
(* documents under one prefix.  Callers create, update and delete through  *)
(* the cache while the replica's refresher lists and fetches.  Documents   *)
(* do not interact, so one is modelled.                                    *)
(*                                                                         *)
(* A document is the set of the callers whose change it holds: Create      *)
(* starts it, Update adds the caller to a copy.  Its ETag is a digest of   *)
(* the body, so a tag is the body itself.  A document whose decoding or    *)
(* validation fails (rejected) is left out.                                *)
(***************************************************************************)
EXTENDS Naturals

CONSTANTS
  Replicas,
  Callers,      \* calls of Create, Update and Delete, one document each
  Host,         \* the replica a caller runs on
  Kinds,        \* what a caller may be: "create", "read" (Update), "delete"
  Watched,      \* callers the history variable reported keeps track of
  MaxRetries,   \* maxUpdateAttempts
  MaxFaults     \* bound: store calls that fail

ASSUME DocumentsAssumption ==
  /\ Host \in [Callers -> Replicas]
  /\ Kinds \in [Callers -> SUBSET {"create", "read", "delete"}]
  /\ Watched \subseteq Callers
  /\ MaxRetries \in Nat /\ MaxFaults \in Nat

VARIABLES
  bucket,    \* the stored document, or Absent
  cache,     \* items[key] on each replica
  call,      \* what each caller is doing
  refresh,   \* what each replica's refresher is doing
  reported,  \* history: the watched changes a Refresh reported or Load read
  faults

vars == <<bucket, cache, call, refresh, reported, faults>>

Absent == [there |-> FALSE, body |-> {}]
Stored(b) == [there |-> TRUE, body |-> b]

Document == {Absent} \cup [there: {TRUE}, body: SUBSET Callers]

\* doc: the entry a step read and a later step uses.
Call == [pc: {"new", "create", "read", "fetch", "fill", "put", "refetch", "refill",
              "ack", "delete", "remove", "done", "failed"},
         doc: Document, attempt: 0 .. MaxRetries, ok: BOOLEAN]

Refresh == [pc: {"boot", "idle", "diff", "fetch", "fill", "gone"}, doc: Document]

TypeOK ==
  /\ bucket \in Document
  /\ cache \in [Replicas -> Document]
  /\ call \in [Callers -> Call]
  /\ refresh \in [Replicas -> Refresh]
  /\ reported \in [Replicas -> SUBSET Watched]
  /\ faults \in 0 .. MaxFaults

Init ==
  /\ bucket \in {Absent, Stored({})}
  /\ cache = [r \in Replicas |-> Absent]
  /\ call = [c \in Callers |-> [pc |-> "new", doc |-> Absent, attempt |-> 0, ok |-> FALSE]]
  /\ refresh = [r \in Replicas |-> [pc |-> "boot", doc |-> Absent]]
  /\ reported = [r \in Replicas |-> {}]
  /\ faults = 0

----------------------------------------------------------------------------
At(c, pc) == call[c].pc = pc
Goto(c, pc) == call' = [call EXCEPT ![c].pc = pc]
GotoWith(c, pc, doc) == call' = [call EXCEPT ![c].pc = pc, ![c].doc = doc]

SetCache(r, doc) == cache' = [cache EXCEPT ![r] = doc]
Cached(c) == cache[Host[c]]

Fault == faults < MaxFaults /\ faults' = faults + 1

Begin(c) ==
  /\ At(c, "new") /\ refresh[Host[c]].pc # "boot"
  /\ \E kind \in Kinds[c] : Goto(c, kind)
  /\ UNCHANGED <<bucket, cache, refresh, reported, faults>>

(* Create: a Put that requires the object to be missing, then the cache. *)
Create(c) ==
  /\ At(c, "create")
  /\ IF bucket.there
     THEN Goto(c, "failed") /\ UNCHANGED bucket
     ELSE bucket' = Stored({c}) /\ GotoWith(c, "ack", Stored({c}))
  /\ UNCHANGED <<cache, refresh, reported, faults>>

(* Update reads the cached entry, and fetches the document when there is none. *)
UpdateRead(c) ==
  /\ At(c, "read")
  /\ IF Cached(c).there THEN GotoWith(c, "put", Cached(c)) ELSE Goto(c, "fetch")
  /\ UNCHANGED <<bucket, cache, refresh, reported, faults>>

UpdateFetch(c) ==
  /\ At(c, "fetch")
  /\ IF bucket.there THEN GotoWith(c, "fill", bucket) ELSE Goto(c, "failed")
  /\ UNCHANGED <<bucket, cache, refresh, reported, faults>>

UpdateFill(c) ==
  /\ At(c, "fill")
  /\ SetCache(Host[c], call[c].doc)
  /\ Goto(c, "put")
  /\ UNCHANGED <<bucket, refresh, reported, faults>>

(* The changed copy is put under the tag of the entry it was made from. *)
Changed(c) == Stored(call[c].doc.body \cup {c})

\* Mutant: the Put of an update carries no condition.
UpdatePutAlways(c) ==
  /\ At(c, "put")
  /\ bucket' = Changed(c)
  /\ GotoWith(c, "ack", Changed(c))
  /\ UNCHANGED <<cache, refresh, reported, faults>>

UpdatePut(c) ==
  /\ At(c, "put") /\ bucket = call[c].doc
  /\ bucket' = Changed(c)
  /\ GotoWith(c, "ack", Changed(c))
  /\ UNCHANGED <<cache, refresh, reported, faults>>

(* The document has changed since; or the Put was applied, its answer lost, *)
(* and the S3 client's repetition of it meets the write itself.             *)
UpdateConflict(c) ==
  /\ At(c, "put")
  /\ \/ bucket # call[c].doc /\ UNCHANGED <<bucket, faults>>
     \/ bucket = call[c].doc /\ Fault /\ bucket' = Changed(c)
  /\ Goto(c, IF ~bucket.there THEN "remove"
             ELSE IF call[c].attempt < MaxRetries THEN "refetch" ELSE "failed")
  /\ UNCHANGED <<cache, refresh, reported>>

UpdateRefetch(c) ==
  /\ At(c, "refetch")
  /\ IF bucket.there THEN GotoWith(c, "refill", bucket) ELSE Goto(c, "remove")
  /\ UNCHANGED <<bucket, cache, refresh, reported, faults>>

\* Mutant: the attempt is not counted before it is compared.
UpdateRefillOver(c) ==
  /\ At(c, "refill")
  /\ SetCache(Host[c], call[c].doc)
  /\ call' = [call EXCEPT ![c].pc = "read", ![c].doc = Absent, ![c].attempt = @ + 2]
  /\ UNCHANGED <<bucket, refresh, reported, faults>>

UpdateRefill(c) ==
  /\ At(c, "refill")
  /\ SetCache(Host[c], call[c].doc)
  /\ call' = [call EXCEPT ![c].pc = "read", ![c].doc = Absent, ![c].attempt = @ + 1]
  /\ UNCHANGED <<bucket, refresh, reported, faults>>

(* A stored document enters the cache after its Put has returned. *)
Ack(c) ==
  /\ At(c, "ack")
  /\ SetCache(Host[c], call[c].doc)
  /\ call' = [call EXCEPT ![c].pc = "done", ![c].doc = Absent, ![c].ok = TRUE]
  /\ UNCHANGED <<bucket, refresh, reported, faults>>

(* Delete is unconditional; it and an Update that finds no object drop the *)
(* entry from the cache.                                                   *)
Delete(c) ==
  /\ At(c, "delete")
  /\ bucket' = Absent
  /\ call' = [call EXCEPT ![c].pc = "remove", ![c].ok = TRUE]
  /\ UNCHANGED <<cache, refresh, reported, faults>>

\* Mutant: an Update that finds the document gone answers without an error.
RemoveAnswers(c) ==
  /\ At(c, "remove")
  /\ SetCache(Host[c], Absent)
  /\ call' = [call EXCEPT ![c].pc = "done", ![c].doc = Absent]
  /\ UNCHANGED <<bucket, refresh, reported, faults>>

Remove(c) ==
  /\ At(c, "remove")
  /\ SetCache(Host[c], Absent)
  /\ call' = [call EXCEPT ![c].pc = IF call[c].ok THEN "done" ELSE "failed", ![c].doc = Absent]
  /\ UNCHANGED <<bucket, refresh, reported, faults>>

(* A store call of c fails; a write may have been applied all the same. *)
CallFails(c) ==
  /\ Fault /\ Goto(c, "failed")
  /\ \/ At(c, "create") /\ bucket' \in {bucket, IF bucket.there THEN bucket ELSE Stored({c})}
     \/ At(c, "put") /\ bucket' \in {bucket, IF bucket = call[c].doc THEN Changed(c) ELSE bucket}
     \/ At(c, "delete") /\ bucket' \in {bucket, Absent}
     \/ At(c, "fetch") /\ UNCHANGED bucket
     \/ At(c, "refetch") /\ UNCHANGED bucket
  /\ UNCHANGED <<cache, refresh, reported>>

CallStep(c) ==
  \/ Begin(c) \/ Create(c) \/ UpdateRead(c) \/ UpdateFetch(c) \/ UpdateFill(c) \/ UpdatePut(c)
  \/ UpdateConflict(c) \/ UpdateRefetch(c) \/ UpdateRefill(c) \/ Ack(c) \/ Delete(c)
  \/ Remove(c) \/ CallFails(c)

----------------------------------------------------------------------------
RefreshAt(r, pc) == refresh[r].pc = pc
RefreshGoto(r, pc, doc) == refresh' = [refresh EXCEPT ![r] = [pc |-> pc, doc |-> doc]]
RefreshEnds(r) == RefreshGoto(r, "idle", Absent)

Report(r, doc) == reported' = [reported EXCEPT ![r] = @ \cup (doc.body \cap Watched)]

(* Load fills the cache before the replica serves anything. *)
Load(r) ==
  /\ RefreshAt(r, "boot")
  /\ SetCache(r, bucket) /\ Report(r, bucket) /\ RefreshEnds(r)
  /\ UNCHANGED <<bucket, call, faults>>

List(r) ==
  /\ RefreshAt(r, "idle")
  /\ RefreshGoto(r, "diff", bucket)
  /\ UNCHANGED <<bucket, cache, call, reported, faults>>

\* Mutant: an entry the cache has is taken to be current.
DiffOnlyMissing(r) ==
  /\ RefreshAt(r, "diff")
  /\ IF refresh[r].doc.there = cache[r].there THEN RefreshEnds(r) /\ UNCHANGED cache
     ELSE IF refresh[r].doc.there THEN RefreshGoto(r, "fetch", Absent) /\ UNCHANGED cache
     ELSE SetCache(r, Absent) /\ RefreshEnds(r)
  /\ UNCHANGED <<bucket, call, reported, faults>>

(* Under the lock: an entry missing from the listing is evicted; one that is *)
(* new or whose tag differs is fetched.                                      *)
Diff(r) ==
  /\ RefreshAt(r, "diff")
  /\ IF refresh[r].doc = cache[r] THEN RefreshEnds(r) /\ UNCHANGED cache
     ELSE IF refresh[r].doc.there THEN RefreshGoto(r, "fetch", Absent) /\ UNCHANGED cache
     ELSE SetCache(r, Absent) /\ RefreshEnds(r)
  /\ UNCHANGED <<bucket, call, reported, faults>>

RefreshFetch(r) ==
  /\ RefreshAt(r, "fetch")
  /\ RefreshGoto(r, IF bucket.there THEN "fill" ELSE "gone", bucket)
  /\ UNCHANGED <<bucket, cache, call, reported, faults>>

(* The fetched entry replaces whatever the cache holds by now; it is reported *)
(* when the entry it replaces was another one.                                *)
RefreshFill(r) ==
  /\ RefreshAt(r, "fill")
  /\ SetCache(r, refresh[r].doc)
  /\ IF cache[r] = refresh[r].doc THEN UNCHANGED reported ELSE Report(r, refresh[r].doc)
  /\ RefreshEnds(r)
  /\ UNCHANGED <<bucket, call, faults>>

RefreshGone(r) ==
  /\ RefreshAt(r, "gone")
  /\ SetCache(r, Absent)
  /\ RefreshEnds(r)
  /\ UNCHANGED <<bucket, call, reported, faults>>

RefreshFails(r) ==
  /\ refresh[r].pc \in {"diff", "fetch"} /\ Fault
  /\ RefreshEnds(r)
  /\ UNCHANGED <<bucket, cache, call, reported>>

RefreshStep(r) ==
  \/ Load(r) \/ List(r) \/ Diff(r) \/ RefreshFetch(r) \/ RefreshFill(r) \/ RefreshGone(r)
  \/ RefreshFails(r)

Next ==
  \/ \E c \in Callers : CallStep(c)
  \/ \E r \in Replicas : RefreshStep(r)

Spec == Init /\ [][Next]_vars

(* Calls have deadlines and the refresher runs at every interval; that a *)
(* caller comes at all is not promised.                                  *)
Fairness ==
  /\ \A c \in Callers : WF_vars(~At(c, "new") /\ CallStep(c))
  /\ \A r \in Replicas : WF_vars(RefreshStep(r))

FairSpec == Spec /\ Fairness

----------------------------------------------------------------------------
(* A write keeps every change the stored document holds: no create, update  *)
(* or stale cache entry of any replica overwrites another caller's change,  *)
(* only a delete removes it.                                                *)
NoLostUpdate ==
  [][bucket.there /\ bucket'.there => bucket.body \subseteq bucket'.body]_vars

(* A deleted document comes back only through a Create: an Update working *)
(* from a cache that has not heard of the deletion does not resurrect it.  *)
DeletedStaysDeleted ==
  [][~bucket.there /\ bucket'.there => \E c \in Callers : At(c, "create")]_vars

(* Once callers stop, every replica's cache settles on the stored document, *)
(* whatever a slow fetch or an eviction put there before.                   *)
CachesConverge == <>[](\A r \in Replicas : cache[r] = bucket)

(* Documents implements Register: the document is the stored one, and a call  *)
(* whose write has returned is bound to answer without an error.  Caches,     *)
(* refreshes, conflicts and retries never show through.                       *)
Outcome(c) ==
  CASE At(c, "ack") \/ (At(c, "remove") /\ call[c].ok) -> "applied"
    [] At(c, "done") -> "ok"
    [] At(c, "failed") -> "failed"
    [] OTHER -> "open"

AsRegister ==
  INSTANCE Register WITH document <- bucket, outcome <- [c \in Callers |-> Outcome(c)]

ImplementsRegister == AsRegister!Spec

(* Refresh's comment: it "reports every document that was created, replaced *)
(* or deleted by someone else": the changes of other replicas that the      *)
(* document ends up with have been reported.                                *)
ReportsEveryChange ==
  <>[](\A r \in Replicas, c \in bucket.body \cap Watched : Host[c] # r => c \in reported[r])
============================================================================
