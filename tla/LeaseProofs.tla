---------------------------- MODULE LeaseProofs ----------------------------
(***************************************************************************)
(* Proofs about Lease, for every set of users and replicas, any placement  *)
(* of the users, every lifetime, period and call timeout, and any number   *)
(* of failed calls and crashes: type correctness, how long a holder that   *)
(* lost the bucket goes on, that unexpired records exclude each other, and *)
(* that an unexpired lease is never stolen.                                *)
(***************************************************************************)
EXTENDS Lease, TLAPS

----------------------------------------------------------------------------
\* Types.

(* An instant that counts down stays between its floor and its ceiling. *)
LEMMA DownType ==
  ASSUME NEW floor \in Int, NEW top \in Int, NEW n \in floor .. top
  PROVE  Down(n, floor) \in floor .. top /\ Down(n, floor) >= n - 1 /\ Down(n, floor) <= n
BY DEF Down

(* The constants the instants are bounded by. *)
LEMMA Bounds ==
  /\ TTL \in Nat /\ TTL > 0 /\ Period \in Nat /\ Period > 0 /\ OpTimeout \in Nat
  /\ Overrun \in Nat /\ Overrun = 3 * OpTimeout + Period
  /\ Past \in Int /\ Past = -(2 * OpTimeout)
  /\ -Overrun - 1 \in Int /\ -Overrun - 1 < Past /\ Past <= 0
  /\ MaxFaults \in Nat
BY LeaseAssumption DEF Overrun, Past

(* The instants a holding starts from lie in their ranges. *)
LEMMA Instants ==
  /\ 0 \in (-Overrun - 1) .. TTL /\ TTL \in (-Overrun - 1) .. TTL
  /\ 0 \in Past .. TTL /\ TTL \in Past .. TTL
  /\ 0 \in 0 .. OpTimeout /\ OpTimeout \in 0 .. OpTimeout
  /\ 0 \in 0 .. Period /\ Period \in 0 .. Period
  /\ Past \in Past .. TTL
  /\ \A n \in Past .. TTL : n \in (-Overrun - 1) .. TTL
  /\ \A n \in 1 .. Period : n \in 0 .. Period
BY LeaseAssumption DEF Overrun, Past

(* A caller that has nothing under way, or died. *)
LEMMA FreeType == Free \in Holding /\ [Free EXCEPT !.pc = "gone"] \in Holding
BY Instants DEF Free, Holding

(* Set replaces one holding by another. *)
LEMMA SetType ==
  ASSUME TypeOK, NEW u \in Users, NEW h \in Holding, Set(u, h)
  PROVE  hold' \in [Users -> Holding]
BY DEF TypeOK, Set

LEMMA SetAt ==
  ASSUME TypeOK, NEW u \in Users, NEW h, Set(u, h)
  PROVE  hold'[u] = h /\ \A v \in Users : v # u => hold'[v] = hold[v]
BY DEF TypeOK, Set

(* A spent failure stays within its bound. *)
LEMMA FaultType ==
  ASSUME TypeOK, Fault \/ UNCHANGED faults
  PROVE  faults' \in 0 .. MaxFaults
BY Bounds DEF TypeOK, Fault

(* What a write leaves in the bucket is a lease. *)
LeaseType == [there: BOOLEAN, holder: Replicas, expires: Past .. TTL]

LEMMA WriteType ==
  ASSUME TypeOK, NEW u \in Users
  PROVE  Written(u) \in LeaseType /\ Deleted \in LeaseType
<1>1. Host[u] \in Replicas /\ hold[u].next \in Past .. TTL
  BY LeaseAssumption DEF TypeOK, Holding
<1>2. lease \in LeaseType /\ Past \in Past .. TTL
  BY Bounds DEF TypeOK, LeaseType
<1> QED BY <1>1, <1>2 DEF Written, Deleted, LeaseType

----------------------------------------------------------------------------
\* The ways in which a step of one caller changes the object.

(* The record is rewritten by u under its condition, by a claim or a renewal. *)
Writes(u) ==
  /\ \/ hold[u].pc = "put" /\ ClaimApplies(u)
     \/ hold[u].pc = "renew" /\ u \in current
  /\ Store(u) \/ StoreUnseen(u)

(* The record is deleted by u under the tag it knows. *)
Deletes(u) ==
  /\ hold[u].pc = "release" /\ u \in current
  /\ lease' = Deleted /\ current' = {}

(* The record is read or left alone by u. *)
Leaves(u) ==
  /\ UNCHANGED lease
  /\ \/ UNCHANGED current
     \/ hold[u].pc = "get" /\ current' = current \cup {u} /\ lease.there
     \/ hold[u].pc = "get" /\ current' = current \ {u}

UserMoves(u) == Acquire(u) \/ UserStep(u) \/ Release(u)

(* A step of a caller writes, deletes or leaves the object. *)
LEMMA Touches ==
  ASSUME NEW u \in Users, UserMoves(u)
  PROVE  Writes(u) \/ Deletes(u) \/ Leaves(u)
<1>1. CASE Acquire(u)
  BY <1>1 DEF Acquire, Leaves
<1>2. CASE GetLease(u)
  BY <1>2 DEF GetLease, Leaves
<1>3. CASE PutLease(u)
  BY <1>3 DEF PutLease, Leaves, Writes
<1>4. CASE ClaimFails(u)
  BY <1>4 DEF ClaimFails, Leaves, Writes
<1>5. CASE StartRenew(u)
  BY <1>5 DEF StartRenew, Leaves
<1>6. CASE Renew(u)
  BY <1>6 DEF Renew, Leaves, Writes
<1>7. CASE RenewFails(u)
  BY <1>7 DEF RenewFails, Leaves, Writes
<1>8. CASE DeleteLease(u)
  BY <1>8 DEF DeleteLease, Leaves, Deletes
<1>9. CASE DeleteFails(u)
  BY <1>9 DEF DeleteFails, Leaves, Deletes
<1>10. CASE Release(u)
  BY <1>10 DEF Release, Leaves, Writes
<1> QED BY <1>1, <1>2, <1>3, <1>4, <1>5, <1>6, <1>7, <1>8, <1>9, <1>10 DEF UserMoves, UserStep

(* What a step of a caller makes of its own call or holding, label by label. *)
Becomes(u, h) ==
  \/ h = Free
  \/ /\ hold[u].pc = "free"
     /\ h = [Free EXCEPT !.pc = "get", !.next = TTL, !.left = OpTimeout]
  \/ /\ hold[u].pc = "get" /\ ~Refused(u)
     /\ h = [hold[u] EXCEPT !.pc = "put", !.create = ~lease.there, !.left = OpTimeout]
     /\ UNCHANGED lease /\ (u \in current' <=> lease.there)
  \/ /\ hold[u].pc = "put" /\ ClaimApplies(u) /\ Store(u)
     /\ h = [Free EXCEPT !.pc = "held", !.rec = hold[u].next, !.exp = TTL, !.renewIn = Period]
  \/ /\ hold[u].pc = "held" /\ hold[u].renewIn = 0 /\ UNCHANGED lease
     /\ \E wait \in 1 .. Period :
          h = [hold[u] EXCEPT !.pc = "renew", !.next = TTL, !.left = OpTimeout, !.renewIn = wait]
  \/ /\ hold[u].pc = "renew" /\ u \in current /\ Store(u)
     /\ h = [hold[u] EXCEPT !.pc = "held", !.rec = hold[u].next, !.exp = hold[u].next,
                            !.next = 0, !.left = 0]
  \/ /\ hold[u].pc = "renew" /\ hold[u].exp > 0
     /\ UNCHANGED lease \/ (u \in current /\ StoreUnseen(u))
     /\ h = [hold[u] EXCEPT !.pc = "held", !.next = 0, !.left = 0]
  \/ hold[u].pc = "renew" /\ h = Lost(u)
  \/ /\ hold[u].pc \in {"held", "renew", "lost"}
     /\ h = [Free EXCEPT !.pc = "release", !.left = OpTimeout]

LEMMA BecomesOne ==
  ASSUME TypeOK, NEW u \in Users, UserMoves(u)
  PROVE  /\ \E h \in Holding : Becomes(u, h) /\ Set(u, h)
         /\ Fault \/ UNCHANGED faults
         /\ UNCHANGED crashed
<1> USE Instants
<1>0. hold[u] \in Holding /\ Free \in Holding
  BY FreeType DEF TypeOK
<1>1. CASE Acquire(u)
  <2> DEFINE h == [Free EXCEPT !.pc = "get", !.next = TTL, !.left = OpTimeout]
  <2>1. h \in Holding
    BY <1>0 DEF Holding
  <2> QED BY <1>1, <2>1 DEF Acquire, Becomes
<1>2. CASE GetLease(u)
  <2> DEFINE h == [hold[u] EXCEPT !.pc = "put", !.create = ~lease.there, !.left = OpTimeout]
  <2>1. h \in Holding
    BY <1>0 DEF Holding
  <2>2. CASE Refused(u)
    BY <1>0, <1>2, <2>2 DEF GetLease, Becomes
  <2>3. CASE ~Refused(u)
    <3>1. u \in current' <=> lease.there
      BY <1>2, <2>3 DEF GetLease
    <3> QED BY <1>2, <2>1, <2>3, <3>1 DEF GetLease, Becomes
  <2> QED BY <2>2, <2>3
<1>3. CASE PutLease(u)
  <2> DEFINE h == [Free EXCEPT !.pc = "held", !.rec = hold[u].next, !.exp = TTL,
                               !.renewIn = Period]
  <2>1. h \in Holding
    BY <1>0 DEF Holding
  <2> QED BY <1>0, <1>3, <2>1 DEF PutLease, Becomes
<1>4. CASE ClaimFails(u)
  BY <1>0, <1>4 DEF ClaimFails, Becomes
<1>5. CASE StartRenew(u)
  <2>1. PICK wait \in 1 .. Period :
          Set(u, [hold[u] EXCEPT !.pc = "renew", !.next = TTL, !.left = OpTimeout,
                                 !.renewIn = wait])
    BY <1>5 DEF StartRenew
  <2>2. [hold[u] EXCEPT !.pc = "renew", !.next = TTL, !.left = OpTimeout, !.renewIn = wait]
          \in Holding
    BY <1>0 DEF Holding
  <2> QED BY <1>5, <2>1, <2>2 DEF StartRenew, Becomes
<1>6. ASSUME NEW h \in {Lost(u), [hold[u] EXCEPT !.pc = "held", !.next = 0, !.left = 0],
                        [hold[u] EXCEPT !.pc = "held", !.rec = hold[u].next,
                                        !.exp = hold[u].next, !.next = 0, !.left = 0]}
      PROVE  h \in Holding
  BY <1>0 DEF Holding, Lost
<1>7. CASE Renew(u)
  BY <1>6, <1>7 DEF Renew, Becomes
<1>8. CASE RenewFails(u)
  <2>1. hold[u].exp \in Int
    BY <1>0 DEF Holding
  <2> QED BY <1>6, <1>8, <2>1 DEF RenewFails, Becomes
<1>9. CASE DeleteLease(u)
  BY <1>0, <1>9 DEF DeleteLease, Becomes
<1>10. CASE DeleteFails(u)
  BY <1>0, <1>10 DEF DeleteFails, Becomes
<1>11. CASE Release(u)
  <2> DEFINE h == [Free EXCEPT !.pc = "release", !.left = OpTimeout]
  <2>1. h \in Holding
    BY <1>0 DEF Holding
  <2> QED BY <1>11, <2>1 DEF Release, Becomes
<1> QED BY <1>1, <1>2, <1>3, <1>4, <1>5, <1>7, <1>8, <1>9, <1>10, <1>11 DEF UserMoves, UserStep

----------------------------------------------------------------------------
\* Type correctness.

(* What a write or a delete leaves is well formed, and so are the tags. *)
LEMMA ObjectType ==
  ASSUME TypeOK, NEW u \in Users, UserMoves(u)
  PROVE  lease' \in LeaseType /\ current' \subseteq Users
<1>1. lease \in LeaseType /\ current \subseteq Users
  BY DEF TypeOK, LeaseType
<1>2. CASE Writes(u)
  BY <1>1, <1>2, WriteType DEF Writes, Store, StoreUnseen
<1>3. CASE Deletes(u)
  BY <1>1, <1>3, WriteType DEF Deletes
<1>4. CASE Leaves(u)
  BY <1>1, <1>4 DEF Leaves
<1> QED BY <1>2, <1>3, <1>4, Touches

(* What Tick makes of one call or holding. *)
Aged(u) ==
  [hold[u] EXCEPT !.rec = IF Believes(u) THEN Down(hold[u].rec, -Overrun - 1) ELSE 0,
                  !.exp = Down(hold[u].exp, Past), !.next = Down(hold[u].next, Past),
                  !.left = Down(hold[u].left, 0), !.renewIn = Down(hold[u].renewIn, 0)]

LEMMA AgedType == ASSUME TypeOK, NEW u \in Users PROVE Aged(u) \in Holding
<1>1. hold[u] \in Holding
  BY DEF TypeOK
<1>0. /\ hold[u].rec \in (-Overrun - 1) .. TTL /\ hold[u].exp \in Past .. TTL
      /\ hold[u].next \in Past .. TTL /\ hold[u].left \in 0 .. OpTimeout
      /\ hold[u].renewIn \in 0 .. Period
  BY <1>1 DEF Holding
<1>2. /\ Down(hold[u].rec, -Overrun - 1) \in (-Overrun - 1) .. TTL
      /\ Down(hold[u].exp, Past) \in Past .. TTL
      /\ Down(hold[u].next, Past) \in Past .. TTL
  BY <1>0, Bounds DEF Down
<1>3. Down(hold[u].left, 0) \in 0 .. OpTimeout /\ Down(hold[u].renewIn, 0) \in 0 .. Period
  BY <1>0, Bounds DEF Down
<1> QED BY <1>1, <1>2, <1>3, Instants DEF Aged, Holding

LEMMA TypeInit == Init => TypeOK
<1> SUFFICES ASSUME Init PROVE TypeOK
  OBVIOUS
<1>1. lease \in LeaseType
  BY Instants, Bounds DEF Init, LeaseType
<1>2. hold \in [Users -> Holding]
  BY FreeType DEF Init
<1> QED BY <1>1, <1>2, Bounds DEF Init, TypeOK, LeaseType

(* The type invariant: every action keeps every variable in its type. *)
LEMMA TypeStep == TypeOK /\ [Next]_vars => TypeOK'
<1> SUFFICES ASSUME TypeOK, [Next]_vars PROVE TypeOK'
  OBVIOUS
<1>1. ASSUME NEW u \in Users, UserMoves(u) PROVE TypeOK'
  <2>1. lease' \in LeaseType /\ current' \subseteq Users
    BY <1>1, ObjectType
  <2>2. hold' \in [Users -> Holding]
    BY <1>1, BecomesOne, SetType
  <2>3. faults' \in 0 .. MaxFaults
    BY <1>1, BecomesOne, FaultType
  <2>4. crashed' \subseteq Replicas
    BY <1>1, BecomesOne DEF TypeOK
  <2> QED BY <2>1, <2>2, <2>3, <2>4 DEF TypeOK, LeaseType
<1>2. ASSUME NEW r \in Replicas, Crash(r) PROVE TypeOK'
  <2>1. hold' \in [Users -> Holding]
    BY <1>2, FreeType DEF Crash, TypeOK
  <2> QED BY <1>2, <2>1 DEF Crash, TypeOK
<1>3. CASE Tick
  <2>1. Down(lease.expires, Past) \in Past .. TTL
    BY Bounds, DownType DEF TypeOK
  <2>2. lease' \in LeaseType
    BY <1>3, <2>1 DEF Tick, TypeOK, LeaseType
  <2>3. hold' = [u \in Users |-> Aged(u)]
    BY <1>3 DEF Tick, Aged
  <2>4. hold' \in [Users -> Holding]
    BY <2>3, AgedType
  <2> QED BY <1>3, <2>2, <2>4 DEF Tick, TypeOK, LeaseType
<1>4. CASE UNCHANGED vars
  BY <1>4 DEF vars, TypeOK
<1> QED BY <1>1, <1>2, <1>3, <1>4 DEF Next, UserMoves

(* No behaviour leaves the types of TypeOK: in particular a holding's clocks  *)
(* stay within the bounds that make the state finite.                         *)
THEOREM TypeCorrect == Spec => []TypeOK
BY TypeInit, TypeStep, PTL DEF Spec

----------------------------------------------------------------------------
\* The invariant of the claims and the clocks.

(* Whoever knows the object's tag knows an object that is there; a caller  *)
(* that took the lease and still knows the tag is its holder.              *)
Tags ==
  \A u \in current :
    /\ lease.there
    /\ hold[u].pc \in {"held", "renew", "lost", "release"} => lease.holder = Host[u]

(* A claim that is still current is about a record that has expired, unless *)
(* it is its own process's.                                                 *)
ClaimSawLapse ==
  \A u \in current :
    hold[u].pc = "put" /\ lease.holder # Host[u] => lease.expires <= 0

(* A claim writes an expiry fixed at most two calls ago, a renewal one fixed *)
(* at most one call ago; a holder's own clock runs at most two calls ahead   *)
(* of its record; the next renewal comes, and ends, in time, and it writes a *)
(* later expiry.                                                             *)
Clocked(h) ==
  /\ h.pc \in {"get", "renew"} => h.next >= TTL - OpTimeout + h.left
  /\ h.pc = "put" => h.next >= TTL - 2 * OpTimeout + h.left
  /\ h.pc \in {"held", "renew"} /\ h.exp > 0 => h.rec >= h.exp - 2 * OpTimeout
  /\ h.pc = "held" => h.rec >= 1 - 2 * OpTimeout - Period + h.renewIn
  /\ h.pc = "renew" => /\ h.rec >= 1 - 3 * OpTimeout - Period + h.left
                       /\ h.next >= h.rec

Clocks == \A u \in Users : Clocked(hold[u])

(* What the only caller of a process counts on is stored. *)
StoredCovers ==
  \A u \in Users :
    Alone(u) /\ Believes(u) /\ hold[u].rec > 0 =>
      lease.there /\ lease.holder = Host[u] /\ lease.expires >= hold[u].rec

LeaseInv == TypeOK /\ Tags /\ ClaimSawLapse /\ Clocks /\ StoredCovers

(* The numbers of a holding. *)
LEMMA HoldingInts ==
  ASSUME NEW h \in Holding
  PROVE  /\ h.rec \in Int /\ h.exp \in Int /\ h.next \in Int
         /\ h.left \in Nat /\ h.left <= OpTimeout /\ h.renewIn \in Nat /\ h.renewIn <= Period
         /\ h.rec <= TTL /\ h.next <= TTL /\ h.next >= Past
BY Bounds DEF Holding

(* A step of a caller keeps its clocks in order. *)
LEMMA ClocksMove ==
  ASSUME TypeOK, Clocks, NEW u \in Users, NEW h \in Holding, Becomes(u, h)
  PROVE  Clocked(h)
<1> DEFINE g == hold[u]
<1>1. g \in Holding /\ Clocked(g)
  BY DEF TypeOK, Clocks
<1>2. /\ g.rec \in Int /\ g.exp \in Int /\ g.next \in Int
      /\ g.left \in Nat /\ g.left <= OpTimeout /\ g.renewIn \in Nat
      /\ g.rec <= TTL /\ g.next <= TTL
  BY <1>1, HoldingInts
<1> USE Bounds
<1>3. CASE h = Free
  BY <1>3 DEF Free, Clocked
<1>4. CASE h = [Free EXCEPT !.pc = "get", !.next = TTL, !.left = OpTimeout]
  BY <1>4 DEF Free, Clocked
<1>5. CASE /\ g.pc = "get"
           /\ h = [g EXCEPT !.pc = "put", !.create = ~lease.there, !.left = OpTimeout]
  BY <1>1, <1>2, <1>5 DEF Holding, Clocked
<1>6. CASE /\ g.pc = "put"
           /\ h = [Free EXCEPT !.pc = "held", !.rec = g.next, !.exp = TTL, !.renewIn = Period]
  BY <1>1, <1>2, <1>6 DEF Free, Clocked
<1>7. CASE /\ g.pc = "held" /\ g.renewIn = 0
           /\ \E wait \in 1 .. Period :
                h = [g EXCEPT !.pc = "renew", !.next = TTL, !.left = OpTimeout, !.renewIn = wait]
  BY <1>1, <1>2, <1>7 DEF Holding, Clocked
<1>8. CASE /\ g.pc = "renew"
           /\ h = [g EXCEPT !.pc = "held", !.rec = g.next, !.exp = g.next, !.next = 0, !.left = 0]
  <2>1. g.next >= 1 - 2 * OpTimeout - Period + g.renewIn
    BY <1>1, <1>2, <1>8, HoldingInts DEF Clocked
  <2> QED BY <1>1, <1>2, <1>8, <2>1 DEF Holding, Clocked
<1>9. CASE /\ g.pc = "renew" /\ g.exp > 0
           /\ h = [g EXCEPT !.pc = "held", !.next = 0, !.left = 0]
  <2>1. g.renewIn <= Period
    BY <1>1, HoldingInts
  <2> QED BY <1>1, <1>2, <1>9, <2>1 DEF Holding, Clocked
<1>10. CASE h = Lost(u)
  BY <1>1, <1>10 DEF Lost, Holding, Clocked
<1>11. CASE h = [Free EXCEPT !.pc = "release", !.left = OpTimeout]
  BY <1>11 DEF Free, Clocked
<1> QED BY <1>3, <1>4, <1>5, <1>6, <1>7, <1>8, <1>9, <1>10, <1>11 DEF Becomes

(* Time keeps the clocks in order while no call is past its deadline and no *)
(* renewal is overdue.                                                      *)
LEMMA ClocksTick ==
  ASSUME TypeOK, Clocks, NEW u \in Users,
         InFlight(u) => hold[u].left > 0,
         hold[u].pc = "held" => hold[u].renewIn > 0
  PROVE  Clocked(Aged(u))
<1> DEFINE g == hold[u]
           h == Aged(u)
<1>1. g \in Holding /\ Clocked(g)
  BY DEF TypeOK, Clocks
<1>2. /\ g.rec \in Int /\ g.exp \in Int /\ g.next \in Int
      /\ g.left \in Nat /\ g.left <= OpTimeout /\ g.renewIn \in Nat
      /\ g.rec >= -Overrun - 1 /\ g.next >= Past
  BY <1>1, Bounds DEF Holding
<1>3. /\ h.pc = g.pc
      /\ Believes(u) => h.rec = Down(g.rec, -Overrun - 1)
      /\ h.exp = Down(g.exp, Past) /\ h.next = Down(g.next, Past)
      /\ h.left = Down(g.left, 0) /\ h.renewIn = Down(g.renewIn, 0)
  BY <1>1 DEF Aged, Holding
<1>4. /\ Down(g.rec, -Overrun - 1) >= g.rec - 1 /\ Down(g.next, Past) >= g.next - 1
      /\ Down(g.exp, Past) > 0 => Down(g.exp, Past) = g.exp - 1
      /\ g.left > 0 => Down(g.left, 0) = g.left - 1
      /\ g.renewIn > 0 => Down(g.renewIn, 0) = g.renewIn - 1
      /\ g.next >= g.rec => Down(g.next, Past) >= Down(g.rec, -Overrun - 1)
      /\ Down(g.rec, -Overrun - 1) \in Int /\ Down(g.next, Past) \in Int
      /\ Down(g.exp, Past) \in Int /\ Down(g.left, 0) \in Nat /\ Down(g.renewIn, 0) \in Nat
  BY <1>2, Bounds DEF Down
<1>5. h.pc = "get" => h.next >= TTL - OpTimeout + h.left
  BY <1>1, <1>2, <1>3, <1>4, Bounds DEF Clocked, InFlight
<1>6. h.pc = "put" => h.next >= TTL - 2 * OpTimeout + h.left
  BY <1>1, <1>2, <1>3, <1>4, Bounds DEF Clocked, InFlight
<1>7. h.pc \in {"held", "renew"} /\ h.exp > 0 => h.rec >= h.exp - 2 * OpTimeout
  BY <1>1, <1>2, <1>3, <1>4, Bounds DEF Clocked, Believes
<1>8. h.pc = "held" => h.rec >= 1 - 2 * OpTimeout - Period + h.renewIn
  BY <1>1, <1>2, <1>3, <1>4, Bounds DEF Clocked, Believes
<1>9. h.pc = "renew" => /\ h.next >= TTL - OpTimeout + h.left
                        /\ h.rec >= 1 - 3 * OpTimeout - Period + h.left
                        /\ h.next >= h.rec
  BY <1>1, <1>2, <1>3, <1>4, Bounds DEF Clocked, Believes, InFlight
<1> QED BY <1>5, <1>6, <1>7, <1>8, <1>9 DEF Clocked

(* A caller comes to hold, or to release, from a holding or by its claim. *)
LEMMA HoldsFrom ==
  ASSUME TypeOK, NEW u \in Users, NEW h, Becomes(u, h),
         h.pc \in {"held", "renew", "lost", "release"}
  PROVE  hold[u].pc \in {"held", "renew", "lost"} \/ (hold[u].pc = "put" /\ Store(u))
<1>1. hold[u] \in Holding
  BY DEF TypeOK
<1>2. Free.pc = "free" /\ [Free EXCEPT !.pc = "get", !.next = TTL, !.left = OpTimeout].pc = "get"
  BY DEF Free
<1>3. h # [hold[u] EXCEPT !.pc = "put", !.create = ~lease.there, !.left = OpTimeout]
  BY <1>1 DEF Holding
<1> QED BY <1>2, <1>3 DEF Becomes

(* Tags after a step of a caller: a write leaves its writer's, a read adds *)
(* the reader, and only Store takes a caller to "held".                    *)
LEMMA TagsMove ==
  ASSUME LeaseInv, NEW u \in Users, UserMoves(u),
         NEW h, Becomes(u, h), hold'[u] = h, \A v \in Users : v # u => hold'[v] = hold[v]
  PROVE  Tags'
<1>0. TypeOK /\ Tags
  BY DEF LeaseInv
<1>1. CASE Writes(u)
  BY <1>1 DEF Writes, Store, StoreUnseen, Written, Tags
<1>2. CASE Deletes(u)
  BY <1>2 DEF Deletes, Tags
<1>3. CASE Leaves(u)
  <2> SUFFICES ASSUME NEW v \in current'
               PROVE  /\ lease.there
                      /\ hold'[v].pc \in {"held", "renew", "lost", "release"} =>
                           lease.holder = Host[v]
    BY <1>3 DEF Tags, Leaves
  <2>1. v \in Users /\ u \in Users
    BY <1>0, <1>3 DEF Leaves, TypeOK
  <2>2. v \in current \/ (v = u /\ hold[u].pc = "get" /\ lease.there)
    BY <1>3 DEF Leaves
  <2>3. CASE v # u
    BY <1>0, <2>1, <2>2, <2>3 DEF Tags
  <2>4. CASE v = u
    <3>1. lease.there
      BY <1>0, <2>2 DEF Tags
    <3>2. ASSUME hold'[v].pc \in {"held", "renew", "lost", "release"}
          PROVE  lease.holder = Host[v]
      <4>2. \/ hold[u].pc \in {"held", "renew", "lost"}
            \/ hold[u].pc = "put" /\ Store(u)
        BY <1>0, <2>4, <3>2, HoldsFrom
      <4>3. CASE hold[u].pc \in {"held", "renew", "lost"}
        BY <1>0, <2>2, <2>4, <4>3 DEF Tags
      <4>4. CASE hold[u].pc = "put" /\ Store(u)
        BY <1>3, <2>4, <4>4 DEF Store, Written, Leaves
      <4> QED BY <4>2, <4>3, <4>4
    <3> QED BY <3>1, <3>2
  <2> QED BY <2>3, <2>4
<1> QED BY <1>1, <1>2, <1>3, Touches

(* A caller comes to its Put from a read that did not refuse it. *)
LEMMA PutsFrom ==
  ASSUME TypeOK, NEW u \in Users, NEW h, Becomes(u, h), h.pc = "put"
  PROVE  hold[u].pc = "get" /\ ~Refused(u) /\ (u \in current' <=> lease.there)
<1>1. hold[u] \in Holding
  BY DEF TypeOK
<1>2. /\ Free.pc = "free"
      /\ [Free EXCEPT !.pc = "get", !.next = TTL, !.left = OpTimeout].pc = "get"
      /\ [Free EXCEPT !.pc = "release", !.left = OpTimeout].pc = "release"
      /\ \A g : [Free EXCEPT !.pc = "held", !.rec = g, !.exp = TTL, !.renewIn = Period].pc = "held"
  BY DEF Free
<1>3. /\ \A wait : [hold[u] EXCEPT !.pc = "renew", !.next = TTL, !.left = OpTimeout,
                                   !.renewIn = wait].pc = "renew"
      /\ [hold[u] EXCEPT !.pc = "held", !.rec = hold[u].next, !.exp = hold[u].next,
                         !.next = 0, !.left = 0].pc = "held"
      /\ [hold[u] EXCEPT !.pc = "held", !.next = 0, !.left = 0].pc = "held"
      /\ Lost(u).pc = "lost"
  BY <1>1 DEF Holding, Lost
<1> QED BY <1>2, <1>3 DEF Becomes

(* A claim that is current after a step of a caller found the record expired *)
(* when it read it, and nobody has written the object since.                 *)
LEMMA ClaimsMove ==
  ASSUME LeaseInv, NEW u \in Users, UserMoves(u),
         NEW h, Becomes(u, h), hold'[u] = h, \A v \in Users : v # u => hold'[v] = hold[v]
  PROVE  ClaimSawLapse'
<1>0. TypeOK /\ ClaimSawLapse
  BY DEF LeaseInv
<1>1. CASE Writes(u)
  BY <1>1 DEF Writes, Store, StoreUnseen, Written, ClaimSawLapse
<1>2. CASE Deletes(u)
  BY <1>2 DEF Deletes, ClaimSawLapse
<1>3. CASE Leaves(u)
  <2> SUFFICES ASSUME NEW v \in current', hold'[v].pc = "put", lease.holder # Host[v]
               PROVE  lease.expires <= 0
    BY <1>3 DEF ClaimSawLapse, Leaves
  <2>1. v \in Users /\ (v \in current \/ v = u)
    BY <1>0, <1>3 DEF Leaves, TypeOK
  <2>2. CASE v # u
    BY <1>0, <2>1, <2>2 DEF ClaimSawLapse
  <2>3. CASE v = u
    <3>1. lease.there /\ ~Refused(u)
      BY <1>0, <2>3, PutsFrom
    <3>2. ~(lease.expires + (OpTimeout - hold[u].left) > 0)
      BY <2>3, <3>1 DEF Refused, Unexpired
    <3>3. hold[u].left \in Nat /\ hold[u].left <= OpTimeout /\ lease.expires \in Int
      BY <1>0, HoldingInts, Bounds DEF TypeOK
    <3> QED BY <3>2, <3>3, Bounds
  <2> QED BY <2>2, <2>3
<1> QED BY <1>1, <1>2, <1>3, Touches

(* What a caller counts on after its own step: the expiry it just stored, or *)
(* the one it counted on before, which a renewal only moves on.              *)
LEMMA OwnCovered ==
  ASSUME LeaseInv, NEW u \in Users, NEW h \in Holding, Becomes(u, h),
         h.pc \in {"held", "renew"}, h.rec > 0, Alone(u)
  PROVE  lease'.there /\ lease'.holder = Host[u] /\ lease'.expires >= h.rec
<1> DEFINE g == hold[u]
<1>0. /\ g \in Holding /\ Clocked(g)
      /\ g.pc \in {"held", "renew"} /\ g.rec > 0
           => lease.there /\ lease.holder = Host[u] /\ lease.expires >= g.rec
  BY DEF LeaseInv, TypeOK, Clocks, StoredCovers, Believes
<1>1. g.rec \in Int /\ g.next \in Int /\ h.rec \in Int
  BY <1>0, HoldingInts
<1>2. /\ Free.pc = "free"
      /\ [Free EXCEPT !.pc = "get", !.next = TTL, !.left = OpTimeout].pc = "get"
      /\ [Free EXCEPT !.pc = "release", !.left = OpTimeout].pc = "release"
  BY DEF Free
<1>3. /\ [g EXCEPT !.pc = "put", !.create = ~lease.there, !.left = OpTimeout].pc = "put"
      /\ Lost(u).pc = "lost"
  BY <1>0 DEF Holding, Lost
<1>4. CASE g.pc \in {"put", "renew"} /\ Store(u) /\ h.rec = g.next
  BY <1>1, <1>4 DEF Store, Written
<1>5. CASE g.pc \in {"held", "renew"} /\ UNCHANGED lease /\ h.rec = g.rec
  BY <1>0, <1>1, <1>5
<1>6. CASE g.pc = "renew" /\ StoreUnseen(u) /\ h.rec = g.rec
  BY <1>0, <1>1, <1>6 DEF StoreUnseen, Written, Clocked
<1>7. [Free EXCEPT !.pc = "held", !.rec = g.next, !.exp = TTL, !.renewIn = Period].rec = g.next
  BY DEF Free
<1>8. /\ \A wait : [g EXCEPT !.pc = "renew", !.next = TTL, !.left = OpTimeout,
                             !.renewIn = wait].rec = g.rec
      /\ [g EXCEPT !.pc = "held", !.rec = g.next, !.exp = g.next, !.next = 0, !.left = 0].rec
           = g.next
      /\ [g EXCEPT !.pc = "held", !.next = 0, !.left = 0].rec = g.rec
  BY <1>0 DEF Holding
<1>9. CASE g.pc = "held" /\ UNCHANGED lease /\ \E wait \in 1 .. Period :
             h = [g EXCEPT !.pc = "renew", !.next = TTL, !.left = OpTimeout, !.renewIn = wait]
  BY <1>5, <1>8, <1>9
<1>10. CASE /\ g.pc = "renew"
            /\ UNCHANGED lease \/ StoreUnseen(u)
            /\ h = [g EXCEPT !.pc = "held", !.next = 0, !.left = 0]
  BY <1>5, <1>6, <1>8, <1>10
<1>11. CASE /\ g.pc = "put" /\ Store(u)
            /\ h = [Free EXCEPT !.pc = "held", !.rec = g.next, !.exp = TTL, !.renewIn = Period]
  BY <1>4, <1>7, <1>11
<1>12. CASE /\ g.pc = "renew" /\ Store(u)
            /\ h = [g EXCEPT !.pc = "held", !.rec = g.next, !.exp = g.next,
                             !.next = 0, !.left = 0]
  BY <1>4, <1>8, <1>12
<1> QED BY <1>2, <1>3, <1>9, <1>10, <1>11, <1>12 DEF Becomes

(* An unexpired record changes only by its own holder's process: another      *)
(* one's claim is refused or stale, and its tag is not the object's.          *)
LEMMA NotOthers ==
  ASSUME LeaseInv, NEW u \in Users, Writes(u) \/ Deletes(u),
         lease.there, lease.expires > 0
  PROVE  lease.holder = Host[u]
<1>1. /\ hold[u] \in Holding /\ lease.expires \in Int
      /\ u \in current /\ hold[u].pc = "put" /\ lease.holder # Host[u] => lease.expires <= 0
      /\ u \in current /\ hold[u].pc \in {"renew", "release"} => lease.holder = Host[u]
  BY Bounds DEF LeaseInv, TypeOK, Tags, ClaimSawLapse
<1>2. CASE Writes(u)
  BY <1>1, <1>2 DEF Writes, ClaimApplies
<1>3. CASE Deletes(u)
  BY <1>1, <1>3 DEF Deletes
<1> QED BY <1>2, <1>3

(* What the other callers count on survives a step of u. *)
LEMMA CoveredMove ==
  ASSUME LeaseInv, NEW u \in Users, UserMoves(u), NEW h \in Holding, Becomes(u, h),
         hold'[u] = h, \A v \in Users : v # u => hold'[v] = hold[v]
  PROVE  StoredCovers'
<1> SUFFICES ASSUME NEW v \in Users, Alone(v), hold'[v].pc \in {"held", "renew"},
                    hold'[v].rec > 0
             PROVE  lease'.there /\ lease'.holder = Host[v] /\ lease'.expires >= hold'[v].rec
  BY DEF StoredCovers, Alone, Believes
<1>1. CASE v = u
  BY <1>1, OwnCovered
<1>2. CASE v # u
  <2>1. hold'[v] = hold[v] /\ Host[u] # Host[v]
    BY <1>2 DEF Alone
  <2>2. lease.there /\ lease.holder = Host[v] /\ lease.expires >= hold[v].rec
    BY <2>1 DEF LeaseInv, StoredCovers, Believes
  <2>3. hold[v].rec \in Int /\ lease.expires \in Int
    <3>1. hold[v] \in Holding /\ lease.expires \in Int
      BY Bounds DEF LeaseInv, TypeOK
    <3> QED BY <3>1, HoldingInts
  <2>4. ~Writes(u) /\ ~Deletes(u)
    BY <2>1, <2>2, <2>3, NotOthers
  <2>5. UNCHANGED lease
    BY <2>4, Touches DEF Leaves
  <2> QED BY <2>1, <2>2, <2>5
<1> QED BY <1>1, <1>2

LEMMA LeaseInvInit == Init => LeaseInv
<1> SUFFICES ASSUME Init PROVE LeaseInv
  OBVIOUS
<1>1. \A u \in Users : hold[u] = Free
  BY DEF Init
<1>2. Tags /\ ClaimSawLapse
  BY DEF Init, Tags, ClaimSawLapse
<1>3. Clocks /\ StoredCovers
  BY <1>1 DEF Free, Clocks, Clocked, StoredCovers, Believes
<1> QED BY <1>2, <1>3, TypeInit DEF LeaseInv

LEMMA LeaseInvMove ==
  ASSUME LeaseInv, NEW u \in Users, UserMoves(u)
  PROVE  Tags' /\ ClaimSawLapse' /\ Clocks' /\ StoredCovers'
<1>0. TypeOK /\ Clocks
  BY DEF LeaseInv
<1>1. PICK h \in Holding : Becomes(u, h) /\ Set(u, h)
  BY <1>0, BecomesOne
<1>2. hold'[u] = h /\ \A v \in Users : v # u => hold'[v] = hold[v]
  BY <1>0, <1>1, SetAt
<1>3. Clocks'
  <2>1. Clocked(h)
    BY <1>0, <1>1, ClocksMove
  <2> QED BY <1>0, <1>2, <2>1 DEF Clocks, Clocked
<1> QED BY <1>1, <1>2, <1>3, TagsMove, ClaimsMove, CoveredMove

(* A process that dies takes its tags and holdings with it, and no others. *)
LEMMA LeaseInvCrash ==
  ASSUME LeaseInv, NEW r \in Replicas, Crash(r)
  PROVE  Tags' /\ ClaimSawLapse' /\ Clocks' /\ StoredCovers'
<1>1. lease' = lease /\ \A u \in current' : u \in current /\ u \in Users /\ Host[u] # r
  BY DEF Crash, LeaseInv, TypeOK
<1>3. [Free EXCEPT !.pc = "gone"].pc = "gone"
  BY DEF Free
<1>2. \A u \in Users : hold'[u] = hold[u] \/ (Host[u] = r /\ hold'[u].pc = "gone")
  BY <1>3 DEF Crash
<1>4. Tags'
  BY <1>1, <1>2 DEF LeaseInv, Tags
<1>5. ClaimSawLapse'
  BY <1>1, <1>2 DEF LeaseInv, ClaimSawLapse
<1>6. Clocks'
  BY <1>2, <1>3 DEF LeaseInv, Clocks, Clocked
<1>7. StoredCovers'
  BY <1>1, <1>2, <1>3 DEF LeaseInv, StoredCovers, Believes, Alone
<1> QED BY <1>4, <1>5, <1>6, <1>7

(* The record and what is counted on it age together. *)
LEMMA LeaseInvTick ==
  ASSUME LeaseInv, Tick
  PROVE  Tags' /\ ClaimSawLapse' /\ Clocks' /\ StoredCovers'
<1>1. /\ lease' = [lease EXCEPT !.expires = Down(lease.expires, Past)]
      /\ current' = current /\ current \subseteq Users
      /\ lease \in LeaseType /\ \A u \in Users : hold[u] \in Holding
  BY DEF Tick, LeaseInv, TypeOK, LeaseType
<1>2. /\ lease'.there = lease.there /\ lease'.holder = lease.holder
      /\ lease'.expires = Down(lease.expires, Past)
      /\ lease.expires \in Int /\ Past \in Int /\ Past <= 0
  BY <1>1, Bounds DEF LeaseType
<1>3. \A u \in Users : hold'[u] = Aged(u)
  BY DEF Tick, Aged
<1>4. \A u \in Users : hold'[u].pc = hold[u].pc
  BY <1>1, <1>3 DEF Aged, Holding
<1>5. Tags'
  BY <1>1, <1>2, <1>4 DEF LeaseInv, Tags
<1>6. ClaimSawLapse'
  BY <1>1, <1>2, <1>4 DEF LeaseInv, ClaimSawLapse, Down
<1>7. Clocks'
  <2> SUFFICES ASSUME NEW u \in Users PROVE Clocked(Aged(u))
    BY <1>3 DEF Clocks
  <2> QED BY ClocksTick DEF Tick, LeaseInv
<1>8. StoredCovers'
  <2> SUFFICES ASSUME NEW u \in Users, Alone(u), hold'[u].pc \in {"held", "renew"},
                      hold'[u].rec > 0
               PROVE  lease.there /\ lease.holder = Host[u] /\ lease'.expires >= hold'[u].rec
    BY <1>2 DEF StoredCovers, Believes, Alone
  <2>1. Believes(u) /\ hold[u] \in Holding
    BY <1>1, <1>4 DEF Believes
  <2>2. hold'[u].rec = Down(hold[u].rec, -Overrun - 1)
    BY <1>3, <2>1 DEF Aged, Holding
  <2>3. hold[u].rec \in Int /\ hold[u].rec >= -Overrun - 1 /\ -Overrun - 1 \in Int
    BY <2>1, Bounds DEF Holding
  <2>4. hold[u].rec > 0 /\ hold'[u].rec = hold[u].rec - 1
    BY <2>2, <2>3, Bounds DEF Down
  <2>5. lease.there /\ lease.holder = Host[u] /\ lease.expires >= hold[u].rec
    BY <2>1, <2>4 DEF LeaseInv, StoredCovers
  <2>6. lease'.expires >= hold'[u].rec
    BY <1>2, <2>3, <2>4, <2>5 DEF Down
  <2> QED BY <2>5, <2>6
<1> QED BY <1>5, <1>6, <1>7, <1>8

(* The claims, the tags and the clocks fit together in every state. *)
LEMMA LeaseInvStep == LeaseInv /\ [Next]_vars => LeaseInv'
<1> SUFFICES ASSUME LeaseInv, [Next]_vars PROVE LeaseInv'
  OBVIOUS
<1>1. TypeOK'
  BY TypeStep DEF LeaseInv
<1>2. Tags' /\ ClaimSawLapse' /\ Clocks' /\ StoredCovers'
  <2>1. ASSUME NEW u \in Users, UserMoves(u) PROVE Tags' /\ ClaimSawLapse' /\ Clocks' /\ StoredCovers'
    BY <2>1, LeaseInvMove
  <2>2. ASSUME NEW r \in Replicas, Crash(r) PROVE Tags' /\ ClaimSawLapse' /\ Clocks' /\ StoredCovers'
    BY <2>2, LeaseInvCrash
  <2>3. CASE Tick
    BY <2>3, LeaseInvTick
  <2>4. CASE UNCHANGED vars
    <3>1. /\ lease' = lease /\ current' = current /\ hold' = hold
      BY <2>4 DEF vars
    <3>2. Tags' /\ ClaimSawLapse'
      BY <3>1 DEF LeaseInv, Tags, ClaimSawLapse
    <3>3. Clocks' /\ StoredCovers'
      BY <3>1 DEF LeaseInv, Clocks, Clocked, StoredCovers, Believes, Alone
    <3> QED BY <3>2, <3>3
  <2> QED BY <2>1, <2>2, <2>3, <2>4 DEF Next, UserMoves
<1> QED BY <1>1, <1>2 DEF LeaseInv

LEMMA LeaseInvHolds == Spec => []LeaseInv
BY LeaseInvInit, LeaseInvStep, PTL DEF Spec

----------------------------------------------------------------------------
\* What the lease promises.

(* Two replicas with one caller each never both count on an unexpired record: *)
(* both would have to be the one holder the object names.                     *)
THEOREM Exclusive == Spec => []UnexpiredIsExclusive
<1>1. LeaseInv => UnexpiredIsExclusive
  BY DEF LeaseInv, StoredCovers, UnexpiredIsExclusive
<1> QED BY <1>1, LeaseInvHolds, PTL

(* However the renewals fail, a holder is never more than Overrun past the *)
(* expiry it wrote.                                                        *)
THEOREM Overlap == Spec => []OverlapBounded
<1>1. LeaseInv => OverlapBounded
  <2> SUFFICES ASSUME LeaseInv, NEW u \in Users, Believes(u)
               PROVE  hold[u].rec >= -Overrun
    BY DEF OverlapBounded
  <2>1. hold[u] \in Holding /\ Clocked(hold[u])
    BY DEF LeaseInv, TypeOK, Clocks
  <2>2. /\ hold[u].rec \in Int /\ hold[u].left \in Nat /\ hold[u].renewIn \in Nat
    BY <2>1, HoldingInts
  <2> QED BY <2>1, <2>2, Bounds DEF Clocked, Believes
<1> QED BY <1>1, LeaseInvHolds, PTL

(* An unexpired lease goes to another holder, or away, only by the release of *)
(* a caller of its own holder.                                                *)
THEOREM NeverStolen == Spec => UnexpiredNeverStolen
<1>1. LeaseInv /\ [Next]_vars =>
        [lease.there /\ lease.expires > 0 /\ (~lease'.there \/ lease'.holder # lease.holder)
           => \E u \in Users : Host[u] = lease.holder /\ hold[u].pc = "release"]_vars
  <2> SUFFICES ASSUME LeaseInv, Next, lease.there, lease.expires > 0,
                      ~lease'.there \/ lease'.holder # lease.holder
               PROVE  \E u \in Users : Host[u] = lease.holder /\ hold[u].pc = "release"
    OBVIOUS
  <2>1. ASSUME NEW u \in Users, UserMoves(u)
        PROVE  Host[u] = lease.holder /\ hold[u].pc = "release"
    <3>1. Writes(u) \/ Deletes(u)
      BY <2>1, Touches DEF Leaves
    <3>2. lease.holder = Host[u]
      BY <3>1, NotOthers
    <3>3. ~Writes(u)
      BY <3>2 DEF Writes, Store, StoreUnseen, Written
    <3> QED BY <3>1, <3>2, <3>3 DEF Deletes
  <2>2. ASSUME NEW r \in Replicas, Crash(r) PROVE FALSE
    BY <2>2 DEF Crash
  <2>3. CASE Tick
    BY <2>3 DEF Tick, LeaseInv, TypeOK
  <2> QED BY <2>1, <2>2, <2>3 DEF Next, UserMoves
<1> QED BY <1>1, LeaseInvHolds, PTL DEF Spec, UnexpiredNeverStolen
============================================================================
