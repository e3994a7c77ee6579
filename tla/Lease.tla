------------------------------- MODULE Lease -------------------------------
(***************************************************************************)
(* internal/store/lease.go: a time-bounded claim on one object, taken and  *)
(* renewed with conditional writes.  A user is one caller of Acquire; the  *)
(* holder it writes is the instance id of its process, Host[user], so two  *)
(* users of one process are the same holder.                               *)
(*                                                                         *)
(* Instants are ticks left until them and Tick takes one off each; the     *)
(* replicas share the clock.  An ETag is abstracted to the set of users    *)
(* whose tag is the object's: a write leaves only its writer in it.        *)
(***************************************************************************)
EXTENDS Integers, FiniteSets

CONSTANTS
  Users, Replicas,
  Host,       \* the process each user runs in
  TTL,        \* lifetime of the lease
  Period,     \* ttl/3: how often a holding is renewed
  OpTimeout,  \* ticks one store call may take
  MaxFaults,  \* bound: store calls that fail
  MaxCrashes  \* bound: processes that die

ASSUME LeaseAssumption ==
  /\ Host \in [Users -> Replicas]
  /\ {TTL, Period} \subseteq Nat \ {0} /\ OpTimeout \in Nat
  /\ MaxFaults \in Nat /\ MaxCrashes \in Nat

\* How long after the expiry it wrote a holder may go on: Acquire starts its
\* own clock up to two calls after the record's, the renewal that notices the
\* lapse starts up to a period after one that failed just before it, and is
\* one more call.
Overrun == 3 * OpTimeout + Period

\* Past instants are told apart down to the two calls of a claim.
Past == -(2 * OpTimeout)

VARIABLES
  lease,    \* the object: [there, holder, expires]; expires < 0: lapsed since
  current,  \* users whose tag is the object's ETag
  hold,     \* each user's call or holding
  crashed,  \* processes that died
  faults

vars == <<lease, current, hold, crashed, faults>>

\* rec: Expires of the record last written; exp: holding.expires; next: Expires
\* of the record being written; left: of the call in flight; renewIn: ticker.
Holding == [pc: {"free", "get", "put", "held", "renew", "lost", "release", "gone"},
            create: BOOLEAN, rec: (-Overrun - 1) .. TTL, exp: Past .. TTL, next: Past .. TTL,
            left: 0 .. OpTimeout, renewIn: 0 .. Period]

Free == [pc |-> "free", create |-> FALSE, rec |-> 0, exp |-> 0, next |-> 0,
         left |-> 0, renewIn |-> 0]

TypeOK ==
  /\ lease \in [there: BOOLEAN, holder: Replicas, expires: Past .. TTL]
  /\ current \subseteq Users
  /\ hold \in [Users -> Holding]
  /\ crashed \subseteq Replicas
  /\ faults \in 0 .. MaxFaults

Init ==
  /\ lease \in [there: {FALSE}, holder: Replicas, expires: {Past}]
  /\ lease.holder = CHOOSE r \in Replicas : TRUE
  /\ current = {}
  /\ hold = [u \in Users |-> Free]
  /\ crashed = {}
  /\ faults = 0

----------------------------------------------------------------------------
Fault == faults < MaxFaults /\ faults' = faults + 1

Set(u, h) == hold' = [hold EXCEPT ![u] = h]

\* What the bucket holds once a write of u under its condition is applied.
Written(u) == [there |-> TRUE, holder |-> Host[u], expires |-> hold[u].next]
Deleted == [lease EXCEPT !.there = FALSE, !.expires = Past]

\* A write whose caller learns the new tag, and one whose caller does not.
Store(u) == lease' = Written(u) /\ current' = {u}
StoreUnseen(u) == lease' = Written(u) /\ current' = {}

\* The condition of the claim's Put: IfNoneMatch, or IfMatch on the tag read.
\* Mutant: the claim's Put carries no condition.
ClaimAlwaysApplies(u) == TRUE
ClaimApplies(u) == IF hold[u].create THEN ~lease.there ELSE u \in current

\* cur.Expires.After(now), with the instant taken before the read.
Unexpired(u) == lease.expires + (OpTimeout - hold[u].left) > 0

\* Mutant: another holder's record blocks although it has expired.
RefusedForever(u) == lease.there /\ lease.holder # Host[u]
Refused(u) == lease.there /\ lease.holder # Host[u] /\ Unexpired(u)

Believes(u) == hold[u].pc \in {"held", "renew"}

(* Acquire calls claim, which fixes the expiry it will write before it reads. *)
Acquire(u) ==
  /\ hold[u].pc = "free"
  /\ Set(u, [Free EXCEPT !.pc = "get", !.next = TTL, !.left = OpTimeout])
  /\ UNCHANGED <<lease, current, crashed, faults>>

GetLease(u) ==
  /\ hold[u].pc = "get"
  /\ IF Refused(u)
     THEN Set(u, Free) /\ UNCHANGED current
     ELSE /\ Set(u, [hold[u] EXCEPT !.pc = "put", !.create = ~lease.there, !.left = OpTimeout])
          /\ current' = IF lease.there THEN current \cup {u} ELSE current \ {u}
  /\ UNCHANGED <<lease, crashed, faults>>

PutLease(u) ==
  /\ hold[u].pc = "put"
  /\ IF ClaimApplies(u)
     THEN /\ Store(u)
          /\ Set(u, [Free EXCEPT !.pc = "held", !.rec = hold[u].next, !.exp = TTL,
                                 !.renewIn = Period])
     ELSE Set(u, Free) /\ UNCHANGED <<lease, current>>
  /\ UNCHANGED <<crashed, faults>>

(* A read or a write of the claim fails; the write may have been applied. *)
ClaimFails(u) ==
  /\ hold[u].pc \in {"get", "put"} /\ Fault
  /\ Set(u, Free)
  /\ \/ UNCHANGED <<lease, current>>
     \/ hold[u].pc = "put" /\ ClaimApplies(u) /\ StoreUnseen(u)
  /\ UNCHANGED crashed

(* The background renewal: one conditional Put every Period, or sooner: the *)
(* ticker keeps a beat that comes while the Put before it is in flight.     *)
StartRenew(u) ==
  /\ hold[u].pc = "held" /\ hold[u].renewIn = 0
  /\ \E wait \in 1 .. Period :
       Set(u, [hold[u] EXCEPT !.pc = "renew", !.next = TTL, !.left = OpTimeout,
                              !.renewIn = wait])
  /\ UNCHANGED <<lease, current, crashed, faults>>

Lost(u) == [hold[u] EXCEPT !.pc = "lost", !.next = 0, !.left = 0, !.renewIn = 0]

Renew(u) ==
  /\ hold[u].pc = "renew"
  /\ IF u \in current
     THEN /\ Store(u)
          /\ Set(u, [hold[u] EXCEPT !.pc = "held", !.rec = hold[u].next, !.exp = hold[u].next,
                                    !.next = 0, !.left = 0])
     ELSE Set(u, Lost(u)) /\ UNCHANGED <<lease, current>>
  /\ UNCHANGED <<crashed, faults>>

\* Mutant: a renewal that keeps failing never gives the lease up.
RenewFailsForever(u) ==
  /\ hold[u].pc = "renew" /\ Fault
  /\ Set(u, [hold[u] EXCEPT !.pc = "held", !.next = 0, !.left = 0])
  /\ UNCHANGED <<lease, current, crashed>>

(* A failed renewal is tried again at the next tick until the expiry passed. *)
(* One that was applied and repeated by the S3 client meets its own write and *)
(* answers with a conflict: the holding is given up.                          *)
RenewFails(u) ==
  /\ hold[u].pc = "renew" /\ Fault
  /\ \/ /\ Set(u, IF hold[u].exp <= 0 THEN Lost(u)
                  ELSE [hold[u] EXCEPT !.pc = "held", !.next = 0, !.left = 0])
        /\ UNCHANGED <<lease, current>> \/ (u \in current /\ StoreUnseen(u))
     \/ Set(u, Lost(u)) /\ u \in current /\ StoreUnseen(u)
  /\ UNCHANGED crashed

(* release cancels the held context and deletes the object under the last tag *)
(* the holding knows; a renewal in flight may still be applied before that.   *)
Release(u) ==
  /\ hold[u].pc \in {"held", "renew", "lost"}
  /\ Set(u, [Free EXCEPT !.pc = "release", !.left = OpTimeout])
  /\ \/ UNCHANGED <<lease, current>>
     \/ hold[u].pc = "renew" /\ u \in current /\ StoreUnseen(u)
  /\ UNCHANGED <<crashed, faults>>

DeleteLease(u) ==
  /\ hold[u].pc = "release"
  /\ Set(u, Free)
  /\ IF u \in current THEN lease' = Deleted /\ current' = {}
                      ELSE UNCHANGED <<lease, current>>
  /\ UNCHANGED <<crashed, faults>>

DeleteFails(u) ==
  /\ hold[u].pc = "release" /\ Fault
  /\ Set(u, Free)
  /\ \/ UNCHANGED <<lease, current>>
     \/ u \in current /\ lease' = Deleted /\ current' = {}
  /\ UNCHANGED crashed

(* The process dies with everything it had in flight. *)
Crash(r) ==
  /\ r \notin crashed /\ Cardinality(crashed) < MaxCrashes
  /\ crashed' = crashed \cup {r}
  /\ hold' = [u \in Users |-> IF Host[u] = r THEN [Free EXCEPT !.pc = "gone"] ELSE hold[u]]
  /\ current' = {u \in current : Host[u] # r}
  /\ UNCHANGED <<lease, faults>>

(* Time passes unless a call is at its deadline or a renewal is due. *)
InFlight(u) == hold[u].pc \in {"get", "put", "renew", "release"}

\* Mutant: an instant goes on counting below its floor.
DownUnbounded(n, floor) == n - 1
Down(n, floor) == IF n = floor THEN n ELSE n - 1

Tick ==
  /\ \A u \in Users : InFlight(u) => hold[u].left > 0
  /\ \A u \in Users : hold[u].pc = "held" => hold[u].renewIn > 0
  /\ lease' = [lease EXCEPT !.expires = Down(lease.expires, Past)]
  /\ hold' = [u \in Users |->
       [hold[u] EXCEPT !.rec = IF Believes(u) THEN Down(hold[u].rec, -Overrun - 1) ELSE 0,
                       !.exp = Down(hold[u].exp, Past), !.next = Down(hold[u].next, Past),
                       !.left = Down(hold[u].left, 0), !.renewIn = Down(hold[u].renewIn, 0)]]
  /\ UNCHANGED <<current, crashed, faults>>

UserStep(u) ==
  \/ GetLease(u) \/ PutLease(u) \/ ClaimFails(u) \/ StartRenew(u) \/ Renew(u) \/ RenewFails(u)
  \/ DeleteLease(u) \/ DeleteFails(u)

Next ==
  \/ \E u \in Users : Acquire(u) \/ UserStep(u) \/ Release(u)
  \/ \E r \in Replicas : Crash(r)
  \/ Tick

Spec == Init /\ [][Next]_vars

(* RunElection competes again after every term and every refusal; lead returns *)
(* once its context is cancelled.  Leaving a live term is never promised.      *)
Fairness ==
  /\ \A u \in Users : WF_vars(Acquire(u)) /\ WF_vars(UserStep(u))
  /\ \A u \in Users : WF_vars(hold[u].pc = "lost" /\ Release(u))
  /\ WF_vars(Tick)

FairSpec == Spec /\ Fairness

----------------------------------------------------------------------------
\* The only caller of its process.
Alone(u) == \A v \in Users : Host[v] = Host[u] => v = u

(* Two replicas, each with one caller, never both hold the lease under       *)
(* records that have not expired, whatever is lost, delayed or applied       *)
(* without an answer: what is left of "at most one replica holds it" once    *)
(* the bucket is out of reach.  With two callers of one process it does not  *)
(* hold: the second takes the lease from the first and may release it while  *)
(* the first still counts on it.                                             *)
UnexpiredIsExclusive ==
  \A u, v \in Users :
    /\ Alone(u) /\ Believes(u) /\ hold[u].rec > 0
    /\ Alone(v) /\ Believes(v) /\ hold[v].rec > 0
    => Host[u] = Host[v]

(* A holder that lost the bucket goes on for at most Overrun ticks after the *)
(* expiry it wrote, so two replicas lead together for no longer than that.   *)
OverlapBounded == \A u \in Users : Believes(u) => hold[u].rec >= -Overrun

(* An unexpired lease passes on only through a write or a release of its own *)
(* holder: a late claim, renewal or release of another replica changes       *)
(* nothing.                                                                  *)
UnexpiredNeverStolen ==
  [][lease.there /\ lease.expires > 0 /\ (~lease'.there \/ lease'.holder # lease.holder)
       => \E u \in Users : Host[u] = lease.holder /\ hold[u].pc = "release"]_vars

(* While a process lives, the lease is held again after every loss, crash or *)
(* release: a dead holder, or a record nobody knows the tag of, blocks it    *)
(* only until it expires.                                                    *)
HeldAgain == []<>(\E u \in Users : Believes(u))
============================================================================
