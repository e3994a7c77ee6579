------------------------- MODULE RunRecoveryProofs -------------------------
(***************************************************************************)
(* Proofs about RunRecovery, for every set of replicas, slots and works,   *)
(* any placement of the slots, and any number of failed calls, crashes and *)
(* lost terms: type correctness, that runs which hold the run lease        *)
(* exclude each other while the bucket answers, that a run which made a    *)
(* change is never replayed, and that a run which completed is neither     *)
(* started again nor given up.                                             *)
(***************************************************************************)
EXTENDS RunRecovery, TLAPS

----------------------------------------------------------------------------
\* Types.

(* Only triggers that have happened are at work anywhere, an entry that is   *)
(* there counts its attempts from one, a run without a handle has no         *)
(* heartbeat, and one that has yet to claim the run lease has none.          *)
RunKnown(r, past) ==
  /\ r.pc # "idle" => r.work \in past
  /\ r.pc = "put" => r.attempt >= 1
  /\ r.handle = "none" => ~r.beatDue
  /\ r.pc \in {"idle", "acquire", "claim", "begin", "put", "release"} => r.handle = "none"
  /\ r.pc \in {"acquire", "claim"} => ~r.leased
  /\ r.pc = "record" /\ r.result = "interrupted" => r.handle = "none"

EntryKnown(e) == e.there => e.work \in used /\ e.attempt >= 1

RunsKnown == run \in [Slots -> Run] /\ \A s \in Slots : RunKnown(run[s], used)

EntriesKnown ==
  /\ entry \in Entry /\ sweep \in [pc: {"idle", "act", "resume", "report"}, entry: Entry]
  /\ EntryKnown(entry) /\ EntryKnown(sweep.entry)
  /\ sweep.pc # "idle" => sweep.entry.there

WorksKnown ==
  /\ \A t \in tasks : t.work \in used
  /\ \A w \in Works : changed[w] > 0 => w \in used
  /\ completed \subseteq used

TypeInv == TypeOK /\ RunsKnown /\ EntriesKnown /\ WorksKnown

(* The constants and what the records start from. *)
LEMMA Constants ==
  /\ Host \in [Slots -> Replicas]
  /\ MaxAttempts \in Nat /\ MaxAttempts >= 1 /\ MaxAttempts <= 2
  /\ MaxConsecutiveFailures \in Nat /\ MaxConsecutiveFailures > 0
  /\ MaxAge \in Nat /\ Sweep \in Nat /\ Election \in Nat /\ MaxFaults \in Nat
  /\ MaxCrashes \in Nat /\ MaxLost \in Nat /\ StartCap \in Nat
  /\ Stale \in Nat /\ Stale >= 2
  /\ TTL \in Nat /\ Period \in Nat /\ Period < TTL
BY RunRecoveryAssumption

LEMMA Ranges ==
  /\ Period \in 0 .. Period /\ 0 \in 0 .. Period /\ TTL \in 0 .. TTL /\ 0 \in 0 .. TTL
  /\ 0 \in 0 .. MaxAge + 1 /\ 0 \in Attempts /\ 1 \in Attempts /\ 0 \in 0 .. Stale
  /\ Stale \in 0 .. Stale /\ Sweep \in 0 .. Sweep /\ Election \in 0 .. Election
  /\ 0 \in 0 .. Sweep /\ 0 \in 0 .. Election
BY Constants DEF Attempts

(* Clocks that count down, and counters that saturate, keep to their range. *)
LEMMA UpDown ==
  ASSUME NEW top \in Nat, NEW n \in 0 .. top
  PROVE  Down(n) \in 0 .. top /\ Up(n, top) \in 0 .. top
BY DEF Up, Down

LeaseType == [holder: Replicas \cup {None}, by: Slots \cup {None}, left: 0 .. TTL,
              seen: SUBSET Slots]

LEMMA NoType ==
  /\ NoEntry \in Entry /\ IdleRun \in Run
  /\ NoLease \in LeaseType
  /\ NoSweep \in [pc: {"idle", "act", "resume", "report"}, entry: Entry]
BY Constants DEF NoEntry, IdleRun, NoLease, NoSweep, Entry, Run, Attempts, LeaseType

(* The fields of a run. *)
LEMMA RunFields ==
  ASSUME NEW r \in Run
  PROVE  /\ r.work \in Works \cup {None} /\ r.attempt \in 0 .. MaxAttempts + 1
         /\ r.age \in 0 .. MaxAge + 1 /\ r.renewIn \in 0 .. Period
         /\ r.cron \in BOOLEAN /\ r.leased \in BOOLEAN /\ r.live \in BOOLEAN
         /\ r.did \in BOOLEAN /\ r.beatDue \in BOOLEAN
         /\ r.handle \in {"none", "beating", "silent"}
         /\ r.result \in {"none", "ok", "failed", "interrupted"}
BY DEF Run, Attempts

(* A run that moves on to r, and the other runs. *)
LEMMA SetRun ==
  ASSUME run \in [Slots -> Run], NEW s \in Slots, NEW r, Set(s, r)
  PROVE  /\ run'[s] = r /\ \A t \in Slots : t # s => run'[t] = run[t]
         /\ r \in Run => run' \in [Slots -> Run]
BY DEF Set

(* A fault spent is counted. *)
LEMMA FaultType ==
  ASSUME TypeOK, Fault \/ UNCHANGED faults
  PROVE  faults' \in 0 .. MaxFaults /\ (faults' = 0 => faults = 0) /\ (Fault => faults' # 0)
BY Constants DEF TypeOK, Fault

(* Runs that stay, or become one that is known. *)
LEMMA SetKnown ==
  ASSUME RunsKnown, NEW s \in Slots, NEW r \in Run, Set(s, r), RunKnown(r, used'),
         used \subseteq used'
  PROVE  RunsKnown'
BY SetRun DEF RunsKnown, RunKnown

LEMMA RunsStay ==
  ASSUME RunsKnown, UNCHANGED run, used \subseteq used'
  PROVE  RunsKnown'
BY DEF RunsKnown, RunKnown

(* The variables a handler leaves alone. *)
LEMMA EntriesStay ==
  ASSUME EntriesKnown, UNCHANGED <<entry, sweep>>, used \subseteq used'
  PROVE  EntriesKnown'
BY DEF EntriesKnown, EntryKnown

LEMMA WorksStay ==
  ASSUME WorksKnown, UNCHANGED <<tasks, changed, completed>>, used \subseteq used'
  PROVE  WorksKnown'
BY DEF WorksKnown

(* A run that is admitted is known if its work is; one that is not, is skipped. *)
LEMMA AdmitType ==
  ASSUME TypeInv, NEW s \in Slots, NEW w \in Works, NEW cron \in BOOLEAN, Admit(s, w, cron),
         w \in used', used \subseteq used'
  PROVE  RunsKnown' /\ busy' \in Slots \cup {None} /\ killed' \subseteq Works
<1>1. [IdleRun EXCEPT !.pc = "acquire", !.work = w, !.cron = cron] \in Run
  BY NoType DEF Run
<1>2. RunKnown([IdleRun EXCEPT !.pc = "acquire", !.work = w, !.cron = cron], used')
  BY DEF RunKnown, IdleRun
<1>3. RunsKnown'
  BY <1>1, <1>2, SetKnown, RunsStay DEF Admit, TypeInv
<1> QED BY <1>3 DEF Admit, Skipped, TypeInv, TypeOK, LeaseType

(* A run that is scheduled goes to the queue, or to a slot of this replica. *)
LEMMA ScheduleType ==
  ASSUME TypeInv, NEW w \in Works, NEW a \in Attempts, Schedule(w, a),
         w \in used', used \subseteq used'
  PROVE  /\ RunsKnown' /\ busy' \in Slots \cup {None} /\ killed' \subseteq Works
         /\ tasks' \subseteq [work: Works, attempt: Attempts] /\ \A t \in tasks' : t.work \in used'
         /\ exposed' \subseteq Works /\ faults' \in 0 .. MaxFaults
<1>1. RunsKnown' /\ busy' \in Slots \cup {None} /\ killed' \subseteq Works
  <2>1. CASE UNCHANGED <<run, busy, killed>>
    BY <2>1, RunsStay DEF TypeInv, TypeOK, LeaseType
  <2>2. CASE \E s \in Slots : Admit(s, w, FALSE)
    BY <2>2, AdmitType
  <2> QED BY <2>1, <2>2 DEF Schedule
<1>2. Fault \/ UNCHANGED faults
  BY DEF Schedule
<1>3. faults' \in 0 .. MaxFaults
  BY <1>2, FaultType DEF TypeInv
<1>4. tasks' \subseteq tasks \cup {[work |-> w, attempt |-> a]} /\ exposed' \subseteq exposed \cup {w}
  BY DEF Schedule
<1>5. tasks' \subseteq [work: Works, attempt: Attempts] /\ \A t \in tasks' : t.work \in used'
  <2> SUFFICES ASSUME NEW t \in tasks'
               PROVE  t \in [work: Works, attempt: Attempts] /\ t.work \in used'
    OBVIOUS
  <2> QED BY <1>4 DEF TypeInv, TypeOK, LeaseType, WorksKnown
<1> QED BY <1>1, <1>3, <1>4, <1>5 DEF TypeInv, TypeOK, LeaseType

(* Each action of a run, by the run it leaves behind. *)
LEMMA TypeTrigger == ASSUME TypeInv, NEW w \in Works, Trigger(w) PROVE TypeInv'
<1>1. w \in used' /\ used \subseteq used' /\ used' \subseteq Works
  BY DEF Trigger, TypeInv, TypeOK, LeaseType
<1>2. 1 \in Attempts
  BY Constants DEF Attempts
<1>3. /\ RunsKnown' /\ busy' \in Slots \cup {None} /\ killed' \subseteq Works
      /\ tasks' \subseteq [work: Works, attempt: Attempts] /\ \A t \in tasks' : t.work \in used'
      /\ exposed' \subseteq Works /\ faults' \in 0 .. MaxFaults
  BY <1>1, <1>2, ScheduleType DEF Trigger
<1>4. EntriesKnown' /\ WorksKnown'
  BY <1>1, <1>3, EntriesStay DEF Trigger, TypeInv, WorksKnown, ends
<1> QED BY <1>1, <1>3, <1>4
        DEF Trigger, TypeInv, TypeOK, LeaseType, RunsKnown, EntriesKnown, ends

LEMMA TypeTake == ASSUME TypeInv, NEW s \in Slots, TakeTask(s) PROVE TypeInv'
<1>1. PICK t \in tasks : tasks' = tasks \ {t} /\ Admit(s, t.work, FALSE)
  BY DEF TakeTask
<1>2. t.work \in Works /\ t.work \in used' /\ used' = used
  BY DEF TakeTask, env, TypeInv, TypeOK, LeaseType, WorksKnown
<1>3. RunsKnown' /\ busy' \in Slots \cup {None} /\ killed' \subseteq Works
  BY <1>1, <1>2, AdmitType
<1>4. EntriesKnown' /\ WorksKnown'
  BY <1>1, <1>2, EntriesStay DEF TakeTask, TypeInv, WorksKnown, ends
<1> QED BY <1>1, <1>2, <1>3, <1>4
        DEF TakeTask, TypeInv, TypeOK, LeaseType, RunsKnown, EntriesKnown, env, ends

LEMMA TypeCron == ASSUME TypeInv, NEW s \in Slots, CronTick(s) PROVE TypeInv'
<1>1. PICK w \in Works \ used : used' = used \cup {w} /\ Admit(s, w, TRUE)
  BY DEF CronTick
<1>2. RunsKnown' /\ busy' \in Slots \cup {None} /\ killed' \subseteq Works
  BY <1>1, AdmitType
<1>3. used' \subseteq Works
  BY <1>1 DEF TypeInv, TypeOK, LeaseType
<1>4. EntriesKnown' /\ WorksKnown'
  BY <1>1, EntriesStay DEF CronTick, TypeInv, WorksKnown, ends
<1> QED BY <1>2, <1>3, <1>4
        DEF CronTick, TypeInv, TypeOK, LeaseType, RunsKnown, EntriesKnown, ends

(* A run that is skipped, and one that goes on past the lease. *)
LEMMA SkipType ==
  ASSUME TypeInv, NEW s \in Slots, Skip(s), used' = used
  PROVE  RunsKnown' /\ busy' \in Slots \cup {None} /\ killed' \subseteq Works
<1>1. RunKnown(IdleRun, used')
  BY DEF RunKnown, IdleRun
<1>2. RunsKnown'
  BY <1>1, NoType, SetKnown DEF Skip, TypeInv
<1> QED BY <1>2 DEF Skip, FreeBusy, Skipped, TypeInv, TypeOK

LEMMA UnleasedType ==
  ASSUME TypeInv, NEW s \in Slots, Set(s, Unleased(s)), run[s].pc \in {"acquire", "claim"},
         used' = used
  PROVE  RunsKnown'
<1>1. run[s] \in Run /\ RunKnown(run[s], used)
  BY DEF TypeInv, RunsKnown
<1> DEFINE r == [run[s] EXCEPT !.pc = "begin", !.found = FALSE]
<1>2. /\ r \in Run /\ r.pc = "begin" /\ r.work = run[s].work /\ r.handle = run[s].handle
      /\ r.beatDue = run[s].beatDue
  BY <1>1 DEF Run
<1>3. Set(s, r)
  BY DEF Unleased
<1> HIDE DEF r
<1>4. RunKnown(r, used')
  BY <1>1, <1>2 DEF RunKnown
<1> QED BY <1>2, <1>3, <1>4, SetKnown DEF TypeInv

LEMMA ClaimedType ==
  ASSUME NEW s \in Slots, NEW by \in Slots \cup {None}
  PROVE  Claimed(s, by) \in LeaseType
BY Constants, Ranges DEF Claimed, LeaseType

LEMMA TypeReadLease == ASSUME TypeInv, NEW s \in Slots, ReadLease(s) PROVE TypeInv'
<1>0. run[s] \in Run /\ RunKnown(run[s], used) /\ used' = used
  BY DEF ReadLease, env, TypeInv, RunsKnown
<1>1. RunsKnown' /\ lease' \in LeaseType /\ busy' \in Slots \cup {None} /\ killed' \subseteq Works
  <2>1. CASE LeaseFree(s)
    <3> DEFINE found == lease.holder # None
               r == [run[s] EXCEPT !.pc = "claim", !.found = found]
    <3>1. found \in BOOLEAN
      OBVIOUS
    <3>2. Set(s, r) /\ lease' = [lease EXCEPT !.seen = IF found THEN @ \cup {s} ELSE @]
          /\ UNCHANGED <<busy, killed>>
      BY <2>1 DEF ReadLease
    <3>3. lease' \in LeaseType
      BY <3>2 DEF TypeInv, TypeOK, LeaseType
    <3> HIDE DEF found
    <3>4. /\ r \in Run /\ r.pc = "claim" /\ r.work = run[s].work /\ r.handle = run[s].handle
          /\ r.beatDue = run[s].beatDue /\ r.leased = run[s].leased
      BY <1>0, <3>1 DEF Run
    <3> HIDE DEF r
    <3>5. RunKnown(r, used')
      BY <1>0, <3>4 DEF RunKnown, ReadLease, At
    <3>6. RunsKnown'
      BY <1>0, <3>2, <3>4, <3>5, SetKnown DEF TypeInv
    <3> QED BY <3>2, <3>3, <3>6 DEF TypeInv, TypeOK
  <2>2. CASE ~LeaseFree(s)
    <3>1. Skip(s) /\ UNCHANGED lease
      BY <2>2 DEF ReadLease
    <3> QED BY <1>0, <3>1, SkipType DEF TypeInv, TypeOK, LeaseType
  <2> QED BY <2>1, <2>2
<1>2. EntriesKnown' /\ WorksKnown'
  BY <1>0, EntriesStay, WorksStay DEF ReadLease, TypeInv, ends
<1> QED BY <1>0, <1>1, <1>2
        DEF ReadLease, TypeInv, TypeOK, LeaseType, RunsKnown, EntriesKnown, env, ends

LEMMA TypeClaimLease == ASSUME TypeInv, NEW s \in Slots, ClaimLease(s) PROVE TypeInv'
<1>0. run[s] \in Run /\ RunKnown(run[s], used) /\ used' = used
  BY DEF ClaimLease, env, TypeInv, RunsKnown
<1>1. RunsKnown'
  <2> DEFINE r == [run[s] EXCEPT !.pc = "begin", !.found = FALSE, !.leased = TRUE,
                                 !.renewIn = Period]
  <2>1. /\ r \in Run /\ r.pc = "begin" /\ r.work = run[s].work /\ r.handle = run[s].handle
        /\ r.beatDue = run[s].beatDue
    BY <1>0, Ranges DEF Run
  <2>2. Set(s, r)
    BY DEF ClaimLease
  <2> HIDE DEF r
  <2>3. RunKnown(r, used')
    BY <1>0, <2>1 DEF RunKnown, ClaimLease, At
  <2> QED BY <1>0, <2>1, <2>2, <2>3, SetKnown DEF TypeInv
<1>2. lease' \in LeaseType
  BY ClaimedType DEF ClaimLease
<1>3. displaced' \subseteq Slots
  BY DEF ClaimLease, TakenOver, TypeInv, TypeOK
<1>4. EntriesKnown' /\ WorksKnown'
  BY <1>0, EntriesStay, WorksStay DEF ClaimLease, TypeInv
<1> QED BY <1>0, <1>1, <1>2, <1>3, <1>4
        DEF ClaimLease, TypeInv, TypeOK, LeaseType, RunsKnown, EntriesKnown, env

LEMMA TypeClaimConflict == ASSUME TypeInv, NEW s \in Slots, ClaimConflict(s) PROVE TypeInv'
<1>0. used' = used
  BY DEF ClaimConflict, env
<1>1. RunsKnown' /\ busy' \in Slots \cup {None} /\ killed' \subseteq Works
  BY <1>0, SkipType DEF ClaimConflict
<1>2. EntriesKnown' /\ WorksKnown'
  BY <1>0, EntriesStay, WorksStay DEF ClaimConflict, TypeInv, ends
<1> QED BY <1>0, <1>1, <1>2
        DEF ClaimConflict, TypeInv, TypeOK, RunsKnown, EntriesKnown, env, ends

LEMMA TypeClaimMissing == ASSUME TypeInv, NEW s \in Slots, ClaimMissing(s) PROVE TypeInv'
<1>0. used' = used
  BY DEF ClaimMissing, env
<1>1. RunsKnown'
  BY <1>0, UnleasedType DEF ClaimMissing, At
<1>2. EntriesKnown' /\ WorksKnown'
  BY <1>0, EntriesStay, WorksStay DEF ClaimMissing, TypeInv, histories, ends
<1> QED BY <1>0, <1>1, <1>2
        DEF ClaimMissing, TypeInv, TypeOK, RunsKnown, EntriesKnown, env, histories, ends

LEMMA TypeClaimUnanswered == ASSUME TypeInv, NEW s \in Slots, ClaimUnanswered(s) PROVE TypeInv'
<1>0. used' = used
  BY DEF ClaimUnanswered, env
<1>1. RunsKnown' /\ busy' \in Slots \cup {None} /\ killed' \subseteq Works
  <2>1. CASE Skip(s)
    BY <1>0, <2>1, SkipType
  <2>2. CASE Set(s, Unleased(s)) /\ UNCHANGED <<busy, killed>>
    BY <1>0, <2>2, UnleasedType DEF ClaimUnanswered, At, TypeInv, TypeOK
  <2> QED BY <2>1, <2>2 DEF ClaimUnanswered
<1>2. lease' \in LeaseType /\ displaced' \subseteq Slots
  BY ClaimedType DEF ClaimUnanswered, TakenOver, TypeInv, TypeOK, LeaseType
<1>3. EntriesKnown' /\ WorksKnown'
  BY <1>0, EntriesStay, WorksStay DEF ClaimUnanswered, TypeInv
<1>4. faults' \in 0 .. MaxFaults
  BY FaultType DEF ClaimUnanswered, TypeInv
<1> QED BY <1>0, <1>1, <1>2, <1>3, <1>4
        DEF ClaimUnanswered, TypeInv, TypeOK, LeaseType, RunsKnown, EntriesKnown, env

LEMMA TypeUnavailable == ASSUME TypeInv, NEW s \in Slots, LeaseUnavailable(s) PROVE TypeInv'
<1>0. used' = used
  BY DEF LeaseUnavailable, env
<1>1. RunsKnown'
  BY <1>0, UnleasedType DEF LeaseUnavailable, At
<1>2. EntriesKnown' /\ WorksKnown'
  BY <1>0, EntriesStay, WorksStay DEF LeaseUnavailable, TypeInv, histories, ends
<1>3. faults' \in 0 .. MaxFaults
  BY FaultType DEF LeaseUnavailable, TypeInv
<1> QED BY <1>0, <1>1, <1>2, <1>3
        DEF LeaseUnavailable, TypeInv, TypeOK, RunsKnown, EntriesKnown, env, histories, ends

LEMMA TypeBeginRead == ASSUME TypeInv, NEW s \in Slots, BeginRead(s) PROVE TypeInv'
<1>0. /\ run[s] \in Run /\ RunKnown(run[s], used) /\ used' = used
      /\ run[s].pc # "idle" => Work(s) \in Works
  BY DEF BeginRead, env, TypeInv, TypeOK, LeaseType, RunsKnown, RunKnown, At, Work
<1>4. entry.there => entry.attempt >= 1 /\ entry.attempt \in Attempts /\ entry.age \in 0 .. MaxAge + 1
  BY DEF TypeInv, EntriesKnown, EntryKnown, Entry
<1>1. RunsKnown'
  <2>1. CASE entry.there /\ Set(s, [run[s] EXCEPT !.pc = "put", !.attempt = entry.attempt, !.age = entry.age])
    <3> DEFINE r == [run[s] EXCEPT !.pc = "put", !.attempt = entry.attempt, !.age = entry.age]
    <3>1. r \in Run /\ RunKnown(r, used)
      BY <1>0, <1>4, <2>1 DEF Run, RunKnown, BeginRead, At
    <3> QED BY <1>0, <2>1, <3>1, SetKnown DEF TypeInv
  <2>2. CASE Set(s, [run[s] EXCEPT !.pc = "put", !.attempt = 1])
    <3> DEFINE r == [run[s] EXCEPT !.pc = "put", !.attempt = 1]
    <3>1. r \in Run
      BY <1>0, Ranges DEF Run
    <3>2. r.pc = "put" /\ r.attempt = 1 /\ r.work = Work(s) /\ r.handle = run[s].handle
          /\ r.beatDue = run[s].beatDue
      BY <1>0 DEF Run, Work
    <3>3. RunKnown(r, used)
      BY <1>0, <3>2 DEF RunKnown, BeginRead, At, Work
    <3> QED BY <1>0, <2>2, <3>1, <3>3, SetKnown DEF TypeInv
  <2> QED BY <2>1, <2>2 DEF BeginRead
<1>2. EntriesKnown' /\ WorksKnown'
  BY <1>0, EntriesStay, WorksStay DEF BeginRead, TypeInv, histories, ends
<1>3. faults' \in 0 .. MaxFaults
  BY FaultType DEF BeginRead, TypeInv
<1> QED BY <1>0, <1>1, <1>2, <1>3
        DEF BeginRead, TypeInv, TypeOK, LeaseType, RunsKnown, EntriesKnown, env, histories, ends

LEMMA TypeBeginPut == ASSUME TypeInv, NEW s \in Slots, BeginPut(s) PROVE TypeInv'
<1>0. /\ run[s] \in Run /\ RunKnown(run[s], used) /\ used' = used
      /\ run[s].pc # "idle" => Work(s) \in Works
  BY DEF BeginPut, env, TypeInv, TypeOK, LeaseType, RunsKnown, RunKnown, At, Work
<1>1. RunsKnown' /\ starts' \in [Works -> 0 .. StartCap] /\ killed' \subseteq Works
  <2>1. PICK handle \in {"beating", "none"} : Executing(s, handle)
    BY DEF BeginPut
  <2> DEFINE r == [run[s] EXCEPT !.pc = "work", !.age = 0, !.attempt = 0, !.handle = handle]
  <2>2. r \in Run /\ RunKnown(r, used)
    BY <1>0, Ranges DEF Run, RunKnown, BeginPut, At
  <2>3. RunsKnown'
    BY <1>0, <2>1, <2>2, SetKnown DEF Executing, TypeInv
  <2>4. starts' \in [Works -> 0 .. StartCap]
    BY <2>1, UpDown, Constants DEF Executing, TypeInv, TypeOK, LeaseType
  <2> QED BY <2>1, <2>3, <2>4 DEF Executing, TypeInv, TypeOK, LeaseType
<1>2. EntriesKnown' /\ WorksKnown'
  <2>1. \A by \in Slots \cup {None} : Begun(s, by) \in Entry
    BY <1>0, Ranges, RunFields DEF Begun, Entry, BeginPut, At, Attempts
  <2>2. \A by \in Slots \cup {None} : Begun(s, by).work \in used /\ Begun(s, by).attempt >= 1
    BY <1>0 DEF Begun, RunKnown, BeginPut, At, Work
  <2>3. entry' = entry \/ \E by \in Slots \cup {None} : entry' = Begun(s, by)
    BY DEF BeginPut
  <2>4. EntriesKnown'
    BY <1>0, <2>1, <2>2, <2>3 DEF BeginPut, TypeInv, EntriesKnown, EntryKnown
  <2>5. WorksKnown'
    BY <1>0, WorksStay DEF BeginPut, Executing, TypeInv, ends
  <2> QED BY <2>4, <2>5
<1>3. faults' \in 0 .. MaxFaults
  BY FaultType DEF BeginPut, TypeInv
<1> QED BY <1>0, <1>1, <1>2, <1>3
        DEF BeginPut, Executing, TypeInv, TypeOK, LeaseType, RunsKnown, EntriesKnown, env, ends

(* What a write under the handle's tag leaves in the journal. *)
LEMMA WriteType ==
  ASSUME TypeInv, NEW s \in Slots, NEW conflict, Write(s, conflict) \/ UNCHANGED <<entry, faults>>,
         run'[s].did \in BOOLEAN, UNCHANGED sweep, used' = used
  PROVE  EntriesKnown' /\ faults' \in 0 .. MaxFaults
<1>1. entry \in Entry /\ EntryKnown(entry)
  BY DEF TypeInv, EntriesKnown
<1>2. ASSUME NEW by \in Slots \cup {None}, Owns(s)
      PROVE  Beaten(s, by) \in Entry /\ Beaten(s, by).work \in used /\ Beaten(s, by).attempt >= 1
  BY <1>1, <1>2, Ranges DEF Beaten, Entry, EntryKnown, Owns
<1>3. entry' \in Entry /\ (entry'.there => entry'.work \in used /\ entry'.attempt >= 1)
  BY <1>1, <1>2 DEF Write, EntryKnown
<1>4. EntriesKnown'
  BY <1>3 DEF TypeInv, EntriesKnown, EntryKnown
<1>5. Fault \/ UNCHANGED faults
  BY DEF Write
<1> QED BY <1>4, <1>5, FaultType DEF TypeInv

LEMMA TypeBeat == ASSUME TypeInv, NEW s \in Slots, Beat(s) PROVE TypeInv'
<1>0. /\ run[s] \in Run /\ RunKnown(run[s], used) /\ used' = used
      /\ run[s].pc # "idle" => Work(s) \in Works
  BY DEF Beat, env, TypeInv, TypeOK, LeaseType, RunsKnown, RunKnown, At, Work
<1>1. PICK conflict \in BOOLEAN :
        /\ Set(s, [run[s] EXCEPT !.beatDue = FALSE, !.handle = IF conflict THEN "silent" ELSE @])
        /\ Write(s, conflict)
  BY DEF Beat
<1> DEFINE r == [run[s] EXCEPT !.beatDue = FALSE, !.handle = IF conflict THEN "silent" ELSE @]
<1>2. r \in Run /\ RunKnown(r, used)
  BY <1>0 DEF Run, RunKnown, Beat
<1>3. RunsKnown' /\ run'[s] = r
  BY <1>0, <1>1, <1>2, SetKnown, SetRun DEF TypeInv, RunsKnown
<1>4. r.did \in BOOLEAN
  BY <1>2, RunFields
<1>5. EntriesKnown' /\ faults' \in 0 .. MaxFaults
  <2> HIDE DEF r
  <2> QED BY <1>0, <1>1, <1>3, <1>4, WriteType DEF Beat
<1>6. WorksKnown'
  BY <1>0, WorksStay DEF Beat, TypeInv, histories, ends
<1> QED BY <1>0, <1>3, <1>5, <1>6
        DEF Beat, TypeInv, TypeOK, LeaseType, RunsKnown, EntriesKnown, env, histories, ends

LEMMA TypeChange == ASSUME TypeInv, NEW s \in Slots, Change(s) PROVE TypeInv'
<1>0. /\ run[s] \in Run /\ RunKnown(run[s], used) /\ used' = used
      /\ run[s].pc # "idle" => Work(s) \in Works
  BY DEF Change, env, TypeInv, TypeOK, LeaseType, RunsKnown, RunKnown, At, Work
<1> DEFINE r == [run[s] EXCEPT !.did = TRUE]
<1>2. r \in Run /\ RunKnown(r, used) /\ r.did = TRUE
  BY <1>0 DEF Run, RunKnown, Change
<1>3. RunsKnown' /\ run'[s] = r
  BY <1>0, <1>2, SetKnown, SetRun DEF Change, TypeInv, RunsKnown
<1>5. EntriesKnown' /\ faults' \in 0 .. MaxFaults
  <2>1. \E conflict : Write(s, conflict) \/ UNCHANGED <<entry, faults>>
    BY DEF Change
  <2>2. run'[s].did \in BOOLEAN
    BY <1>2, <1>3
  <2> QED BY <1>0, <2>1, <2>2, WriteType DEF Change
<1>6. changed' \in [Works -> 0 .. 2] /\ exposed' \subseteq Works
      /\ \A w \in Works : changed'[w] > 0 => w \in used
  <2>1. Work(s) \in Works /\ Work(s) \in used /\ changed \in [Works -> 0 .. 2]
    BY <1>0 DEF Change, At, RunKnown, Work, TypeInv, TypeOK, LeaseType
  <2>2. changed' = [changed EXCEPT ![Work(s)] = Up(@, 2)] /\ Up(changed[Work(s)], 2) \in 0 .. 2
    BY <2>1, UpDown DEF Change
  <2>3. \A w \in Works : w # Work(s) => changed'[w] = changed[w]
    BY <2>1, <2>2
  <2> QED BY <2>1, <2>2, <2>3 DEF Change, TypeInv, TypeOK, LeaseType, WorksKnown
<1>7. WorksKnown'
  BY <1>0, <1>6 DEF Change, TypeInv, WorksKnown, ends
<1> QED BY <1>0, <1>3, <1>5, <1>6, <1>7
        DEF Change, TypeInv, TypeOK, LeaseType, RunsKnown, EntriesKnown, env, ends

LEMMA TypeRenew == ASSUME TypeInv, NEW s \in Slots, RenewLease(s) PROVE TypeInv'
<1>0. /\ run[s] \in Run /\ RunKnown(run[s], used) /\ used' = used
      /\ run[s].pc # "idle" => Work(s) \in Works
  BY DEF RenewLease, env, TypeInv, TypeOK, LeaseType, RunsKnown, RunKnown, At, Work
<1>1. RunsKnown'
  <2>1. ASSUME NEW live \in BOOLEAN
        PROVE  /\ [run[s] EXCEPT !.renewIn = Period, !.live = live] \in Run
               /\ RunKnown([run[s] EXCEPT !.renewIn = Period, !.live = live], used)
    BY <1>0, Ranges DEF Run, RunKnown, RenewLease, At
  <2>2. \E live \in BOOLEAN : Set(s, [run[s] EXCEPT !.renewIn = Period, !.live = live])
    BY DEF RenewLease, Holds
  <2> QED BY <1>0, <2>1, <2>2, SetKnown DEF TypeInv
<1>2. lease' \in LeaseType
  <2>1. \A by \in Slots \cup {None} : [lease EXCEPT !.by = by, !.left = TTL, !.seen = {}] \in LeaseType
    BY Ranges DEF TypeInv, TypeOK, LeaseType
  <2>2. lease \in LeaseType
    BY DEF TypeInv, TypeOK, LeaseType
  <2> QED BY <2>1, <2>2 DEF RenewLease
<1>3. EntriesKnown' /\ WorksKnown'
  BY <1>0, EntriesStay, WorksStay DEF RenewLease, TypeInv, histories, ends
<1>4. faults' \in 0 .. MaxFaults
  BY FaultType DEF RenewLease, TypeInv
<1> QED BY <1>0, <1>1, <1>2, <1>3, <1>4
        DEF RenewLease, TypeInv, TypeOK, LeaseType, RunsKnown, EntriesKnown, env, histories, ends

LEMMA TypeCancel == ASSUME TypeInv, NEW s \in Slots, Cancel(s) PROVE TypeInv'
<1>0. /\ run[s] \in Run /\ RunKnown(run[s], used) /\ used' = used
      /\ run[s].pc # "idle" => Work(s) \in Works
  BY DEF Cancel, env, TypeInv, TypeOK, LeaseType, RunsKnown, RunKnown, At, Work
<1>1. RunsKnown'
  <2>1. /\ [run[s] EXCEPT !.live = FALSE] \in Run
        /\ RunKnown([run[s] EXCEPT !.live = FALSE], used)
    BY <1>0 DEF Run, RunKnown, Cancel, At
  <2> QED BY <1>0, <2>1, SetKnown DEF Cancel, TypeInv
<1>2. EntriesKnown' /\ WorksKnown'
  BY <1>0, EntriesStay, WorksStay DEF Cancel, TypeInv, histories, ends
<1> QED BY <1>0, <1>1, <1>2
        DEF Cancel, TypeInv, TypeOK, LeaseType, RunsKnown, EntriesKnown, env, histories, ends

LEMMA TypeFinish == ASSUME TypeInv, NEW s \in Slots, Finish(s) PROVE TypeInv'
<1>0. /\ run[s] \in Run /\ RunKnown(run[s], used) /\ used' = used
      /\ run[s].pc # "idle" => Work(s) \in Works
  BY DEF Finish, env, TypeInv, TypeOK, LeaseType, RunsKnown, RunKnown, At, Work
<1>1. RunsKnown'
  <2> DEFINE cut == [run[s] EXCEPT !.pc = "record", !.result = "interrupted", !.handle = "none",
                                   !.beatDue = FALSE]
             ended(result) == [run[s] EXCEPT !.pc = "record", !.result = result]
  <2>1. cut \in Run /\ RunKnown(cut, used)
    BY <1>0 DEF Run, RunKnown, Finish, At
  <2>2. \A result \in {"failed", "ok"} : ended(result) \in Run /\ RunKnown(ended(result), used)
    BY <1>0 DEF Run, RunKnown, Finish, At
  <2>3. Set(s, cut) \/ \E result \in {"failed", "ok"} : Set(s, ended(result))
    BY DEF Finish
  <2> QED BY <1>0, <2>1, <2>2, <2>3, SetKnown DEF TypeInv
<1>2. EntriesKnown'
  BY <1>0, EntriesStay DEF Finish, TypeInv
<1>3. completed' \subseteq completed \cup {Work(s)} /\ Work(s) \in Works /\ Work(s) \in used
  BY <1>0 DEF Finish, At, RunKnown, Work
<1>4. WorksKnown'
  BY <1>0, <1>3 DEF Finish, TypeInv, WorksKnown
<1> QED BY <1>0, <1>1, <1>2, <1>3, <1>4
        DEF Finish, TypeInv, TypeOK, LeaseType, RunsKnown, EntriesKnown, env

LEMMA TypeRecord == ASSUME TypeInv, NEW s \in Slots, Record(s) PROVE TypeInv'
<1>0. /\ run[s] \in Run /\ RunKnown(run[s], used) /\ used' = used
      /\ run[s].pc # "idle" => Work(s) \in Works
  BY DEF Record, env, TypeInv, TypeOK, LeaseType, RunsKnown, RunKnown, At, Work
<1>1. RunsKnown'
  <2> DEFINE pc == IF run[s].result = "interrupted" THEN "release" ELSE "done"
             r == [run[s] EXCEPT !.pc = pc]
  <2>1. r \in Run /\ RunKnown(r, used)
    BY <1>0 DEF Run, RunKnown, Record, At
  <2> QED BY <1>0, <2>1, SetKnown DEF Record, TypeInv
<1>2. EntriesKnown' /\ WorksKnown'
  BY <1>0, EntriesStay, WorksStay DEF Record, TypeInv
<1>3. enabled' \in BOOLEAN /\ failures' \in 0 .. MaxConsecutiveFailures
  <2>1. failures \in 0 .. MaxConsecutiveFailures /\ enabled \in BOOLEAN
    BY DEF TypeInv, TypeOK, LeaseType
  <2>2. Up(failures, MaxConsecutiveFailures) \in 0 .. MaxConsecutiveFailures
        /\ 0 \in 0 .. MaxConsecutiveFailures
    BY <2>1, UpDown, Constants
  <2> QED BY <2>1, <2>2 DEF Record, Outcome
<1>4. faults' \in 0 .. MaxFaults
  BY FaultType DEF Record, TypeInv
<1> QED BY <1>0, <1>1, <1>2, <1>3, <1>4
        DEF Record, TypeInv, TypeOK, LeaseType, RunsKnown, EntriesKnown, env

LEMMA TypeDone == ASSUME TypeInv, NEW s \in Slots, Done(s) PROVE TypeInv'
<1>0. /\ run[s] \in Run /\ RunKnown(run[s], used) /\ used' = used
      /\ run[s].pc # "idle" => Work(s) \in Works
  BY DEF Done, env, TypeInv, TypeOK, LeaseType, RunsKnown, RunKnown, At, Work
<1>1. RunsKnown'
  <2> DEFINE r == [run[s] EXCEPT !.pc = "release", !.handle = "none", !.beatDue = FALSE]
  <2>1. r \in Run /\ RunKnown(r, used)
    BY <1>0 DEF Run, RunKnown, Done, At
  <2> QED BY <1>0, <2>1, SetKnown DEF Done, TypeInv
<1>2. EntriesKnown'
  <2>1. NoEntry \in Entry /\ ~NoEntry.there
    BY NoType DEF NoEntry
  <2>2. entry' \in {entry, NoEntry}
    BY DEF Done
  <2> QED BY <1>0, <2>1, <2>2 DEF Done, TypeInv, EntriesKnown, EntryKnown
<1>3. WorksKnown'
  BY <1>0, WorksStay DEF Done, TypeInv, histories, ends
<1>4. faults' \in 0 .. MaxFaults
  BY FaultType DEF Done, TypeInv
<1> QED BY <1>0, <1>1, <1>2, <1>3, <1>4
        DEF Done, TypeInv, TypeOK, LeaseType, RunsKnown, EntriesKnown, env, histories, ends

LEMMA TypeRelease == ASSUME TypeInv, NEW s \in Slots, Release(s) PROVE TypeInv'
<1>0. /\ run[s] \in Run /\ RunKnown(run[s], used) /\ used' = used
      /\ run[s].pc # "idle" => Work(s) \in Works
  BY DEF Release, env, TypeInv, TypeOK, LeaseType, RunsKnown, RunKnown, At, Work
<1>1. RunsKnown'
  <2>1. RunKnown(IdleRun, used)
    BY DEF RunKnown, IdleRun
  <2> QED BY <1>0, <2>1, NoType, SetKnown DEF Release, TypeInv
<1>2. EntriesKnown' /\ WorksKnown'
  BY <1>0, EntriesStay, WorksStay DEF Release, TypeInv, histories, ends
<1>3. lease' \in LeaseType /\ busy' \in Slots \cup {None}
  <2>1. lease \in LeaseType /\ [lease EXCEPT !.by = None] \in LeaseType
    BY DEF TypeInv, TypeOK, LeaseType
  <2> QED BY <2>1, NoType DEF Release, FreeBusy, TypeInv, TypeOK, LeaseType
<1>4. faults' \in 0 .. MaxFaults
  BY FaultType DEF Release, TypeInv
<1> QED BY <1>0, <1>1, <1>2, <1>3, <1>4
        DEF Release, TypeInv, TypeOK, LeaseType, RunsKnown, EntriesKnown, env, histories, ends

(* The scheduling term. *)
LEMMA TypeBecomeLeader == ASSUME TypeInv, NEW r \in Replicas, BecomeLeader(r) PROVE TypeInv'
<1>1. RunsKnown' /\ EntriesKnown' /\ WorksKnown'
  BY RunsStay, EntriesStay, WorksStay DEF BecomeLeader, TypeInv, histories, ends
<1> QED BY <1>1, Ranges DEF BecomeLeader, TypeInv, TypeOK, LeaseType, RunsKnown, EntriesKnown,
                            histories, ends

LEMMA TypeStepDown == ASSUME TypeInv, StepDown PROVE TypeInv'
<1>1. EntriesKnown' /\ WorksKnown'
  BY EntriesStay, WorksStay DEF StepDown, TypeInv, histories, ends
<1>2. RunsKnown'
  <2> SUFFICES ASSUME NEW s \in Slots
               PROVE  [run[s] EXCEPT !.live = FALSE] \in Run
                      /\ RunKnown([run[s] EXCEPT !.live = FALSE], used)
    BY DEF StepDown, TypeInv, RunsKnown
  <2>1. run[s] \in Run /\ RunKnown(run[s], used)
    BY DEF TypeInv, RunsKnown
  <2> QED BY <2>1 DEF Run, RunKnown
<1>3. lost' \in 0 .. MaxLost
  BY Constants DEF StepDown, TypeInv, TypeOK
<1> QED BY <1>1, <1>2, <1>3, Ranges
        DEF StepDown, TypeInv, TypeOK, LeaseType, RunsKnown, EntriesKnown, env, histories, ends

LEMMA TypeCrash == ASSUME TypeInv, NEW r \in Replicas, Crash(r) PROVE TypeInv'
<1>1. RunsKnown'
  <2>1. RunKnown(IdleRun, used)
    BY DEF RunKnown, IdleRun
  <2> QED BY <2>1, NoType DEF Crash, TypeInv, RunsKnown
<1>2. EntriesKnown'
  <2>1. UNCHANGED <<entry, used>> /\ (sweep' = sweep \/ sweep' = NoSweep)
    BY DEF Crash
  <2>2. /\ NoSweep \in [pc: {"idle", "act", "resume", "report"}, entry: Entry]
        /\ NoSweep.pc = "idle" /\ ~NoSweep.entry.there
    BY NoType DEF NoSweep, NoEntry
  <2>3. EntriesKnown
    BY DEF TypeInv
  <2>4. CASE sweep' = sweep
    BY <2>1, <2>3, <2>4, EntriesStay
  <2>5. CASE sweep' = NoSweep
    BY <2>1, <2>2, <2>3, <2>5 DEF EntriesKnown, EntryKnown
  <2> QED BY <2>1, <2>4, <2>5
<1>3. WorksKnown'
  BY DEF Crash, TypeInv, WorksKnown
<1>4. killed' \subseteq Works
  <2>1. \A s \in Slots : At(s, "work") => Work(s) \in Works
    BY DEF TypeInv, TypeOK, RunsKnown, RunKnown, At, Work
  <2> QED BY <2>1 DEF Crash, TypeInv, TypeOK
<1> QED BY <1>1, <1>2, <1>3, <1>4, Ranges
        DEF Crash, TypeInv, TypeOK, LeaseType, RunsKnown, EntriesKnown

(* The sweep. *)
LEMMA TypeSweepRead == ASSUME TypeInv, SweepRead PROVE TypeInv'
<1>1. RunsKnown' /\ WorksKnown'
  BY RunsStay, WorksStay DEF SweepRead, TypeInv, histories, ends
<1>2. EntriesKnown'
  BY NoType DEF SweepRead, TypeInv, EntriesKnown, EntryKnown, NoSweep, NoEntry
<1> QED BY <1>1, <1>2, Ranges
        DEF SweepRead, TypeInv, TypeOK, LeaseType, RunsKnown, EntriesKnown, env, histories, ends

LEMMA TypeSweepAct == ASSUME TypeInv, SweepAct PROVE TypeInv'
<1> DEFINE e == sweep.entry
           next == IF entry # e THEN entry
                   ELSE IF Refused(e) THEN NoEntry
                   ELSE [e EXCEPT !.attempt = @ + 1, !.beat = 0, !.by = None]
<1>1. RunsKnown' /\ WorksKnown'
  BY RunsStay, WorksStay DEF SweepAct, TypeInv, env, histories, ends
<1>2. e \in Entry /\ entry \in Entry /\ EntryKnown(e) /\ EntryKnown(entry) /\ e.there
  BY DEF TypeInv, EntriesKnown, SweepAct
<1>3. ASSUME ~Refused(e)
      PROVE  [e EXCEPT !.attempt = @ + 1, !.beat = 0, !.by = None] \in Entry
  <2>1. e.attempt \in Nat /\ e.attempt < MaxAttempts
    BY <1>2, <1>3, Constants DEF Refused, Entry, Attempts
  <2>2. e.attempt + 1 \in Attempts
    BY <2>1, Constants DEF Attempts
  <2> QED BY <1>2, <2>2, Ranges DEF Entry
<1>4. NoEntry \in Entry /\ ~NoEntry.there
  BY NoType DEF NoEntry
<1>5. next \in Entry /\ EntryKnown(next)
  <2>1. CASE entry # e
    BY <1>2, <2>1
  <2>2. CASE entry = e /\ Refused(e)
    BY <1>4, <2>2 DEF EntryKnown
  <2>3. CASE entry = e /\ ~Refused(e)
    <3> DEFINE n == [e EXCEPT !.attempt = @ + 1, !.beat = 0, !.by = None]
    <3>1. n.work = e.work /\ n.attempt = e.attempt + 1 /\ e.attempt \in Nat /\ e.attempt >= 1
      BY <1>2, Constants DEF Entry, Attempts, EntryKnown
    <3>2. e.work \in used
      BY <1>2 DEF EntryKnown
    <3>3. EntryKnown(n)
      BY <3>1, <3>2 DEF EntryKnown
    <3> QED BY <1>3, <2>3, <3>3
  <2> QED BY <2>1, <2>2, <2>3
<1>6. entry' \in {entry, next} /\ used' = used
  BY DEF SweepAct, env
<1>7. \/ sweep' = NoSweep
      \/ sweep' = [pc |-> "report", entry |-> e]
      \/ sweep' = [pc |-> "resume", entry |-> next] /\ next.there
  <2>1. entry = e /\ ~Refused(e) => next.there
    BY <1>2 DEF Entry
  <2> QED BY <2>1 DEF SweepAct
<1>9. EntriesKnown'
  <2> HIDE DEF next
  <2>1. entry' \in Entry /\ (entry'.there => entry'.work \in used' /\ entry'.attempt >= 1)
    BY <1>2, <1>5, <1>6 DEF EntryKnown
  <2>2. CASE sweep' = NoSweep
    BY <1>4, <2>1, <2>2, NoType DEF EntriesKnown, EntryKnown, NoSweep
  <2>3. CASE sweep' = [pc |-> "report", entry |-> e]
    BY <1>2, <1>6, <2>1, <2>3 DEF EntriesKnown, EntryKnown
  <2>4. CASE sweep' = [pc |-> "resume", entry |-> next] /\ next.there
    BY <1>5, <1>6, <2>1, <2>4 DEF EntriesKnown, EntryKnown
  <2> QED BY <1>7, <2>2, <2>3, <2>4
<1>8. faults' \in 0 .. MaxFaults
  BY FaultType DEF SweepAct, TypeInv
<1> QED BY <1>1, <1>9, <1>8
        DEF SweepAct, TypeInv, TypeOK, LeaseType, RunsKnown, EntriesKnown, env, histories, ends

LEMMA TypeSweepReport == ASSUME TypeInv, SweepReport PROVE TypeInv'
<1>1. RunsKnown' /\ WorksKnown'
  BY RunsStay, WorksStay DEF SweepReport, TypeInv, env, ends
<1>2. EntriesKnown'
  BY NoType DEF SweepReport, TypeInv, EntriesKnown, EntryKnown, NoSweep, NoEntry, env
<1>3. faults' \in 0 .. MaxFaults
  BY FaultType DEF SweepReport, TypeInv
<1> QED BY <1>1, <1>2, <1>3
        DEF SweepReport, TypeInv, TypeOK, LeaseType, RunsKnown, EntriesKnown, env, histories, ends

LEMMA TypeSweepResume == ASSUME TypeInv, SweepResume PROVE TypeInv'
<1>1. sweep.entry.work \in Works /\ sweep.entry.work \in used /\ sweep.entry.attempt \in Attempts
      /\ used' = used
  BY DEF SweepResume, TypeInv, TypeOK, EntriesKnown, EntryKnown, Entry, env
<1>2. /\ RunsKnown' /\ busy' \in Slots \cup {None} /\ killed' \subseteq Works
      /\ tasks' \subseteq [work: Works, attempt: Attempts] /\ \A t \in tasks' : t.work \in used'
      /\ exposed' \subseteq Works /\ faults' \in 0 .. MaxFaults
  BY <1>1, ScheduleType DEF SweepResume
<1>3. EntriesKnown'
  BY NoType DEF SweepResume, TypeInv, EntriesKnown, EntryKnown, NoSweep, NoEntry, env
<1>4. WorksKnown'
  BY <1>1, <1>2 DEF SweepResume, TypeInv, WorksKnown, ends
<1> QED BY <1>1, <1>2, <1>3, <1>4
        DEF SweepResume, TypeInv, TypeOK, LeaseType, RunsKnown, EntriesKnown, env, histories, ends

LEMMA TypeSweepSkip == ASSUME TypeInv, SweepSkip PROVE TypeInv'
<1>1. RunsKnown' /\ WorksKnown'
  BY RunsStay, WorksStay DEF SweepSkip, TypeInv, env, histories, ends
<1>2. EntriesKnown'
  BY NoType DEF SweepSkip, TypeInv, EntriesKnown, EntryKnown, NoSweep, NoEntry, env
<1> QED BY <1>1, <1>2
        DEF SweepSkip, TypeInv, TypeOK, LeaseType, RunsKnown, EntriesKnown, env, histories, ends

LEMMA TypeTick == ASSUME TypeInv, Tick PROVE TypeInv'
<1>1. RunsKnown'
  <2>1. ASSUME NEW s \in Slots
        PROVE  LET r == [run[s] EXCEPT !.beatDue = run[s].handle = "beating", !.renewIn = Down(@)]
               IN  At(s, "work") => r \in Run /\ RunKnown(r, used)
    <3>1. run[s] \in Run /\ RunKnown(run[s], used)
      BY DEF TypeInv, RunsKnown
    <3>2. Down(run[s].renewIn) \in 0 .. Period /\ (run[s].handle = "beating") \in BOOLEAN
      BY <3>1, RunFields, UpDown, Constants
    <3> QED BY <3>1, <3>2 DEF Run, RunKnown, At
  <2> QED BY <2>1 DEF Tick, TypeInv, RunsKnown, At
<1>2. EntriesKnown'
  <2>1. entry \in Entry /\ EntryKnown(entry)
    BY DEF TypeInv, EntriesKnown
  <2>2. Up(entry.beat, Stale) \in 0 .. Stale /\ Up(entry.age, MaxAge + 1) \in 0 .. MaxAge + 1
    BY <2>1, UpDown, Constants DEF Entry
  <2>3. entry' \in Entry /\ (entry'.there => entry'.work \in used /\ entry'.attempt >= 1)
    BY <2>1, <2>2 DEF Tick, Entry, EntryKnown
  <2> QED BY <2>3 DEF Tick, TypeInv, EntriesKnown, EntryKnown
<1>3. WorksKnown'
  BY WorksStay DEF Tick, TypeInv, histories, ends
<1>4. lease' \in LeaseType /\ electIn' \in 0 .. Election /\ sweepIn' \in 0 .. Sweep
  BY UpDown, Constants DEF Tick, TypeInv, TypeOK, LeaseType
<1> QED BY <1>1, <1>2, <1>3, <1>4
        DEF Tick, TypeInv, TypeOK, LeaseType, RunsKnown, EntriesKnown, env, histories, ends

LEMMA TypeInit == Init => TypeInv
<1> SUFFICES ASSUME Init PROVE TypeInv
  OBVIOUS
<1>1. RunsKnown
  BY NoType DEF Init, RunsKnown, RunKnown, IdleRun
<1>2. EntriesKnown
  BY NoType DEF Init, EntriesKnown, EntryKnown, NoSweep, NoEntry
<1>3. WorksKnown
  BY DEF Init, WorksKnown
<1>4. /\ starts \in [Works -> 0 .. StartCap] /\ changed \in [Works -> 0 .. 2]
      /\ 0 \in 0 .. MaxConsecutiveFailures /\ 0 \in 0 .. MaxFaults /\ 0 \in 0 .. MaxLost
  BY Constants DEF Init
<1> QED BY <1>1, <1>2, <1>3, <1>4, NoType, Ranges
        DEF Init, TypeInv, TypeOK, LeaseType, RunsKnown, EntriesKnown

(* Every action keeps the types and what they rest on. *)
LEMMA TypeStep == TypeInv /\ [Next]_vars => TypeInv'
<1> SUFFICES ASSUME TypeInv, [Next]_vars PROVE TypeInv'
  OBVIOUS
<1>1. ASSUME NEW s \in Slots, RunStep(s) PROVE TypeInv'
  BY <1>1, TypeReadLease, TypeUnavailable, TypeClaimLease, TypeClaimConflict, TypeClaimMissing,
     TypeClaimUnanswered, TypeBeginRead, TypeBeginPut, TypeBeat, TypeRenew, TypeFinish, TypeRecord,
     TypeDone, TypeRelease DEF RunStep
<1>2. CASE UNCHANGED vars
  <2>1. RunsKnown' /\ EntriesKnown' /\ WorksKnown'
    BY <1>2, RunsStay, EntriesStay, WorksStay DEF vars, TypeInv
  <2> QED BY <1>2, <2>1 DEF vars, TypeInv, TypeOK
<1> QED BY <1>1, <1>2, TypeTrigger, TypeTake, TypeCron, TypeChange, TypeCancel, TypeBecomeLeader,
           TypeCrash, TypeStepDown, TypeSweepRead, TypeSweepAct, TypeSweepResume, TypeSweepSkip,
           TypeSweepReport, TypeTick DEF Next, SweepStep

(* The lease, the journal, the queue, the runs and the sweep keep their types, *)
(* and whatever is at work anywhere is a trigger that has happened.            *)
THEOREM TypeCorrect == Spec => []TypeOK
<1>1. Spec => []TypeInv
  BY TypeInit, TypeStep, PTL DEF Spec
<1>2. TypeInv => TypeOK
  BY DEF TypeInv
<1> QED BY <1>1, <1>2, PTL

----------------------------------------------------------------------------
\* The invariant of the journal, the queue and the sweep.

(* The runs that have not begun yet, and the ways a work waits to be run. *)
Begins(s) == run[s].pc \in {"acquire", "claim", "begin", "put"}
Queued(w) == \E t \in tasks : t.work = w
Resumes(w) == sweep.pc = "resume" /\ sweep.entry.work = w
Pending(w) == Queued(w) \/ Resumes(w) \/ \E s \in Slots : Begins(s) /\ Work(s) = w

(* The sweep would claim the entry of w; a run marks its changes in it. *)
Claimable(w) ==
  entry.there /\ entry.work = w /\ ~entry.effects /\ entry.attempt < MaxAttempts
Marks(s) == At(s, "work") /\ run[s].handle # "none" /\ Owns(s)

(* A work waits at most once, and is not claimable while it does. *)
WaitsOnce(w) ==
  /\ \A t, u \in tasks : t.work = w /\ u.work = w => t = u
  /\ Queued(w) => ~Resumes(w)
  /\ \A s \in Slots : Begins(s) /\ Work(s) = w =>
       ~Queued(w) /\ ~Resumes(w) /\ \A t \in Slots : Begins(t) /\ Work(t) = w => t = s

PendingOnce(w) == WaitsOnce(w) /\ (Pending(w) => ~Claimable(w))

(* Once w made a change, nothing can start it again. *)
Sealed(w) ==
  /\ ~Pending(w)
  /\ entry.there /\ entry.work = w => entry.effects
  /\ \A s \in Slots : Marks(s) /\ Work(s) = w => run[s].did

OneChange(w) ==
  /\ \A s \in Slots : Marks(s) /\ Work(s) = w /\ ~run[s].did => ~Pending(w)
  /\ changed[w] > 0 => Sealed(w)
  /\ changed[w] <= 1

(* While no call has failed: the run of a work is its only one, and either its *)
(* entry is its own or the work has none.                                     *)
OnlyRun(s, w) ==
  /\ ~Pending(w) /\ run[s].handle # "none"
  /\ entry.there /\ entry.work = w => entry.by = s
  /\ run[s].did \/ changed[w] = 0
  /\ \A t \in Slots : At(t, "work") /\ Work(t) = w => t = s

(* What completed is done with, but for an entry its run is about to clear. *)
Over(w) ==
  /\ ~Pending(w) /\ \A s \in Slots : At(s, "work") => Work(s) # w
  /\ entry.there /\ entry.work = w =>
       \E s \in Slots : /\ run[s].pc \in {"record", "done"} /\ Work(s) = w
                        /\ Owns(s) /\ run[s].handle # "none"

(* The entry of a run that goes on is beaten in time. *)
Fresh(s) ==
  run[s].pc \in {"work", "record", "done"} /\ run[s].handle # "none" /\ Owns(s) =>
    /\ run[s].handle = "beating"
    /\ entry.beat = 0 \/ (entry.beat <= 1 /\ run[s].beatDue)

Calm ==
  /\ \A s \in Slots : Fresh(s)
  /\ \A s \in Slots, w \in Works : At(s, "work") /\ Work(s) = w => OnlyRun(s, w)
  /\ \A w \in completed : Over(w)

ReplayInv ==
  /\ TypeInv
  /\ sweep.pc = "act" => sweep.entry.beat = Stale
  /\ faults = 0 => Calm
  /\ \A w \in Works : w \notin exposed \/ faults = 0 => PendingOnce(w) /\ OneChange(w)

----------------------------------------------------------------------------
\* Steps that start nothing: runs that wait on, go on or end, a sweep that
\* resumes nothing, an entry that stays or goes.

Follows(q, r) ==
  \/ r = q
  \/ r.pc \in {"idle", "record", "release"} /\ r.handle = "none"
  \/ /\ r.work = q.work /\ r.did = q.did /\ r.handle = q.handle /\ r.beatDue = q.beatDue
     /\ \/ {q.pc, r.pc} \subseteq {"acquire", "claim", "begin", "put"}
        \/ q.pc = "work" /\ r.pc = "work"
        \/ q.pc \in {"work", "record", "done"} /\ r.pc \in {"record", "done"}

(* A run that has yet to clear its entry goes on to. *)
Clears(s) ==
  run[s].pc \in {"record", "done"} /\ run[s].handle # "none" /\ Owns(s) /\ Work(s) \in completed' =>
    ~entry'.there \/ (run'[s].pc \in {"record", "done"} /\ run'[s].handle # "none"
                        /\ run'[s].work = Work(s))

StartsNothing ==
  /\ entry' = entry \/ ~entry'.there
  /\ tasks' \subseteq tasks
  /\ \/ sweep' = sweep \/ sweep'.pc \in {"idle", "report"}
     \/ sweep'.pc = "act" /\ sweep'.entry.beat = Stale
  /\ changed' = changed /\ exposed \subseteq exposed'
  /\ \A w \in completed' \ completed : faults' = 0 => Over(w)'
  /\ faults' = 0 => faults = 0 /\ \A s \in Slots : Clears(s)
  /\ \A s \in Slots : Follows(run[s], run'[s])

LEMMA StartsNothingKeeps ==
  ASSUME ReplayInv, TypeInv', StartsNothing
  PROVE  ReplayInv'
<1>1. \A w \in Works :
        /\ Queued(w)' => Queued(w)
        /\ Resumes(w)' => Resumes(w)
        /\ Claimable(w)' => Claimable(w)
  BY DEF StartsNothing, Queued, Resumes, Claimable
<1>2. \A s \in Slots : Begins(s)' => Begins(s) /\ run'[s].work = Work(s)
  BY DEF StartsNothing, Follows, Begins, Work
<1>3. \A s \in Slots :
        Marks(s)' => Marks(s) /\ run'[s].work = Work(s) /\ run'[s].did = run[s].did
  BY DEF StartsNothing, Follows, Marks, At, Owns, Work
<1>4. \A w \in Works : Pending(w)' => Pending(w)
  BY <1>1, <1>2 DEF Pending, Work
<1>5. \A w \in Works : PendingOnce(w) => PendingOnce(w)'
  <2> SUFFICES ASSUME NEW w \in Works, PendingOnce(w) PROVE PendingOnce(w)'
    OBVIOUS
  <2>1. /\ Pending(w)' => ~Claimable(w)'
        /\ Queued(w)' => ~Resumes(w)'
    BY <1>1, <1>4 DEF PendingOnce, WaitsOnce
  <2>2. \A t, u \in tasks' : t.work = w /\ u.work = w => t = u
    BY DEF PendingOnce, WaitsOnce, StartsNothing
  <2>3. \A s \in Slots : Begins(s)' /\ run'[s].work = w =>
          ~Queued(w)' /\ ~Resumes(w)' /\ \A t \in Slots : Begins(t)' /\ run'[t].work = w => t = s
    BY <1>1, <1>2 DEF PendingOnce, WaitsOnce
  <2> QED BY <2>1, <2>2, <2>3 DEF PendingOnce, WaitsOnce, Work
<1>6. \A w \in Works : OneChange(w) => OneChange(w)'
  <2> SUFFICES ASSUME NEW w \in Works, OneChange(w) PROVE OneChange(w)'
    OBVIOUS
  <2>1. entry'.there => entry' = entry
    BY DEF StartsNothing
  <2>2. changed' = changed
    BY DEF StartsNothing
  <2> QED BY <1>3, <1>4, <2>1, <2>2 DEF OneChange, Sealed, Work
<1>7. faults' = 0 => Calm'
  <2> SUFFICES ASSUME faults' = 0, Calm PROVE Calm'
    BY DEF StartsNothing, ReplayInv
  <2>1. entry'.there => entry' = entry
    BY DEF StartsNothing
  <2>2. ASSUME NEW s \in Slots PROVE Fresh(s)'
    BY <2>1, <2>2 DEF Calm, Fresh, Owns, StartsNothing, Follows
  <2>3. \A s \in Slots : At(s, "work")' =>
          /\ At(s, "work") /\ run'[s].work = Work(s) /\ run'[s].did = run[s].did
          /\ run'[s].handle = run[s].handle
    BY DEF StartsNothing, Follows, At, Work
  <2>5. ASSUME NEW s \in Slots, NEW w \in Works, At(s, "work")', run'[s].work = w
        PROVE  OnlyRun(s, w)'
    <3>1. OnlyRun(s, w) /\ At(s, "work")
      BY <2>3, <2>5 DEF Calm
    <3>2. changed' = changed
      BY DEF StartsNothing
    <3> QED BY <1>4, <2>1, <2>3, <2>5, <3>1, <3>2 DEF OnlyRun, Work
  <2>6. ASSUME NEW w \in completed' PROVE Over(w)'
    <3>1. CASE w \notin completed
      BY <2>6, <3>1 DEF StartsNothing
    <3>4. CASE w \in completed
      <4>1. w \in Works /\ Over(w)
        BY <3>4 DEF Calm, ReplayInv, TypeInv, TypeOK
      <4>2. ~Pending(w)' /\ \A s \in Slots : At(s, "work")' => run'[s].work # w
        BY <1>4, <2>3, <4>1 DEF Over
      <4>3. ASSUME entry'.there, entry'.work = w
            PROVE  \E s \in Slots : /\ run'[s].pc \in {"record", "done"} /\ run'[s].work = w
                                    /\ Owns(s)' /\ run'[s].handle # "none"
        <5>1. PICK s \in Slots : /\ run[s].pc \in {"record", "done"} /\ Work(s) = w
                                 /\ Owns(s) /\ run[s].handle # "none"
          BY <2>1, <4>1, <4>3 DEF Over
        <5>2. Clears(s) /\ Owns(s)'
          BY <2>1, <4>3, <5>1 DEF StartsNothing, Owns
        <5> QED BY <2>6, <4>3, <5>1, <5>2 DEF Clears
      <4> QED BY <4>2, <4>3 DEF Over, Work
    <3> QED BY <3>1, <3>4
  <2> QED BY <2>2, <2>5, <2>6 DEF Calm, Work
<1>8. \A w \in Works : w \notin exposed' \/ faults' = 0 => w \notin exposed \/ faults = 0
  BY DEF StartsNothing
<1>9. sweep'.pc = "act" => sweep'.entry.beat = Stale
  BY DEF StartsNothing, ReplayInv
<1> QED BY <1>5, <1>6, <1>7, <1>8, <1>9 DEF ReplayInv

(* A step of one run that touches neither journal, queue nor sweep. *)
LEMMA OneFollows ==
  ASSUME TypeInv, NEW s \in Slots, NEW r, Set(s, r), Follows(run[s], r)
  PROVE  \A t \in Slots : Follows(run[t], run'[t])
BY SetRun DEF TypeInv, RunsKnown, Follows

LEMMA Aside ==
  ASSUME TypeInv, UNCHANGED <<entry, tasks, sweep, changed, completed, exposed>>,
         Fault \/ UNCHANGED faults,
         NEW s \in Slots, NEW r, Set(s, r), Follows(run[s], r),
         run[s].pc \in {"record", "done"} /\ run[s].handle # "none" =>
           r.pc \in {"record", "done"} /\ r.handle # "none" /\ r.work = Work(s)
  PROVE  StartsNothing
<1>1. \A t \in Slots : Follows(run[t], run'[t])
  BY OneFollows
<1>2. faults' = 0 => faults = 0
  BY FaultType DEF TypeInv
<1>3. \A t \in Slots : Clears(t)
  BY SetRun DEF TypeInv, RunsKnown, Clears, Work
<1> QED BY <1>1, <1>2, <1>3 DEF StartsNothing

LEMMA SkipFollows == ASSUME NEW s \in Slots PROVE Follows(run[s], IdleRun)
BY DEF Follows, IdleRun

LEMMA UnleasedFollows ==
  ASSUME NEW s \in Slots, run[s] \in Run, run[s].pc \in {"acquire", "claim"}
  PROVE  Follows(run[s], Unleased(s))
BY DEF Follows, Unleased, Run

LEMMA LeaseAside ==
  ASSUME TypeInv, NEW s \in Slots,
         \/ ReadLease(s) \/ LeaseUnavailable(s)
         \/ ClaimLease(s) \/ ClaimConflict(s) \/ ClaimMissing(s) \/ ClaimUnanswered(s)
  PROVE  StartsNothing
<1>1. run[s] \in Run /\ run[s].pc \in {"acquire", "claim"}
  BY DEF TypeInv, RunsKnown, At, ReadLease, LeaseUnavailable, ClaimLease, ClaimConflict,
         ClaimMissing, ClaimUnanswered
<1>2. /\ UNCHANGED <<entry, tasks, sweep, changed, completed, exposed>>
      /\ Fault \/ UNCHANGED faults
  BY DEF ReadLease, LeaseUnavailable, ClaimLease, ClaimConflict, ClaimMissing, ClaimUnanswered,
         histories, ends
<1> DEFINE read(found) == [run[s] EXCEPT !.pc = "claim", !.found = found]
           taken == [run[s] EXCEPT !.pc = "begin", !.found = FALSE, !.leased = TRUE,
                                   !.renewIn = Period]
<1>3. \/ \E found : Set(s, read(found))
      \/ Set(s, taken) \/ Set(s, IdleRun) \/ Set(s, Unleased(s))
  BY DEF ReadLease, LeaseUnavailable, ClaimLease, ClaimConflict, ClaimMissing, ClaimUnanswered, Skip
<1>4. (\A found : Follows(run[s], read(found))) /\ Follows(run[s], taken)
  BY <1>1 DEF Follows, Run
<1>5. PICK r : Set(s, r) /\ Follows(run[s], r)
  <2> HIDE DEF read, taken
  <2> QED BY <1>1, <1>3, <1>4, SkipFollows, UnleasedFollows
<1> QED BY <1>1, <1>2, <1>5, Aside

LEMMA BeginReadAside == ASSUME TypeInv, NEW s \in Slots, BeginRead(s) PROVE StartsNothing
<1>1. run[s] \in Run /\ run[s].pc = "begin"
  BY DEF TypeInv, RunsKnown, BeginRead, At
<1>2. PICK r \in {[run[s] EXCEPT !.pc = "put", !.attempt = entry.attempt, !.age = entry.age],
                  [run[s] EXCEPT !.pc = "put", !.attempt = 1]} : Set(s, r)
  BY DEF BeginRead
<1>3. Follows(run[s], r)
  BY <1>1 DEF Follows, Run
<1> QED BY <1>1, <1>2, <1>3, Aside DEF BeginRead, histories, ends

LEMMA RenewAside == ASSUME TypeInv, NEW s \in Slots, RenewLease(s) PROVE StartsNothing
<1>1. run[s] \in Run /\ run[s].pc = "work"
  BY DEF TypeInv, RunsKnown, RenewLease, At
<1>2. PICK live : Set(s, [run[s] EXCEPT !.renewIn = Period, !.live = live])
  BY DEF RenewLease
<1>3. Follows(run[s], [run[s] EXCEPT !.renewIn = Period, !.live = live])
  BY <1>1 DEF Follows, Run
<1> QED BY <1>1, <1>2, <1>3, Aside DEF RenewLease, histories, ends

LEMMA CancelAside == ASSUME TypeInv, NEW s \in Slots, Cancel(s) PROVE StartsNothing
<1>1. run[s] \in Run /\ run[s].pc = "work"
  BY DEF TypeInv, RunsKnown, Cancel, At
<1>2. Follows(run[s], [run[s] EXCEPT !.live = FALSE])
  BY <1>1 DEF Follows, Run
<1> QED BY <1>1, <1>2, Aside DEF Cancel, histories, ends

(* An interrupted run leaves its entry behind without a handle. *)
LEMMA RecordAside == ASSUME TypeInv, NEW s \in Slots, Record(s) PROVE StartsNothing
<1>1. run[s] \in Run /\ run[s].pc = "record" /\ RunKnown(run[s], used)
  BY DEF TypeInv, RunsKnown, Record, At
<1>2. CASE run[s].result = "interrupted"
  <2>1. run[s].handle = "none" /\ Set(s, [run[s] EXCEPT !.pc = "release"])
    BY <1>1, <1>2 DEF RunKnown, Record
  <2>2. Follows(run[s], [run[s] EXCEPT !.pc = "release"])
    BY <1>1, <2>1 DEF Follows, Run
  <2> QED BY <2>1, <2>2, Aside DEF Record
<1>3. CASE run[s].result # "interrupted"
  <2> DEFINE r == [run[s] EXCEPT !.pc = "done"]
  <2>1. Set(s, r) /\ r.pc = "done" /\ r.work = Work(s) /\ r.handle = run[s].handle
    BY <1>1, <1>3 DEF Record, Run, Work
  <2>2. Follows(run[s], r)
    BY <1>1 DEF Follows, Run
  <2> QED BY <2>1, <2>2, Aside DEF Record
<1> QED BY <1>2, <1>3

LEMMA ReleaseAside == ASSUME TypeInv, NEW s \in Slots, Release(s) PROVE StartsNothing
<1>1. run[s].pc = "release"
  BY DEF Release, At
<1>2. Follows(run[s], IdleRun)
  BY DEF Follows, IdleRun
<1> QED BY <1>1, <1>2, Aside DEF Release, histories, ends

(* Clearing the entry, which fails only in a faulty run. *)
LEMMA DoneAside == ASSUME TypeInv, NEW s \in Slots, Done(s) PROVE StartsNothing
<1> DEFINE r == [run[s] EXCEPT !.pc = "release", !.handle = "none", !.beatDue = FALSE]
<1>1. run[s] \in Run /\ run \in [Slots -> Run] /\ Set(s, r)
  BY DEF TypeInv, RunsKnown, Done
<1>2. r.pc = "release" /\ r.handle = "none"
  BY <1>1 DEF Run
<1>3. \A t \in Slots : Follows(run[t], run'[t])
  BY <1>1, <1>2, OneFollows DEF Follows
<1>4. faults' = 0 => faults = 0 /\ (Owns(s) /\ run[s].handle # "none" => ~entry'.there)
  BY FaultType DEF TypeInv, Done, NoEntry
<1>5. \A t \in Slots : t # s => Clears(t)
  BY <1>1, SetRun DEF Clears, Work
<1>6. faults' = 0 => Clears(s)
  BY <1>4 DEF Clears
<1>7. entry' = entry \/ ~entry'.there
  BY DEF Done, NoEntry
<1> QED BY <1>3, <1>4, <1>5, <1>6, <1>7 DEF StartsNothing, Done, histories, ends

LEMMA LeaderAside ==
  ASSUME TypeInv, (\E r \in Replicas : BecomeLeader(r)) \/ SweepRead \/ SweepReport \/ SweepSkip
                  \/ UNCHANGED vars
  PROVE  StartsNothing
<1>1. /\ UNCHANGED <<entry, tasks, run, changed, completed, exposed>>
      /\ Fault \/ UNCHANGED faults
  BY DEF BecomeLeader, SweepRead, SweepReport, SweepSkip, vars, env, histories, ends
<1>2. \/ sweep' = sweep \/ sweep'.pc \in {"idle", "report"}
      \/ sweep'.pc = "act" /\ sweep'.entry.beat = Stale
  BY DEF BecomeLeader, SweepRead, SweepReport, SweepSkip, vars, NoSweep
<1>3. faults' = 0 => faults = 0
  BY <1>1, FaultType DEF TypeInv
<1> QED BY <1>1, <1>2, <1>3 DEF StartsNothing, Clears, Follows, Work

LEMMA StepDownAside == ASSUME TypeInv, StepDown PROVE StartsNothing
<1>1. \A s \in Slots : run[s] \in Run
  BY DEF TypeInv, RunsKnown
<1>2. \A s \in Slots : run'[s] = run[s] \/ (At(s, "work") /\ run'[s] = [run[s] EXCEPT !.live = FALSE])
  BY DEF StepDown
<1>3. ASSUME NEW s \in Slots PROVE Follows(run[s], run'[s]) /\ Clears(s)
  <2>1. CASE run'[s] = run[s]
    BY <2>1 DEF Follows, Clears, Work
  <2>2. CASE At(s, "work") /\ run'[s] = [run[s] EXCEPT !.live = FALSE]
    BY <1>1, <2>2 DEF Follows, Clears, At, Run
  <2> QED BY <1>2, <2>1, <2>2
<1> QED BY <1>3 DEF StartsNothing, StepDown, histories, ends

(* A work whose run dies before it cleared its entry is not completed. *)
LEMMA CrashAside == ASSUME TypeInv, NEW r \in Replicas, Crash(r) PROVE StartsNothing
<1>1. \A s \in Slots : run'[s] = run[s] \/ (Host[s] = r /\ run'[s] = IdleRun)
  BY DEF Crash
<1>2. ASSUME NEW s \in Slots PROVE Follows(run[s], run'[s])
  BY <1>1 DEF Follows, IdleRun
<1>3. ASSUME NEW s \in Slots PROVE Clears(s)
  <2>1. CASE Host[s] = r
    BY <2>1 DEF Crash, Clears, At
  <2>2. CASE Host[s] # r
    BY <1>1, <2>2 DEF Clears, Work
  <2> QED BY <2>1, <2>2
<1>4. sweep' = sweep \/ sweep'.pc = "idle"
  BY DEF Crash, NoSweep
<1> QED BY <1>2, <1>3, <1>4 DEF StartsNothing, Crash

----------------------------------------------------------------------------
\* Steps that queue a run, or admit one to a slot.

Admitted(q, r, w) ==
  q.pc = "idle" /\ q.handle = "none" /\ r.pc = "acquire" /\ r.work = w /\ r.handle = "none"

Starts(w) ==
  /\ entry' = entry /\ changed' = changed /\ completed' = completed /\ exposed \subseteq exposed'
  /\ faults' = 0 => faults = 0
  /\ \A t \in tasks' : t \in tasks \/ t.work = w
  /\ sweep' = sweep \/ sweep'.pc = "idle"
  /\ \A s \in Slots : run'[s] = run[s] \/ Admitted(run[s], run'[s], w)
  /\ w \notin exposed' \/ faults' = 0 => WaitsOnce(w)' /\ (Pending(w) \/ w \notin used)

LEMMA StartsKeeps ==
  ASSUME ReplayInv, TypeInv', NEW w \in Works, Starts(w)
  PROVE  ReplayInv'
<1>1. \A v \in Works : v # w => (Queued(v)' => Queued(v)) /\ (Resumes(v)' => Resumes(v))
  BY DEF Starts, Queued, Resumes
<1>2. \A s \in Slots, v \in Works :
        v # w /\ Begins(s)' /\ run'[s].work = v => Begins(s) /\ Work(s) = v
  BY DEF Starts, Admitted, Begins, Work
<1>3. \A v \in Works : v # w => (Pending(v)' => Pending(v))
  BY <1>1, <1>2 DEF Pending, Work
<1>4. \A s \in Slots :
        run'[s].pc \in {"work", "record", "done"} \/ run[s].pc \in {"work", "record", "done"} =>
          run'[s] = run[s]
  BY DEF Starts, Admitted
<1>5. \A s \in Slots : Marks(s)' <=> Marks(s)
  BY <1>4 DEF Starts, Marks, At, Owns
<1>6. \A s \in Slots : Marks(s) => run'[s] = run[s]
  BY <1>4 DEF Marks, At
<1>7. \A v \in Works : Claimable(v)' <=> Claimable(v)
  BY DEF Starts, Claimable
<1>8. \A s \in Slots : At(s, "work") => Work(s) \in used
  BY DEF At, Work, ReplayInv, TypeInv, RunsKnown, RunKnown
<1>9. \A v \in Works : v \notin exposed' \/ faults' = 0 => PendingOnce(v) /\ OneChange(v)
  BY DEF Starts, ReplayInv
<1>10. ASSUME NEW v \in Works, v # w, PendingOnce(v), OneChange(v)
       PROVE  PendingOnce(v)' /\ OneChange(v)'
  <2>1. WaitsOnce(v)'
    BY <1>1, <1>2, <1>10 DEF PendingOnce, WaitsOnce, Starts, Work
  <2>2. PendingOnce(v)'
    BY <1>3, <1>7, <1>10, <2>1 DEF PendingOnce
  <2>3. changed' = changed /\ entry' = entry
    BY DEF Starts
  <2>4. OneChange(v)'
    BY <1>3, <1>5, <1>6, <1>10, <2>3 DEF OneChange, Sealed, Work
  <2> QED BY <2>2, <2>4
<1>11. ASSUME w \notin exposed' \/ faults' = 0
       PROVE  PendingOnce(w)' /\ OneChange(w)'
  <2>1. PendingOnce(w) /\ OneChange(w) /\ WaitsOnce(w)' /\ (Pending(w) \/ w \notin used)
    BY <1>9, <1>11 DEF Starts
  <2>2. ~Claimable(w)
    BY <2>1 DEF PendingOnce, Claimable, ReplayInv, TypeInv, EntriesKnown, EntryKnown
  <2>3. PendingOnce(w)'
    BY <1>7, <2>1, <2>2 DEF PendingOnce
  <2>4. changed[w] = 0
    BY <2>1 DEF OneChange, Sealed, ReplayInv, TypeInv, TypeOK, WorksKnown
  <2>5. \A s \in Slots : Marks(s) /\ Work(s) = w => run[s].did
    BY <1>8, <2>1 DEF OneChange, Marks
  <2>6. changed'[w] = 0
    BY <2>4 DEF Starts
  <2>7. \A s \in Slots : Marks(s)' /\ run'[s].work = w => run'[s].did
    BY <1>5, <1>6, <2>5 DEF Work
  <2> QED BY <2>3, <2>6, <2>7 DEF OneChange, Work
<1>12. ASSUME faults' = 0 PROVE Calm'
  <2>1. Calm /\ (Pending(w) \/ w \notin used)
    BY <1>12 DEF Starts, ReplayInv
  <2>2. ASSUME NEW s \in Slots PROVE Fresh(s)'
    <3>1. Fresh(s) /\ entry' = entry
      BY <2>1 DEF Calm, Starts
    <3> QED BY <1>4, <3>1 DEF Fresh, Owns
  <2>3. ASSUME NEW s \in Slots, NEW v \in Works, At(s, "work")', run'[s].work = v
        PROVE  OnlyRun(s, v)'
    <3>1. At(s, "work") /\ Work(s) = v /\ run'[s] = run[s]
      BY <1>4, <2>3 DEF At, Work
    <3>2. OnlyRun(s, v) /\ v # w
      BY <1>8, <2>1, <3>1 DEF Calm, OnlyRun
    <3>3. \A t \in Slots : At(t, "work")' => At(t, "work") /\ run'[t] = run[t]
      BY <1>4 DEF At
    <3>4. entry' = entry /\ changed' = changed
      BY DEF Starts
    <3> QED BY <1>3, <3>1, <3>2, <3>3, <3>4 DEF OnlyRun, Work
  <2>4. ASSUME NEW v \in completed' PROVE Over(v)'
    <3>1. v \in completed /\ v \in used /\ v \in Works /\ entry' = entry
      BY <2>4 DEF Starts, ReplayInv, TypeInv, TypeOK, WorksKnown
    <3>2. Over(v) /\ v # w
      BY <2>1, <3>1 DEF Calm, Over
    <3>3. \A t \in Slots : At(t, "work")' => At(t, "work") /\ run'[t] = run[t]
      BY <1>4 DEF At
    <3>4. ~Pending(v)' /\ \A t \in Slots : At(t, "work")' => run'[t].work # v
      BY <1>3, <3>1, <3>2, <3>3 DEF Over, Work
    <3> QED BY <1>4, <3>1, <3>2, <3>4 DEF Over, Owns, Work
  <2> QED BY <2>2, <2>3, <2>4 DEF Calm, Work
<1>13. sweep'.pc = "act" => sweep'.entry.beat = Stale
  BY DEF Starts, ReplayInv
<1> QED BY <1>9, <1>10, <1>11, <1>12, <1>13 DEF ReplayInv

(* What admitting a run does to the slots. *)
LEMMA AdmitSlots ==
  ASSUME TypeInv, NEW s \in Slots, NEW w, NEW cron, Idle(s), Admit(s, w, cron)
  PROVE  \A t \in Slots : run'[t] = run[t] \/ (t = s /\ Admitted(run[t], run'[t], w))
<1>1. run[s].pc = "idle" /\ run[s].handle = "none" /\ run \in [Slots -> Run]
  BY DEF TypeInv, RunsKnown, RunKnown, Idle, At
<1>2. CASE UNCHANGED run
  BY <1>2
<1>3. CASE Set(s, [IdleRun EXCEPT !.pc = "acquire", !.work = w, !.cron = cron])
  <2> DEFINE r == [IdleRun EXCEPT !.pc = "acquire", !.work = w, !.cron = cron]
  <2>1. r.pc = "acquire" /\ r.work = w /\ r.handle = "none"
    BY DEF IdleRun
  <2>2. run'[s] = r /\ \A t \in Slots : t # s => run'[t] = run[t]
    BY <1>1, <1>3, SetRun
  <2> HIDE DEF r
  <2> QED BY <1>1, <2>1, <2>2 DEF Admitted
<1> QED BY <1>2, <1>3 DEF Admit

(* A work that waits nowhere else waits once after it is admitted. *)
LEMMA AdmitWaits ==
  ASSUME TypeInv, NEW s \in Slots, NEW w \in Works, NEW cron, Idle(s), Admit(s, w, cron),
         \A t \in tasks' : t.work # w, ~Resumes(w)', \A t \in Slots : Begins(t) => Work(t) # w
  PROVE  WaitsOnce(w)'
<1>1. \A t \in Slots : Begins(t)' /\ run'[t].work = w => t = s
  BY AdmitSlots DEF Begins, Work, Admitted
<1> QED BY <1>1 DEF WaitsOnce, Queued, Work

(* A schedule of a work that waits nowhere else: a task in the queue, or a run *)
(* in a slot; both only after an Enqueue that failed.                          *)
LEMMA ScheduleStarts ==
  ASSUME TypeInv, NEW w \in Works, NEW a, Schedule(w, a),
         UNCHANGED <<entry, changed, completed>>,
         sweep' = sweep \/ sweep'.pc = "idle", ~Resumes(w)',
         w \notin exposed \/ faults = 0 =>
           /\ \A t \in tasks : t.work # w
           /\ \A t \in Slots : Begins(t) => Work(t) # w
           /\ Pending(w) \/ w \notin used
  PROVE  Starts(w)
<1>1. Fault \/ UNCHANGED faults
  BY DEF Schedule
<1>2. faults' = 0 => faults = 0
  BY <1>1, FaultType DEF TypeInv
<1>3. exposed \subseteq exposed' /\ \A t \in tasks' : t \in tasks \/ t.work = w
  <2>1. exposed \subseteq exposed' /\ tasks' \subseteq tasks \cup {[work |-> w, attempt |-> a]}
    BY DEF Schedule
  <2> QED BY <2>1
<1>4. ASSUME NEW s \in Slots PROVE run'[s] = run[s] \/ Admitted(run[s], run'[s], w)
  BY AdmitSlots DEF Schedule
<1>5. ASSUME w \notin exposed' \/ faults' = 0
      PROVE  WaitsOnce(w)' /\ (Pending(w) \/ w \notin used)
  <2>1. /\ \A t \in tasks : t.work # w
        /\ \A t \in Slots : Begins(t) => Work(t) # w
        /\ Pending(w) \/ w \notin used
    BY <1>2, <1>3, <1>5
  <2>2. CASE tasks' = tasks \cup {[work |-> w, attempt |-> a]} /\ UNCHANGED run
    <3>1. \A t \in tasks' : t.work = w => t = [work |-> w, attempt |-> a]
      BY <2>1, <2>2
    <3>2. \A t \in Slots : Begins(t)' => run'[t].work # w
      BY <2>1, <2>2 DEF Begins, Work
    <3> QED BY <2>1, <3>1, <3>2 DEF WaitsOnce, Work
  <2>3. CASE /\ Fault /\ tasks' \in {tasks, tasks \cup {[work |-> w, attempt |-> a]}}
             /\ exposed' = IF tasks' = tasks THEN exposed ELSE exposed \cup {w}
             /\ \E s \in Slots : Idle(s) /\ Admit(s, w, FALSE)
    <3>1. faults' # 0
      BY <2>3, FaultType DEF TypeInv
    <3>2. tasks' = tasks
      BY <1>5, <2>3, <3>1
    <3> QED BY <2>1, <2>3, <3>2, AdmitWaits
  <2> QED BY <2>1, <2>2, <2>3 DEF Schedule
<1> QED BY <1>2, <1>3, <1>4, <1>5 DEF Starts

(* A trigger that has not happened waits nowhere. *)
LEMMA UnusedWaitsNowhere ==
  ASSUME TypeInv, NEW w \in Works, w \notin used
  PROVE  /\ \A t \in tasks : t.work # w
         /\ \A s \in Slots : Begins(s) => Work(s) # w
         /\ ~Resumes(w)
BY DEF TypeInv, WorksKnown, RunsKnown, RunKnown, Begins, Work, Resumes, EntriesKnown, EntryKnown

LEMMA TriggerStarts == ASSUME ReplayInv, NEW w \in Works, Trigger(w) PROVE Starts(w)
<1>1. TypeInv /\ w \notin used /\ Schedule(w, 1) /\ UNCHANGED <<entry, changed, completed, sweep>>
  BY DEF Trigger, ReplayInv, ends
<1>2. ~Resumes(w)'
  BY <1>1, UnusedWaitsNowhere DEF Resumes
<1> QED BY <1>1, <1>2, UnusedWaitsNowhere, ScheduleStarts

LEMMA CronStarts == ASSUME ReplayInv, NEW s \in Slots, CronTick(s) PROVE \E w \in Works : Starts(w)
<1>1. PICK w \in Works \ used : Admit(s, w, TRUE)
  BY DEF CronTick
<1>2. TypeInv /\ Idle(s) /\ UNCHANGED <<entry, tasks, sweep, faults, changed, exposed, completed>>
  BY DEF CronTick, ReplayInv, ends
<1>3. \A t \in tasks' : t.work # w
  BY <1>1, <1>2, UnusedWaitsNowhere
<1>4. ~Resumes(w)'
  BY <1>1, <1>2, UnusedWaitsNowhere DEF Resumes
<1>5. WaitsOnce(w)'
  BY <1>1, <1>2, <1>3, <1>4, UnusedWaitsNowhere, AdmitWaits
<1> QED BY <1>1, <1>2, <1>5, AdmitSlots DEF Starts

LEMMA TakeStarts == ASSUME ReplayInv, NEW s \in Slots, TakeTask(s) PROVE \E w \in Works : Starts(w)
<1>1. PICK t \in tasks : tasks' = tasks \ {t} /\ Admit(s, t.work, FALSE)
  BY DEF TakeTask
<1> DEFINE w == t.work
<1>2. TypeInv /\ Idle(s) /\ UNCHANGED <<entry, sweep, faults, changed, exposed, completed>>
      /\ w \in Works
  BY <1>1 DEF TakeTask, ReplayInv, TypeInv, TypeOK, ends
<1> HIDE DEF w
<1>3. Queued(w) /\ Pending(w)
  BY DEF Queued, Pending, w
<1>4. ASSUME w \notin exposed \/ faults = 0 PROVE WaitsOnce(w)'
  <2>1. WaitsOnce(w)
    BY <1>2, <1>4 DEF ReplayInv, PendingOnce
  <2>2. \A u \in tasks' : u.work # w
    BY <1>1, <2>1 DEF WaitsOnce, w
  <2>3. ~Resumes(w)' /\ \A u \in Slots : Begins(u) => Work(u) # w
    BY <1>2, <1>3, <2>1 DEF WaitsOnce, Resumes
  <2> QED BY <1>1, <1>2, <2>2, <2>3, AdmitWaits DEF w
<1>5. \A u \in Slots : run'[u] = run[u] \/ Admitted(run[u], run'[u], w)
  BY <1>1, <1>2, AdmitSlots DEF w
<1> QED BY <1>1, <1>2, <1>3, <1>4, <1>5 DEF Starts

LEMMA ResumeStarts == ASSUME ReplayInv, SweepResume PROVE \E w \in Works : Starts(w)
<1>1. PICK w \in Works : w = sweep.entry.work
  BY DEF SweepResume, ReplayInv, TypeInv, TypeOK, EntriesKnown, EntryKnown
<1>2. TypeInv /\ Schedule(w, sweep.entry.attempt) /\ sweep'.pc = "idle"
      /\ UNCHANGED <<entry, changed, completed>>
  BY <1>1 DEF SweepResume, ReplayInv, NoSweep, ends
<1>3. Resumes(w) /\ Pending(w) /\ ~Resumes(w)'
  BY <1>1, <1>2 DEF SweepResume, Resumes, Pending
<1>4. ASSUME w \notin exposed \/ faults = 0
      PROVE  /\ \A t \in tasks : t.work # w
             /\ \A t \in Slots : Begins(t) => Work(t) # w
  <2>1. WaitsOnce(w)
    BY <1>4 DEF ReplayInv, PendingOnce
  <2>2. ~Queued(w) /\ \A t \in Slots : ~(Begins(t) /\ Work(t) = w)
    BY <1>3, <2>1 DEF WaitsOnce
  <2> QED BY <2>2 DEF Queued
<1>5. Starts(w)
  BY <1>2, <1>3, <1>4, ScheduleStarts
<1> QED BY <1>5

(* A run ends: with a result, its work is completed, and the entry it is about *)
(* to clear is the only thing left of it.                                      *)
LEMMA FinishAside == ASSUME ReplayInv, NEW s \in Slots, Finish(s) PROVE StartsNothing
<1>1. /\ run[s] \in Run /\ run \in [Slots -> Run] /\ run[s].pc = "work" /\ TypeInv
      /\ UNCHANGED <<entry, tasks, sweep, changed, exposed, faults>>
  BY DEF ReplayInv, TypeInv, RunsKnown, Finish, At
<1>2. PICK err \in BOOLEAN :
        /\ Set(s, IF CutShort(s, err)
                  THEN [run[s] EXCEPT !.pc = "record", !.result = "interrupted", !.handle = "none",
                                      !.beatDue = FALSE]
                  ELSE [run[s] EXCEPT !.pc = "record", !.result = IF err THEN "failed" ELSE "ok"])
        /\ completed' = IF err THEN completed ELSE completed \cup {Work(s)}
  BY Zenon DEF Finish
<1>3. PICK r : /\ Set(s, r) /\ r.pc = "record" /\ Follows(run[s], r)
               /\ ~err => r.work = Work(s) /\ r.handle = run[s].handle
  <2>1. CASE CutShort(s, err)
    <3> DEFINE r == [run[s] EXCEPT !.pc = "record", !.result = "interrupted", !.handle = "none",
                                   !.beatDue = FALSE]
    <3>1. r.pc = "record" /\ r.handle = "none"
      BY <1>1 DEF Run
    <3>2. Set(s, r) /\ err
      BY <1>2, <2>1 DEF CutShort
    <3> HIDE DEF r
    <3> QED BY <3>1, <3>2 DEF Follows
  <2>2. CASE ~CutShort(s, err)
    <3> DEFINE r == [run[s] EXCEPT !.pc = "record", !.result = IF err THEN "failed" ELSE "ok"]
    <3>1. /\ r.pc = "record" /\ r.work = run[s].work /\ r.did = run[s].did
          /\ r.handle = run[s].handle /\ r.beatDue = run[s].beatDue
      BY <1>1 DEF Run
    <3>2. Set(s, r)
      BY <1>2, <2>2
    <3> HIDE DEF r
    <3> QED BY <1>1, <3>1, <3>2 DEF Follows, Work
  <2> QED BY <2>1, <2>2
<1>4. run'[s] = r /\ \A t \in Slots : t # s => run'[t] = run[t]
  BY <1>1, <1>3, SetRun
<1>5. \A t \in Slots : Follows(run[t], run'[t])
  BY <1>1, <1>3, OneFollows
<1>6. \A t \in Slots : Clears(t)
  BY <1>1, <1>4 DEF Clears, Work
<1>7. ASSUME faults' = 0, NEW w \in completed' \ completed PROVE Over(w)'
  <2>1. w = Work(s) /\ ~err /\ w \in Works
    BY <1>2, <1>1, <1>7 DEF ReplayInv, TypeInv, RunsKnown, RunKnown, TypeOK, Work
  <2>2. OnlyRun(s, w)
    BY <1>1, <1>7, <2>1 DEF ReplayInv, Calm, At
  <2>3. \A t \in Slots : Begins(t)' => Begins(t) /\ run'[t].work = Work(t)
    BY <1>3, <1>4 DEF Begins, Work
  <2>4. ~Pending(w)'
    BY <1>1, <2>2, <2>3 DEF OnlyRun, Pending, Queued, Resumes, Work
  <2>5. \A t \in Slots : At(t, "work")' => run'[t].work # w
    BY <1>3, <1>4, <2>2 DEF OnlyRun, At, Work
  <2>6. entry'.there /\ entry'.work = w =>
          run'[s].pc = "record" /\ run'[s].work = w /\ Owns(s)' /\ run'[s].handle # "none"
    BY <1>1, <1>3, <1>4, <2>1, <2>2 DEF OnlyRun, Owns
  <2> QED BY <2>4, <2>5, <2>6 DEF Over, Work
<1> QED BY <1>1, <1>5, <1>6, <1>7 DEF StartsNothing

----------------------------------------------------------------------------
\* Steps that write the entry: a run that begins, its heartbeat, its mark.

(* The run of a work that waited is the only one that did. *)
LEMMA BeginPutKeeps ==
  ASSUME ReplayInv, TypeInv', NEW s \in Slots, BeginPut(s)
  PROVE  ReplayInv'
<1> DEFINE w == Work(s)
<1>1. /\ run[s] \in Run /\ run \in [Slots -> Run] /\ run[s].pc = "put" /\ TypeInv /\ w \in Works
      /\ UNCHANGED <<tasks, sweep, changed, exposed, completed>>
      /\ Fault \/ UNCHANGED faults
  BY DEF ReplayInv, TypeInv, TypeOK, RunsKnown, RunKnown, BeginPut, Executing, At, Work, env, ends
<1>2. PICK handle \in {"beating", "none"} :
        Set(s, [run[s] EXCEPT !.pc = "work", !.age = 0, !.attempt = 0, !.handle = handle])
        /\ (handle = "none" => Fault)
  BY DEF BeginPut, Executing
<1> DEFINE r == [run[s] EXCEPT !.pc = "work", !.age = 0, !.attempt = 0, !.handle = handle]
<1>3. r.pc = "work" /\ r.work = run[s].work /\ r.handle = handle
  BY <1>1 DEF Run
<1>4. run'[s] = r /\ \A t \in Slots : t # s => run'[t] = run[t]
  BY <1>1, <1>2, SetRun
<1> HIDE DEF r
<1>5. PICK v \in Works : v = w
  BY <1>1
<1> HIDE DEF w
<1>6. run[s].work = v /\ run'[s].work = v /\ Work(s) = v
  BY <1>3, <1>4, <1>5 DEF w, Work
<1>7. entry' = entry \/ (entry'.there /\ entry'.work = v /\ entry'.by \in {s, None})
  BY <1>6 DEF BeginPut, Begun
<1>8. Pending(v) /\ Begins(s)
  BY <1>1, <1>6 DEF Pending, Begins
<1>9. \A t \in Slots : Begins(t)' => Begins(t) /\ t # s /\ run'[t].work = Work(t)
  BY <1>3, <1>4 DEF Begins, Work
<1>10. \A u \in Works : /\ Queued(u)' <=> Queued(u)
                        /\ Resumes(u)' <=> Resumes(u)
                        /\ Pending(u)' => Pending(u)
  BY <1>1, <1>9 DEF Pending, Queued, Resumes, Work
<1>11. ASSUME NEW t \in Slots, t # s PROVE Owns(t)' => Owns(t) /\ entry' = entry
  BY <1>7, <1>11, RunRecoveryAssumption DEF Owns
<1>12. ASSUME NEW u \in Works, u # v, PendingOnce(u), OneChange(u)
       PROVE  PendingOnce(u)' /\ OneChange(u)'
  <2>1. WaitsOnce(u)'
    BY <1>1, <1>9, <1>10, <1>12 DEF PendingOnce, WaitsOnce, Work
  <2>2. entry'.there /\ entry'.work = u => entry' = entry
    BY <1>7, <1>12
  <2>3. PendingOnce(u)'
    BY <1>10, <1>12, <2>1, <2>2 DEF PendingOnce, Claimable
  <2>4. \A t \in Slots : Marks(t)' /\ run'[t].work = u => Marks(t) /\ run'[t] = run[t]
    BY <1>4, <1>6, <1>11, <1>12 DEF Marks, At
  <2>5. OneChange(u)'
    BY <1>1, <1>10, <1>12, <2>2, <2>4 DEF OneChange, Sealed, Work
  <2> QED BY <2>3, <2>5
<1>13. ASSUME PendingOnce(v), OneChange(v)
       PROVE  PendingOnce(v)' /\ OneChange(v)' /\ ~Pending(v)' /\ changed'[v] = 0
  <2>1. ~Queued(v) /\ ~Resumes(v) /\ \A t \in Slots : Begins(t) /\ Work(t) = v => t = s
    BY <1>6, <1>8, <1>13 DEF PendingOnce, WaitsOnce
  <2>2. \A t \in Slots : ~(Begins(t)' /\ run'[t].work = v)
    BY <1>9, <2>1
  <2>3. ~Pending(v)' /\ ~Queued(v)' /\ ~Resumes(v)'
    BY <1>10, <2>1, <2>2 DEF Pending, Work
  <2>4. PendingOnce(v)'
    BY <2>2, <2>3 DEF PendingOnce, WaitsOnce, Queued, Work
  <2>5. changed[v] \in 0 .. 2 /\ changed'[v] = 0
    BY <1>1, <1>8, <1>13 DEF OneChange, Sealed, TypeInv, TypeOK
  <2> QED BY <2>3, <2>4, <2>5 DEF OneChange
<1>14. faults' = 0 => faults = 0 /\ handle = "beating"
  BY <1>1, <1>2, FaultType DEF TypeInv
<1>15. ASSUME faults' = 0 PROVE Calm'
  <2>1. /\ Calm /\ PendingOnce(v) /\ OneChange(v)
        /\ entry'.there /\ entry'.work = v /\ entry'.by = s /\ entry'.beat = 0
    BY <1>6, <1>14, <1>15 DEF ReplayInv, BeginPut, Begun, Fault, TypeInv, TypeOK
  <2>2. ASSUME NEW t \in Slots PROVE Fresh(t)'
    <3>1. CASE t = s
      BY <1>3, <1>4, <1>14, <1>15, <2>1, <3>1 DEF Fresh
    <3>2. CASE t # s
      BY <2>1, <3>2 DEF Fresh, Owns
    <3> QED BY <3>1, <3>2
  <2>3. ASSUME NEW t \in Slots, NEW u \in Works, t # s, At(t, "work")', run'[t].work = u
        PROVE  OnlyRun(t, u) /\ u # v
    <3>1. At(t, "work") /\ Work(t) = u
      BY <1>4, <2>3 DEF At, Work
    <3>2. OnlyRun(t, u)
      BY <2>1, <3>1 DEF Calm
    <3> QED BY <1>8, <3>2 DEF OnlyRun
  <2>4. ASSUME NEW t \in Slots, NEW u \in Works, At(t, "work")', run'[t].work = u
        PROVE  OnlyRun(t, u)'
    <3>1. CASE t = s
      <4>1. u = v
        BY <1>6, <2>4, <3>1
      <4>2. \A q \in Slots : At(q, "work")' /\ run'[q].work = u => q = s
        BY <2>3, <4>1
      <4> QED BY <1>3, <1>4, <1>13, <1>14, <1>15, <2>1, <3>1, <4>1, <4>2 DEF OnlyRun, Work
    <3>2. CASE t # s
      <4>1. OnlyRun(t, u) /\ u # v
        BY <2>3, <2>4, <3>2
      <4>2. \A q \in Slots : At(q, "work")' /\ run'[q].work = u => q = t
        BY <1>4, <1>6, <4>1 DEF OnlyRun, At, Work
      <4> QED BY <1>1, <1>4, <1>10, <2>1, <3>2, <4>1, <4>2 DEF OnlyRun, Work
    <3> QED BY <3>1, <3>2
  <2>5. ASSUME NEW u \in completed' PROVE Over(u)'
    <3>1. u \in Works /\ Over(u)
      BY <1>1, <2>1, <2>5 DEF Calm, TypeInv, TypeOK
    <3>2. u # v
      BY <1>8, <3>1 DEF Over
    <3>3. ~Pending(u)' /\ \A t \in Slots : At(t, "work")' => run'[t].work # u
      BY <1>4, <1>6, <1>10, <3>1, <3>2 DEF Over, At, Work
    <3> QED BY <2>1, <3>2, <3>3 DEF Over, Work
  <2> QED BY <2>2, <2>4, <2>5 DEF Calm, Work
<1>16. \A u \in Works : u \notin exposed' \/ faults' = 0 => PendingOnce(u) /\ OneChange(u)
  BY <1>1, <1>14 DEF ReplayInv
<1>17. sweep'.pc = "act" => sweep'.entry.beat = Stale
  BY <1>1 DEF ReplayInv
<1> QED BY <1>12, <1>13, <1>15, <1>16, <1>17 DEF ReplayInv

(* The entry stays where it is, with its mark if it has one, and so do the runs: *)
(* what is left to show is who made which change, and that the entry is fresh.   *)
Beats ==
  /\ tasks' = tasks /\ sweep' = sweep /\ completed' = completed /\ exposed \subseteq exposed'
  /\ faults' = 0 => faults = 0 /\ entry'.by = entry.by
  /\ entry'.there = entry.there /\ entry'.work = entry.work /\ entry'.attempt = entry.attempt
  /\ entry.effects => entry'.effects
  /\ entry'.by \in {entry.by, None}
  /\ \A t \in Slots :
       /\ run'[t].pc = run[t].pc /\ run'[t].work = run[t].work /\ (run[t].did => run'[t].did)
       /\ run'[t].handle = "none" <=> run[t].handle = "none"

LEMMA BeatsWaits ==
  ASSUME ReplayInv, Beats, NEW w \in Works
  PROVE  /\ Pending(w)' <=> Pending(w)
         /\ PendingOnce(w) => PendingOnce(w)'
<1>1. \A t \in Slots : (Begins(t)' <=> Begins(t)) /\ run'[t].work = Work(t)
  BY DEF Beats, Begins, Work
<1>2. (Queued(w)' <=> Queued(w)) /\ (Resumes(w)' <=> Resumes(w)) /\ tasks' = tasks
  BY DEF Beats, Queued, Resumes
<1>3. Pending(w)' <=> Pending(w)
  BY <1>1, <1>2 DEF Pending, Work
<1>4. Claimable(w)' => Claimable(w)
  BY DEF Beats, Claimable
<1>5. WaitsOnce(w) => WaitsOnce(w)'
  BY <1>1, <1>2 DEF WaitsOnce, Work
<1> QED BY <1>3, <1>4, <1>5 DEF PendingOnce

LEMMA BeatsMarks ==
  ASSUME ReplayInv, Beats, NEW t \in Slots, Marks(t)'
  PROVE  Marks(t) /\ run'[t].work = Work(t) /\ (run[t].did => run'[t].did)
BY RunRecoveryAssumption DEF Beats, Marks, At, Owns, Work

LEMMA BeatsChanges ==
  ASSUME ReplayInv, Beats, NEW w \in Works, OneChange(w), changed'[w] = changed[w]
  PROVE  OneChange(w)'
<1>1. \A t \in Slots : Marks(t)' /\ run'[t].work = w /\ ~run'[t].did => ~Pending(w)'
  BY BeatsMarks, BeatsWaits DEF OneChange
<1>2. changed[w] > 0 => Sealed(w)'
  <2> SUFFICES ASSUME Sealed(w) PROVE Sealed(w)'
    BY DEF OneChange
  <2>1. ~Pending(w)'
    BY BeatsWaits DEF Sealed
  <2>2. entry'.there /\ entry'.work = w => entry'.effects
    BY DEF Sealed, Beats
  <2>3. \A t \in Slots : Marks(t)' /\ run'[t].work = w => run'[t].did
    BY BeatsMarks DEF Sealed
  <2> QED BY <2>1, <2>2, <2>3 DEF Sealed, Work
<1> QED BY <1>1, <1>2 DEF OneChange, Work

LEMMA BeatsOnly ==
  ASSUME ReplayInv, Beats, faults' = 0, NEW s \in Slots, NEW w \in Works, OnlyRun(s, w),
         run'[s].did \/ changed'[w] = 0
  PROVE  OnlyRun(s, w)'
<1>1. ~Pending(w)' /\ run'[s].handle # "none"
  BY BeatsWaits DEF OnlyRun, Beats
<1>2. entry'.there /\ entry'.work = w => entry'.by = s
  BY DEF OnlyRun, Beats
<1>3. \A t \in Slots : At(t, "work")' /\ run'[t].work = w => t = s
  BY DEF OnlyRun, Beats, At, Work
<1> QED BY <1>1, <1>2, <1>3 DEF OnlyRun, Work

LEMMA BeatsOver ==
  ASSUME ReplayInv, Beats, faults' = 0, NEW w \in completed'
  PROVE  Over(w)'
<1>1. w \in Works /\ Over(w)
  BY DEF Beats, ReplayInv, TypeInv, TypeOK, Calm
<1>2. ~Pending(w)' /\ \A t \in Slots : At(t, "work")' => run'[t].work # w
  BY <1>1, BeatsWaits DEF Over, Beats, At, Work
<1>3. ASSUME entry'.there, entry'.work = w
      PROVE  \E s \in Slots : /\ run'[s].pc \in {"record", "done"} /\ run'[s].work = w
                              /\ Owns(s)' /\ run'[s].handle # "none"
  <2>1. PICK s \in Slots : /\ run[s].pc \in {"record", "done"} /\ Work(s) = w
                           /\ Owns(s) /\ run[s].handle # "none"
    BY <1>1, <1>3 DEF Over, Beats
  <2> QED BY <1>3, <2>1 DEF Beats, Owns, Work
<1> QED BY <1>2, <1>3 DEF Over, Work

(* What is left to show of a step that only beats: freshness, and the changes *)
(* of the works that made one.                                                *)
LEMMA BeatsKeeps ==
  ASSUME ReplayInv, TypeInv', Beats,
         faults' = 0 => \A s \in Slots : Fresh(s)',
         \A w \in Works : w \notin exposed' \/ faults' = 0 => OneChange(w)',
         faults' = 0 => \A s \in Slots : At(s, "work") => run'[s].did \/ changed'[Work(s)] = 0
  PROVE  ReplayInv'
<1>1. \A w \in Works : w \notin exposed' \/ faults' = 0 => PendingOnce(w)'
  BY BeatsWaits DEF ReplayInv, Beats
<1>2. ASSUME faults' = 0 PROVE Calm'
  <2>1. Calm
    BY <1>2 DEF ReplayInv, Beats
  <2>2. ASSUME NEW s \in Slots, NEW w \in Works, At(s, "work")', run'[s].work = w
        PROVE  OnlyRun(s, w)'
    <3>1. At(s, "work") /\ Work(s) = w
      BY <2>2 DEF Beats, At, Work
    <3> QED BY <1>2, <2>1, <3>1, BeatsOnly DEF Calm
  <2> QED BY <1>2, <2>2, BeatsOver DEF Calm, Work
<1>3. sweep'.pc = "act" => sweep'.entry.beat = Stale
  BY DEF ReplayInv, Beats
<1> QED BY <1>1, <1>2, <1>3 DEF ReplayInv

(* What a write under the tag does to the entry and to the faults. *)
LEMMA Written ==
  ASSUME ReplayInv, NEW s \in Slots, NEW conflict \in BOOLEAN, Write(s, conflict)
  PROVE  /\ faults' = 0 => faults = 0
         /\ faults' = 0 => \/ Owns(s) /\ ~conflict /\ entry' = Beaten(s, s)
                           \/ ~Owns(s) /\ conflict /\ entry' = entry
         /\ entry' = entry \/ (Owns(s) /\ \E by \in {s, None} : entry' = Beaten(s, by))
<1>1. Fault \/ UNCHANGED faults
  BY DEF Write
<1>2. (faults' = 0 => faults = 0) /\ (Fault => faults' # 0)
  BY <1>1, FaultType DEF ReplayInv, TypeInv
<1> QED BY <1>2 DEF Write

LEMMA BeatenKeeps ==
  ASSUME ReplayInv, NEW s \in Slots, NEW by, Owns(s)
  PROVE  /\ Beaten(s, by).there /\ Beaten(s, by).work = entry.work
         /\ Beaten(s, by).attempt = entry.attempt /\ Beaten(s, by).beat = 0
         /\ Beaten(s, by).by = by
         /\ Beaten(s, by).effects = (entry.effects \/ run'[s].did)
<1>1. entry \in Entry /\ entry.there
  BY DEF ReplayInv, TypeInv, EntriesKnown, Owns
<1> QED BY <1>1 DEF Beaten, Entry

LEMMA WriteBeats ==
  ASSUME ReplayInv, NEW s \in Slots, NEW conflict \in BOOLEAN, Write(s, conflict)
  PROVE  /\ faults' = 0 => faults = 0 /\ entry'.by = entry.by
         /\ entry'.there = entry.there /\ entry'.work = entry.work
         /\ entry'.attempt = entry.attempt /\ (entry.effects => entry'.effects)
         /\ entry'.by \in {entry.by, None}
<1>1. CASE entry' = entry
  BY <1>1, Written
<1>2. CASE entry' # entry
  <2>1. PICK by \in {s, None} : entry' = Beaten(s, by) /\ Owns(s)
    BY <1>2, Written
  <2>2. entry.by = s /\ entry.there
    BY <2>1 DEF Owns
  <2>3. faults' = 0 => faults = 0 /\ entry'.by = s
    BY <1>2, <2>1, BeatenKeeps, Written
  <2>4. entry'.by = by
    BY <2>1, BeatenKeeps
  <2> QED BY <2>1, <2>2, <2>3, <2>4, BeatenKeeps
<1> QED BY <1>1, <1>2

(* The entry that a run beat or marked is fresh. *)
LEMMA WriteFresh ==
  ASSUME ReplayInv, faults' = 0, NEW s \in Slots, NEW conflict \in BOOLEAN, Write(s, conflict),
         \A t \in Slots : t # s => run'[t] = run[t],
         run'[s].pc = run[s].pc,
         conflict \/ run'[s].handle = run[s].handle,
         NEW t \in Slots
  PROVE  Fresh(t)'
<1>1. faults = 0 /\ Fresh(t) /\ Fresh(s)
  BY Written DEF ReplayInv, Calm
<1>2. CASE Owns(s) /\ ~conflict /\ entry' = Beaten(s, s)
  <2>1. entry'.by = s /\ entry'.beat = 0
    BY <1>2, BeatenKeeps
  <2>2. CASE t = s
    BY <1>1, <1>2, <2>1, <2>2 DEF Fresh
  <2>3. CASE t # s
    BY <2>1, <2>3 DEF Fresh, Owns
  <2> QED BY <2>2, <2>3
<1>3. CASE ~Owns(s) /\ conflict /\ entry' = entry
  <2>1. CASE t = s
    BY <1>3, <2>1 DEF Fresh, Owns
  <2>2. CASE t # s
    BY <1>1, <1>3, <2>2 DEF Fresh, Owns
  <2> QED BY <2>1, <2>2
<1> QED BY <1>2, <1>3, Written

LEMMA BeatKeeps ==
  ASSUME ReplayInv, TypeInv', NEW s \in Slots, Beat(s)
  PROVE  ReplayInv'
<1>1. PICK conflict \in BOOLEAN :
        /\ Set(s, [run[s] EXCEPT !.beatDue = FALSE, !.handle = IF conflict THEN "silent" ELSE @])
        /\ Write(s, conflict)
  BY DEF Beat
<1>2. /\ run[s] \in Run /\ run \in [Slots -> Run] /\ run[s].handle # "none"
      /\ UNCHANGED <<tasks, sweep, changed, exposed, completed>>
  BY DEF ReplayInv, TypeInv, RunsKnown, RunKnown, Beat, histories, ends
<1> DEFINE r == [run[s] EXCEPT !.beatDue = FALSE, !.handle = IF conflict THEN "silent" ELSE @]
<1>3. /\ r.pc = run[s].pc /\ r.work = run[s].work /\ r.did = run[s].did /\ r.handle # "none"
      /\ conflict \/ r.handle = run[s].handle
  BY <1>2 DEF Run
<1>4. run'[s] = r /\ \A t \in Slots : t # s => run'[t] = run[t]
  BY <1>1, <1>2, SetRun
<1> HIDE DEF r
<1>5. Beats
  BY <1>1, <1>2, <1>3, <1>4, WriteBeats DEF Beats
<1>6. faults' = 0 => \A t \in Slots : Fresh(t)'
  BY <1>1, <1>3, <1>4, WriteFresh
<1>7. \A w \in Works : w \notin exposed' \/ faults' = 0 => OneChange(w)'
  BY <1>2, <1>5, BeatsChanges DEF Beats, ReplayInv
<1>8. ASSUME faults' = 0, NEW t \in Slots, At(t, "work") PROVE run'[t].did \/ changed'[Work(t)] = 0
  <2>1. OnlyRun(t, Work(t))
    BY <1>5, <1>8 DEF Beats, ReplayInv, Calm, TypeInv, RunsKnown, RunKnown, TypeOK, At, Work
  <2> QED BY <1>2, <1>5, <2>1 DEF OnlyRun, Beats
<1> QED BY <1>5, <1>6, <1>7, <1>8, BeatsKeeps

(* A run's first change: the mark seals the entry, or the work is exposed. *)
LEMMA ChangeKeeps ==
  ASSUME ReplayInv, TypeInv', NEW s \in Slots, Change(s)
  PROVE  ReplayInv'
<1>1. PICK w \in Works : Work(s) = w
  BY DEF ReplayInv, TypeInv, TypeOK, RunsKnown, RunKnown, Change, At, Work
<1>2. /\ run[s] \in Run /\ run \in [Slots -> Run] /\ run[s].pc = "work" /\ ~run[s].did
      /\ Set(s, [run[s] EXCEPT !.did = TRUE])
      /\ UNCHANGED <<tasks, sweep, completed>>
      /\ changed \in [Works -> 0 .. 2] /\ changed' = [changed EXCEPT ![w] = Up(@, 2)]
      /\ exposed' = IF run[s].handle # "none" /\ Owns(s) /\ entry'.effects THEN exposed
                    ELSE exposed \cup {w}
      /\ IF run[s].handle = "none" THEN UNCHANGED <<entry, faults>>
         ELSE \E conflict \in BOOLEAN : Write(s, conflict)
  BY <1>1 DEF ReplayInv, TypeInv, TypeOK, RunsKnown, Change, At, ends
<1> DEFINE r == [run[s] EXCEPT !.did = TRUE]
<1>3. r.pc = "work" /\ r.work = run[s].work /\ r.did /\ r.handle = run[s].handle
  BY <1>2 DEF Run
<1>4. run'[s] = r /\ \A t \in Slots : t # s => run'[t] = run[t]
  BY <1>2, SetRun
<1> HIDE DEF r
<1>5. Beats
  <2>1. CASE run[s].handle = "none"
    BY <1>2, <1>3, <1>4, <2>1 DEF Beats
  <2>2. CASE run[s].handle # "none"
    <3>1. PICK conflict \in BOOLEAN : Write(s, conflict)
      BY <1>2, <2>2
    <3> QED BY <1>2, <1>3, <1>4, <3>1, WriteBeats DEF Beats
  <2> QED BY <2>1, <2>2
<1>6. \A v \in Works : v # w => changed'[v] = changed[v]
  BY <1>2
<1>7. changed[w] = 0 => changed'[w] = 1
  BY <1>2 DEF Up
<1>8. ASSUME faults' = 0
      PROVE  run[s].handle # "none" /\ OnlyRun(s, w) /\ changed[w] = 0 /\ faults = 0
  <2>1. OnlyRun(s, w) /\ faults = 0
    BY <1>1, <1>2, <1>5, <1>8 DEF Beats, ReplayInv, Calm, At
  <2> QED BY <1>2, <2>1 DEF OnlyRun
<1>9. ASSUME faults' = 0, NEW t \in Slots PROVE Fresh(t)'
  <2>1. PICK conflict \in BOOLEAN : Write(s, conflict)
    BY <1>2, <1>8, <1>9
  <2> QED BY <1>2, <1>3, <1>4, <1>9, <2>1, WriteFresh
<1>10. ASSUME w \notin exposed' \/ faults' = 0 PROVE OneChange(w)'
  <2>1. OneChange(w) /\ run[s].handle # "none"
    BY <1>2, <1>5, <1>8, <1>10 DEF ReplayInv, Beats
  <2>2. CASE Owns(s) /\ entry'.effects
    <3>1. Marks(s)
      BY <1>2, <2>1, <2>2 DEF Marks, At
    <3>2. changed[w] = 0 /\ ~Pending(w)'
      BY <1>1, <1>2, <1>5, <2>1, <3>1, BeatsWaits DEF OneChange, Sealed, TypeInv, TypeOK
    <3>3. \A t \in Slots : Marks(t)' => t = s
      BY <1>5, <2>2, BeatsMarks DEF Marks, Owns
    <3> QED BY <1>3, <1>4, <1>7, <2>2, <3>2, <3>3 DEF OneChange, Sealed, Work
  <2>3. CASE faults' = 0 /\ ~(Owns(s) /\ entry'.effects)
    <3>1. PICK conflict \in BOOLEAN : Write(s, conflict)
      BY <1>2, <2>1
    <3>2. ASSUME Owns(s) PROVE entry'.effects
      <4>1. entry' = Beaten(s, s)
        BY <2>3, <3>1, <3>2, Written
      <4>2. Beaten(s, s).effects = (entry.effects \/ run'[s].did) /\ run'[s].did
        BY <1>3, <1>4, <3>2, BeatenKeeps
      <4> QED BY <4>1, <4>2
    <3>3. ~Owns(s) /\ entry' = entry
      BY <2>3, <3>1, <3>2, Written
    <3>4. ~(entry'.there /\ entry'.work = w)
      BY <1>8, <2>3, <3>3 DEF OnlyRun, Owns
    <3>5. ~Pending(w)'
      BY <1>5, <1>8, <2>3, BeatsWaits DEF OnlyRun
    <3>6. \A t \in Slots : Marks(t)' /\ run'[t].work = w => t = s
      BY <1>5, <1>8, <2>3, BeatsMarks DEF OnlyRun, Marks
    <3> QED BY <1>3, <1>4, <1>7, <1>8, <2>3, <3>4, <3>5, <3>6 DEF OneChange, Sealed, Work
  <2> QED BY <1>2, <1>10, <2>1, <2>2, <2>3
<1>11. \A v \in Works : v \notin exposed' \/ faults' = 0 => OneChange(v)'
  <2> SUFFICES ASSUME NEW v \in Works, v # w, v \notin exposed' \/ faults' = 0 PROVE OneChange(v)'
    BY <1>10
  <2> QED BY <1>5, <1>6, BeatsChanges DEF Beats, ReplayInv
<1>12. ASSUME faults' = 0, NEW t \in Slots, At(t, "work")
       PROVE  run'[t].did \/ changed'[Work(t)] = 0
  <2>1. CASE t = s
    BY <1>3, <1>4, <2>1
  <2>2. CASE t # s
    <3>1. PICK v \in Works : Work(t) = v
      BY <1>12 DEF ReplayInv, TypeInv, TypeOK, RunsKnown, RunKnown, At, Work
    <3>2. OnlyRun(t, v) /\ v # w
      BY <1>1, <1>2, <1>5, <1>8, <1>12, <2>2, <3>1 DEF Beats, ReplayInv, Calm, OnlyRun, At
    <3> QED BY <1>4, <1>6, <2>2, <3>1, <3>2 DEF OnlyRun
  <2> QED BY <2>1, <2>2
<1> QED BY <1>5, <1>9, <1>11, <1>12, BeatsKeeps

(* Time passes only when every run beat that had to. *)
LEMMA TickKeeps == ASSUME ReplayInv, TypeInv', Tick PROVE ReplayInv'
<1>1. /\ UNCHANGED <<tasks, sweep, faults, changed, exposed, completed>>
      /\ entry \in Entry /\ \A s \in Slots : Quiet(s) /\ run[s] \in Run
      /\ \A s \in Slots : run'[s] = IF At(s, "work")
                                    THEN [run[s] EXCEPT !.beatDue = run[s].handle = "beating",
                                                        !.renewIn = Down(@)]
                                    ELSE run[s]
  BY DEF ReplayInv, TypeInv, RunsKnown, EntriesKnown, Tick, histories, ends
<1>2. ASSUME NEW s \in Slots
      PROVE  /\ run'[s].pc = run[s].pc /\ run'[s].work = run[s].work /\ run'[s].did = run[s].did
             /\ run'[s].handle = run[s].handle
             /\ At(s, "work") /\ run[s].handle = "beating" => run'[s].beatDue
  BY <1>1 DEF Run
<1>3. /\ entry'.there = entry.there /\ entry'.work = entry.work /\ entry'.attempt = entry.attempt
      /\ entry'.effects = entry.effects /\ entry'.by = entry.by
      /\ entry.there => entry'.beat = Up(entry.beat, Stale)
  BY <1>1 DEF Tick, Entry
<1>4. Beats
  BY <1>1, <1>2, <1>3 DEF Beats
<1>5. ASSUME faults' = 0, NEW s \in Slots PROVE Fresh(s)'
  <2> SUFFICES ASSUME run'[s].pc \in {"work", "record", "done"}, run'[s].handle # "none", Owns(s)'
               PROVE  /\ run'[s].handle = "beating"
                      /\ entry'.beat = 0 \/ (entry'.beat <= 1 /\ run'[s].beatDue)
    BY DEF Fresh
  <2>1. Fresh(s) /\ ~run[s].beatDue /\ run[s].pc = "work"
    BY <1>1, <1>2, <1>5 DEF ReplayInv, Calm, Quiet
  <2>2. run[s].handle = "beating" /\ entry.beat = 0 /\ entry.there
    BY <1>2, <1>3, <2>1 DEF Fresh, Owns
  <2>3. entry'.beat = 1
    BY <1>3, <2>2, Constants DEF Up
  <2> QED BY <1>2, <2>1, <2>2, <2>3 DEF At
<1>6. \A w \in Works : w \notin exposed' \/ faults' = 0 => OneChange(w)'
  BY <1>1, <1>4, BeatsChanges DEF ReplayInv
<1>7. ASSUME faults' = 0, NEW t \in Slots, At(t, "work") PROVE run'[t].did \/ changed'[Work(t)] = 0
  <2>1. OnlyRun(t, Work(t))
    BY <1>1, <1>7 DEF ReplayInv, Calm, TypeInv, RunsKnown, RunKnown, TypeOK, At, Work
  <2> QED BY <1>1, <1>2, <2>1 DEF OnlyRun
<1> QED BY <1>4, <1>5, <1>6, <1>7, BeatsKeeps

(* The sweep claims an entry that no run beats: its second start is its last. *)
LEMMA ClaimKeeps ==
  ASSUME ReplayInv, TypeInv', SweepAct, entry = sweep.entry, ~Refused(entry),
         entry' = [entry EXCEPT !.attempt = @ + 1, !.beat = 0, !.by = None]
  PROVE  ReplayInv'
<1>1. PICK w \in Works : entry.work = w
  BY DEF ReplayInv, TypeInv, TypeOK, EntriesKnown, EntryKnown, SweepAct
<1>2. /\ UNCHANGED <<tasks, run, changed, exposed, completed>> /\ (Fault \/ UNCHANGED faults)
      /\ entry \in Entry /\ entry.there /\ entry.attempt >= 1 /\ entry.beat = Stale
      /\ sweep.pc = "act"
  BY DEF ReplayInv, TypeInv, EntriesKnown, EntryKnown, SweepAct, histories, ends
<1>3. entry'.there /\ entry'.work = w /\ entry'.by = None /\ entry'.attempt = entry.attempt + 1
      /\ entry'.beat = 0
  BY <1>1, <1>2 DEF Entry
<1>4. sweep' = [pc |-> "resume", entry |-> entry'] \/ sweep' = NoSweep
  BY DEF SweepAct
<1>5. faults' = 0 => faults = 0
  BY <1>2, FaultType DEF ReplayInv, TypeInv
<1>6. Claimable(w)
  BY <1>1, <1>2, Constants DEF Claimable, Refused, Entry, Attempts
<1>7. ~Claimable(w)'
  BY <1>2, <1>3, Constants DEF Claimable, Entry, Attempts
<1>8. \A t \in Slots : ~Owns(t)' /\ ~Marks(t)'
  BY <1>3, RunRecoveryAssumption DEF Owns, Marks
<1>9. \A u \in Works : (Queued(u)' <=> Queued(u)) /\ (u # w => ~Resumes(u)') /\ ~Resumes(u)
  <2>1. sweep'.pc = "resume" => sweep'.entry = entry'
    BY <1>4 DEF NoSweep
  <2> QED BY <1>2, <1>3, <2>1 DEF Queued, Resumes
<1>10. \A t \in Slots : (Begins(t)' <=> Begins(t)) /\ run'[t] = run[t]
  BY <1>2 DEF Begins
<1>11. \A u \in Works : u # w => (Pending(u)' <=> Pending(u))
  BY <1>9, <1>10 DEF Pending, Work
<1>12. ASSUME NEW u \in Works, u # w, PendingOnce(u), OneChange(u)
       PROVE  PendingOnce(u)' /\ OneChange(u)'
  <2>1. WaitsOnce(u)'
    BY <1>2, <1>9, <1>10, <1>12 DEF PendingOnce, WaitsOnce, Work
  <2>2. ~Claimable(u)'
    BY <1>3, <1>12 DEF Claimable
  <2>3. OneChange(u)'
    BY <1>2, <1>3, <1>8, <1>11, <1>12 DEF OneChange, Sealed
  <2> QED BY <2>1, <2>2, <2>3 DEF PendingOnce
<1>13. ASSUME PendingOnce(w), OneChange(w) PROVE PendingOnce(w)' /\ OneChange(w)'
  <2>1. ~Pending(w) /\ changed[w] \in 0 .. 2 /\ ~(changed[w] > 0)
    BY <1>1, <1>2, <1>6, <1>13 DEF PendingOnce, OneChange, Sealed, Claimable, ReplayInv, TypeInv, TypeOK
  <2>2. ~Queued(w)' /\ \A t \in Slots : ~(Begins(t)' /\ run'[t].work = w)
    BY <1>9, <1>10, <2>1 DEF Pending, Work
  <2>3. WaitsOnce(w)'
    BY <2>2 DEF WaitsOnce, Queued, Work
  <2> QED BY <1>2, <1>7, <1>8, <2>1, <2>3 DEF PendingOnce, OneChange
<1>14. ASSUME faults' = 0 PROVE Calm'
  <2>1. Calm /\ \A t \in Slots : ~(run[t].pc \in {"work", "record", "done"}
                                   /\ run[t].handle # "none" /\ Owns(t))
    BY <1>2, <1>5, <1>14, Constants DEF ReplayInv, Calm, Fresh
  <2>2. ASSUME NEW t \in Slots, NEW u \in Works, At(t, "work")', run'[t].work = u
        PROVE  OnlyRun(t, u)'
    <3>1. At(t, "work") /\ Work(t) = u
      BY <1>10, <2>2 DEF At, Work
    <3>2. OnlyRun(t, u)
      BY <2>1, <3>1 DEF Calm
    <3>3. u # w
      BY <1>1, <1>2, <2>1, <3>1, <3>2 DEF OnlyRun, Owns, At
    <3> QED BY <1>2, <1>3, <1>11, <3>2, <3>3 DEF OnlyRun, At, Work
  <2>3. ASSUME NEW u \in completed' PROVE Over(u)'
    <3>1. u \in Works /\ Over(u)
      BY <1>2, <2>1, <2>3 DEF Calm, ReplayInv, TypeInv, TypeOK
    <3>2. u # w
      BY <1>1, <1>2, <2>1, <3>1 DEF Over
    <3> QED BY <1>2, <1>3, <1>11, <3>1, <3>2 DEF Over, At, Work
  <2>4. \A t \in Slots : Fresh(t)'
    BY <1>8 DEF Fresh
  <2> QED BY <2>2, <2>3, <2>4 DEF Calm, Work
<1>15. sweep'.pc # "act"
  BY <1>4 DEF NoSweep
<1> QED BY <1>2, <1>5, <1>12, <1>13, <1>14, <1>15 DEF ReplayInv

LEMMA SweepActKeeps == ASSUME ReplayInv, TypeInv', SweepAct PROVE ReplayInv'
<1> DEFINE next == IF entry # sweep.entry THEN entry
                   ELSE IF Refused(sweep.entry) THEN NoEntry
                   ELSE [sweep.entry EXCEPT !.attempt = @ + 1, !.beat = 0, !.by = None]
<1>1. /\ UNCHANGED <<tasks, run, changed, exposed, completed>> /\ (Fault \/ UNCHANGED faults)
      /\ entry' \in {entry, next} /\ TypeInv
  BY DEF ReplayInv, SweepAct, histories, ends
<1>2. faults' = 0 => faults = 0 /\ entry' = next
  BY FaultType DEF ReplayInv, TypeInv, SweepAct
<1>3. \A t \in Slots : Follows(run[t], run'[t])
  BY <1>1 DEF Follows
<1>4. CASE entry # sweep.entry \/ (Fault /\ entry' = entry /\ sweep' = NoSweep)
  <2>1. entry' = entry /\ sweep'.pc = "idle"
    BY <1>1, <1>4 DEF SweepAct, NoSweep
  <2>2. StartsNothing
    BY <1>1, <1>2, <1>3, <2>1 DEF StartsNothing, Clears, Work
  <2> QED BY <2>2, StartsNothingKeeps
<1>5. CASE /\ entry = sweep.entry /\ Refused(sweep.entry)
           /\ ~(Fault /\ entry' = entry /\ sweep' = NoSweep)
  <2>1. ~entry'.there /\ sweep'.pc \in {"idle", "report"}
    BY <1>1, <1>5 DEF SweepAct, NoSweep, NoEntry
  <2>2. StartsNothing
    BY <1>1, <1>2, <1>3, <2>1 DEF StartsNothing, Clears
  <2> QED BY <2>2, StartsNothingKeeps
<1>6. CASE /\ entry = sweep.entry /\ ~Refused(sweep.entry)
           /\ ~(Fault /\ entry' = entry /\ sweep' = NoSweep)
  BY <1>6, ClaimKeeps DEF SweepAct
<1> QED BY <1>4, <1>5, <1>6

LEMMA ReplayInit == Init => ReplayInv
<1> SUFFICES ASSUME Init PROVE ReplayInv
  OBVIOUS
<1>1. /\ TypeInv /\ sweep.pc = "idle" /\ tasks = {} /\ ~entry.there /\ completed = {}
      /\ \A s \in Slots : run[s].pc = "idle"
      /\ \A w \in Works : changed[w] = 0
  BY TypeInit DEF Init, NoSweep, NoEntry, IdleRun
<1>2. \A w \in Works : ~Pending(w) /\ ~Claimable(w) /\ WaitsOnce(w)
  BY <1>1 DEF Pending, Claimable, WaitsOnce, Queued, Resumes, Begins
<1>3. Calm
  BY <1>1 DEF Calm, Fresh, At
<1>4. ASSUME NEW w \in Works PROVE OneChange(w)
  <2>1. \A s \in Slots : ~Marks(s)
    BY <1>1 DEF Marks, At
  <2>2. changed[w] = 0
    BY <1>1
  <2> QED BY <2>1, <2>2 DEF OneChange
<1> QED BY <1>1, <1>2, <1>3, <1>4 DEF ReplayInv, PendingOnce

LEMMA ReplayStep == ReplayInv /\ [Next]_vars => ReplayInv'
<1> SUFFICES ASSUME ReplayInv, [Next]_vars PROVE ReplayInv'
  OBVIOUS
<1>1. TypeInv /\ TypeInv'
  BY TypeStep DEF ReplayInv
<1>2. ASSUME NEW s \in Slots, RunStep(s) PROVE ReplayInv'
  <2>1. CASE BeginPut(s)
    BY <1>1, <2>1, BeginPutKeeps
  <2>2. CASE Beat(s)
    BY <1>1, <2>2, BeatKeeps
  <2>3. CASE ~BeginPut(s) /\ ~Beat(s)
    <3>1. StartsNothing
      BY <1>1, <1>2, <2>3, LeaseAside, BeginReadAside, RenewAside, FinishAside,
         RecordAside, DoneAside, ReleaseAside DEF RunStep
    <3> QED BY <1>1, <3>1, StartsNothingKeeps
  <2> QED BY <2>1, <2>2, <2>3
<1>3. ASSUME NEW w \in Works, Trigger(w) PROVE ReplayInv'
  BY <1>1, <1>3, TriggerStarts, StartsKeeps
<1>4. ASSUME NEW s \in Slots, TakeTask(s) \/ CronTick(s) \/ Change(s) \/ Cancel(s) PROVE ReplayInv'
  <2>1. CASE TakeTask(s)
    BY <1>1, <2>1, TakeStarts, StartsKeeps
  <2>2. CASE CronTick(s)
    BY <1>1, <2>2, CronStarts, StartsKeeps
  <2>3. CASE Change(s)
    BY <1>1, <2>3, ChangeKeeps
  <2>4. CASE Cancel(s)
    BY <1>1, <2>4, CancelAside, StartsNothingKeeps
  <2> QED BY <1>4, <2>1, <2>2, <2>3, <2>4
<1>5. ASSUME NEW r \in Replicas, BecomeLeader(r) \/ Crash(r) PROVE ReplayInv'
  BY <1>1, <1>5, LeaderAside, CrashAside, StartsNothingKeeps
<1>6. CASE StepDown \/ SweepRead \/ SweepSkip \/ SweepReport \/ UNCHANGED vars
  BY <1>1, <1>6, LeaderAside, StepDownAside, StartsNothingKeeps
<1>7. CASE SweepAct
  BY <1>1, <1>7, SweepActKeeps
<1>8. CASE SweepResume
  BY <1>1, <1>8, ResumeStarts, StartsKeeps
<1>9. CASE Tick
  BY <1>1, <1>9, TickKeeps
<1> QED BY <1>2, <1>3, <1>4, <1>5, <1>6, <1>7, <1>8, <1>9 DEF Next, SweepStep

(* No work makes changes in two runs, whatever crashes, is cancelled, resumed *)
(* or loses its lease, unless the mark of a change could not be stored.       *)
THEOREM NeverReplayed == Spec => []NoReplayAfterChange
<1>1. Spec => []ReplayInv
  BY ReplayInit, ReplayStep, PTL DEF Spec
<1>2. ReplayInv => NoReplayAfterChange
  <2> SUFFICES ASSUME ReplayInv, NEW w \in Works, changed[w] > 1 PROVE w \in exposed /\ faults > 0
    BY DEF NoReplayAfterChange
  <2>1. changed[w] \in 0 .. 2 /\ faults \in Nat
    BY Constants DEF ReplayInv, TypeInv, TypeOK
  <2> QED BY <2>1 DEF ReplayInv, OneChange
<1> QED BY <1>1, <1>2, PTL

(* Who moves the sweep. *)
LEMMA SweepSteps ==
  ASSUME [Next]_vars
  PROVE  SweepRead \/ SweepAct \/ sweep' = sweep \/ sweep' = NoSweep
<1>1. ASSUME NEW s \in Slots, RunStep(s) PROVE sweep' = sweep
  <2>1. CASE BeginRead(s) \/ BeginPut(s) \/ Beat(s)
    BY <2>1 DEF BeginRead, BeginPut, Beat
  <2>3. CASE \/ ReadLease(s) \/ LeaseUnavailable(s)
             \/ ClaimLease(s) \/ ClaimConflict(s) \/ ClaimMissing(s) \/ ClaimUnanswered(s)
    BY <2>3 DEF ReadLease, LeaseUnavailable, ClaimLease, ClaimConflict, ClaimMissing, ClaimUnanswered
  <2>2. CASE RenewLease(s) \/ Finish(s) \/ Record(s) \/ Done(s) \/ Release(s)
    BY <2>2 DEF RenewLease, Finish, Record, Done, Release
  <2> QED BY <1>1, <2>1, <2>2, <2>3 DEF RunStep
<1>2. ASSUME NEW s \in Slots, TakeTask(s) \/ CronTick(s) \/ Change(s) \/ Cancel(s)
      PROVE  sweep' = sweep
  BY <1>2 DEF TakeTask, CronTick, Change, Cancel
<1>3. ASSUME NEW w \in Works, Trigger(w) PROVE sweep' = sweep
  BY <1>3 DEF Trigger
<1>4. ASSUME NEW r \in Replicas, BecomeLeader(r) \/ Crash(r) PROVE sweep' \in {sweep, NoSweep}
  BY <1>4 DEF BecomeLeader, Crash
<1>5. CASE StepDown \/ Tick \/ SweepResume \/ SweepSkip \/ SweepReport \/ UNCHANGED vars
  BY <1>5 DEF StepDown, Tick, SweepResume, SweepSkip, SweepReport, vars
<1> QED BY <1>1, <1>2, <1>3, <1>4, <1>5 DEF Next, SweepStep

(* A work that completed is neither started again nor reported as interrupted *)
(* by the sweep, unless a call failed: nothing of it is left but the entry its *)
(* run is about to clear, and that one is fresh.                               *)
THEOREM StaysCompleted == Spec => CompletedStaysCompleted
<1> DEFINE Kept == \A w \in completed :
                     \/ faults > 0
                     \/ /\ \A s \in Slots : At(s, "put") /\ Work(s) = w => run'[s].pc # "work"
                        /\ sweep.pc = "act" /\ sweep.entry.work = w => sweep'.pc # "report"
<1>1. Spec => []ReplayInv
  BY ReplayInit, ReplayStep, PTL DEF Spec
<1>2. ReplayInv /\ [Next]_vars => [Kept]_vars
  <2> SUFFICES ASSUME ReplayInv, [Next]_vars, NEW w \in completed, ~(faults > 0)
               PROVE  /\ \A s \in Slots : At(s, "put") /\ Work(s) = w => run'[s].pc # "work"
                      /\ sweep.pc = "act" /\ sweep.entry.work = w => sweep'.pc # "report"
    OBVIOUS
  <2>1. Over(w) /\ Calm /\ w \in Works
    BY Constants DEF ReplayInv, Calm, TypeInv, TypeOK
  <2>2. \A s \in Slots : ~(At(s, "put") /\ Work(s) = w)
    BY <2>1 DEF Over, Pending, Begins, At
  <2>3. ASSUME sweep.pc = "act", sweep.entry.work = w, sweep'.pc = "report" PROVE FALSE
    <3>2. SweepAct
      BY <2>3, SweepSteps DEF NoSweep, SweepRead
    <3>3. entry = sweep.entry /\ entry.there /\ entry.beat = Stale
      BY <2>3, <3>2 DEF SweepAct, NoSweep, ReplayInv, TypeInv, EntriesKnown
    <3>4. PICK s \in Slots : /\ run[s].pc \in {"record", "done"} /\ Owns(s)
                             /\ run[s].handle # "none"
      BY <2>1, <2>3, <3>3 DEF Over
    <3>5. entry.beat <= 1
      BY <2>1, <3>4 DEF Calm, Fresh
    <3> QED BY <3>3, <3>5, Constants
  <2> QED BY <2>2, <2>3
<1> QED BY <1>1, <1>2, PTL DEF Spec, CompletedStaysCompleted

----------------------------------------------------------------------------
\* The run lease.

(* While no call has failed, a run past its claim that has the run lease is    *)
(* the one the lease names, unless another run of its process took it over,    *)
(* and the lease outlasts its next renewal.  A claim whose record is still     *)
(* there as it read it takes nothing from another process: time only wears     *)
(* the record down.                                                            *)
Past(s) == run[s].pc \in {"begin", "put", "work", "record", "done", "release"}
Active(s) == Past(s) /\ run[s].leased
Claims(s) == At(s, "claim") /\ run[s].found

HeldBy(s) ==
  Active(s) /\ s \notin displaced =>
    lease.by = s /\ lease.holder = Host[s] /\ lease.left >= TTL - Period + run[s].renewIn
ReadFree(s) == Claims(s) /\ s \in lease.seen => lease.holder = Host[s] \/ lease.left = 0

LeaseHeld == faults = 0 => \A s \in Slots : HeldBy(s) /\ ReadFree(s)

HeldInv == TypeInv /\ LeaseHeld

(* The lease and the runs' instants stay. *)
LEMMA HeldStays ==
  ASSUME HeldInv, UNCHANGED <<lease, displaced>>, Fault \/ UNCHANGED faults,
         \A s \in Slots : Active(s)' => Active(s) /\ run'[s].renewIn = run[s].renewIn,
         \A s \in Slots : Claims(s)' => Claims(s)
  PROVE  LeaseHeld'
<1>1. faults' = 0 => faults = 0
  BY FaultType DEF HeldInv, TypeInv
<1> QED BY <1>1 DEF HeldInv, LeaseHeld, HeldBy, ReadFree

(* The lease of a run that holds it is not up for grabs. *)
LEMMA HeldLasts ==
  ASSUME HeldInv, faults = 0, NEW s \in Slots, Active(s), s \notin displaced
  PROVE  lease.left > 0 /\ lease.by = s /\ lease.holder = Host[s] /\ Host[s] \in Replicas
<1>1. run[s].renewIn \in 0 .. Period /\ lease.left \in 0 .. TTL
  BY RunFields DEF HeldInv, TypeInv, TypeOK, RunsKnown
<1> QED BY <1>1, Constants DEF HeldInv, LeaseHeld, HeldBy

(* A run that is skipped. *)
LEMMA HeldSkip ==
  ASSUME HeldInv, NEW s \in Slots, Skip(s), UNCHANGED <<lease, displaced>>,
         Fault \/ UNCHANGED faults
  PROVE  LeaseHeld'
<1>1. run'[s] = IdleRun /\ \A t \in Slots : t # s => run'[t] = run[t]
  BY SetRun DEF Skip, HeldInv, TypeInv, RunsKnown
<1>2. \A t \in Slots : Active(t)' => Active(t) /\ run'[t] = run[t]
  BY <1>1 DEF Active, Past, IdleRun
<1>3. \A t \in Slots : Claims(t)' => Claims(t)
  BY <1>1 DEF Claims, At, IdleRun
<1> QED BY <1>2, <1>3, HeldStays

(* A run reads the record: free, expired, or its own process's. *)
LEMMA HeldRead == ASSUME HeldInv, NEW s \in Slots, ReadLease(s) PROVE LeaseHeld'
<1>1. /\ run[s] \in Run /\ run \in [Slots -> Run] /\ UNCHANGED <<faults, displaced>>
      /\ lease \in LeaseType
  BY DEF ReadLease, HeldInv, TypeInv, TypeOK, LeaseType, RunsKnown, ends
<1>2. CASE LeaseFree(s)
  <2> DEFINE found == lease.holder # None
             r == [run[s] EXCEPT !.pc = "claim", !.found = found]
  <2>1. Set(s, r) /\ lease' = [lease EXCEPT !.seen = IF found THEN @ \cup {s} ELSE @]
    BY <1>2 DEF ReadLease
  <2>2. /\ lease'.holder = lease.holder /\ lease'.by = lease.by /\ lease'.left = lease.left
        /\ lease'.seen \subseteq lease.seen \cup {s}
    BY <1>1, <2>1 DEF LeaseType
  <2>3. r.pc = "claim" /\ r.found = found
    BY <1>1 DEF Run
  <2>4. run'[s] = r /\ \A t \in Slots : t # s => run'[t] = run[t]
    BY <1>1, <2>1, SetRun
  <2> HIDE DEF r
  <2> SUFFICES ASSUME faults' = 0, NEW t \in Slots PROVE HeldBy(t)' /\ ReadFree(t)'
    BY DEF LeaseHeld
  <2>5. HeldBy(t) /\ ReadFree(t)
    BY <1>1 DEF HeldInv, LeaseHeld
  <2>6. CASE t = s
    <3>1. ~Active(t)'
      BY <2>3, <2>4, <2>6 DEF Active, Past
    <3>2. Claims(t)' => lease.holder # None
      BY <2>3, <2>4, <2>6 DEF Claims
    <3>3. lease.holder # None => lease.holder = Host[s] \/ lease.left = 0
      BY <1>2 DEF LeaseFree
    <3> QED BY <2>2, <2>6, <3>1, <3>2, <3>3 DEF HeldBy, ReadFree
  <2>7. CASE t # s
    <3>1. run'[t] = run[t] /\ (t \in lease'.seen => t \in lease.seen)
      BY <2>2, <2>4, <2>7
    <3> QED BY <1>1, <2>2, <2>5, <3>1 DEF HeldBy, ReadFree, Active, Past, Claims, At
  <2> QED BY <2>6, <2>7
<1>3. CASE ~LeaseFree(s)
  BY <1>1, <1>3, HeldSkip DEF ReadLease
<1> QED BY <1>2, <1>3

(* A claim that finds the record as it read it takes no lease another process *)
(* still counts on, and displaces its own process's runs.                     *)
LEMMA HeldClaim == ASSUME HeldInv, NEW s \in Slots, ClaimLease(s) PROVE LeaseHeld'
<1>1. /\ run[s] \in Run /\ run \in [Slots -> Run] /\ At(s, "claim") /\ UNCHANGED faults
      /\ AsRead(s)
  BY DEF ClaimLease, HeldInv, TypeInv, RunsKnown
<1> DEFINE r == [run[s] EXCEPT !.pc = "begin", !.found = FALSE, !.leased = TRUE,
                               !.renewIn = Period]
<1>2. r.renewIn = Period /\ r.pc = "begin"
  BY <1>1 DEF Run
<1>3. run'[s] = r /\ \A t \in Slots : t # s => run'[t] = run[t]
  BY <1>1, SetRun DEF ClaimLease
<1>4. lease' = [holder |-> Host[s], by |-> s, left |-> TTL, seen |-> {}]
  BY DEF ClaimLease, Claimed
<1>5. displaced' = (displaced \cup {t \in Slots : Host[t] = Host[s] /\ Holds(t)}) \ {s}
  BY DEF ClaimLease, TakenOver
<1>6. TTL >= TTL - Period + Period
  BY Constants
<1> HIDE DEF r
<1> SUFFICES ASSUME faults' = 0, NEW t \in Slots PROVE HeldBy(t)' /\ ReadFree(t)'
  BY DEF LeaseHeld
<1>7. ReadFree(t)'
  BY <1>4 DEF ReadFree
<1>8. CASE t = s
  BY <1>2, <1>3, <1>4, <1>6, <1>7, <1>8 DEF HeldBy
<1>9. CASE t # s
  <2> SUFFICES ASSUME Active(t)', t \notin displaced' PROVE FALSE
    BY <1>7 DEF HeldBy
  <2>1. Active(t) /\ faults = 0 /\ t \notin displaced
    BY <1>1, <1>3, <1>5, <1>9 DEF Active, Past
  <2>2. lease.left > 0 /\ lease.by = t /\ lease.holder = Host[t] /\ Host[t] \in Replicas
    BY <2>1, HeldLasts
  <2>3. ReadFree(s) /\ lease.holder # None
    BY <2>1, <2>2, RunRecoveryAssumption DEF HeldInv, LeaseHeld
  <2>4. Host[t] = Host[s]
    BY <1>1, <2>2, <2>3 DEF AsRead, ReadFree, Claims
  <2> QED BY <1>5, <1>9, <2>2, <2>4 DEF Holds
<1> QED BY <1>8, <1>9

(* A run whose record is gone goes on with no lease. *)
LEMMA HeldMissing == ASSUME HeldInv, NEW s \in Slots, ClaimMissing(s) PROVE LeaseHeld'
<1>1. /\ run[s] \in Run /\ run \in [Slots -> Run] /\ At(s, "claim") /\ RunKnown(run[s], used)
      /\ UNCHANGED <<faults, lease, displaced>>
  BY DEF ClaimMissing, HeldInv, TypeInv, RunsKnown, histories, ends
<1>2. ~Unleased(s).leased /\ Unleased(s).pc = "begin"
  BY <1>1 DEF Unleased, RunKnown, At, Run
<1>3. run'[s] = Unleased(s) /\ \A t \in Slots : t # s => run'[t] = run[t]
  BY <1>1, SetRun DEF ClaimMissing
<1>4. \A t \in Slots : Active(t)' => Active(t) /\ run'[t] = run[t]
  BY <1>2, <1>3 DEF Active, Past
<1>5. \A t \in Slots : Claims(t)' => Claims(t)
  BY <1>2, <1>3 DEF Claims, At
<1> QED BY <1>1, <1>4, <1>5, HeldStays

(* A run that renews the lease, or has lost it to another run of its process. *)
LEMMA HeldRenew == ASSUME HeldInv, NEW s \in Slots, RenewLease(s) PROVE LeaseHeld'
<1> SUFFICES ASSUME faults' = 0, NEW t \in Slots PROVE HeldBy(t)' /\ ReadFree(t)'
  BY DEF LeaseHeld
<1>1. /\ run[s] \in Run /\ run \in [Slots -> Run] /\ run[s].pc = "work" /\ run[s].leased
      /\ displaced' = displaced /\ lease \in LeaseType
  BY DEF RenewLease, HeldInv, TypeInv, TypeOK, LeaseType, RunsKnown, histories, ends, At
<1>2. (Fault \/ UNCHANGED faults) /\ (faults' = 0 => faults = 0) /\ (Fault => faults' # 0)
  BY FaultType DEF RenewLease, HeldInv, TypeInv
<1>3. /\ faults = 0
      /\ lease' = IF Holds(s) THEN [lease EXCEPT !.by = s, !.left = TTL, !.seen = {}] ELSE lease
      /\ Set(s, [run[s] EXCEPT !.renewIn = Period, !.live = Holds(s)])
  BY <1>2 DEF RenewLease
<1> DEFINE r == [run[s] EXCEPT !.renewIn = Period, !.live = Holds(s)]
<1>4. r.leased /\ r.renewIn = Period /\ r.pc = "work"
  BY <1>1 DEF Run
<1>5. run'[s] = r /\ \A u \in Slots : u # s => run'[u] = run[u]
  BY <1>1, <1>3, SetRun
<1> HIDE DEF r
<1>6. HeldBy(t) /\ ReadFree(t)
  BY <1>3 DEF HeldInv, LeaseHeld
<1>7. (Active(t)' => Active(t)) /\ (Claims(t)' => Claims(t))
  BY <1>1, <1>4, <1>5 DEF Active, Past, Claims, At
<1>8. ReadFree(t)'
  <2>1. CASE Holds(s)
    <3>1. lease'.seen = {}
      BY <1>1, <1>3, <2>1 DEF LeaseType
    <3> QED BY <3>1 DEF ReadFree
  <2>2. CASE ~Holds(s)
    BY <1>3, <1>6, <1>7, <2>2 DEF ReadFree
  <2> QED BY <2>1, <2>2
<1>9. ASSUME Active(t)', t \notin displaced
      PROVE  lease'.by = t /\ lease'.holder = Host[t] /\ lease'.left >= TTL - Period + run'[t].renewIn
  <2>1. lease.by = t /\ lease.holder = Host[t] /\ lease.left >= TTL - Period + run[t].renewIn
    BY <1>6, <1>7, <1>9 DEF HeldBy
  <2>2. CASE t = s
    <3>1. lease'.by = s /\ lease'.left = TTL /\ lease'.holder = lease.holder
      BY <1>1, <1>3, <2>1, <2>2 DEF Holds, LeaseType
    <3> QED BY <1>4, <1>5, <2>1, <2>2, <3>1, Constants
  <2>3. CASE t # s
    BY <1>3, <1>5, <2>1, <2>3 DEF Holds
  <2> QED BY <2>2, <2>3
<1> QED BY <1>1, <1>8, <1>9 DEF HeldBy

(* A run gives up the lease it holds; it was no other run's. *)
LEMMA HeldRelease == ASSUME HeldInv, NEW s \in Slots, Release(s) PROVE LeaseHeld'
<1> SUFFICES ASSUME faults' = 0, NEW t \in Slots PROVE HeldBy(t)' /\ ReadFree(t)'
  BY DEF LeaseHeld
<1>1. run \in [Slots -> Run] /\ displaced' = displaced
  BY DEF Release, HeldInv, TypeInv, RunsKnown, histories, ends
<1>2. (Fault \/ UNCHANGED faults) /\ (faults' = 0 => faults = 0) /\ (Fault => faults' # 0)
  BY FaultType DEF Release, HeldInv, TypeInv
<1>3. faults = 0 /\ lease' = IF Holds(s) THEN NoLease ELSE lease
  BY <1>2 DEF Release
<1>4. run'[s] = IdleRun /\ \A u \in Slots : u # s => run'[u] = run[u]
  BY <1>1, SetRun DEF Release
<1>5. HeldBy(t) /\ ReadFree(t)
  BY <1>3 DEF HeldInv, LeaseHeld
<1>6. Active(t)' \/ Claims(t)' => t # s /\ run'[t] = run[t]
  BY <1>4 DEF Active, Past, Claims, At, IdleRun
<1>7. ReadFree(t)'
  <2>1. CASE Holds(s)
    BY <1>3, <2>1 DEF NoLease, ReadFree
  <2>2. CASE ~Holds(s)
    BY <1>3, <1>5, <1>6, <2>2 DEF ReadFree, Claims, At
  <2> QED BY <2>1, <2>2
<1>8. HeldBy(t)'
  BY <1>1, <1>3, <1>5, <1>6 DEF HeldBy, Active, Past, Holds
<1> QED BY <1>7, <1>8

(* Time passes only while every run that goes on has renewed in time. *)
LEMMA HeldTick == ASSUME HeldInv, Tick PROVE LeaseHeld'
<1> SUFFICES ASSUME faults' = 0, NEW t \in Slots PROVE HeldBy(t)' /\ ReadFree(t)'
  BY DEF LeaseHeld
<1>1. /\ run[t] \in Run /\ Quiet(t) /\ faults = 0 /\ displaced' = displaced
      /\ lease \in LeaseType /\ lease' = [lease EXCEPT !.left = Down(@)]
      /\ run'[t] = IF At(t, "work")
                   THEN [run[t] EXCEPT !.beatDue = run[t].handle = "beating", !.renewIn = Down(@)]
                   ELSE run[t]
  BY DEF Tick, HeldInv, TypeInv, TypeOK, RunsKnown, LeaseType, histories, ends
<1>2. ~Claims(t)'
  <2>1. run'[t].pc = run[t].pc
    BY <1>1 DEF Run
  <2> QED BY <1>1, <2>1 DEF Quiet, Claims, At
<1>3. ASSUME Active(t)', t \notin displaced
      PROVE  lease'.by = t /\ lease'.holder = Host[t] /\ lease'.left >= TTL - Period + run'[t].renewIn
  <2>1. At(t, "work")
    <3>1. run[t].pc # "idle"
      BY <1>1, <1>3 DEF Active, Past, At
    <3> QED BY <1>1, <3>1 DEF Quiet, At
  <2>2. run'[t].leased = run[t].leased /\ run'[t].renewIn = Down(run[t].renewIn)
    BY <1>1, <2>1 DEF Run
  <2>3. Active(t)
    BY <1>3, <2>1, <2>2 DEF Active, Past, At
  <2>4. run[t].renewIn > 0 /\ run[t].renewIn \in 0 .. Period
    BY <1>1, <2>1, <2>3, RunFields DEF Quiet, Active, Past
  <2>5. lease'.by = lease.by /\ lease'.holder = lease.holder /\ lease'.left = Down(lease.left)
        /\ lease.left \in 0 .. TTL
    BY <1>1 DEF LeaseType
  <2>6. lease.by = t /\ lease.holder = Host[t] /\ lease.left >= TTL - Period + run[t].renewIn
    BY <1>1, <1>3, <2>3 DEF HeldInv, LeaseHeld, HeldBy
  <2>7. Down(lease.left) >= TTL - Period + Down(run[t].renewIn)
    BY <2>4, <2>5, <2>6, Constants DEF Down
  <2> QED BY <2>2, <2>5, <2>6, <2>7
<1> QED BY <1>1, <1>2, <1>3 DEF HeldBy, ReadFree

(* A run that goes on through one of its other steps. *)
LEMMA HeldSet ==
  ASSUME HeldInv, UNCHANGED <<lease, displaced>>, Fault \/ UNCHANGED faults,
         NEW s \in Slots, NEW r, Set(s, r), r.pc # "claim", r.pc = run[s].pc \/ Past(s),
         r.leased = run[s].leased, r.renewIn = run[s].renewIn
  PROVE  LeaseHeld'
<1>1. run'[s] = r /\ \A t \in Slots : t # s => run'[t] = run[t]
  BY SetRun DEF HeldInv, TypeInv, RunsKnown
<1>2. ASSUME NEW t \in Slots, Active(t)' PROVE Active(t) /\ run'[t].renewIn = run[t].renewIn
  BY <1>1, <1>2 DEF Active, Past
<1>3. \A t \in Slots : Claims(t)' => Claims(t)
  BY <1>1 DEF Claims, At
<1> QED BY <1>2, <1>3, HeldStays

LEMMA HeldRunStep ==
  ASSUME HeldInv, NEW s \in Slots, RunStep(s) \/ Change(s) \/ Cancel(s)
  PROVE  LeaseHeld'
<1>1. run[s] \in Run /\ RunKnown(run[s], used) /\ TypeInv
  BY DEF HeldInv, TypeInv, RunsKnown
<1>2. CASE LeaseUnavailable(s) \/ ClaimUnanswered(s)
  BY <1>1, <1>2, FaultType DEF TypeInv, LeaseUnavailable, ClaimUnanswered, LeaseHeld
<1>3. CASE BeginRead(s)
  <2>1. PICK r \in {[run[s] EXCEPT !.pc = "put", !.attempt = entry.attempt, !.age = entry.age],
                    [run[s] EXCEPT !.pc = "put", !.attempt = 1]} : Set(s, r)
    BY <1>3 DEF BeginRead
  <2>2. r.leased = run[s].leased /\ r.renewIn = run[s].renewIn /\ r.pc = "put" /\ Past(s)
    BY <1>1, <1>3, <2>1 DEF Run, BeginRead, Past, At
  <2> QED BY <1>3, <2>1, <2>2, HeldSet DEF BeginRead, histories, ends
<1>4. CASE BeginPut(s)
  <2>1. PICK handle : Executing(s, handle)
    BY <1>4 DEF BeginPut
  <2> DEFINE r == [run[s] EXCEPT !.pc = "work", !.age = 0, !.attempt = 0, !.handle = handle]
  <2>2. r.leased = run[s].leased /\ r.renewIn = run[s].renewIn /\ r.pc = "work" /\ Past(s)
    BY <1>1, <1>4 DEF Run, BeginPut, Past, At
  <2> HIDE DEF r
  <2>3. Set(s, r) /\ UNCHANGED displaced
    BY <2>1 DEF Executing, r, ends
  <2> QED BY <1>4, <2>2, <2>3, HeldSet DEF BeginPut
<1>5. CASE Beat(s)
  <2>1. PICK conflict : Set(s, [run[s] EXCEPT !.beatDue = FALSE,
                                              !.handle = IF conflict THEN "silent" ELSE @])
                        /\ Write(s, conflict)
    BY <1>5 DEF Beat
  <2> DEFINE r == [run[s] EXCEPT !.beatDue = FALSE, !.handle = IF conflict THEN "silent" ELSE @]
  <2>2. /\ r.leased = run[s].leased /\ r.renewIn = run[s].renewIn
        /\ r.pc = run[s].pc
    BY <1>1 DEF Run
  <2> HIDE DEF r
  <2>3. run[s].pc # "claim"
    BY <1>1, <1>5 DEF RunKnown, Beat
  <2>4. Set(s, r) /\ (Fault \/ UNCHANGED faults)
    BY <2>1 DEF r, Write
  <2> QED BY <1>5, <2>2, <2>3, <2>4, HeldSet DEF Beat, histories, ends
<1>6. CASE Finish(s)
  <2> DEFINE cut == [run[s] EXCEPT !.pc = "record", !.result = "interrupted", !.handle = "none",
                                   !.beatDue = FALSE]
             ended(result) == [run[s] EXCEPT !.pc = "record", !.result = result]
  <2>1. \A r : r = cut \/ (\E result : r = ended(result)) =>
                r.leased = run[s].leased /\ r.renewIn = run[s].renewIn /\ r.pc = "record"
    BY <1>1 DEF Run
  <2>2. \E r : Set(s, r) /\ (r = cut \/ \E result : r = ended(result))
    BY <1>6 DEF Finish
  <2>3. Past(s)
    BY <1>6 DEF Finish, At, Past
  <2> QED BY <1>6, <2>1, <2>2, <2>3, HeldSet DEF Finish
<1>7. CASE Record(s)
  <2>1. PICK pc \in {"release", "done"} : Set(s, [run[s] EXCEPT !.pc = pc])
    BY <1>7 DEF Record
  <2> DEFINE r == [run[s] EXCEPT !.pc = pc]
  <2>2. r.leased = run[s].leased /\ r.renewIn = run[s].renewIn /\ r.pc = pc /\ Past(s)
    BY <1>1, <1>7 DEF Run, Record, Past, At
  <2> QED BY <1>7, <2>1, <2>2, HeldSet DEF Record
<1>8. CASE Done(s)
  <2> DEFINE r == [run[s] EXCEPT !.pc = "release", !.handle = "none", !.beatDue = FALSE]
  <2>1. r.leased = run[s].leased /\ r.renewIn = run[s].renewIn /\ r.pc = "release" /\ Past(s)
        /\ Set(s, r)
    BY <1>1, <1>8 DEF Run, Done, Past, At
  <2> QED BY <1>8, <2>1, HeldSet DEF Done, histories, ends
<1>9. CASE Change(s)
  <2> DEFINE r == [run[s] EXCEPT !.did = TRUE]
  <2>1. r.leased = run[s].leased /\ r.renewIn = run[s].renewIn /\ r.pc = "work" /\ Past(s)
        /\ Set(s, r)
    BY <1>1, <1>9 DEF Run, Change, Past, At
  <2>2. Fault \/ UNCHANGED faults
    BY <1>9 DEF Change, Write
  <2> QED BY <1>9, <2>1, <2>2, HeldSet DEF Change, ends
<1>10. CASE Cancel(s)
  <2> DEFINE r == [run[s] EXCEPT !.live = FALSE]
  <2>1. r.leased = run[s].leased /\ r.renewIn = run[s].renewIn /\ r.pc = "work" /\ Past(s)
        /\ Set(s, r)
    BY <1>1, <1>10 DEF Run, Cancel, Past, At
  <2> QED BY <1>10, <2>1, HeldSet DEF Cancel, histories, ends
<1>11. CASE ClaimConflict(s)
  BY <1>11, HeldSkip DEF ClaimConflict, ends
<1> QED BY <1>2, <1>3, <1>4, <1>5, <1>6, <1>7, <1>8, <1>9, <1>10, <1>11, HeldRead, HeldClaim,
           HeldMissing, HeldRenew, HeldRelease DEF RunStep

(* A run that is admitted has yet to read the lease. *)
LEMMA HeldAdmit ==
  ASSUME HeldInv, UNCHANGED <<lease, displaced>>, Fault \/ UNCHANGED faults,
         NEW s \in Slots, NEW w, NEW cron, Idle(s), Admit(s, w, cron)
  PROVE  LeaseHeld'
<1>1. \A t \in Slots : run'[t] = run[t] \/ (t = s /\ Admitted(run[t], run'[t], w))
  BY AdmitSlots DEF HeldInv
<1>2. \A t \in Slots : Active(t)' => Active(t) /\ run'[t] = run[t]
  BY <1>1 DEF Active, Past, Admitted
<1>3. \A t \in Slots : Claims(t)' => Claims(t)
  BY <1>1 DEF Claims, At, Admitted
<1> QED BY <1>2, <1>3, HeldStays

LEMMA HeldSchedule ==
  ASSUME HeldInv, UNCHANGED <<lease, displaced>>, NEW w, NEW a, Schedule(w, a)
  PROVE  LeaseHeld'
<1>1. Fault \/ UNCHANGED faults
  BY DEF Schedule
<1>2. CASE UNCHANGED run
  BY <1>1, <1>2, HeldStays DEF Active, Past, Claims, At
<1>3. CASE \E s \in Slots : Idle(s) /\ Admit(s, w, FALSE)
  BY <1>1, <1>3, HeldAdmit
<1> QED BY <1>2, <1>3 DEF Schedule

LEMMA HeldStep == HeldInv /\ [Next]_vars => HeldInv'
<1> SUFFICES ASSUME HeldInv, [Next]_vars PROVE LeaseHeld'
  BY TypeStep DEF HeldInv
<1>1. ASSUME NEW s \in Slots, TakeTask(s) \/ CronTick(s) \/ RunStep(s) \/ Change(s) \/ Cancel(s)
      PROVE  LeaseHeld'
  <2>1. CASE TakeTask(s) \/ CronTick(s)
    BY <2>1, HeldAdmit DEF TakeTask, CronTick, ends
  <2> QED BY <1>1, <2>1, HeldRunStep
<1>2. ASSUME NEW w \in Works, Trigger(w) PROVE LeaseHeld'
  BY <1>2, HeldSchedule DEF Trigger, ends
<1>3. CASE SweepResume
  BY <1>3, HeldSchedule DEF SweepResume, ends
<1>4. ASSUME NEW r \in Replicas, BecomeLeader(r) PROVE LeaseHeld'
  BY <1>4, HeldStays DEF BecomeLeader, histories, ends, Active, Past, Claims, At
<1>5. ASSUME NEW r \in Replicas, Crash(r) PROVE LeaseHeld'
  <2>1. \A s \in Slots : run'[s] = run[s] \/ run'[s] = IdleRun
    BY <1>5 DEF Crash
  <2>2. \A s \in Slots : Active(s)' => Active(s) /\ run'[s] = run[s]
    BY <2>1 DEF Active, Past, IdleRun
  <2>3. \A s \in Slots : Claims(s)' => Claims(s)
    BY <2>1 DEF Claims, At, IdleRun
  <2> QED BY <1>5, <2>2, <2>3, HeldStays DEF Crash
<1>6. CASE StepDown
  <2>1. \A s \in Slots : run[s] \in Run /\ run'[s] \in {run[s], [run[s] EXCEPT !.live = FALSE]}
    BY <1>6 DEF StepDown, HeldInv, TypeInv, RunsKnown
  <2>2. \A s \in Slots : /\ run'[s].leased = run[s].leased /\ run'[s].renewIn = run[s].renewIn
                         /\ run'[s].pc = run[s].pc /\ run'[s].found = run[s].found
    BY <2>1 DEF Run
  <2>3. \A s \in Slots : /\ Active(s)' => Active(s) /\ run'[s].renewIn = run[s].renewIn
                         /\ Claims(s)' => Claims(s)
    BY <2>2 DEF Active, Past, Claims, At
  <2> QED BY <1>6, <2>3, HeldStays DEF StepDown, histories, ends
<1>7. CASE SweepRead \/ SweepAct \/ SweepSkip \/ SweepReport \/ UNCHANGED vars
  <2>1. UNCHANGED <<lease, displaced, run>> /\ (Fault \/ UNCHANGED faults)
    BY <1>7 DEF SweepRead, SweepAct, SweepSkip, SweepReport, vars, histories, ends
  <2> QED BY <2>1, HeldStays DEF Active, Past, Claims, At
<1> QED BY <1>1, <1>2, <1>3, <1>4, <1>5, <1>6, <1>7, HeldTick DEF Next, SweepStep

(* While no store call fails, no two runs that hold the run lease work at     *)
(* once, in one process or in two, through crashes, elections, claims that    *)
(* race and resumed runs, but for a run whose lease another run of its own    *)
(* process took over; a run that goes on without the lease, because the       *)
(* record its claim read was released before the claim wrote, is past it.     *)
THEOREM RunsExclude == Spec => []NeverConcurrent
<1>1. Init => HeldInv
  BY TypeInit DEF Init, HeldInv, LeaseHeld, HeldBy, ReadFree, Active, Past, Claims, At, IdleRun
<1>2. HeldInv => NeverConcurrent
  <2> SUFFICES ASSUME HeldInv, faults = 0, NEW s \in Slots, NEW t \in Slots,
                      s \notin displaced, t \notin displaced, run[s].leased, run[t].leased,
                      At(s, "work"), At(t, "work")
               PROVE  s = t
    BY DEF NeverConcurrent
  <2>1. Active(s) /\ Active(t)
    BY DEF Active, Past, At
  <2> QED BY <2>1, HeldLasts
<1> QED BY <1>1, <1>2, HeldStep, PTL DEF Spec

=============================================================================
