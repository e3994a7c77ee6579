---------------------------- MODULE RunRecovery ----------------------------
(***************************************************************************)
(* How one workflow's runs survive their process: workflows.runOnce with   *)
(* its run lease and the outcome it stores, the in-flight journal          *)
(* (internal/journal) and its sweep, and the at-most-once queue topic that *)
(* starts triggered and resumed runs.  The lease and the queue are used    *)
(* through what Lease and Queue establish: a claim takes a task out for    *)
(* good, a conditional write is atomic.                                    *)
(*                                                                         *)
(* A slot is a goroutine that can execute the workflow.  A work is one     *)
(* trigger; its resumed runs are the same work.  Instants are ticks left   *)
(* (or passed, for beat and age), saturating.  An ETag is the slot that    *)
(* wrote the object and knows it (by), or None when no one does, and for   *)
(* the lease the claims that have read it (seen).                          *)
(***************************************************************************)
EXTENDS Integers, FiniteSets

CONSTANTS
  Replicas, Slots,
  Host,         \* the process of each slot
  Works,        \* triggers
  MaxAttempts,  \* maxRunAttempts
  MaxConsecutiveFailures,  \* MaxConsecutiveFailures
  Stale,        \* staleAfter: silent heartbeats that mean an interrupted run
  MaxAge,       \* resumeWindow and carryWindow (both one hour)
  TTL, Period,  \* run lease: lifetime and renewal period
  Sweep,        \* recoverySweepInterval
  Election,     \* longest time without a leader
  MaxFaults,    \* bound: store calls that fail
  MaxCrashes,   \* bound: processes that die
  MaxLost,      \* bound: terms given up by a live leader
  StartCap      \* bound of the starts counters (0: not counted)

None == "none"

\* At most two starts (maxRunAttempts): an entry claimed a second time while its
\* first resumed run waits in the queue would put the run there twice.  An entry
\* outlives a heartbeat that is late by one (staleAfter is six heartbeats), and
\* the run lease a renewal (ttl/3).
ASSUME RunRecoveryAssumption ==
  /\ None \notin Replicas \cup Slots \cup Works
  /\ Host \in [Slots -> Replicas]
  /\ MaxAttempts \in 1 .. 2 /\ MaxConsecutiveFailures \in Nat \ {0}
  /\ {MaxAge, Sweep, Election, MaxFaults, MaxCrashes, MaxLost, StartCap} \subseteq Nat
  /\ Stale \in Nat /\ Stale >= 2
  /\ TTL \in Nat /\ Period \in Nat /\ Period < TTL

VARIABLES
  lease,    \* locks/workflows/<id>
  entry,    \* journal/workflow-run/<id>
  tasks,    \* the workflow-run topic
  run,      \* runOnce in each slot
  enabled, failures,  \* the stored workflow: Enabled, ConsecutiveFailures
  leader,   \* the replica holding the scheduling lease, or None
  busy,     \* the slot holding the leader's runner.busy flag, or None
  sweep,    \* the leader's recovery sweep
  electIn, sweepIn,
  crashed,
  used,     \* triggers that have happened
  faults,
  lost,     \* terms given up
  starts,   \* history: runs of a work that got as far as executing, up to StartCap
  changed,  \* history: runs of a work that made a change outside, up to 2
  exposed,  \* history: works with a change the journal could not record, or both
            \* queued and run at once after an Enqueue of unknown outcome
  displaced,  \* history: runs whose lease another run of their own process took over
  killed,   \* history: works cut short by a crash and not yet accounted for
  completed \* history: works a run of which produced a result and lived to clear its entry

vars == <<lease, entry, tasks, run, enabled, failures, leader, busy, sweep, electIn, sweepIn,
          crashed, used, faults, lost, starts, changed, exposed, displaced, killed, completed>>

env == <<electIn, sweepIn, crashed, used, lost>>
ends == <<enabled, failures, completed, displaced>>
histories == <<starts, changed, exposed, killed, ends>>

NoEntry == [there |-> FALSE, work |-> None, attempt |-> 0, effects |-> FALSE, beat |-> 0,
            age |-> 0, by |-> None]
\* seen: the claims that have read this very record, whose IfMatch is met.
NoLease == [holder |-> None, by |-> None, left |-> 0, seen |-> {}]
IdleRun == [pc |-> "idle", work |-> None, attempt |-> 0, age |-> 0, cron |-> FALSE,
            found |-> FALSE, leased |-> FALSE, result |-> "none", handle |-> "none",
            live |-> TRUE, did |-> FALSE, beatDue |-> FALSE, renewIn |-> 0]
NoSweep == [pc |-> "idle", entry |-> NoEntry]

Attempts == 0 .. MaxAttempts + 1

Entry == [there: BOOLEAN, work: Works \cup {None}, attempt: Attempts, effects: BOOLEAN,
          beat: 0 .. Stale, age: 0 .. MaxAge + 1, by: Slots \cup {None}]
Run == [pc: {"idle", "acquire", "claim", "begin", "put", "work", "record", "done", "release"},
        work: Works \cup {None}, attempt: Attempts, age: 0 .. MaxAge + 1, cron: BOOLEAN,
        found: BOOLEAN, leased: BOOLEAN, result: {"none", "ok", "failed", "interrupted"},
        handle: {"none", "beating", "silent"}, live: BOOLEAN, did: BOOLEAN,
        beatDue: BOOLEAN, renewIn: 0 .. Period]

TypeOK ==
  /\ lease \in [holder: Replicas \cup {None}, by: Slots \cup {None}, left: 0 .. TTL,
                seen: SUBSET Slots]
  /\ entry \in Entry
  /\ tasks \subseteq [work: Works, attempt: Attempts]
  /\ run \in [Slots -> Run]
  /\ leader \in Replicas \cup {None}
  /\ busy \in Slots \cup {None}
  /\ sweep \in [pc: {"idle", "act", "resume", "report"}, entry: Entry]
  /\ electIn \in 0 .. Election /\ sweepIn \in 0 .. Sweep
  /\ crashed \subseteq Replicas
  /\ used \subseteq Works
  /\ faults \in 0 .. MaxFaults /\ lost \in 0 .. MaxLost
  /\ starts \in [Works -> 0 .. StartCap] /\ changed \in [Works -> 0 .. 2]
  /\ enabled \in BOOLEAN /\ failures \in 0 .. MaxConsecutiveFailures
  /\ displaced \subseteq Slots
  /\ exposed \subseteq Works /\ killed \subseteq Works /\ completed \subseteq Works

Init ==
  /\ lease = NoLease /\ entry = NoEntry /\ tasks = {}
  /\ run = [s \in Slots |-> IdleRun]
  /\ leader = None /\ busy = None /\ sweep = NoSweep
  /\ electIn = Election /\ sweepIn = 0
  /\ crashed = {} /\ used = {} /\ lost = 0 /\ faults = 0
  /\ starts = [w \in Works |-> 0] /\ changed = [w \in Works |-> 0]
  /\ enabled = TRUE /\ failures = 0
  /\ displaced = {} /\ exposed = {} /\ killed = {} /\ completed = {}

----------------------------------------------------------------------------
\* Mutant: an instant goes on counting below now.
DownUnbounded(n) == n - 1
Down(n) == IF n = 0 THEN 0 ELSE n - 1
Up(n, cap) == IF n = cap THEN cap ELSE n + 1

Fault == faults < MaxFaults /\ faults' = faults + 1
At(s, pc) == run[s].pc = pc
Set(s, r) == run' = [run EXCEPT ![s] = r]
Work(s) == run[s].work
Owns(s) == entry.there /\ entry.by = s
Holds(s) == lease.by = s

(* The workflow's runner is where scheduling runs, while it is enabled; that *)
(* the leader hears of it at its next Refresh only is left out.              *)
Runner(s) == Host[s] = leader /\ enabled

(* runOnce starts: the runner's busy flag is a try-lock; a run that does not *)
(* get it is skipped.                                                        *)
Skipped(w) == killed' = IF \E t \in Slots : At(t, "work") THEN killed \ {w} ELSE killed

Admit(s, w, cron) ==
  IF Runner(s) /\ busy # None
  THEN UNCHANGED <<run, busy>> /\ Skipped(w)
  ELSE /\ Set(s, [IdleRun EXCEPT !.pc = "acquire", !.work = w, !.cron = cron])
       /\ busy' = IF Runner(s) THEN s ELSE busy
       /\ UNCHANGED killed

Idle(s) == At(s, "idle") /\ Host[s] \notin crashed

(* Trigger enqueues the run; when that fails, although the task may have been *)
(* stored, it runs on this replica instead.                                   *)
Schedule(w, attempt) ==
  LET queued == tasks \cup {[work |-> w, attempt |-> attempt]}
  IN \/ /\ tasks' = queued /\ UNCHANGED <<run, busy, killed, faults>>
        /\ UNCHANGED exposed
     \/ /\ Fault /\ tasks' \in {tasks, queued}
        /\ exposed' = IF tasks' = tasks THEN exposed ELSE exposed \cup {w}
        /\ \E s \in Slots : Idle(s) /\ Admit(s, w, FALSE)

(* A manual, event-driven or catch-up run. *)
Trigger(w) ==
  /\ w \notin used
  /\ used' = used \cup {w}
  /\ Schedule(w, 1)
  /\ UNCHANGED <<lease, entry, leader, sweep, electIn, sweepIn, crashed, lost, starts, changed, ends>>

(* The queue's claim drops the task and calls runQueued. *)
TakeTask(s) ==
  /\ Idle(s)
  /\ \E t \in tasks : tasks' = tasks \ {t} /\ Admit(s, t.work, FALSE)
  /\ UNCHANGED <<lease, entry, leader, sweep, faults>> /\ UNCHANGED env
  /\ UNCHANGED <<starts, changed, exposed, ends>>

(* A scheduled fire runs directly on the leader, under its held context. *)
CronTick(s) ==
  /\ Idle(s) /\ Runner(s)
  /\ \E w \in Works \ used : used' = used \cup {w} /\ Admit(s, w, TRUE)
  /\ UNCHANGED <<lease, entry, tasks, leader, sweep, electIn, sweepIn, crashed, lost, faults>>
  /\ UNCHANGED <<starts, changed, exposed, ends>>

FreeBusy(s) == busy' = IF busy = s THEN None ELSE busy
Skip(s) == Set(s, IdleRun) /\ FreeBusy(s) /\ Skipped(Work(s))

\* Mutant: the run lease is taken whoever holds it.
LeaseTaken(s) == TRUE
\* The run lease is free, expired, or held by this same process.
LeaseFree(s) == lease.holder \in {None, Host[s]} \/ lease.left = 0

(* claim reads the record: while another process holds it, the run is skipped. *)
ReadLease(s) ==
  /\ At(s, "acquire")
  /\ IF LeaseFree(s)
     THEN LET found == lease.holder # None
          IN /\ Set(s, [run[s] EXCEPT !.pc = "claim", !.found = found])
             /\ lease' = [lease EXCEPT !.seen = IF found THEN @ \cup {s} ELSE @]
             /\ UNCHANGED <<busy, killed>>
     ELSE Skip(s) /\ UNCHANGED lease
  /\ UNCHANGED <<entry, tasks, leader, sweep, faults>> /\ UNCHANGED env
  /\ UNCHANGED <<starts, changed, exposed, ends>>

\* Mutant: the claim writes whatever is there by now.
AsReadOrNot(s) == TRUE
(* ... and writes it, if it is still as read. *)
AsRead(s) == IF run[s].found THEN s \in lease.seen ELSE lease.holder = None
Claimed(s, by) == [holder |-> Host[s], by |-> by, left |-> TTL, seen |-> {}]
TakenOver(s) == (displaced \cup {t \in Slots : Host[t] = Host[s] /\ Holds(t)}) \ {s}
Unleased(s) == [run[s] EXCEPT !.pc = "begin", !.found = FALSE]

(* The run takes the lease, from another run of its process too. *)
ClaimLease(s) ==
  /\ At(s, "claim") /\ AsRead(s)
  /\ lease' = Claimed(s, s) /\ displaced' = TakenOver(s)
  /\ Set(s, [run[s] EXCEPT !.pc = "begin", !.found = FALSE, !.leased = TRUE, !.renewIn = Period])
  /\ UNCHANGED <<entry, tasks, leader, busy, sweep, faults>> /\ UNCHANGED env
  /\ UNCHANGED <<starts, changed, exposed, killed, enabled, failures, completed>>

(* Another write came first (ErrConflict): the run is skipped. *)
ClaimConflict(s) ==
  /\ At(s, "claim") /\ ~AsRead(s) /\ lease.holder # None
  /\ Skip(s)
  /\ UNCHANGED <<lease, entry, tasks, leader, sweep, faults>> /\ UNCHANGED env
  /\ UNCHANGED <<starts, changed, exposed, ends>>

(* The record that was read has been released (ErrNotFound, which claim does *)
(* not take for a conflict): the run goes on without the lease.              *)
ClaimMissing(s) ==
  /\ At(s, "claim") /\ run[s].found /\ lease.holder = None
  /\ Set(s, Unleased(s))
  /\ UNCHANGED <<lease, entry, tasks, leader, busy, sweep, faults>> /\ UNCHANGED env
  /\ UNCHANGED histories

(* The write is not answered, or with a conflict with itself. *)
ClaimUnanswered(s) ==
  /\ At(s, "claim") /\ Fault
  /\ \E applied, conflict \in BOOLEAN :
       /\ (conflict => applied) /\ (applied => AsRead(s))
       /\ lease' = IF applied THEN Claimed(s, None) ELSE lease
       /\ displaced' = IF applied THEN TakenOver(s) ELSE displaced
       /\ IF conflict THEN Skip(s) ELSE Set(s, Unleased(s)) /\ UNCHANGED <<busy, killed>>
  /\ UNCHANGED <<entry, tasks, leader, sweep>> /\ UNCHANGED env
  /\ UNCHANGED <<starts, changed, exposed, enabled, failures, completed>>

(* The read fails: the run goes on without the lease. *)
LeaseUnavailable(s) ==
  /\ At(s, "acquire") /\ Fault
  /\ Set(s, Unleased(s))
  /\ UNCHANGED <<lease, entry, tasks, leader, busy, sweep>> /\ UNCHANGED env /\ UNCHANGED histories

(* Begin inherits the attempt and the first-seen time of the entry it finds; *)
(* a read that fails is a fresh start.                                       *)
BeginRead(s) ==
  /\ At(s, "begin")
  /\ \/ /\ IF entry.there /\ entry.age <= MaxAge
           THEN Set(s, [run[s] EXCEPT !.pc = "put", !.attempt = entry.attempt, !.age = entry.age])
           ELSE Set(s, [run[s] EXCEPT !.pc = "put", !.attempt = 1])
        /\ UNCHANGED faults
     \/ Fault /\ Set(s, [run[s] EXCEPT !.pc = "put", !.attempt = 1])
  /\ UNCHANGED <<lease, entry, tasks, leader, busy, sweep>> /\ UNCHANGED env /\ UNCHANGED histories

Begun(s, by) == [there |-> TRUE, work |-> Work(s), attempt |-> run[s].attempt, effects |-> FALSE,
                 beat |-> 0, age |-> run[s].age, by |-> by]

Executing(s, handle) ==
  /\ Set(s, [run[s] EXCEPT !.pc = "work", !.age = 0, !.attempt = 0, !.handle = handle])
  /\ starts' = [starts EXCEPT ![Work(s)] = Up(@, StartCap)]
  /\ killed' = killed \ ({Work(s)} \cup IF entry' = entry THEN {} ELSE {entry.work})
  /\ UNCHANGED <<changed, exposed, ends>>

(* The Put is unconditional: a work whose entry is written over has given way. *)
(* A journal that cannot write records nothing.                                *)
BeginPut(s) ==
  /\ At(s, "put")
  /\ \/ entry' = Begun(s, s) /\ Executing(s, "beating") /\ UNCHANGED faults
     \/ Fault /\ entry' \in {entry, Begun(s, None)} /\ Executing(s, "none")
  /\ UNCHANGED <<lease, tasks, leader, busy, sweep>> /\ UNCHANGED env

----------------------------------------------------------------------------
(* Handle.write: the entry is rewritten under the handle's tag.  A conflict  *)
(* silences the heartbeat, an error does not.  A write that was applied but  *)
(* got no answer is either: the S3 client may have repeated it and met its   *)
(* own write.                                                                *)
Beaten(s, by) == [entry EXCEPT !.beat = 0, !.effects = @ \/ run'[s].did, !.by = by]

Write(s, conflict) ==
  \/ Owns(s) /\ ~conflict /\ entry' = Beaten(s, s) /\ UNCHANGED faults
  \/ ~Owns(s) /\ conflict /\ UNCHANGED <<entry, faults>>
  \/ Fault /\ ~conflict /\ UNCHANGED entry
  \/ Fault /\ Owns(s) /\ entry' = Beaten(s, None)

Beat(s) ==
  /\ run[s].beatDue
  /\ \E conflict \in BOOLEAN :
       /\ Set(s, [run[s] EXCEPT !.beatDue = FALSE, !.handle = IF conflict THEN "silent" ELSE @])
       /\ Write(s, conflict)
  /\ UNCHANGED <<lease, tasks, leader, busy, sweep>> /\ UNCHANGED env /\ UNCHANGED histories

(* The first mutating tool call of a run marks the entry and then happens, *)
(* whatever became of the mark.                                            *)
Change(s) ==
  /\ At(s, "work") /\ run[s].live /\ ~run[s].did
  /\ Set(s, [run[s] EXCEPT !.did = TRUE])
  /\ IF run[s].handle = "none" THEN UNCHANGED <<entry, faults>>
     ELSE \E conflict \in BOOLEAN : Write(s, conflict)
  /\ changed' = [changed EXCEPT ![Work(s)] = Up(@, 2)]
  /\ exposed' = IF run[s].handle # "none" /\ Owns(s) /\ entry'.effects THEN exposed
                 ELSE exposed \cup {Work(s)}
  /\ UNCHANGED <<lease, tasks, leader, busy, sweep, starts, killed, ends>> /\ UNCHANGED env

(* Every Period the lease is renewed; losing it, or failing to renew it past *)
(* its expiry, cancels the run's context.                                    *)
RenewLease(s) ==
  LET renewed(by) == [lease EXCEPT !.by = by, !.left = TTL, !.seen = {}]
  IN /\ At(s, "work") /\ run[s].leased /\ run[s].live /\ run[s].renewIn = 0
     /\ \/ /\ UNCHANGED faults
           /\ lease' = IF Holds(s) THEN renewed(s) ELSE lease
           /\ Set(s, [run[s] EXCEPT !.renewIn = Period, !.live = Holds(s)])
        \/ /\ Fault
           /\ \E applied, conflict \in BOOLEAN :
                /\ (conflict => applied) /\ (applied => Holds(s))
                /\ lease' = IF applied THEN renewed(None) ELSE lease
                /\ Set(s, [run[s] EXCEPT !.renewIn = Period, !.live = lease.left > 0 /\ ~conflict])
     /\ UNCHANGED <<entry, tasks, leader, busy, sweep>> /\ UNCHANGED env /\ UNCHANGED histories

(* The run's deadline passes, or its runner is stopped or replaced. *)
Cancel(s) ==
  /\ At(s, "work") /\ run[s].live
  /\ Set(s, [run[s] EXCEPT !.live = FALSE])
  /\ UNCHANGED <<lease, entry, tasks, leader, busy, sweep, faults>> /\ UNCHANGED env
  /\ UNCHANGED histories

\* Mutant: a run whose context is cancelled counts as cut short, result or not.
CutShortByContext(s, err) == ~run[s].live
\* It returned an error under a cancelled context: the error is not the workflow's own.
CutShort(s, err) == err /\ ~run[s].live

(* The executor returns: with a result or an error, or cut short, which *)
(* leaves the entry behind (Interrupted).                               *)
Finish(s) ==
  /\ At(s, "work")
  /\ \E err \in BOOLEAN :
       /\ Set(s, IF CutShort(s, err)
                 THEN [run[s] EXCEPT !.pc = "record", !.result = "interrupted", !.handle = "none",
                                     !.beatDue = FALSE]
                 ELSE [run[s] EXCEPT !.pc = "record", !.result = IF err THEN "failed" ELSE "ok"])
       /\ completed' = IF err THEN completed ELSE completed \cup {Work(s)}
  /\ UNCHANGED <<lease, entry, tasks, leader, busy, sweep, faults>> /\ UNCHANGED env
  /\ UNCHANGED <<starts, changed, exposed, displaced, killed, enabled, failures>>

(* The outcome is stored with a context of its own; too many failures in a *)
(* row turn the workflow off.  An error is logged and the run goes on.     *)
Outcome(s) ==
  LET n == CASE run[s].result = "ok" -> 0
             [] run[s].result = "failed" -> Up(failures, MaxConsecutiveFailures)
             [] OTHER -> failures
  IN  /\ failures' = n
      /\ enabled' = (enabled /\ n < MaxConsecutiveFailures)

Record(s) ==
  /\ At(s, "record")
  /\ Set(s, [run[s] EXCEPT !.pc = IF run[s].result = "interrupted" THEN "release" ELSE "done"])
  /\ \/ Outcome(s) /\ UNCHANGED faults
     \/ Fault /\ (Outcome(s) \/ UNCHANGED <<enabled, failures>>)
  /\ UNCHANGED <<lease, entry, tasks, leader, busy, sweep>> /\ UNCHANGED env
  /\ UNCHANGED <<starts, changed, exposed, displaced, killed, completed>>

(* The entry goes, then the lease, then busy. *)
Done(s) ==
  /\ At(s, "done")
  /\ Set(s, [run[s] EXCEPT !.pc = "release", !.handle = "none", !.beatDue = FALSE])
  /\ LET cleared == IF Owns(s) /\ run[s].handle # "none" THEN NoEntry ELSE entry
     IN \/ entry' = cleared /\ UNCHANGED faults
        \/ Fault /\ entry' \in {entry, cleared}
  /\ UNCHANGED <<lease, tasks, leader, busy, sweep>> /\ UNCHANGED env /\ UNCHANGED histories

Release(s) ==
  /\ At(s, "release")
  /\ Set(s, IdleRun) /\ FreeBusy(s)
  /\ LET freed == IF Holds(s) THEN NoLease ELSE lease
     IN \/ lease' = freed /\ UNCHANGED faults
        \/ Fault /\ lease' \in {freed, IF Holds(s) THEN [lease EXCEPT !.by = None] ELSE lease}
  /\ UNCHANGED <<entry, tasks, leader, sweep>> /\ UNCHANGED env /\ UNCHANGED histories

----------------------------------------------------------------------------
(* Winning the scheduling lease starts the runners (none of them busy) and *)
(* sweeps at once; losing it cancels the scheduled runs.  A term is given  *)
(* up between sweeps only; a crash ends it anywhere.                       *)
BecomeLeader(r) ==
  /\ leader = None /\ r \notin crashed
  /\ leader' = r /\ busy' = None /\ sweepIn' = 0
  /\ UNCHANGED <<lease, entry, tasks, run, sweep, electIn, crashed, used, lost, faults>>
  /\ UNCHANGED histories

StepDown ==
  /\ leader # None /\ sweep = NoSweep /\ lost < MaxLost
  /\ lost' = lost + 1 /\ leader' = None /\ busy' = None /\ electIn' = Election
  /\ run' = [s \in Slots |-> IF At(s, "work") /\ run[s].cron
                             THEN [run[s] EXCEPT !.live = FALSE] ELSE run[s]]
  /\ UNCHANGED <<lease, entry, tasks, sweep, sweepIn, crashed, used, faults>>
  /\ UNCHANGED histories

Crash(r) ==
  /\ r \notin crashed /\ Cardinality(crashed) < MaxCrashes
  /\ crashed' = crashed \cup {r}
  /\ run' = [s \in Slots |-> IF Host[s] = r THEN IdleRun ELSE run[s]]
  /\ killed' = killed \cup {Work(s) : s \in {t \in Slots :
                  Host[t] = r /\ At(t, "work") /\ Owns(t) /\ run[t].live}}
  /\ completed' = completed \ {Work(s) : s \in {t \in Slots :
                  Host[t] = r /\ (At(t, "record") \/ At(t, "done"))}}
  /\ IF leader = r
     THEN leader' = None /\ busy' = None /\ electIn' = Election /\ sweep' = NoSweep
     ELSE UNCHANGED <<leader, busy, electIn, sweep>>
  /\ UNCHANGED <<lease, entry, tasks, sweepIn, used, lost, faults, starts, changed, exposed>>
  /\ UNCHANGED <<enabled, failures, displaced>>

(* The sweep reads an entry whose heartbeat has stopped ... *)
SweepRead ==
  /\ leader # None /\ sweep = NoSweep /\ sweepIn = 0
  /\ sweepIn' = Sweep
  /\ sweep' = IF entry.there /\ entry.beat = Stale THEN [pc |-> "act", entry |-> entry] ELSE NoSweep
  /\ UNCHANGED <<lease, entry, tasks, run, leader, busy, electIn, crashed, used, lost, faults>>
  /\ UNCHANGED histories

\* Mutant: an entry that reached a mutating call is resumed like any other.
RefusedDespiteEffects(e) == e.attempt >= MaxAttempts \/ e.age > MaxAge
Refused(e) == e.effects \/ e.attempt >= MaxAttempts \/ e.age > MaxAge

(* ... and, under the tag it read, retires it, or claims it. *)
SweepAct ==
  /\ sweep.pc = "act"
  /\ LET e == sweep.entry
         next == IF entry # e THEN entry
                 ELSE IF Refused(e) THEN NoEntry
                 ELSE [e EXCEPT !.attempt = @ + 1, !.beat = 0, !.by = None]
     IN \/ /\ entry' = next /\ UNCHANGED faults
           /\ sweep' = IF entry # e THEN NoSweep
                       ELSE IF Refused(e) THEN [pc |-> "report", entry |-> e]
                       ELSE [pc |-> "resume", entry |-> next]
        \/ Fault /\ entry' \in {entry, next} /\ sweep' = NoSweep
  /\ UNCHANGED <<lease, tasks, run, leader, busy>> /\ UNCHANGED env /\ UNCHANGED histories

\* Mutant: what was retired is not reported.
SweepReportNothing ==
  /\ sweep.pc = "report" /\ sweep' = NoSweep
  /\ UNCHANGED <<lease, entry, tasks, run, leader, busy, faults>> /\ UNCHANGED env
  /\ UNCHANGED histories

(* Abandon puts the run into the workflow's history as interrupted. *)
SweepReport ==
  /\ sweep.pc = "report" /\ sweep' = NoSweep
  /\ killed' = killed \ {sweep.entry.work}
  /\ UNCHANGED faults \/ Fault
  /\ UNCHANGED <<lease, entry, tasks, run, leader, busy>> /\ UNCHANGED env
  /\ UNCHANGED <<starts, changed, exposed, ends>>

(* A workflow that is turned off is not resumed: its claimed entry is left *)
(* to a later sweep.                                                       *)
SweepResume ==
  /\ sweep.pc = "resume" /\ enabled
  /\ Schedule(sweep.entry.work, sweep.entry.attempt)
  /\ sweep' = NoSweep
  /\ UNCHANGED <<lease, entry, leader, starts, changed, ends>> /\ UNCHANGED env

SweepSkip ==
  /\ sweep.pc = "resume" /\ ~enabled
  /\ sweep' = NoSweep
  /\ UNCHANGED <<lease, entry, tasks, run, leader, busy, faults>> /\ UNCHANGED env
  /\ UNCHANGED histories

----------------------------------------------------------------------------
(* Calls, and the return of a cancelled run, take less than a tick. *)
Quiet(s) ==
  /\ run[s].pc \in {"idle", "work"} /\ ~run[s].beatDue
  /\ At(s, "work") => run[s].live /\ (run[s].leased => run[s].renewIn > 0)

Tick ==
  /\ \A s \in Slots : Quiet(s)
  /\ IF leader = None THEN electIn > 0 ELSE sweep = NoSweep /\ sweepIn > 0
  /\ lease' = [lease EXCEPT !.left = Down(@)]
  /\ entry' = IF entry.there THEN [entry EXCEPT !.beat = Up(@, Stale), !.age = Up(@, MaxAge + 1)]
                             ELSE entry
  /\ run' = [s \in Slots |-> IF At(s, "work")
                             THEN [run[s] EXCEPT !.beatDue = run[s].handle = "beating",
                                                 !.renewIn = Down(@)]
                             ELSE run[s]]
  /\ electIn' = Down(electIn) /\ sweepIn' = Down(sweepIn)
  /\ UNCHANGED <<tasks, leader, busy, sweep, crashed, used, lost, faults>> /\ UNCHANGED histories

RunStep(s) ==
  \/ ReadLease(s) \/ LeaseUnavailable(s)
  \/ ClaimLease(s) \/ ClaimConflict(s) \/ ClaimMissing(s) \/ ClaimUnanswered(s)
  \/ BeginRead(s) \/ BeginPut(s) \/ Beat(s)
  \/ RenewLease(s) \/ Finish(s) \/ Record(s) \/ Done(s)
  \/ Release(s)

SweepStep == SweepRead \/ SweepAct \/ SweepResume \/ SweepSkip \/ SweepReport

Next ==
  \/ \E w \in Works : Trigger(w)
  \/ \E s \in Slots : TakeTask(s) \/ CronTick(s) \/ RunStep(s) \/ Change(s) \/ Cancel(s)
  \/ \E r \in Replicas : BecomeLeader(r) \/ Crash(r)
  \/ StepDown \/ SweepStep
  \/ Tick

Spec == Init /\ [][Next]_vars

(* Elections, sweeps, polls and runs go on as long as their process does; *)
(* triggers, cancellations, crashes and lost terms are not promised.      *)
Fairness ==
  /\ \A s \in Slots : WF_vars(RunStep(s))
  /\ SF_vars(\E s \in Slots : TakeTask(s))
  /\ WF_vars(\E r \in Replicas : BecomeLeader(r))
  /\ WF_vars(SweepStep) /\ WF_vars(Tick)

FairSpec == Spec /\ Fairness

----------------------------------------------------------------------------
(* No work makes changes in two runs, over crashes, cancellations, resumes  *)
(* and lost leases, unless the mark of a change could not be stored: an     *)
(* entry that reached a mutating call is reported rather than replayed.     *)
NoReplayAfterChange ==
  \A w \in Works : changed[w] > 1 => w \in exposed /\ faults > 0

(* While no store call fails, two runs that hold the run lease never work at *)
(* once, across crashes, elections, claims that race and the resumed runs of *)
(* the sweep.  The two ways past the lease: another run of the same process  *)
(* takes it over (displaced), and a run goes on without it when the record   *)
(* its claim read is released before the claim's write (ClaimMissing).       *)
NeverConcurrent ==
  faults = 0 =>
    \A s, t \in {u \in Slots \ displaced : At(u, "work") /\ run[u].leased} : s = t

(* While no store call fails, a run that died with its process is accounted *)
(* for: it starts again, it is reported as interrupted, or it gives way to  *)
(* another run of the workflow, one at work when it is skipped or one that  *)
(* begins over its entry.                                                   *)
KilledIsAccounted == \A w \in Works : w \in killed ~> (w \notin killed \/ faults > 0)

(* A work that produced a result is neither started again nor given up by   *)
(* the sweep as interrupted, not even when it was cancelled at the last     *)
(* moment: only a process that dies before the entry is cleared, or a call  *)
(* that fails, leaves one behind (interrupted, Done).                       *)
CompletedStaysCompleted ==
  [][\A w \in completed :
       \/ faults > 0
       \/ /\ \A s \in Slots : At(s, "put") /\ Work(s) = w => run'[s].pc # "work"
          /\ sweep.pc = "act" /\ sweep.entry.work = w => sweep'.pc # "report"]_vars

(* UseJournal's comment: a run killed by "an OOM or a node failure is picked *)
(* up after the restart": killed on its first start, with no change made, it *)
(* starts again.                                                             *)
KilledIsPickedUp ==
  \A w \in Works : w \in killed /\ starts[w] = 1 /\ changed[w] = 0 ~> starts[w] > 1

(* runOnce's comment: busy and the lease "prevent the same workflow from *)
(* running concurrently with itself, here or on another replica".        *)
NeverWithItself == \A s, t \in Slots : At(s, "work") /\ At(t, "work") => s = t
============================================================================
