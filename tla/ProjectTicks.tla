---------------------------- MODULE ProjectTicks ----------------------------
(***************************************************************************)
(* The work of one coding project: ticks that reconcile the ledger and     *)
(* dispatch sessions (projects/tick.go), the sessions' Kubernetes Jobs     *)
(* (projects/cluster.go), and the gateway through which the pods report    *)
(* (projects/gateway.go).  Follow-up rounds on open pull requests are off. *)
(*                                                                         *)
(* A write of the ledger is one action: mergeLedger's conditional write    *)
(* with its retries.  A failed one may have been applied.  A write that    *)
(* meets itself finds its transition done, which the callers take for      *)
(* success.  The unit of time is longer than a tick and a gateway request  *)
(* with their persistTimeout, so no time passes while one is under way.    *)
(***************************************************************************)
EXTENDS ProjectLedger

CONSTANTS
  Ticks,                   \* ticks that may be under way: one for each replica
  JobDeadline,             \* activeDeadlineSeconds: session timeout and jobDeadlineGrace
  MaxConsecutiveFailures,  \* MaxConsecutiveFailures
  MaxFaults                \* bound: calls that fail, leases out of reach, crashes

ASSUME TicksAssumption ==
  /\ Ticks \cup Guards \cup TaskIds \subseteq Nat \ {0}  \* numbered: the first free one is taken
  /\ NoOne \notin Nat
  /\ {JobDeadline, MaxConsecutiveFailures, MaxFaults} \subseteq Nat
  /\ JobDeadline < RunningTimeout  \* jobDeadlineGrace < runningGrace

VARIABLES
  led,       \* the stored ledger
  enabled, failures,  \* the stored project: Enabled, ConsecutiveFailures
  binding,   \* sessions with a stored binding: their tokens are accepted
  jobs,      \* the session Jobs in the cluster
  gh,        \* the pull request of each task on GitHub
  lease,     \* locks/projects/<id>: the tick that holds it, or 0 when that died, or NoOne
  tick,      \* the ticks under way
  op,        \* the reports of a fix (report_outcome) under way
  faults,
  hurt       \* history: tasks a failed call or a crash has met

vars == <<led, enabled, failures, binding, jobs, gh, lease, tick, op, faults, hurt>>
outside == <<binding, jobs, gh>>

NoTask == 0
Tick == [pc: {"off", "reconcile", "jobs", "clean", "sync", "pick",
              "add", "bind", "start", "abandon", "fail", "name", "drop", "retract", "finish"},
         task: TaskIds \cup {NoTask}, group: Groups \cup {NoOne},
         present: SUBSET TaskIds, finished: SUBSET TaskIds,
         healthy: BOOLEAN, fired: BOOLEAN, failed: BOOLEAN]
NoTick == [pc |-> "off", task |-> NoTask, group |-> NoOne, present |-> {}, finished |-> {},
           healthy |-> TRUE, fired |-> FALSE, failed |-> FALSE]
Op == [pc: {"off", "begin", "file", "key", "create", "record", "release"},
       task: TaskIds \cup {NoTask}]
NoOp == [pc |-> "off", task |-> NoTask]

Init ==
  /\ led = EmptyLedger
  /\ enabled = TRUE /\ failures = 0
  /\ binding = {}
  /\ jobs = [t \in TaskIds |-> [st |-> "none", age |-> 0]]
  /\ gh = [t \in TaskIds |-> "none"]
  /\ lease = NoOne
  /\ tick = [r \in Ticks |-> NoTick]
  /\ op = [r \in Guards |-> NoOp]
  /\ faults = 0 /\ hurt = {}

Fault == faults < MaxFaults /\ faults' = faults + 1

Running(t) == jobs[t].st = "running"
StopJobs(T) == [t \in TaskIds |->
  IF t \in T /\ jobs[t].st # "none" THEN [jobs[t] EXCEPT !.st = "gone"] ELSE jobs[t]]

Goto(r, pc) == tick' = [tick EXCEPT ![r].pc = pc]
Unhealthy(r, pc) == tick' = [tick EXCEPT ![r].pc = pc, ![r].healthy = FALSE]

\* A ledger write whose answer is not an error.
Wrote(new) == led' = new /\ UNCHANGED <<faults, hurt>>
\* One that answers with an error, applied or not, about the tasks T.
WriteFails(new, T) == Fault /\ led' \in {led, new} /\ hurt' = hurt \cup T

-----------------------------------------------------------------------------
(* A tick: Registry.tick, runTick, dispatch, fireTask, recordTick. *)

At(r, pc) == tick[r].pc = pc

\* The lease is free; or it cannot be reached, and the tick goes on without it (which makes a
\* difference only while another replica has it).
TickStart(r) ==
  /\ At(r, "off") /\ (\A u \in Ticks : u < r => ~At(u, "off")) /\ enabled
  /\ \/ lease = NoOne /\ lease' = r /\ UNCHANGED faults
     \/ lease \notin {r, NoOne} /\ Fault /\ UNCHANGED lease
  /\ Goto(r, "reconcile")
  /\ UNCHANGED <<led, enabled, failures, outside, op, hurt>>

\* Reconciles the ledger, then lists the Jobs once (sessionJobs), which is skipped when they
\* cannot be.  An error of the ledger ends reconcileTasks, not the tick.
TickReconcile(r) ==
  /\ At(r, "reconcile")
  /\ \/ /\ Wrote(Reconcile(led))
        /\ tick' = [tick EXCEPT
             ![r].pc = "jobs",
             ![r].present = {t \in TaskIds : jobs[t].st \in {"running", "finished"}},
             ![r].finished = {t \in TaskIds : jobs[t].st = "finished"}]
     \/ led' = Reconcile(led) /\ Fault /\ UNCHANGED hurt /\ Goto(r, "clean")
     \/ WriteFails(Reconcile(led), {}) /\ Unhealthy(r, "sync")
  /\ UNCHANGED <<enabled, failures, outside, lease, op>>

\* Fails the sessions whose Job is over.  On the ledger so written, stops the Jobs of failed
\* work orders, deletes the bindings no session needs any more and records that they are
\* gone; what cannot be done is left to the next tick.
TickClean(r) ==
  LET l == IF At(r, "jobs") THEN ReconcileJobs(led, tick[r].present, tick[r].finished) ELSE led
      stop == {t \in TaskIds : \/ LostDispatch(l.tasks[t])
                               \/ l.tasks[t].bound /\ l.tasks[t].status = "failed"}
      done == {t \in TaskIds : l.tasks[t].bound /\ SessionDone(l.tasks[t])}
      then(healthy) == tick' = [tick EXCEPT ![r] = [NoTick EXCEPT !.pc = "sync", !.healthy = healthy]]
      cleaned == jobs' = StopJobs(stop) /\ binding' = binding \ done
  IN  /\ At(r, "jobs") \/ At(r, "clean")
      /\ \/ cleaned /\ Wrote(Unbind(l, done)) /\ then(TRUE)
         \/ cleaned /\ done # {} /\ Fault /\ led' = l /\ UNCHANGED hurt /\ then(FALSE)
         \/ UNCHANGED <<jobs, binding>> /\ stop \cup done # {} /\ Fault /\ led' = l
            /\ UNCHANGED hurt /\ then(TRUE)
         \/ UNCHANGED <<jobs, binding>> /\ At(r, "jobs") /\ WriteFails(l, {}) /\ then(FALSE)
      /\ UNCHANGED <<enabled, failures, gh, lease, op>>

\* One pull request that was closed or merged on GitHub.
TickSyncPR(r, t) ==
  LET new == IF gh[t] = "merged" THEN MergePR(led, t) ELSE ClosePR(led, t)
  IN  /\ At(r, "sync")
      /\ led.tasks[t].status = "pr_open" /\ gh[t] \in {"merged", "closed"}
      /\ Wrote(new) /\ UNCHANGED tick
      /\ UNCHANGED <<enabled, failures, outside, lease, op>>

\* syncPRs is through.  Records the scan, then drops old tasks.  A scan records nothing when
\* another tick's came first.  A read or write that fails only keeps the tick from dispatching.
TickScan(r) ==
  /\ At(r, "sync")
  /\ \E seen \in SUBSET Groups : led' = ExpireTasks(Scanned(led, seen))
  /\ \/ /\ \A t \in WithStatus(led, {"pr_open"}) : gh[t] = "open"
        /\ Goto(r, "pick")
        /\ UNCHANGED faults
     \/ Fault /\ Unhealthy(r, "pick")
  /\ UNCHANGED <<enabled, failures, outside, lease, op, hurt>>

FreeId(t) == led.tasks[t] = Absent /\ \A r \in Ticks : tick[r].task # t

\* Bound: an id is left for one more tick that is about to add a task.
SpareId ==
  Cardinality({t \in TaskIds : FreeId(t)}) > Cardinality({r \in Ticks : At(r, "add")})

\* dispatch: picks a candidate and fetches its evidence.
TickPick(r) ==
  /\ At(r, "pick")
  /\ tick[r].healthy
  /\ HasCapacity(led) /\ SpareId
  /\ \E g \in led.candidates :
       /\ Eligible(led, g)
       /\ tick' = [tick EXCEPT ![r].pc = "add", ![r].group = g]
  /\ UNCHANGED <<led, enabled, failures, outside, lease, op, faults, hurt>>

\* Nothing to dispatch, or the evidence cannot be fetched.
TickPicked(r) ==
  /\ At(r, "pick")
  /\ \/ /\ \/ ~tick[r].healthy
           \/ ~HasCapacity(led) \/ ~SpareId
           \/ \A g \in led.candidates : ~Eligible(led, g)
        /\ UNCHANGED faults
     \/ Fault
  /\ Goto(r, "finish")
  /\ UNCHANGED <<led, enabled, failures, outside, lease, op, hurt>>

\* The task is recorded under a new id before its session starts.
TickAdd(r) ==
  /\ At(r, "add")
  /\ \E t \in TaskIds :
       /\ FreeId(t)
       /\ \A u \in TaskIds : u < t => ~FreeId(u)
       /\ LET new == AddTask(led, t, tick[r].group)
              then(pc) == tick' = [tick EXCEPT ![r].pc = pc, ![r].group = NoOne,
                                     ![r].task = IF pc = "bind" THEN t ELSE NoTask]
          IN  \/ Wrote(new) /\ then(IF new.tasks[t] = Absent THEN "finish" ELSE "bind")
              \/ WriteFails(new, {t}) /\ then("finish")
  /\ UNCHANGED <<enabled, failures, outside, lease, op>>

\* launch: the binding is stored before the Job exists.
TickBind(r) ==
  /\ At(r, "bind")
  /\ \/ binding' = binding \cup {tick[r].task} /\ Goto(r, "start") /\ UNCHANGED <<faults, hurt>>
     \/ /\ Fault /\ hurt' = hurt \cup {tick[r].task}
        /\ binding' \in {binding, binding \cup {tick[r].task}}
        /\ Goto(r, "fail")
  /\ UNCHANGED <<led, enabled, failures, jobs, gh, lease, op>>

\* A Job whose creation answered with an error may exist.
TickLaunch(r) ==
  LET started == [jobs EXCEPT ![tick[r].task] = [st |-> "running", age |-> 0]]
  IN  /\ At(r, "start")
      /\ \/ jobs' = started /\ Goto(r, "name") /\ UNCHANGED <<faults, hurt>>
         \/ /\ Fault /\ hurt' = hurt \cup {tick[r].task}
            /\ jobs' \in {jobs, started}
            /\ Goto(r, "abandon")
      /\ UNCHANGED <<led, enabled, failures, binding, gh, lease, op>>

\* stopSession and deleteBinding, either of which may fail and is only logged: of a Job that
\* did not start ("abandon"), of one that could not be named ("drop") and of one whose task no
\* longer waits for it ("retract"), after which dispatching goes on.
TickAbandon(r) ==
  LET t == tick[r].task
      after == CASE At(r, "abandon") -> "fail" [] At(r, "drop") -> "finish" [] OTHER -> "pick"
  IN  /\ At(r, "abandon") \/ At(r, "drop") \/ At(r, "retract")
      /\ \/ jobs' = StopJobs({t}) /\ binding' = binding \ {t} /\ UNCHANGED faults
         \/ /\ Fault
            /\ \/ jobs' = jobs /\ binding' = binding \ {t}
               \/ jobs' = StopJobs({t}) /\ binding' = binding
      /\ tick' = [tick EXCEPT ![r].pc = after, ![r].task = IF after = "pick" THEN NoTask ELSE t]
      /\ UNCHANGED <<led, enabled, failures, gh, lease, op, hurt>>

\* The dispatch failed: no more are made in this tick.  It counts unless the tick was cut short.
TickFail(r) ==
  LET new == FailTask(led, tick[r].task, "dispatching")
  IN  /\ At(r, "fail")
      /\ Wrote(new) \/ WriteFails(new, {})
      /\ \E counts \in BOOLEAN : tick' = [tick EXCEPT ![r].pc = "finish", ![r].failed = counts]
      /\ UNCHANGED <<enabled, failures, outside, lease, op>>

\* markRunning; the pod may have checked in first.
TickName(r) ==
  LET t == tick[r].task
      new == MarkRunning(led, t)
      then(pc) == tick' = [tick EXCEPT ![r].pc = pc, ![r].fired = TRUE,
                             ![r].task = IF pc = "pick" THEN NoTask ELSE t]
  IN  /\ At(r, "name")
      /\ \/ Wrote(new) /\ then(IF new.tasks[t].named THEN "pick" ELSE "retract")
         \/ WriteFails(new, {t}) /\ then("drop")
      /\ UNCHANGED <<enabled, failures, outside, lease, op>>

\* recordTick, then the lease is released.
TickFinish(r) ==
  LET n == IF tick[r].failed THEN failures + 1 ELSE IF tick[r].fired THEN 0 ELSE failures
      stop == n >= MaxConsecutiveFailures
  IN  /\ At(r, "finish")
      /\ \/ failures' = n /\ enabled' = (enabled /\ ~stop) /\ UNCHANGED faults
         \/ tick[r].failed /\ Fault /\ UNCHANGED <<failures, enabled>>
      /\ tick' = [tick EXCEPT ![r] = NoTick]
      /\ lease' = IF lease = r THEN NoOne ELSE lease
      /\ UNCHANGED <<led, outside, op, hurt>>

TickStep(r) ==
  \/ TickReconcile(r) \/ TickClean(r) \/ (\E t \in TaskIds : TickSyncPR(r, t)) \/ TickScan(r)
  \/ TickPick(r) \/ TickPicked(r) \/ TickAdd(r) \/ TickBind(r)
  \/ TickLaunch(r) \/ TickAbandon(r) \/ TickFail(r) \/ TickName(r) \/ TickFinish(r)

\* An admin turns the project on again.
Resume ==
  /\ ~enabled
  /\ enabled' = TRUE /\ failures' = 0
  /\ UNCHANGED <<led, outside, lease, tick, op, faults, hurt>>

-----------------------------------------------------------------------------
(* The pod of a session, and the gateway that answers it. *)

\* resolveSession admits a token while its binding is stored and its task names the session.
Admitted(t) == Running(t) /\ t \in binding /\ led.tasks[t].named

\* A pod that checks in before the tick named its session completes the dispatch itself.
CheckIn(t) ==
  /\ Running(t) /\ t \in binding /\ led.tasks[t].status = "dispatching"
  /\ led' = MarkRunning(led, t)
  /\ UNCHANGED <<enabled, failures, outside, lease, tick, op, faults, hurt>>

\* report_outcome of a fix: the request outlives the pod that sent it.  One that arrives
\* after MaxOpenAttempts, or finds an opening in progress, is refused without a trace.
ReportFixed(r, t) ==
  /\ op[r].pc = "off" /\ (\A u \in Guards : u < r => op[u].pc # "off")
  /\ Admitted(t) /\ BeginOpening(led, t, r) # led
  /\ op' = [op EXCEPT ![r] = [pc |-> "begin", task |-> t]]
  /\ UNCHANGED <<led, enabled, failures, outside, lease, tick, faults, hurt>>

OpAt(r, pc) == op[r].pc = pc
OpGoto(r, pc) == op' = [op EXCEPT ![r] = IF pc = "off" THEN NoOp ELSE [@ EXCEPT !.pc = pc]]

\* openPullRequest goes on only when its own guard is stored.
OpBegin(r) ==
  LET t == op[r].task
      new == BeginOpening(led, t, r)
      mine == new.tasks[t].opening = r
  IN  /\ OpAt(r, "begin")
      /\ \/ /\ Wrote(new)
            /\ OpGoto(r, IF ~mine THEN "off" ELSE IF new.tasks[t].ticket THEN "create" ELSE "file")
         \/ WriteFails(new, {t}) /\ OpGoto(r, "off")
      /\ UNCHANGED <<enabled, failures, outside, lease, tick>>

\* fileTaskTicket: the issue is created, then its key recorded.
OpFile(r) ==
  /\ OpAt(r, "file")
  /\ \/ OpGoto(r, "key") /\ UNCHANGED <<faults, hurt>>
     \/ Fault /\ hurt' = hurt \cup {op[r].task} /\ OpGoto(r, "release")
  /\ UNCHANGED <<led, enabled, failures, outside, lease, tick>>

OpKey(r) ==
  LET t == op[r].task
      new == SetTicket(led, t)
  IN  /\ OpAt(r, "key")
      /\ \/ Wrote(new) /\ OpGoto(r, IF led.tasks[t].ticket THEN "release" ELSE "create")
         \/ WriteFails(new, {t}) /\ OpGoto(r, "release")
      /\ UNCHANGED <<enabled, failures, outside, lease, tick>>

\* pullRequestFor: an open pull request of the branch is taken for the one to open.
OpCreate(r) ==
  LET t == op[r].task
      created == [gh EXCEPT ![t] = "open"]
  IN  /\ OpAt(r, "create")
      /\ \/ gh' = created /\ OpGoto(r, "record") /\ UNCHANGED <<faults, hurt>>
         \/ /\ Fault /\ hurt' = hurt \cup {t}
            /\ gh' \in {gh, created} /\ OpGoto(r, "release")
      /\ UNCHANGED <<led, enabled, failures, binding, jobs, lease, tick>>

\* The branch is not pushed, or has nothing ahead of its base.
OpProblem(r) ==
  /\ OpAt(r, "file") \/ OpAt(r, "create")
  /\ gh[op[r].task] # "open"
  /\ OpGoto(r, "release")
  /\ UNCHANGED <<led, enabled, failures, outside, lease, tick, faults, hurt>>

OpRecord(r) ==
  LET t == op[r].task
      new == OpenPR(led, t)
  IN  /\ OpAt(r, "record")
      /\ \/ Wrote(new) /\ OpGoto(r, "off")
         \/ WriteFails(new, {t}) /\ OpGoto(r, "release")
      /\ UNCHANGED <<enabled, failures, outside, lease, tick>>

OpRelease(r) ==
  LET t == op[r].task
      new == ClearOpening(led, t, r)
  IN  /\ OpAt(r, "release")
      /\ Wrote(new) \/ WriteFails(new, {t})
      /\ OpGoto(r, "off")
      /\ UNCHANGED <<enabled, failures, outside, lease, tick>>

OpStep(r) ==
  \/ OpBegin(r) \/ OpFile(r) \/ OpKey(r) \/ OpCreate(r) \/ OpProblem(r) \/ OpRecord(r)
  \/ OpRelease(r)

\* report_outcome of anything else.
ReportOther(t) ==
  /\ Admitted(t)
  /\ led' = ReportNoFix(led, t) /\ led' # led
  /\ UNCHANGED <<enabled, failures, outside, lease, tick, op, faults, hurt>>

\* handleEnded: the end is recorded, then the binding goes; a failed delete is left to a tick.
ReportEnd(t) ==
  /\ Admitted(t)
  /\ led' = SessionEnded(led, t)
  /\ \/ binding' = binding \ {t} /\ UNCHANGED faults
     \/ Fault /\ UNCHANGED binding
  /\ UNCHANGED <<enabled, failures, jobs, gh, lease, tick, op, hurt>>

-----------------------------------------------------------------------------
(* The surroundings. *)

\* The pod ends, with or without a report, at its Job's deadline at the latest.
JobEnds(t) ==
  /\ Running(t)
  /\ jobs' = [jobs EXCEPT ![t].st = "finished"]
  /\ UNCHANGED <<led, enabled, failures, binding, gh, lease, tick, op, faults, hurt>>

\* A reviewer merges or closes the pull request.
Decide(t) ==
  /\ gh[t] = "open"
  /\ \E d \in {"merged", "closed"} : gh' = [gh EXCEPT ![t] = d]
  /\ UNCHANGED <<led, enabled, failures, binding, jobs, lease, tick, op, faults, hurt>>

\* A replica dies with the tick or a request it was working on.
TickDies(r) ==
  /\ ~At(r, "off") /\ Fault
  /\ hurt' = hurt \cup ({tick[r].task} \ {NoTask})
  /\ tick' = [tick EXCEPT ![r] = NoTick]
  /\ lease' = IF lease = r THEN 0 ELSE lease
  /\ UNCHANGED <<led, enabled, failures, outside, op>>

OpDies(r) ==
  /\ ~OpAt(r, "off") /\ Fault
  /\ hurt' = hurt \cup {op[r].task}
  /\ OpGoto(r, "off")
  /\ UNCHANGED <<led, enabled, failures, outside, lease, tick>>

\* Time passes, up to the deadline of each running Job; a dead replica's lease runs out.
Pass ==
  /\ tick = [r \in Ticks |-> NoTick] /\ op = [r \in Guards |-> NoOp]
  /\ \A t \in TaskIds : Running(t) => jobs[t].age < JobDeadline
  /\ led' = OlderBy1(led)
  /\ jobs' = [t \in TaskIds |-> IF Running(t) THEN [jobs[t] EXCEPT !.age = @ + 1] ELSE jobs[t]]
  /\ lease' = IF lease = 0 THEN NoOne ELSE lease
  /\ UNCHANGED <<enabled, failures, binding, gh, tick, op, faults, hurt>>

Next ==
  \/ \E r \in Ticks : TickStart(r) \/ TickStep(r) \/ TickDies(r)
  \/ \E r \in Guards : (\E t \in TaskIds : ReportFixed(r, t)) \/ OpStep(r) \/ OpDies(r)
  \/ \E t \in TaskIds : \/ CheckIn(t) \/ ReportOther(t) \/ ReportEnd(t)
                        \/ JobEnds(t) \/ Decide(t)
  \/ Resume
  \/ Pass

Spec == Init /\ [][Next]_vars

\* A tick and a request end within their timeouts, a project in use is ticked at its interval,
\* Kubernetes ends a Job at its deadline, and time passes between ticks.
Fairness ==
  /\ \A r \in Ticks : WF_vars(TickStep(r))
  /\ \A r \in Guards : WF_vars(OpStep(r))
  /\ WF_vars(\E r \in Ticks : TickStart(r))
  /\ WF_vars(\E t \in TaskIds : jobs[t].age >= JobDeadline /\ JobEnds(t))
  /\ SF_vars(Pass)

FairSpec == Spec /\ Fairness

-----------------------------------------------------------------------------
(* Properties. *)

\* A session that is under way, or that the gateway still admits.
Unsettled(t) ==
  led.tasks[t].status \in Active \/ (t \in binding /\ led.tasks[t].named)

\* The shape of the state.
TypeOK ==
  /\ led \in Ledger
  /\ enabled \in BOOLEAN /\ failures \in Nat
  /\ binding \subseteq TaskIds
  /\ jobs \in [TaskIds -> [st: {"none", "running", "finished", "gone"}, age: 0 .. JobDeadline]]
  /\ gh \in [TaskIds -> {"none", "open", "merged", "closed"}]
  /\ lease \in Ticks \cup {NoOne, 0}
  /\ tick \in [Ticks -> Tick] /\ op \in [Guards -> Op]
  /\ faults \in 0 .. MaxFaults /\ hurt \subseteq TaskIds

\* Ticks that overlap because the lease was out of reach still keep to the project's limits
\* on unfinished work and on sessions (addTask re-checks what dispatch saw).
WorkWithinLimits ==
  /\ Cardinality(WithStatus(led, Open)) <= MaxOpenPRs
  /\ Cardinality(WithStatus(led, Active)) <= MaxActiveSessions

\* A group is worked on by one task at a time, and gets at most MaxAttempts sessions before
\* its fix is merged, whatever ticks and check-ins race (openTask, Track.Attempts).
GroupBudget ==
  \A g \in Groups :
    /\ led.tracks[g].attempts <= MaxAttempts
    /\ Cardinality({t \in WithStatus(led, Open) : led.tasks[t].group = g}) <= 1

\* A pull request that is open on GitHub is in the ledger or about to be recorded there,
\* unless a call failed for its task: no tick or other report of the session takes the
\* task away while its pull request is opened (openingFresh).
OpenedPRIsTracked ==
  \A t \in TaskIds \ hurt :
    gh[t] = "open" =>
      \/ led.tasks[t].status = "pr_open"
      \/ \E r \in Guards : op[r] = [pc |-> "record", task |-> t]

\* A task has at most one report past the guard at a time, so one issue is filed and one pull
\* request opened however often the session repeats its report (Task.Opening).
OneOpeningAtATime ==
  \A r, u \in Guards :
    r # u /\ op[r].task = op[u].task => op[r].pc \in {"off", "begin"} \/ op[u].pc \in {"off", "begin"}

\* A running session fails only when its Job no longer runs or it said it ended: not because
\* a tick listed the Jobs before it was started, and not while it has time left.
WorkingSessionNeverFails ==
  [][\A t \in TaskIds :
       led.tasks[t].status = "running" /\ led'.tasks[t].status = "failed"
         => ~Running(t) \/ led'.tasks[t].exit]_vars

\* While the project is on, every session reaches an outcome or fails, and its token stops
\* being accepted, whatever call was lost on the way and whichever replica died: lost
\* dispatches, silent ends and timeouts are noticed, and bindings outlive no session.
SessionsSettle ==
  \A t \in TaskIds :
    Unsettled(t) ~> ~Unsettled(t) \/ ~enabled
=============================================================================
