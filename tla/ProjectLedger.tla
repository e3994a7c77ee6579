--------------------------- MODULE ProjectLedger ---------------------------
(***************************************************************************)
(* The ledger of one coding project (projects/ledger.go) and its           *)
(* transitions: what the closures passed to mergeLedger do to the stored   *)
(* document.  A transition whose guard fails returns the ledger unchanged, *)
(* as the closures return false.                                           *)
(*                                                                         *)
(* A task has one session, so a session is named by its task.  A pull      *)
(* request and an outcome are recorded only together with the status that  *)
(* says so.  age counts the instants since the task was created,           *)
(* dispatched, reported or failed, up to RunningTimeout.                   *)
(***************************************************************************)
EXTENDS Naturals, FiniteSets

CONSTANTS
  Guards,             \* guards of openings in progress
  Groups,             \* fingerprints of error groups
  TaskIds,            \* task ids
  NoOne,              \* no guard, or no group
  MaxOpenPRs, MaxActiveSessions, MaxAttempts,  \* the project's Limits
  MaxOpenAttempts,    \* maxOpenAttempts
  DispatchLostAfter,  \* dispatchLostAfter
  JobGoneAfter,       \* jobGoneAfter
  WrapUp,             \* sessionWrapUp
  RunningTimeout      \* session timeout and runningGrace

ASSUME LedgerAssumption ==
  /\ NoOne \notin Guards \cup Groups
  /\ {MaxOpenPRs, MaxActiveSessions, MaxAttempts, MaxOpenAttempts} \subseteq Nat
  /\ RunningTimeout \in Nat
  /\ {DispatchLostAfter, JobGoneAfter, WrapUp} \subseteq 1 .. RunningTimeout
  /\ IsFiniteSet(TaskIds)

Terminal == {"merged", "closed", "no_fix", "failed"}
Active == {"dispatching", "running"}
\* "none": an id not used yet; "dropped": a finished task the ledger no longer holds.
Statuses == {"none", "dropped", "pr_open"} \cup Active \cup Terminal
Open == Active \cup {"pr_open"}

Task == [status: Statuses, group: Groups \cup {NoOne}, named: BOOLEAN, bound: BOOLEAN,
         exit: BOOLEAN, opening: Guards \cup {NoOne}, tries: 0 .. MaxOpenAttempts,
         ticket: BOOLEAN, age: 0 .. RunningTimeout]
Track == [attempts: Nat, merged: BOOLEAN]
Ledger == [tasks: [TaskIds -> Task], candidates: SUBSET Groups, tracks: [Groups -> Track]]

Absent == [status |-> "none", group |-> NoOne, named |-> FALSE, bound |-> FALSE, exit |-> FALSE,
           opening |-> NoOne, tries |-> 0, ticket |-> FALSE, age |-> 0]
EmptyLedger == [tasks |-> [t \in TaskIds |-> Absent], candidates |-> {},
                tracks |-> [g \in Groups |-> [attempts |-> 0, merged |-> FALSE]]]

-----------------------------------------------------------------------------
\* What the transitions read.

WithStatus(l, S) == {t \in TaskIds : l.tasks[t].status \in S}

OpenTask(l, g) == \E t \in WithStatus(l, Open) : l.tasks[t].group = g

HasCapacity(l) ==
  /\ Cardinality(WithStatus(l, Open)) < MaxOpenPRs
  /\ Cardinality(WithStatus(l, Active)) < MaxActiveSessions

Eligible(l, g) ==
  /\ ~OpenTask(l, g)
  /\ l.tracks[g].attempts < MaxAttempts
  /\ ~l.tracks[g].merged

Exhausted(l, g) == ~l.tracks[g].merged /\ l.tracks[g].attempts >= MaxAttempts

Fresh(task) == task.opening # NoOne

\* The session's work order ended, and its pod said so or had the time to.
SessionDone(task) ==
  task.status \notin Active /\ (task.exit \/ task.age >= WrapUp)

LostDispatch(task) == task.status = "failed" /\ ~task.named /\ task.age < WrapUp

-----------------------------------------------------------------------------
\* The transitions.

SetTask(l, t, task) == [l EXCEPT !.tasks[t] = task]
Bump(l, g) == [l EXCEPT !.tracks[g].attempts = @ + 1]

Finish(task, status) == [task EXCEPT !.status = status, !.opening = NoOne]
Failed(task) == [Finish(task, "failed") EXCEPT !.age = 0]

\* Mutant: what the tick saw when it picked the candidate is trusted.
AddTaskTrusting(l, t, g) ==
  SetTask(l, t, [Absent EXCEPT !.status = "dispatching", !.group = g])

AddTask(l, t, g) ==
  IF l.tasks[t] = Absent /\ HasCapacity(l) /\ Eligible(l, g) /\ g \in l.candidates
    THEN [SetTask(l, t, [Absent EXCEPT !.status = "dispatching", !.group = g])
            EXCEPT !.candidates = {c \in @ : c # g /\ ~Exhausted(l, c)}]
    ELSE l

\* Mutant: the attempt is counted before it is known who completed the dispatch.
MarkRunningAgain(l, t) ==
  IF l.tasks[t].status \in Active
    THEN Bump(SetTask(l, t, [l.tasks[t] EXCEPT !.status = "running", !.named = TRUE,
                                               !.bound = TRUE, !.age = 0]),
              l.tasks[t].group)
    ELSE l

MarkRunning(l, t) ==
  IF l.tasks[t].status = "dispatching"
    THEN Bump(SetTask(l, t, [l.tasks[t] EXCEPT !.status = "running", !.named = TRUE,
                                               !.bound = TRUE, !.age = 0]),
              l.tasks[t].group)
    ELSE l

FailTask(l, t, from) ==
  IF l.tasks[t].status = from THEN SetTask(l, t, Failed(l.tasks[t])) ELSE l

ReportNoFix(l, t) ==
  IF l.tasks[t].status = "running" /\ ~Fresh(l.tasks[t])
    THEN SetTask(l, t, [Finish(l.tasks[t], "no_fix") EXCEPT !.age = 0])
    ELSE l

\* Mutant: an opening in progress does not keep a second report out.
BeginOpeningAnyway(l, t, guard) ==
  IF l.tasks[t].status = "running" /\ l.tasks[t].tries < MaxOpenAttempts
    THEN SetTask(l, t, [l.tasks[t] EXCEPT !.opening = guard, !.tries = @ + 1])
    ELSE l

\* Mutant: the attempts to open a pull request are not limited.
BeginOpeningForever(l, t, guard) ==
  IF l.tasks[t].status = "running" /\ ~Fresh(l.tasks[t])
    THEN SetTask(l, t, [l.tasks[t] EXCEPT !.opening = guard, !.tries = @ + 1])
    ELSE l

BeginOpening(l, t, guard) ==
  IF /\ l.tasks[t].status = "running"
     /\ ~Fresh(l.tasks[t])
     /\ l.tasks[t].tries < MaxOpenAttempts
    THEN SetTask(l, t, [l.tasks[t] EXCEPT !.opening = guard, !.tries = @ + 1])
    ELSE l

SetTicket(l, t) == SetTask(l, t, [l.tasks[t] EXCEPT !.ticket = l.tasks[t].status \notin {"none", "dropped"}])

ClearOpening(l, t, guard) ==
  IF l.tasks[t].opening = guard THEN SetTask(l, t, [l.tasks[t] EXCEPT !.opening = NoOne]) ELSE l

OpenPR(l, t) ==
  IF l.tasks[t].status = "running"
    THEN SetTask(l, t, [Finish(l.tasks[t], "pr_open") EXCEPT !.age = 0])
    ELSE l

MergePR(l, t) ==
  IF l.tasks[t].status = "pr_open"
    THEN [SetTask(l, t, Finish(l.tasks[t], "merged"))
            EXCEPT !.tracks[l.tasks[t].group].merged = TRUE]
    ELSE l

ClosePR(l, t) ==
  IF l.tasks[t].status = "pr_open" THEN SetTask(l, t, Finish(l.tasks[t], "closed")) ELSE l

FailAll(l, T) ==
  [l EXCEPT !.tasks = [t \in TaskIds |-> IF t \in T THEN Failed(l.tasks[t]) ELSE l.tasks[t]]]

Lost(task) == task.status = "dispatching" /\ task.age >= DispatchLostAfter
Ended(task) == task.status = "running" /\ task.exit /\ ~Fresh(task)
\* An opening may be in progress: the Job's deadline is what keeps one from meeting this.
TimedOut(task) == task.status = "running" /\ task.age >= RunningTimeout

\* Mutant: only sessions whose end was reported are settled.
ReconcileEnded(l) == FailAll(l, {t \in TaskIds : Ended(l.tasks[t])})

Reconcile(l) ==
  FailAll(l, {t \in TaskIds : Lost(l.tasks[t]) \/ Ended(l.tasks[t]) \/ TimedOut(l.tasks[t])})

\* Mutant: a Job that is missing from the list is taken for gone at once.
JobGoneAtOnce(task, t, present, finished) == t \in finished \/ t \notin present

JobGone(task, t, present, finished) ==
  t \in finished \/ (t \notin present /\ task.age >= JobGoneAfter)

\* Mutant: an opening in progress does not keep the task from failing.
ReconcileJobsAnyway(l, present, finished) ==
  FailAll(l, {t \in TaskIds : /\ l.tasks[t].status = "running" /\ ~l.tasks[t].exit
                              /\ JobGone(l.tasks[t], t, present, finished)})

ReconcileJobs(l, present, finished) ==
  FailAll(l, {t \in TaskIds : /\ l.tasks[t].status = "running"
                              /\ ~l.tasks[t].exit
                              /\ ~Fresh(l.tasks[t])
                              /\ JobGone(l.tasks[t], t, present, finished)})

Unbind(l, T) ==
  [l EXCEPT !.tasks = [t \in TaskIds |->
     IF t \in T THEN [l.tasks[t] EXCEPT !.bound = FALSE] ELSE l.tasks[t]]]

SessionEnded(l, t) ==
  LET task == [l.tasks[t] EXCEPT !.exit = TRUE]
  IN  SetTask(l, t, IF task.status = "running" /\ ~Fresh(task) THEN Failed(task) ELSE task)

\* applyScan: the groups seen that no task works on wait for one.  Whether a merged fix held
\* is not decided here: its group stays out.
Scanned(l, seen) ==
  [l EXCEPT !.candidates =
     {g \in @ \cup {c \in seen : ~OpenTask(l, c)} : ~Exhausted(l, g)}]

\* A merged task waits for the verdict on its fix, the others for the retention, which is far
\* longer than WrapUp.
Expired(task) == task.status \in Terminal \ {"merged"} /\ ~task.bound /\ task.age >= WrapUp

ExpireTasks(l) ==
  [l EXCEPT !.tasks = [t \in TaskIds |->
     IF Expired(l.tasks[t]) THEN [Absent EXCEPT !.status = "dropped"] ELSE l.tasks[t]]]

\* An instant is longer than openingStaleAfter: an opening left behind is stale.
OlderBy1(l) ==
  [l EXCEPT !.tasks = [t \in TaskIds |->
     [l.tasks[t] EXCEPT
        !.opening = NoOne,
        !.age = LET top == IF l.tasks[t].status \in {"none", "dropped"} THEN 0
                           ELSE IF l.tasks[t].status = "dispatching" THEN DispatchLostAfter
                           ELSE IF l.tasks[t].status = "running" THEN RunningTimeout
                           ELSE WrapUp
                IN  IF @ < top THEN @ + 1 ELSE @]]]
============================================================================
