# Formal models of arbetern

arbetern is a platform for AI agents written in Go: it answers Slack messages, runs
scheduled workflows and dashboards, and dispatches coding sessions. Several
replicas run the same binary. They have no database and no broker: everything
they share is objects in one state bucket, written with conditional puts
(`IfMatch` / `IfNoneMatch`). This directory models that coordination layer, and
the coding projects built on it, in TLA+, checks them with TLC on small
instances, and proves what matters most with TLAPS for every value of the constants.

Section 1 is the inventory of the system, 2 the modules and how they follow the
code, 3 the runs, 4 the fairness, 5 the proofs, 6 where code and comments
disagree, 7 what is not modelled, 8 the plan. `PROJECT.json` maps every
definition to the lines it stands for and lists the hazards of the code with
the properties that cover them.

## 1. Inventory

### Coordination (modelled first: everything else rests on it)

| Part | State | Operations | Hard behaviours | What makes it correct |
|---|---|---|---|---|
| Bucket access, `internal/store/backend.go`, `store.go` | objects with ETags | Get, List, conditional Put and Delete, each under a 20 s deadline | a call that answers with an error may have been applied | read-modify-write under the tag that was read |
| Lease and election, `internal/store/lease.go` | `leaseRecord` (holder, expiry), a `holding` per caller | Acquire, claim, renew, release, RunElection | expiry against the clock, renewals that fail or are applied unseen, release racing a renewal, death | at most one process under an unexpired record; bounded overlap; always held again |
| Documents cache, `internal/store/documents.go` | cache per replica of the objects of a prefix | Load, Get, Create, Update (conflict loop), Delete, Refresh | stale reads, cache writes out of order, delete against update | no lost update, no resurrection, caches converge, changes are reported |
| Work queue, `internal/queue/queue.go` | one object per task, per-replica poll loop and workers | Enqueue, poll, claim, at-most-once give-up, handle, retry, drop, Drain | two replicas claim one task, death mid-handler, claim applied but unanswered, a full batch | delivery budget, one handler at a time, no task lost, every task settles |
| In-flight journal, `internal/journal/journal.go` | an entry per running workflow: attempt, heartbeat, side-effect flag | Begin, heartbeat, NoteSideEffect, Done, Interrupted, Recover | a dead process against a slow one, a flag that could not be written | a run that changed something outside is never replayed; a killed run is accounted for |
| Workflows, `workflows/workflows.go` | descriptors, runners and busy flags on the leader, a run lease per workflow | Trigger, tick, runQueued, runOnce with its stored outcome, auto-disable, catch-up, apply changes, CRUD | triggers, ticks and resumed runs meeting on two replicas, loss of the term, cancellation racing a result | a workflow never runs concurrently with itself; a finished run is not repeated |
| Wiring, `main.go` | the scheduling lease | win, lose, shutdown | terms end while runs go on | schedulers run on the leader only |

### Coding projects (modelled)

| Part | State | Operations | Hard behaviours | What makes it correct |
|---|---|---|---|---|
| Project ledger and ticks, `projects/ledger.go`, `tick.go`, `registry.go` | one document per project: tasks, candidates, attempts per error group; the project's enabled flag and failures | tick (reconcile, list Jobs, clean up, sync pull requests, scan, dispatch, record), report, resume | ticks that overlap without their lease, stale Job lists, lost answers, a replica dying between binding, Job and ledger | limits and budgets hold, no working session is failed, every session settles |
| Session gateway and cluster, `projects/gateway.go`, `cluster.go` | a binding (token) per session, Kubernetes Jobs | launch, check in, report outcome, open the pull request, end | the pod checking in before the tick named it, reports repeated, slow or lost | one opening at a time, no pull request without a task |
| Rounds, review, auto-merge, `projects/rounds.go`, `review.go`, `automerge.go`, `round_report.go` | per pull request: head, changes, lineage, handled comments, rounds, auto-merge state | observe, follow auto-merge, start and report rounds, ready note, delay, claim, merge, withdraw | commits, comments, approvals and people switching auto-merge between a tick's read and its writes; reports against ticks | what is merged was approved and quiet, comments are answered once, a person's refusal stands |

### Products built on it (planned, see section 8)

| Part | State | Operations | Hard behaviours | What would make it correct |
|---|---|---|---|---|
| Thread sessions, `commands/session.go` | a session per Slack thread, cached and stored | open, touch, close, sweep | unconditional writes from several replicas, expiry against a turn | a closed session stays closed |
| User context, `commands/user_context.go` | notes of a user | append through the queue, collect | at-least-once delivery | an append is stored once |
| Dashboards, `dashboards/` | descriptors, results | run, refresh, CRUD | the runner pattern of workflows | as workflows |
| GitOps sync, `internal/gitopssync/` | descriptors from Git | reconcile | manual edits meanwhile | converges to Git |
| Chat, `chat/` | conversations | turns, streaming | concurrent turns | turns in order |
| Billing and metrics, `billing/`, `metrics/`, `internal/store/merge.go` | buffered counters | record, flush (merge) | flushes of several replicas, failed flush | each count stored once |
| LLM clients, `llm/` | circuit breaker | calls, trip, probe | concurrent probes | opens and closes as stated |

### Sequential or pure I/O (not modelled)

Command handlers and the tool loop (`commands/`), the Slack adapter (`slack/`),
MCP (`mcp/`), skills, prompts, catalog and configuration, the integration clients
(GitHub, Atlassian, Datadog, Grafana, Google, AWS, Azure, Databricks,
ClickHouse, Salesforce and others), the support libraries under `internal/`
(`safego`, `httpx`, `ttlcache`, `redact`, `text`, `kube`, `sqlguard`), the
JavaScript user interface, the chart and the runner image.

### How the parts interact

A trigger (Slack event, HTTP call, missed fire) becomes a **queue** task; any
replica claims it and calls the workflow registry's `runQueued`, which calls
`runOnce`. A cron tick calls `runOnce` directly on the replica that holds the
scheduling **lease**. `runOnce` takes the runner's busy flag (leader only), the
workflow's run **lease**, and a **journal** entry; its first mutating tool call
marks the entry. The leader's recovery sweep finds entries whose heartbeat
stopped and enqueues a resumed run, or retires the entry. Descriptors live in a
**documents** cache whose Refresh tells each replica what changed, so that the
leader restarts the runners concerned.

A project's tick runs on whatever replica claims its queue task or its timer,
under a **lease** of its own, and goes on without it when the bucket does not
answer. It changes the project's one **ledger** document through a merge loop,
starts **Jobs** in Kubernetes, and stores a **binding** for each, by which any
replica's **gateway** recognises the pod and applies its reports to the same
ledger. Pull requests that were opened are read again by every tick, which starts
follow-up **rounds** (further sessions, with reports of their own) and switches
GitHub's auto-merge.

## 2. Modules

| Module | Models | Composes |
|---|---|---|
| `Queue` (`MCQueue`, `QueueProofs`) | the work queue of all replicas over the bucket | - |
| `Lease` (`MCLease`, `LeaseProofs`) | the lease and the election loop | - |
| `Documents` (`MCDocuments`, `DocumentsProofs`) | the write-through caches of all replicas over one document | - |
| `Register` (`RegisterProofs`) | what `Documents` promises: one document, every call an instant of its own | implemented by `Documents` |
| `RunRecovery` (`MCRunRecovery`, `RunRecoveryProofs`) | one workflow: triggers, ticks, run lease, journal, sweep, scheduling term | the queue and the lease, through what `Queue` and `Lease` establish |
| `ProjectLedger` | the transitions of a project's ledger about tasks, as operators | - |
| `ProjectTicks` (`MCProjectTicks`, `ProjectTicksProofs`) | ticks, sessions, Jobs, bindings and the gateway of one project | `ProjectLedger`, the merge loop and the lease as single actions |
| `ReviewState` | the transitions of the ledger about one pull request: observation, rounds, auto-merge | - |
| `PullRequestFollow` (`MCPullRequestFollow`, `PullRequestFollowProofs`) | ticks following one pull request, round sessions and reports, people and GitHub | `ReviewState`, the merge loop and the lease as single actions |

Conventions shared by all of them (the project modules take one write of
the ledger, with `mergeLedger`'s reads and retries, for one action: the loop re-applies
the same transition to what another replica left behind):

- **One action per store call.** The code between two calls to the bucket is
  local, so it belongs to the action of the call before or after it. A replica's
  cache write under its lock is an action of its own, because another goroutine
  can come between the call and the lock.
- **Failing calls.** `Fault` spends one of `MaxFaults`; an action that fails may
  leave its write applied or not, and its caller does not learn the new tag. This
  is a deadline that passed or a lost answer (`opTimeout`, `backend.go:24-32`). The S3
  client repeats a Put whose answer was lost (the SDK's default retries), so a
  write may also be applied and answer with a conflict *with itself*. Where the code
  treats a conflict otherwise than an error (a renewal, a heartbeat, an Update), that is
  an outcome of its own.
- **Time** is relative. An instant is the number of ticks until it, and `Tick`
  takes one off each; a deadline is an upper bound, so `Tick` waits for steps
  that are due. Time is therefore unbounded while the state is finite. All replicas
  share the clock: clock skew is not modelled.
- **Tags.** An ETag is abstracted to what a condition can distinguish: a write
  number (`Queue`), the users who know it (`Lease`, `RunRecovery`), or the body
  itself (`Documents`, where equal bodies have equal digests).
- A definition preceded by a comment `Mutant:` is a variant of the one after
  it with a plausible mistake; it is used by no specification, and shows that the
  property named in `PROJECT.json` depends on the line that it changes.

### Queue

`obj` is the bucket, `listed` what a poll has listed and not handed to a worker,
`job` each `claimAndRun` (its `pc` names the call it is at), `pollIn` the poll
timer (0 when the wake channel holds a nudge), `mode` the process. `Poll` is
`pollOnce` up to its dispatch loop: the topic's first `Batch` tasks by key, due or not,
claims included (queue.go:287-315); it requires the previous poll's handlers to
have ended (`PollFree`, the `wg.Wait` of queue.go:328). `Take` is a free worker
reading a task and giving up on it (not due, attempts exhausted) or going on to
`Claim`, `ClaimLost` or `ClaimFails`. At-most-once topics drop the task
before the handler runs (`GiveUp`); others run it and `Succeed`, `Fail`, `Drop`
or `Retry`. `Shutdown` cancels the queue's context; `Stop` is both the end of
`Drain` and a crash. Bodies that do not decode are left out (`Enqueue` is the
only writer of new objects).

### Lease

`lease` is the object, `hold` each caller of `Acquire`: `get` and `put` are the two
calls of `claim`, `held`/`renew` the background renewal, `lost` a cancelled
holding not yet released. The code computes the expiry before the read
(lease.go:50), so `hold.next` counts down while the calls run. `hold.rec` is the
expiry of the record the holder last wrote, `hold.exp` what the holder
believes: they differ, and `Overrun` is the consequence: three calls and a renewal
period, because the renewal that notices the lapse starts up to a period after
one that failed just before it. A user is one caller
and `Host` its process, since the holder written is the process's instance id. The exclusion
is promised to processes with one caller of the lease (`Alone`), as the election is:
a second caller of the same process takes the lease from the first and may release it
while the first still counts on it (`run_itself` in section 6).

### Documents

`bucket` is one document, `cache` the entry of each replica, `call` a caller in
Create, Update or Delete, `refresh` each replica's refresher. A document is the
set of callers whose change it holds, so that "a change was lost" can be stated.
`reported` is a history of what `Refresh` told the registry.

`Register` is the abstract specification. A call is open, takes effect on the document as it
is at that instant, and answers; success implies an effect, failure allows
one, and an open Update may act again. `ImplementsRegister` is `Register`'s specification under
the mapping of `Documents` (`AsRegister`): the document is the stored one, a
call's outcome follows from its label (`Outcome`). Nothing of the caches is in it.

### RunRecovery

A *work* is one trigger and its resumed runs; a *slot* is a goroutine that may
execute the workflow on its replica. `run[s].pc` follows `runOnce`: `acquire`/`claim` the read and
the conditional write of the run lease's `claim`, `begin`/`put` the two calls of `journal.Begin`, `work`,
`record` (the stored outcome), `done` (`Handle.Done`), `release`. `run[s].found` says whether the claim's read
found a record, and `lease.seen` which claims have read the very record that is there, so that `AsRead`
is the condition of the write (`IfMatch` or `IfNoneMatch`). The write has four outcomes: `ClaimLease`,
`ClaimConflict` (the run is skipped), `ClaimMissing` (the record was released in between; the bucket answers `ErrNotFound`,
which `claim` does not take for a conflict, and the run goes on without the lease) and `ClaimUnanswered`. `Beat`, `Change` and `RenewLease` are the goroutines
beside it. `Finish` decides whether a run was cut short (`CutShort`); `Outcome` counts failures
and turns the workflow off. `SweepRead` and `SweepAct` are the sweep's
read and its conditional delete or claim; after a delete comes `SweepReport` (`Abandon`),
after a claim `SweepResume`, or `SweepSkip` when the workflow has been turned off.
The leader stops the runner of a workflow that is off at its next refresh; here it does so
at once (`Runner`). Turning it on again by hand is left out. Histories: `changed` counts the runs of a work that changed something
outside, `exposed` holds the works whose run made a change with a handle but
without a marked entry of its own (the mark failed, or the entry is another's by now)
or whose trigger was stored *and* run locally (Trigger's fallback), `displaced` the runs
whose lease another run of their own process has taken over, `killed` the
works a crash cut short that have not started again, been reported, or given way to another run (skipped beside one at work,
or their entry written over by its unconditional `Begin`), `completed`
the works that produced a result in a process that lived to clear the entry. The module assumes
at most two attempts (`maxRunAttempts`), a `Stale` of two heartbeats or more (in the code six) and
a renewal period shorter than the lease (a third of it): with three attempts an entry could be claimed
a second time while the resumed run of the first claim still waits in the queue.

### ProjectLedger and ProjectTicks

`ProjectLedger` holds the closures passed to `mergeLedger`, under their names in
ledger.go: `AddTask`, `MarkRunning`, `BeginOpening`, `OpenPR`, `Reconcile`,
`ReconcileJobs`, `SessionEnded` and the rest are functions from ledger to ledger that return
their argument where the code returns false. `ProjectTicks` applies them. `led` is the
stored document, `binding`, `jobs` and `gh` are the bindings, the Jobs and the pull
requests, `tick[r].pc` and `op[r].pc` are where `runTick` and `openPullRequest` are.

- A tick is `TickStart` (its lease, or none), `TickReconcile` and `TickClean`
  (`reconcileTasks`), `TickSyncPR`, `TickScan`, the loop `TickPick`, `TickAdd`,
  `TickBind`, `TickLaunch`, `TickName` with its failures (`TickAbandon`, `TickFail`), and
  `TickFinish` (`recordTick`). The Job list is read with the write before it
  and used in the step after it, so sessions start, check in and report in between.
- A report of a fix is `ReportFixed` (admission), `OpBegin` (the guard), `OpFile` and
  `OpKey` (the ticket), `OpCreate`, `OpRecord`, `OpRelease`. Other outcomes and the
  end report are one write each.
- `TickDies` and `OpDies` are a replica's death, `Fault` a call that fails, applied or
  not; `hurt` names the tasks one has met, since the code promises nothing about the
  pull request whose creation was not answered until the session reports again.

What is abstracted: the tick's local copy of the ledger (each transition
re-checks its guard on the stored one; reads between two writes see the stored one); a write that
conflicts with itself counts as success, as its callers find their change
present; cleaning up, `syncPRs`' end, scan and expiry each take one step. The unit of time is about a
quarter of an hour and does not pass while a tick or request is under way: both have
timeouts (`tickTimeout` 5 minutes, 45 seconds for a request, each with 30
seconds to record) well below `dispatchLostAfter`, `jobGoneAfter` and `openingStaleAfter`
plus the interval. A tick that lacks its lease because the bucket does not answer is modelled where
it matters, beside another tick that holds it. Task ids, ticks and requests are
numbered and the lowest free one is taken, which loses no behaviour up to renaming; a
tick picks a group only while an id is left for its task (`SpareId`), which is a bound of the
model.

### ReviewState and PullRequestFollow

`ReviewState` holds the transitions of rounds.go and of the ledger half of automerge.go:
`Observe`, `AddRound`, `BeginRoundReport`, `FinishRound`, `RecordRoundReplies`,
`ArmMerge`, `ClaimMerge`, `MergeOn`, `WithdrawMerge`, `MergeOff`. Heads are numbers; the
changes of a head are named by the head they first appeared at (the code's change
epochs), so a merge of the base branch is a new head with the old changes. `PullRequestFollow`
applies them: `rv` is the stored record, `pr` the pull request on GitHub, `tick` what a
tick has read and which write or call it decided on.

- A tick is `TickStart` (lease, `reconcileRounds`, the read of pull request,
  discussion and checks), `TickObserve`, `TickAdvance` (`followAutoMerge`, then
  `advanceReviews`: what to do), then one of: `TickWithdraw`, `TickDisable`,
  `TickRecord`; `TickNote`, `TickDone`; `TickStop`; arming (`TickDone`), `TickClaim`,
  `TickMerge`, `TickMerged`; `TickRound`, `TickLaunch`, `TickRunning`.
- A report of a round is `Report` (the guard), `OpPost` (the landing and the replies),
  `OpRecord` (`finishRound`, else `recordRoundReplies`), `OpRelease`.
- People push, merge the base, comment, approve, switch auto-merge, merge and close
  (`MaxMoves` of these); checks conclude; GitHub merges.
- `past` is history for the properties: which changes were announced and which
  comments answered, whether ticks overlapped, and whether a person turned off an
  auto-merge that arbetern had on record.

What is abstracted: what a tick reads is read at once; a failed call after which the code gives up the
pull request for this tick is `TickFails` at the step before or after, a failed write
of `followAutoMerge`, after which it goes on, is part of `TickRecord`; one approval is kept, a comment may
take it back. The phase is computed (`Done`, `HasActive`), as `settle()` computes it from the same fields.

## 3. Runs

| Run | Instance | What it shows |
|---|---|---|
| `queue` | 2 replicas, 1 worker each, an at-most-once task and one with 2 attempts, 2 failing calls, 1 stop | `StartsWithinBudget`: a handler is never started more often than MaxAttempts; `NeverTwiceAtOnce`: never on two replicas at once; `NoLostTask`: a task leaves the bucket only after success or its last attempt |
| `queue_batch` | the same with one topic and a batch of one place | `EveryTaskSettles`: a dead replica's claim or a backing-off task in front never hides the rest for good |
| `queue_head_of_line` | 1 replica, 2 workers, a slow handler | violated: see section 6 |
| `lease` | 2 replicas, TTL 3, renewal period 1, calls up to 2 ticks, 4 failing calls, 1 crash | `UnexpiredIsExclusive`, `OverlapBounded`, `UnexpiredNeverStolen`, `HeldAgain` |
| `documents` | 3 callers on 2 replicas (a creation and an update on one, an update or a deletion on the other), 1 retry, 1 failing call | `NoLostUpdate`, `DeletedStaysDeleted`, `CachesConverge`, `ImplementsRegister` |
| `documents_reports` | 2 callers on 2 replicas, no failing call | violated: see section 6 |
| `run_recovery` | 2 works, 2 replicas with a slot each, 1 crash, 1 failing call while only the first work is there | `NoReplayAfterChange`: a work that made a change makes no second one; `NeverConcurrent`: two runs that hold the lease never work at once; `KilledIsAccounted`: a killed work starts again, is reported as interrupted, or gives way to the other work, at work when it is skipped or beginning over its entry; `CompletedStaysCompleted` |
| `run_overlap` | 2 works, 2 slots of one replica against 1 of another, 1 lost term, a healthy bucket | `NeverConcurrent` where claims of one process race each other's writes and releases: the two ways past the lease are reached (`TakenOver`, `ClaimMissing`); `CompletedStaysCompleted`: a run that produced a result is neither repeated nor given up as interrupted, though it was cancelled at the last moment |
| `run_killed`, `run_itself` | 1 work and a crash; 2 works on one non-leader | violated: see section 6 |
| `project_ticks` | 2 work orders of 1 error group, 2 ticks, 2 reports, 1 active session, 1 attempt, 2 openings, 1 failure or crash | `WorkWithinLimits`, `GroupBudget`: limits and attempts hold though ticks overlap; `OpenedPRIsTracked`: no pull request without a task; `OneOpeningAtATime`: one report at a time files the ticket and opens it; `WorkingSessionNeverFails`: no session is failed while its Job runs; `SessionsSettle`: every session reaches an end and its token expires |
| `pull_request_follow` | 2 heads, 1 comment, 1 round, 2 ticks, 2 reports, 2 moves of people, 1 failure or crash | `MergedIsApproved`: what arbetern merges, a person approved, unless ticks overlapped (section 6); `DelayWasQuiet`: it was quiet for the delay; `NoRoundUnderAutoMerge`: no round works while arbetern's auto-merge is on, unless ticks overlapped; `OneNotePerChanges`, `AnsweredOnce`: notes and answers are not repeated; `DeclineIsKept`: a person's refusal stands |

**Bounds.** Two replicas are every pair that can race; all races here are
over one object, between two parties and the bucket. The `queue` instance has both kinds of
topic, and 2 attempts is the least at which a retry exists. Visibility 3 is the
least that satisfies the relation the code's defaults keep: a claim must outlive the
claim's call and the handler (in the code 5 minutes, or the topic's
timeout plus one minute, against 20 s calls). Two
failing calls are a failed claim and a failed drop of the same task. In `lease`
four failures keep a holder away from the bucket through a whole TTL, which
is the interesting case. In `RunRecovery` a tick is about a minute: `Stale` 2
and `TTL` 5 are the code's `staleAfter` and `runLeaseTTL`, `Sweep` 1 its interval,
`Election` 1 covers the 30 s scheduling lease. `run_killed` and `run_itself` have these values; `run_recovery` has a `TTL`
of 3, which still outlasts `Stale`, so that a resumed run meets the dead process's lease, and `run_overlap`, where nobody
dies, the least `TTL` with a renewal before the expiry, 2. `MaxAge`, 2 to 6, stands for one hour: the least with which an entry is resumed at all
is `Stale`, and `run_killed` has the most, so that no entry is refused for its age before its second sweep. In `run_recovery` works are
triggered in one order and calls fail only while there is one work (`FirstMayFail`, an action constraint that leaves
every fair action a step without a failure, so it cuts no fair behaviour short): a killed work that meets another
is seen on a healthy bucket, which is where `KilledIsAccounted` says anything, and failures against one work; `NeverReplayed`
is proved for both together. `run_overlap` checks safety alone and is reduced by symmetry (works, and the slots of one replica). `MaxConsecutiveFailures` is 1, the least at
which a workflow is turned off (in the code 3). Retry limits are 2 attempts (the code's
`maxRunAttempts`) and 1 retry in `Documents` (the code has 5: one shows both sides
of the comparison).

In `project_ticks` two ticks and two reports are every pair that can race; two work orders
are the least with which a second can be dispatched while the first is open; `MaxActiveSessions` 1
makes the limit bite, `MaxAttempts` 1 the budget, `MaxOpenAttempts` 2 lets a report
be retried. An instant is about a quarter of an hour: the deadlines keep the
code's order, `JobDeadline` (session timeout and `jobDeadlineGrace`, 10 minutes) before
`RunningTimeout` (session timeout and `runningGrace`, 30 minutes). That order is an
assumption of the module, because `reconcile` times a session out without looking at
its opening mark; it is what keeps the two apart. In `pull_request_follow` two heads
are enough for a push or base merge between any read and write, and two moves for an approval
followed by a change of mind.

`NoReplayAfterChange` is about recorded changes: the code lets a tool run although its
mark failed (journal.go:261-282), and such works are in `exposed`. `NeverConcurrent`
assumes a healthy bucket and speaks of runs that hold the lease, because the code runs without the lease when it cannot be
reached, and on a healthy bucket when its claim's write finds the record gone (workflows.go:1230-1232), and so does `CompletedStaysCompleted`, because an entry that
could not be cleared is left to the sweep; it also leaves out a process that dies between storing
the outcome and clearing the entry, after which the sweep repeats or reports the finished run. `KilledIsAccounted` assumes a healthy bucket too: a failing call may leave a killed run without its entry or its task. `TypeOK` and
`NoReplayAfterChange` say the same with failures as without.

## 4. Fairness

Poll loops, the refresher, the election and the sweep run in goroutines that
recover from panics (`internal/safego`), wait on timers, and make calls that
all have deadlines: every step of a started call is weakly fair, and so is `Tick`. Handlers end
because their context has a deadline. Not promised: that anyone triggers,
edits or cancels anything, that a replica shuts down or crashes, that a call fails,
that a leader gives up a healthy term. In `RunRecovery` that some slot takes a task is strongly
fair: slots may be busy now and then, but a stored task is listed at every
poll of every replica; that such a task settles is what `queue_batch` checks. The sweep is one goroutine, and `SweepStep` is its fairness.

`SessionsSettle` of `ProjectTicks` rests on: the steps of a tick and of a request,
once started, are weakly fair (each runs under a context with a deadline); a project
that is enabled is ticked, at its interval, on some replica (registry.go's runner
and the catch-up trigger); Kubernetes ends a Job at `activeDeadlineSeconds`; and time
passes, strongly fair because it passes only between ticks and requests. Not promised:
that a pod reports or ends by itself, that a reviewer decides, that an admin
resumes a project that was disabled (the property says so). `PullRequestFollow` states no
fairness: its properties are of safety.

## 5. Proofs

Each component's proofs are a module of their own. What they show holds for
every value of the constants that the component's assumption admits; where a
theorem needs more, it says so. Together they prove every safety property that
the passing runs check.

| Theorem | Property | Holds for |
|---|---|---|
| `QueueProofs` `TypeCorrect`, `DeliveryBudget`, `NothingLost` | `TypeOK`, `StartsWithinBudget`, `NoLostTask` | every set of replicas and tasks, budget, timing, batch, number of workers, failures and stops |
| `QueueProofs` `OneHandlerAtATime` | `NeverTwiceAtOnce` | the same, where `Outlasts` holds |
| `LeaseProofs` `TypeCorrect`, `Exclusive`, `Overlap`, `NeverStolen` | `TypeOK`, `UnexpiredIsExclusive`, `OverlapBounded`, `UnexpiredNeverStolen` | every set of callers and processes, lifetime, period, call timeout, failures and crashes |
| `DocumentsProofs` `TypeCorrect`, `ChangesKept`, `NoResurrection` | `TypeOK`, `NoLostUpdate`, `DeletedStaysDeleted` | every set of replicas and callers, placement, retries and failures |
| `RegisterProofs` `Implements` | `ImplementsRegister` | the same |
| `RunRecoveryProofs` `TypeCorrect`, `NeverReplayed`, `StaysCompleted`, `RunsExclude` | `TypeOK`, `NoReplayAfterChange`, `CompletedStaysCompleted`, `NeverConcurrent` | every set of replicas, slots and works, timing, crashes, failures and lost terms |
| `ProjectTicksProofs` `TypeCorrect`, `Limits`, `Budgets`, `SparesTheWorking`, `OneOpening`, `Tracked` | `TypeOK`, `WorkWithinLimits`, `GroupBudget`, `WorkingSessionNeverFails`, `OneOpeningAtATime`, `OpenedPRIsTracked` | every set of groups, tasks, ticks and reports, limits, deadlines in the code's order, failures and deaths |
| `PullRequestFollowProofs` `TypeCorrect`, `DelayWasQuietHolds`, `DeclineIsKeptHolds` | `TypeOK`, `DelayWasQuiet`, `DeclineIsKept` | every number of ticks, reports, heads, comments, rounds and moves, failures and deaths |
| `PullRequestFollowProofs` `MergedIsApprovedHolds`, `NoRoundUnderAutoMergeHolds` | `MergedIsApproved`, `NoRoundUnderAutoMerge` | the same, up to the first overlap of ticks |
| `PullRequestFollowProofs` `AnsweredOnceHolds`, `OneNotePerChangesHolds` | `AnsweredOnce`, `OneNotePerChanges` | the same, up to the first failure |

Every proof has the same shape: the types and the invariant are established by `Init`
and preserved by each step, one lemma or one case per action; steps that do
not concern a part of the invariant share a lemma that says what they leave alone.

**Queue.** `StartsWithinBudget` is not inductive: the counter of starts says nothing about claims
under way. The inductive invariant `Budget` is `TypeOK` and

- `ClaimIsNext`: a claim was read at a tag no write has passed since; if none
  happened it spends the next attempt, within the budget;
- `GiveUpIsOwn`: a task about to be given up carries an attempt that is stored and
  that no handler has been started for;
- `StartsAreAttempts`: handlers were started for distinct attempts among the
  stored ones, each once, so starts are at most the attempts stored, which are at
  most the budget.

The conditional Put is what makes it hold: a claim whose tag still matches writes
an attempt above all the attempts stored, hence above all that were used.

For `NoLostTask`, `ClaimsInv` adds what a worker may conclude from what it holds: the
tag it knows is one that was written, a worker that is going to drop a task after a
success or a last attempt has that success or attempt on record, and a stored task that is
missing is settled. A drop is conditioned on the tag of the claim, so only a worker whose claim
nothing has passed removes the task: what it concluded is then still true of the object.

For `NeverTwiceAtOnce`, `RunInv` adds that running handlers run attempts of their own
(`RunsOnce`) and that while a handler of an at-least-once topic runs nothing has been
written over its claim, whose visibility outlasts the handler's deadline (`Held`). It needs
`Outlasts`: the visibility of a topic with several attempts exceeds the handler's timeout and one call.
`withDefaults` (queue.go:81-97) alone does not give that, since it leaves a
visibility equal to the timeout as it is; the only at-least-once topic that is
registered, the appends to a user's context (user_context.go:1384), has it, with a visibility of 5
minutes by default. At-most-once topics need no relation: their task is gone before the handler starts.

**Lease.** `LeaseInv` is `TypeOK` and

- `Tags`: who knows the object's tag knows an object that exists, and a holder that knows it is its holder;
- `ClaimSawLapse`: a claim that still matches is about a record that had expired, or its own process's;
- `Clocks`: a claim writes an expiry fixed at most two calls ago and a renewal one fixed at most one
  call ago; a holder's belief runs at most two calls ahead of its record; the next renewal comes in time;
- `StoredCovers`: what the only caller of a process counts on is stored, under its name and at least as long.

`Exclusive` follows from the last, `Overlap` from `Clocks`, `NeverStolen` from `Tags` and `ClaimSawLapse`.
The proofs are about clocks that count down by comparison of instants only; they found that the bound on the
overlap needs the period, and that the exclusion is one of processes with one caller.

**Documents and Register.** The invariant
`DocumentsInv` adds to the types that what an Update is about to put
was made from an entry that existed (`PutsStored`: otherwise a Put conditioned on "the
document I read" could match a missing one and bring it back) and that a re-read
happens with retries left (`RetriesLeft`, without which the attempt counter leaves its
type). The lemma `Writes` then lists the only ways the bucket changes - a creation of a
missing document, a change made from the very document that is stored, a
deletion - and both action properties follow from it. For `Implements`, the invariant also says
that a caller does only what it came for (`KindKept`) and that it knows of its success
only once its write has returned (`OkWhenApplied`); `Moves` tabulates what a step does to a
caller's label and the stored document (`CallStepMoves`), and each row is a step of
the register or changes nothing of it (`CallRefines`).

**RunRecovery.** `ReplayInv` says of every work that is not `exposed` (or of all, while no call has failed)

- `PendingOnce`: it waits to be started at most once, in the queue, at the sweep or at a slot about to
  begin, and while it does the journal entry cannot be claimed;
- `OneChange`: a run that may still mark its first change is the only prospect of the
  work; once a change is recorded nothing is waiting, the entry carries the flag, and every run that could still
  mark one has made its change (`Sealed`);

and, while no call has failed (`Calm`), that an entry whose run goes on is beaten in time, that the run of a work is
its only one, and that a completed work is over but for the entry its run is about to clear. The
steps fall into those that start nothing (`StartsNothing`), those that admit a work (`Starts`), those
that only write the entry (`Beats`), and three of their own: beginning, claiming, changing. `NeverReplayed`
is `changed <= 1`; `StaysCompleted` reads `Over` off the sweep's step. `RunsExclude` has an invariant of its own,
`LeaseHeld`: without failed calls every run past its claim that holds the lease and is not `displaced` is the one the lease names,
with time left until its next renewal (`HeldBy`), and a claim whose record is still as it read it can only take
it from its own process or after its expiry (`ReadFree`): time only wears a record down, and whatever renews, takes or deletes it
makes the claim's condition fail. Without `ReadFree` nothing relates what a claim read to what it writes over.

**ProjectTicks.** The transitions of `ProjectLedger` get a lemma each, which says how far they move a
task (`Still`, `Ends`, `Moved`) or that they start nothing (`Calm`); `StepWrites` then lists everything a step
may write to the ledger: a calm write, a task added, a dispatch completed, a step of a report. Three invariants rest on it.

- `Bounded`, for `Limits` and `Budgets`: a group has one open task, and a dispatch that is not completed
  has an attempt left for it. Nobody else can use it up, since nobody else works on the
  group; this is what lets tick, check-in and report complete a dispatch in any order.
- `SessionInv`, for `SparesTheWorking`: a running session has a Job, at least as old as its age in the ledger
  (`JobsInv`); a tick's task is in nobody else's hands, its Job started or not (`HandsInv`); and what a tick read of the Jobs is
  still true of every session it would fail (`ListInv`), though sessions began meanwhile. The timeout is excluded because
  `JobDeadline < RunningTimeout`, the code's order of `jobDeadlineGrace` and `runningGrace`.
- `WorkInv`, for `OneOpening` and `Tracked`: past the guard a report's task carries the report's own mark while it
  runs, and it runs until the pull request is recorded (`OpensAs`). The mark is ignored by a timeout (ledger.go:749), so
  this needs `SessionInv`: the Job has ended by then, and with it the request.

**PullRequestFollow.** Each transition of `ReviewState` gets a lemma that says what it leaves alone (`MergeWrite`,
`RoundStep`, `RoundRecord`, `ObserveDoes`), each action one that says where the tick or report goes and what it keeps of what
it read (`TickMoves`, `Onward`); what people, reports, sessions and time do to the record is `AroundDoes`. On
these rest, one per theorem:

- `Shape`: types, and what heads are known by (`KnownInv`): changes first appear at a head no later than their own and do not
  come back, and what the ledger and the ticks hold of a head's changes is what it had;
- `RoundsInv`, for `AnsweredOnceHolds`: one round is active, one report under way, with the guard of that round; the round is
  about comments nobody handled, and those answered are handled or about to be;
- `Solo`: without an overlap, the tick under way holds the lease and is alone;
- `AutoKnown`, for `NoRoundUnderAutoMergeHolds`: a tick that reaches a round, or records auto-merge as off, follows a
  step that left it off;
- `Approves`, for `MergedIsApprovedHolds`: the heads of the lineage have the changes on record, and a tick past
  its observation holds an approval of its head's changes only;
- `QuietKnown`, for `DelayWasQuietHolds`: a delay that passed, its snapshot, the stillness a tick read and that of the pull
  request agree wherever they are about the same changes and discussion; ticks may overlap, so this compares ticks in
  pairs;
- `DeclinedKnown`, for `DeclineIsKeptHolds`: while a refusal stands, no tick is at a step that turns auto-merge on, and the
  ledger has it as on (so the next tick meets it turned off by a person) or as held;
- `NotesKnown`, for `OneNotePerChangesHolds`: what was announced is on record or about to be, a tick is at
  least at the head announced last, and it knows the changes it announces.

`MergedIsApproved` used to be stated for overlapping ticks too; the proof attempt failed at the lineage, and TLC
then confirmed the behaviour on four heads and two rounds (section 6), which the run's two heads do not reach.

**Assumptions.** Each component names one (`QueueAssumption`, `LeaseAssumption`, `DocumentsAssumption`,
`RunRecoveryAssumption`, `LedgerAssumption` and `TicksAssumption`, `ReviewAssumption` and `FollowAssumption`): the kinds of the constants, and of timing
only what the code fixes, as section 2 says of each; TLC evaluates them in every run. `OneHandlerAtATime` alone has a hypothesis besides.

**Only model-checked.** Liveness (`EveryTaskSettles`, `HeldAgain`, `CachesConverge`,
`KilledIsAccounted`, `SessionsSettle`), which is out of the prover's reach. That a run of the model is cut off by its bounds
(`MaxFaults`, `MaxCrashes`, `MaxMoves` and the like) concerns the runs only: the theorems hold for every value of these.

## 6. Where the code and its comments disagree

Each is a run whose property states the comment and that TLC refutes:

- `queue_head_of_line` - `Start` says a task from another replica "waits at most
  one poll"; it waits for the slowest handler of the poll before it, since
  `pollOnce` waits for all of them (queue.go:328).
- `documents_reports` - `Refresh` says it reports every document changed by
  someone else; a change that an `Update` meets as a conflict enters the cache
  there and is never reported (documents.go:216), so a runner may keep an old schedule.
- `run_killed` - `UseJournal` says a killed run is picked up after the restart;
  when the sweep resumes it before the dead process's run lease expires (2 against 5
  minutes), it is skipped, and its second attempt was its last.
- `run_itself` - `runOnce` says a workflow never runs concurrently with itself; two
  queued triggers on one replica that has no runner share the lease's holder and
  both run. The consequence reaches further than that replica: the second run's release deletes
  the lease, so another replica may start a run beside the first. And a claim that read its own process's record
  goes on without any lease when that record is released before it writes: the bucket answers `ErrNotFound`, not a conflict
  (lease.go:61-68, backend.go:188-189), although no call has failed. These are the two ways past the
  lease on a healthy bucket, `displaced` and `ClaimMissing`; `NeverConcurrent` is about the runs that hold it, and `RunsExclude` proves
  that these do exclude each other.

Also seen, without a run: the number of *starts* of a work across restarts is not
bounded by `maxRunAttempts`, because a resumed task that waits in the queue past
`staleAfter` finds its entry abandoned and begins again at attempt 1; a sweep that dies between deleting
a refused entry and reporting it leaves the run without a report; two changes of
leader before a catch-up run ends queue two catch-ups (workflows.go:1153); a killed work whose resumed run was
skipped because of the dead process's lease leaves its entry to the next sweep, and another trigger that comes first
begins over it (journal.go:234), so that it is neither restarted nor reported (`KilledIsAccounted` says it has given way). They
are hazards in `PROJECT.json` with a note.

Of the projects, likewise without a run: `addRound` does not look at the limit on
sessions again, so two ticks that overlap without the lease can exceed it by a round, while
docs/PROJECTS.md:288 counts rounds in; that they can overlap at all is at odds
with docs/PROJECTS.md:891 (a manual run "never overlaps it"), as `tick` goes on without a
lease it cannot reach (tick.go:62), and `project_ticks` shows what holds nevertheless; `branchUpdated` counts a branch update only if the
head has not been observed since, so "at most three" (docs/PROJECTS.md:558) can be
exceeded; a person who turns auto-merge off in the moment arbetern withdraws or
enables it is not noticed, and a round recorded by an overlapping tick between a claim and
`EnablePullRequestAutoMerge` works under auto-merge (both are left out of the
properties, as the comments there say); a binding whose tick died before the session was named
stays stored, and admits nothing. Three ticks, of which two overlap, can leave an approval
counting for changes it was not given for: a tick reads a head and its changes; the branch gets other changes,
which a second tick records; a third reads a merge of the base on top of these, as changes already known; a report that
answered without a commit sets the head back to the one the first tick saw, whose observation then records the
old changes again; a later report sets the head forward, and the third tick's observation adds its head to the
lineage of the old changes (rounds.go keeps the lineage when what was read is not new to the tick that read it). The lease
excludes it, so it takes a bucket that does not answer.

## 7. Not modelled

Everything in the last table and the list below it in section 1. Within the modelled parts:
undecodable task bodies and rejected documents; clock skew; the per-sweep cap
of eight entries (one workflow is modelled); a workflow's run history, `last_run` and the
catch-up decided on it, listeners, runner reconciliation, editing; the ordered flushes at shutdown. `RunRecovery` composes the queue
and the lease at the level of their guarantees: a claimed task is taken once (at-most-once
topic, `StartsWithinBudget`), and the lease's reads and conditional writes are steps of the run; a claim lost
to a crash before its handler started is the work's own loss, as in the code.

Of the projects: cooldowns after failed and unfixed attempts, the daily cap,
`failed_cooldown`, ledger compaction, pull requests that cannot be read, recurrence and verdicts
on merged fixes (a merged group stays out), tickets closed on merge, metric scans, evidence,
transcripts and learnings, pausing by hand, deleting and editing a project, the
session proxy and its tools. `ProjectTicks` leaves follow-up off and `PullRequestFollow`
takes one open pull request, so that each can be checked; a round's use of
a place in `max_active_sessions` is therefore in neither. Of reviews: reverts, retargeting,
conflicts, drafts, branch updates (`keepUpToDate`), notes, the wait for checks that never
start, a question asked at the opening, descriptions, checks run again, records from older versions
(`attributeHold`), `review.auto_merge` switched off.

## 8. Plan

1. **WorkflowRunners**: schedules, `last_run` and catch-up, listeners, runner reconciliation
   from `Documents` reports.
2. **ThreadSessions** and the user context store over the queue.
3. **CounterMerge** (billing, metrics), the circuit breaker.
4. Two pull requests under one limit (rounds and work orders together), branch updates.
5. An abstract job table that `Queue` implements, with a refinement mapping, and the workflow
   modules over it.
