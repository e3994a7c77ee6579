------------------------------- MODULE Queue -------------------------------
(***************************************************************************)
(* internal/queue: the durable work queue kept in the state bucket.  One   *)
(* task is one object; every replica lists the prefix, claims due tasks    *)
(* with conditional writes and runs their handlers.                        *)
(*                                                                         *)
(* Time is relative: an instant is the number of ticks left until it (0 =  *)
(* not after now) and Tick takes one off each, so time is unbounded and    *)
(* the state finite.  All replicas read the same clock.  An ETag is the    *)
(* number of the write that produced the object: two writes of one task    *)
(* never have the same body (they differ in attempt, owner or instant).    *)
(*                                                                         *)
(* A task is the number its key sorts by.  Bodies that do not decode are   *)
(* left out: Enqueue is the only writer of new objects.                    *)
(***************************************************************************)
EXTENDS Integers, FiniteSets

CONSTANTS
  Replicas,     \* processes; each has a store.InstanceID that is never reused
  Tasks,        \* keys, in listing order
  Topic,        \* the topic of each task
  MaxAttempts,  \* delivery budget of each task's topic (1: at-most-once)
  Visibility,   \* ticks a claim holds a task
  Timeout,      \* ticks one handler run may take
  OpTimeout,    \* ticks one store call may take
  Backoff,      \* ticks before a failed task is due again
  PollMax,      \* longest wait between two polls
  Batch,        \* maxBatch: tasks of a topic one poll looks at
  Workers,      \* maxWorkers: tasks one replica handles at once
  MaxFaults,    \* bound: store calls that fail
  MaxStops,     \* bound: replicas that shut down or crash
  WaitCap       \* bound of the waited counters (0: not counted)

None == "none"

ASSUME QueueAssumption ==
  /\ Tasks \subseteq Nat
  /\ IsFiniteSet(Replicas) /\ IsFiniteSet(Tasks)
  /\ None \notin Replicas
  /\ MaxAttempts \in [Tasks -> Nat \ {0}]
  /\ \A t, u \in Tasks : Topic[t] = Topic[u] => MaxAttempts[t] = MaxAttempts[u]
  /\ Visibility \in Nat /\ Timeout \in Nat /\ OpTimeout \in Nat
  /\ Backoff \in Nat /\ PollMax \in Nat
  /\ Batch \in Nat /\ Workers \in Nat
  /\ MaxFaults \in Nat /\ MaxStops \in Nat /\ WaitCap \in Nat

VARIABLES
  obj,        \* the bucket: the record stored under each task's key
  listed,     \* keys a replica's poll has listed and not handed out yet
  job,        \* claimAndRun of a task on a replica
  pollIn,     \* ticks until a replica's next poll (0: due, or nudged)
  mode,       \* "up", "draining" (queue context cancelled) or "gone"
  started,    \* history: the attempts of a task whose handler was started
  starts,     \* history: how many times its handler was started
  succeeded,  \* history: tasks some handler returned nil for
  waited,     \* history: ticks a stored task has waited for its first claim
  faults, stops

vars == <<obj, listed, job, pollIn, mode, started, starts, succeeded, waited,
          faults, stops>>

Task == [there: BOOLEAN, tag: Nat, attempts: Nat,
         owner: Replicas \cup {None}, lease: Nat, notBefore: Nat]

\* pc names what claimAndRun is doing; left is what remains of its deadline.
Job == [pc: {"idle", "claim", "exhaust", "giveup", "run", "drop", "retry"},
        tag: Nat, attempts: Nat, lease: Nat, left: Nat]

Idle == [pc |-> "idle", tag |-> 0, attempts |-> 0, lease |-> 0, left |-> 0]

TypeOK ==
  /\ obj \in [Tasks -> Task]
  /\ listed \in [Replicas -> SUBSET Tasks]
  /\ job \in [Replicas -> [Tasks -> Job]]
  /\ pollIn \in [Replicas -> 0 .. PollMax]
  /\ mode \in [Replicas -> {"up", "draining", "gone"}]
  /\ started \in [Tasks -> SUBSET Nat]
  /\ starts \in [Tasks -> Nat]
  /\ succeeded \subseteq Tasks
  /\ waited \in [Tasks -> 0 .. WaitCap]
  /\ faults \in 0 .. MaxFaults
  /\ stops \in 0 .. MaxStops

Init ==
  /\ obj = [t \in Tasks |-> [there |-> FALSE, tag |-> 0, attempts |-> 0,
                             owner |-> None, lease |-> 0, notBefore |-> 0]]
  /\ listed = [r \in Replicas |-> {}]
  /\ job = [r \in Replicas |-> [t \in Tasks |-> Idle]]
  /\ pollIn = [r \in Replicas |-> 0]
  /\ mode = [r \in Replicas |-> "up"]
  /\ started = [t \in Tasks |-> {}]
  /\ starts = [t \in Tasks |-> 0]
  /\ succeeded = {}
  /\ waited = [t \in Tasks |-> 0]
  /\ faults = 0 /\ stops = 0

----------------------------------------------------------------------------
Present == {t \in Tasks : obj[t].there}
Busy(r) == {t \in Tasks : job[r][t].pc # "idle"}
Oldest(S) == {t \in S : \A u \in S : t <= u}

\* The tasks a poll looks at: the first Batch of each topic, due or not.
Before(t) == {u \in Tasks : u < t /\ Topic[u] = Topic[t]}
FirstBatch == {t \in Present : Cardinality(Present \cap Before(t)) < Batch}

\* A conditional store call is applied when the tag still matches.
Matches(t, tag) == obj[t].there /\ obj[t].tag = tag

\* Mutants: a visible claim does not keep others away; an expired one does.
DueDespiteClaim(r, t) == obj[t].notBefore = 0
DueOnlyUnowned(r, t) == obj[t].notBefore = 0 /\ obj[t].owner \in {None, r}

\* NotBefore has passed, and no other replica's claim is still visible.
Due(r, t) == obj[t].notBefore = 0 /\ (obj[t].lease = 0 \/ obj[t].owner = r)

Fault == faults < MaxFaults /\ faults' = faults + 1

SetJob(r, t, j) == job' = [job EXCEPT ![r][t] = j]

Removed(t) == [obj EXCEPT ![t].there = FALSE]

\* What a call with the poll's context may do in r: reach the bucket, or fail
\* because the queue's context was cancelled.
Reaches(r) == mode[r] = "up"

StartHandler(r, t, j) ==
  /\ SetJob(r, t, [j EXCEPT !.pc = "run", !.lease = 0, !.left = Timeout])
  /\ started' = [started EXCEPT ![t] = @ \cup {j.attempts}]
  /\ starts' = [starts EXCEPT ![t] = @ + 1]
----------------------------------------------------------------------------
(* Enqueue stores the task, under a key that sorts by time within its topic, *)
(* and nudges this replica's own poll loop.                                  *)
Enqueue(r, t) ==
  /\ mode[r] = "up"
  /\ obj[t].tag = 0
  /\ \A u \in Before(t) : obj[u].tag > 0
  /\ obj' = [obj EXCEPT ![t] = [@ EXCEPT !.there = TRUE, !.tag = 1]]
  /\ pollIn' = [pollIn EXCEPT ![r] = 0]
  /\ UNCHANGED <<listed, job, mode, started, starts, succeeded, waited, faults, stops>>

(* pollOnce lists the prefix.  The loop is back here only when every task of *)
(* the previous poll has been handed out and has returned (wg.Wait).         *)
PollFree(r) == listed[r] = {} /\ Busy(r) = {}

Poll(r) ==
  /\ mode[r] = "up" /\ pollIn[r] = 0 /\ PollFree(r)
  /\ \/ listed' = [listed EXCEPT ![r] = FirstBatch] /\ UNCHANGED faults
     \/ Fault /\ UNCHANGED listed
  /\ \E w \in 1 .. PollMax : pollIn' = [pollIn EXCEPT ![r] = w]
  /\ UNCHANGED <<obj, job, mode, started, starts, succeeded, waited, stops>>

(* A worker is free: it gets the oldest listed task and decides on what it *)
(* read whether to claim it, to drop it, or to leave it alone.             *)
FreeWorker(r) == listed[r] # {} /\ Cardinality(Busy(r)) < Workers

\* Mutant: the delivery budget is not looked at before a claim.
ReadTaskNoBudget(r, t) ==
  IF ~obj[t].there \/ ~Due(r, t) THEN Idle
  ELSE [pc |-> "claim", tag |-> obj[t].tag, attempts |-> obj[t].attempts + 1,
        lease |-> Visibility, left |-> OpTimeout]

ReadTask(r, t) ==
  IF ~obj[t].there \/ ~Due(r, t) THEN Idle
  ELSE [pc |-> IF obj[t].attempts + 1 > MaxAttempts[t] THEN "exhaust" ELSE "claim",
        tag |-> obj[t].tag, attempts |-> obj[t].attempts + 1,
        lease |-> Visibility, left |-> OpTimeout]

Take(r) ==
  /\ mode[r] = "up" /\ FreeWorker(r)
  /\ \E t \in Oldest(listed[r]) :
       /\ listed' = [listed EXCEPT ![r] = @ \ {t}]
       /\ \/ SetJob(r, t, ReadTask(r, t)) /\ UNCHANGED faults
          \/ Fault /\ UNCHANGED job
  /\ UNCHANGED <<obj, pollIn, mode, started, starts, succeeded, waited, stops>>

(* The claim is a Put under the tag that was read.  Lost: someone else's    *)
(* write came first.  Failed: an error, whether the Put was applied or not. *)
ClaimedObj(r, t) ==
  [obj EXCEPT ![t] = [there |-> TRUE, tag |-> obj[t].tag + 1, attempts |-> job[r][t].attempts,
                      owner |-> r, lease |-> job[r][t].lease, notBefore |-> obj[t].notBefore]]

Claim(r, t) ==
  /\ job[r][t].pc = "claim" /\ Reaches(r) /\ Matches(t, job[r][t].tag)
  /\ obj' = ClaimedObj(r, t)
  /\ LET j == [job[r][t] EXCEPT !.tag = obj[t].tag + 1]
     IN IF MaxAttempts[t] = 1
        THEN /\ SetJob(r, t, [j EXCEPT !.pc = "giveup", !.left = OpTimeout])
             /\ UNCHANGED <<started, starts>>
        ELSE StartHandler(r, t, j)
  /\ UNCHANGED <<listed, pollIn, mode, succeeded, waited, faults, stops>>

ClaimLost(r, t) ==
  /\ job[r][t].pc = "claim" /\ ~Matches(t, job[r][t].tag)
  /\ SetJob(r, t, Idle)
  /\ UNCHANGED <<obj, listed, pollIn, mode, started, starts, succeeded, waited, faults, stops>>

CallFails(live) == IF live THEN Fault ELSE UNCHANGED faults

ClaimFails(r, t) ==
  /\ job[r][t].pc = "claim" /\ CallFails(Reaches(r))
  /\ SetJob(r, t, Idle)
  /\ \/ UNCHANGED obj
     \/ Matches(t, job[r][t].tag) /\ obj' = ClaimedObj(r, t)
  /\ UNCHANGED <<listed, pollIn, mode, started, starts, succeeded, waited, stops>>

(* drop: a Delete under the task's tag.  live: its context is not cancelled. *)
(* A conflict is ignored; so is an error, whether it was applied or not.     *)
DropTask(r, t, live) ==
  LET gone == IF Matches(t, job[r][t].tag) THEN Removed(t) ELSE obj
  IN \/ live /\ obj' = gone /\ UNCHANGED faults
     \/ CallFails(live) /\ obj' \in {obj, gone}

Exhaust(r, t) ==
  /\ job[r][t].pc = "exhaust" /\ DropTask(r, t, Reaches(r))
  /\ SetJob(r, t, Idle)
  /\ UNCHANGED <<listed, pollIn, mode, started, starts, succeeded, waited, stops>>

(* An at-most-once task is dropped before it runs; it runs even when the *)
(* drop fails.                                                           *)
GiveUp(r, t) ==
  /\ job[r][t].pc = "giveup" /\ DropTask(r, t, Reaches(r))
  /\ StartHandler(r, t, job[r][t])
  /\ UNCHANGED <<listed, pollIn, mode, succeeded, waited, stops>>

\* Mutant: a failed handler gives up one attempt early.
SpentEarly(r, t) == job[r][t].attempts + 1 >= MaxAttempts[t]
\* The attempt that failed was the last one of the task's budget.
Spent(r, t) == job[r][t].attempts >= MaxAttempts[t]

(* The handler returns nil, or an error (its timeout is one). *)
Ends(r, t, pc) ==
  IF MaxAttempts[t] = 1 THEN SetJob(r, t, Idle)
  ELSE SetJob(r, t, [job[r][t] EXCEPT !.pc = pc, !.left = OpTimeout])

Succeed(r, t) ==
  /\ job[r][t].pc = "run"
  /\ Ends(r, t, "drop")
  /\ succeeded' = succeeded \cup {t}
  /\ UNCHANGED <<obj, listed, pollIn, mode, started, starts, waited, faults, stops>>

Fail(r, t) ==
  /\ job[r][t].pc = "run"
  /\ Ends(r, t, IF Spent(r, t) THEN "drop" ELSE "retry")
  /\ UNCHANGED <<obj, listed, pollIn, mode, started, starts, succeeded, waited, faults, stops>>

(* The bookkeeping after a handler outlives a cancelled poll loop. *)
Drop(r, t) ==
  /\ job[r][t].pc = "drop" /\ DropTask(r, t, TRUE)
  /\ SetJob(r, t, Idle)
  /\ UNCHANGED <<listed, pollIn, mode, started, starts, succeeded, waited, stops>>

Retry(r, t) ==
  LET back == IF Matches(t, job[r][t].tag)
              THEN [obj EXCEPT ![t] = [@ EXCEPT !.tag = obj[t].tag + 1, !.owner = None,
                                                !.lease = 0, !.notBefore = Backoff]]
              ELSE obj
  IN /\ job[r][t].pc = "retry"
     /\ \/ obj' = back /\ UNCHANGED faults
        \/ Fault /\ obj' \in {obj, back}
     /\ SetJob(r, t, Idle)
     /\ UNCHANGED <<listed, pollIn, mode, started, starts, succeeded, waited, stops>>

(* Shutdown cancels the queue's context: no further poll, and what was listed *)
(* fails at its read.  Handlers run on until they return or the process ends. *)
Shutdown(r) ==
  /\ mode[r] = "up" /\ stops < MaxStops
  /\ mode' = [mode EXCEPT ![r] = "draining"]
  /\ listed' = [listed EXCEPT ![r] = {}]
  /\ stops' = stops + 1
  /\ UNCHANGED <<obj, job, pollIn, started, starts, succeeded, waited, faults>>

(* The process ends: a crash, the end of the drain, or its deadline. *)
Stop(r) ==
  /\ \/ mode[r] = "up" /\ stops < MaxStops /\ stops' = stops + 1
     \/ mode[r] = "draining" /\ UNCHANGED stops
  /\ mode' = [mode EXCEPT ![r] = "gone"]
  /\ listed' = [listed EXCEPT ![r] = {}]
  /\ job' = [job EXCEPT ![r] = [t \in Tasks |-> Idle]]
  /\ UNCHANGED <<obj, pollIn, started, starts, succeeded, waited, faults>>

(* Time passes while no store call or handler is at its deadline, no poll is *)
(* due and no free worker has a task to take.                                *)
\* Mutant: an instant goes on counting below now.
DownUnbounded(n) == n - 1
Down(n) == IF n = 0 THEN 0 ELSE n - 1

MayWait(r) ==
  /\ \A t \in Busy(r) : job[r][t].left > 0
  /\ mode[r] = "up" => ~FreeWorker(r) /\ (PollFree(r) => pollIn[r] > 0)

Tick ==
  /\ \A r \in Replicas : MayWait(r)
  /\ obj' = [t \in Tasks |-> [obj[t] EXCEPT !.lease = Down(obj[t].lease),
                                            !.notBefore = Down(obj[t].notBefore)]]
  /\ job' = [r \in Replicas |-> [t \in Tasks |->
               [job[r][t] EXCEPT !.lease = Down(job[r][t].lease),
                                 !.left = Down(job[r][t].left)]]]
  /\ pollIn' = [r \in Replicas |-> IF PollFree(r) THEN Down(pollIn[r]) ELSE pollIn[r]]
  /\ waited' = [t \in Tasks |-> IF obj[t].there /\ obj[t].attempts = 0 /\ waited[t] < WaitCap
                                THEN waited[t] + 1 ELSE waited[t]]
  /\ UNCHANGED <<listed, mode, started, starts, succeeded, faults, stops>>

JobStep(r, t) ==
  \/ Claim(r, t) \/ ClaimLost(r, t) \/ ClaimFails(r, t) \/ Exhaust(r, t) \/ GiveUp(r, t)
  \/ Succeed(r, t) \/ Fail(r, t) \/ Drop(r, t) \/ Retry(r, t)

Next ==
  \/ \E r \in Replicas : Poll(r) \/ Take(r) \/ Shutdown(r) \/ Stop(r)
  \/ \E r \in Replicas, t \in Tasks : Enqueue(r, t) \/ JobStep(r, t)
  \/ Tick

Spec == Init /\ [][Next]_vars

(* A running replica keeps polling and its workers keep working (safego      *)
(* recovers their panics; every call and handler has a deadline).  Shutdown, *)
(* crashes, failures and enqueues are never promised.                        *)
Fairness ==
  /\ \A r \in Replicas : WF_vars(Poll(r)) /\ WF_vars(Take(r))
  /\ \A r \in Replicas, t \in Tasks : WF_vars(JobStep(r, t))
  /\ WF_vars(Tick)

FairSpec == Spec /\ Fairness

----------------------------------------------------------------------------
(* No task's handler is started more often than its topic's MaxAttempts, over *)
(* lost and ambiguous claims, crashes, retries and every replica; with        *)
(* MaxAttempts 1 a side effect is never replayed.                             *)
StartsWithinBudget == \A t \in Tasks : starts[t] <= MaxAttempts[t]

(* "The same task is never handled twice at once": two replicas never run a *)
(* task's handler together, which rests on the visibility outlasting the    *)
(* claim and the handler.                                                   *)
NeverTwiceAtOnce ==
  \A t \in Tasks, r, s \in Replicas :
    job[r][t].pc = "run" /\ job[s][t].pc = "run" => r = s

(* An at-least-once task leaves the bucket only when a handler succeeded or *)
(* every attempt of its budget has been claimed.                            *)
NoLostTask ==
  \A t \in Tasks :
    MaxAttempts[t] > 1 /\ obj[t].tag > 0 /\ ~obj[t].there
      => t \in succeeded \/ obj[t].attempts = MaxAttempts[t]

(* While one replica stays up, every stored task is eventually handled or   *)
(* given up and leaves the bucket, although tasks that are not due yet take *)
(* places of a poll's batch.                                                *)
EveryTaskSettles == \A t \in Tasks : obj[t].there ~> ~obj[t].there

(* Start's comment: a task "that landed on another replica waits at most one *)
(* poll" for its first claim; the listing and the claim may each take a call. *)
WaitsAtMostOnePoll == \A t \in Tasks : waited[t] <= PollMax + 2 * OpTimeout
============================================================================
