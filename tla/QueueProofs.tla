---------------------------- MODULE QueueProofs ----------------------------
(***************************************************************************)
(* Proofs about Queue, for any number of replicas and tasks, any budgets,  *)
(* periods and deadlines, and any number of failures and stops.            *)
(***************************************************************************)
EXTENDS Queue, FiniteSetTheorems, TLAPS

(* A call that fails is counted, and no more than MaxFaults of them do. *)
LEMMA FaultType ==
  ASSUME TypeOK, Fault \/ UNCHANGED faults
  PROVE  faults' \in 0 .. MaxFaults
BY QueueAssumption DEF TypeOK, Fault

(* claimAndRun goes from one well-formed job to another. *)
LEMMA SetJobType ==
  ASSUME TypeOK, NEW r \in Replicas, NEW t \in Tasks, NEW j \in Job, SetJob(r, t, j)
  PROVE  job' \in [Replicas -> [Tasks -> Job]]
BY DEF TypeOK, SetJob

(* The job of a task on a replica is well formed. *)
LEMMA JobType ==
  ASSUME TypeOK, NEW r \in Replicas, NEW t \in Tasks
  PROVE  job[r][t] \in Job
BY DEF TypeOK

(* A worker that has no task of its own is well formed. *)
LEMMA IdleType == Idle \in Job
BY DEF Idle, Job

(* drop, applied or not, leaves well-formed objects and counts its failure. *)
LEMMA DropTaskType ==
  ASSUME TypeOK, NEW r \in Replicas, NEW t \in Tasks, NEW live \in BOOLEAN,
         DropTask(r, t, live)
  PROVE  /\ obj' \in [Tasks -> Task]
         /\ faults' \in 0 .. MaxFaults
<1>1. Removed(t) \in [Tasks -> Task]
  BY DEF TypeOK, Removed, Task
<1>2. obj' \in {obj, Removed(t)}
  BY DEF DropTask
<1>3. Fault \/ UNCHANGED faults
  BY DEF DropTask, CallFails
<1> QED BY <1>1, <1>2, <1>3, FaultType DEF TypeOK

(* The object a claim writes is well formed. *)
LEMMA ClaimedObjType ==
  ASSUME TypeOK, NEW r \in Replicas, NEW t \in Tasks
  PROVE  ClaimedObj(r, t) \in [Tasks -> Task]
<1>1. job[r][t].attempts \in Nat /\ job[r][t].lease \in Nat
  BY JobType DEF Job
<1>2. obj[t].tag + 1 \in Nat /\ obj[t].notBefore \in Nat
  BY DEF TypeOK, Task
<1> QED BY <1>1, <1>2 DEF TypeOK, ClaimedObj, Task

(* Starting a handler keeps the job and the start counts well formed. *)
LEMMA StartHandlerType ==
  ASSUME TypeOK, NEW r \in Replicas, NEW t \in Tasks, NEW j \in Job,
         StartHandler(r, t, j)
  PROVE  /\ job' \in [Replicas -> [Tasks -> Job]]
         /\ started' \in [Tasks -> SUBSET Nat]
         /\ starts' \in [Tasks -> Nat]
<1> DEFINE running == [j EXCEPT !.pc = "run", !.lease = 0, !.left = Timeout]
<1>1. running \in Job
  BY QueueAssumption DEF Job
<1>2. SetJob(r, t, running)
  BY DEF StartHandler
<1>3. job' \in [Replicas -> [Tasks -> Job]]
  BY <1>1, <1>2, SetJobType
<1>4. j.attempts \in Nat
  BY DEF Job
<1> QED BY <1>3, <1>4 DEF StartHandler, TypeOK

(* What a worker reads is one of the jobs claimAndRun goes on with. *)
LEMMA ReadTaskType ==
  ASSUME TypeOK, NEW r \in Replicas, NEW t \in Tasks
  PROVE  ReadTask(r, t) \in Job
<1>1. obj[t].tag \in Nat /\ obj[t].attempts + 1 \in Nat
  BY DEF TypeOK, Task
<1> QED BY <1>1, IdleType, QueueAssumption DEF ReadTask, Job

(* The type invariant: every action keeps every variable in its type. *)
LEMMA TypeStep == TypeOK /\ [Next]_vars => TypeOK'
<1> SUFFICES ASSUME TypeOK, [Next]_vars PROVE TypeOK'
  OBVIOUS
<1> USE QueueAssumption
<1>1. ASSUME NEW r \in Replicas, NEW t \in Tasks, Enqueue(r, t) PROVE TypeOK'
  <2>1. obj' \in [Tasks -> Task]
    <3>1. [obj[t] EXCEPT !.there = TRUE, !.tag = 1] \in Task
      <4>1. obj[t] \in Task
        BY DEF TypeOK
      <4> QED BY <4>1 DEF Task
    <3> QED BY <1>1, <3>1 DEF Enqueue, TypeOK
  <2>2. pollIn' \in [Replicas -> 0 .. PollMax]
    BY <1>1 DEF Enqueue, TypeOK
  <2> QED BY <1>1, <2>1, <2>2 DEF Enqueue, TypeOK
<1>2. ASSUME NEW r \in Replicas, Poll(r) PROVE TypeOK'
  <2>1. listed' \in [Replicas -> SUBSET Tasks]
    <3>1. FirstBatch \in SUBSET Tasks
      BY DEF FirstBatch, Present
    <3> QED BY <1>2, <3>1 DEF Poll, TypeOK
  <2>2. pollIn' \in [Replicas -> 0 .. PollMax]
    BY <1>2 DEF Poll, TypeOK
  <2>3. faults' \in 0 .. MaxFaults
    BY <1>2, FaultType DEF Poll
  <2> QED BY <1>2, <2>1, <2>2, <2>3 DEF Poll, TypeOK
<1>3. ASSUME NEW r \in Replicas, Take(r) PROVE TypeOK'
  <2>1. PICK t \in Oldest(listed[r]) :
          /\ listed' = [listed EXCEPT ![r] = @ \ {t}]
          /\ \/ SetJob(r, t, ReadTask(r, t)) /\ UNCHANGED faults
             \/ Fault /\ UNCHANGED job
    BY <1>3 DEF Take
  <2>2. t \in Tasks
    BY <2>1 DEF Oldest, TypeOK
  <2>3. job' \in [Replicas -> [Tasks -> Job]]
    BY <2>1, <2>2, ReadTaskType, SetJobType DEF TypeOK
  <2>4. faults' \in 0 .. MaxFaults
    BY <2>1, FaultType
  <2>5. listed' \in [Replicas -> SUBSET Tasks]
    BY <2>1 DEF TypeOK
  <2> QED BY <1>3, <2>3, <2>4, <2>5 DEF Take, TypeOK
<1>4. ASSUME NEW r \in Replicas, NEW t \in Tasks, JobStep(r, t) PROVE TypeOK'
  <2> DEFINE j == job[r][t]
  <2>0. j \in Job /\ Idle \in Job
    BY JobType, IdleType
  <2>1. CASE Claim(r, t)
    <3> DEFINE k == [j EXCEPT !.tag = obj[t].tag + 1]
               g == [k EXCEPT !.pc = "giveup", !.left = OpTimeout]
    <3>1. k \in Job /\ g \in Job
      <4>1. obj[t].tag + 1 \in Nat
        BY DEF TypeOK, Task
      <4>2. k \in Job
        BY <2>0, <4>1 DEF Job
      <4> QED BY <4>2 DEF Job
    <3>2. obj' \in [Tasks -> Task]
      BY <2>1, ClaimedObjType DEF Claim
    <3>3. /\ job' \in [Replicas -> [Tasks -> Job]]
          /\ started' \in [Tasks -> SUBSET Nat]
          /\ starts' \in [Tasks -> Nat]
      <4>1. CASE MaxAttempts[t] = 1
        <5>1. SetJob(r, t, g) /\ UNCHANGED <<started, starts>>
          BY <2>1, <4>1 DEF Claim
        <5> QED BY <5>1, <3>1, SetJobType DEF TypeOK
      <4>2. CASE MaxAttempts[t] # 1
        <5>1. StartHandler(r, t, k)
          BY <2>1, <4>2 DEF Claim
        <5> QED BY <5>1, <3>1, StartHandlerType
      <4> QED BY <4>1, <4>2
    <3> QED BY <2>1, <3>2, <3>3 DEF Claim, TypeOK
  <2>2. CASE ClaimLost(r, t)
    BY <2>0, <2>2, SetJobType DEF ClaimLost, TypeOK
  <2>3. CASE ClaimFails(r, t)
    <3>1. obj' \in [Tasks -> Task]
      BY <2>3, ClaimedObjType DEF ClaimFails, TypeOK
    <3>2. job' \in [Replicas -> [Tasks -> Job]]
      BY <2>0, <2>3, SetJobType DEF ClaimFails
    <3>3. faults' \in 0 .. MaxFaults
      BY <2>3, FaultType DEF ClaimFails, CallFails
    <3> QED BY <2>3, <3>1, <3>2, <3>3 DEF ClaimFails, TypeOK
  <2>4. CASE Exhaust(r, t)
    <3>1. obj' \in [Tasks -> Task] /\ faults' \in 0 .. MaxFaults
      BY <2>4, DropTaskType DEF Exhaust, Reaches
    <3>2. job' \in [Replicas -> [Tasks -> Job]]
      BY <2>0, <2>4, SetJobType DEF Exhaust
    <3> QED BY <2>4, <3>1, <3>2 DEF Exhaust, TypeOK
  <2>5. CASE GiveUp(r, t)
    <3>1. obj' \in [Tasks -> Task] /\ faults' \in 0 .. MaxFaults
      BY <2>5, DropTaskType DEF GiveUp, Reaches
    <3>2. /\ job' \in [Replicas -> [Tasks -> Job]]
          /\ started' \in [Tasks -> SUBSET Nat]
          /\ starts' \in [Tasks -> Nat]
      BY <2>0, <2>5, StartHandlerType DEF GiveUp
    <3> QED BY <2>5, <3>1, <3>2 DEF GiveUp, TypeOK
  <2>6. ASSUME NEW pc \in {"drop", "retry"}, Ends(r, t, pc)
        PROVE  job' \in [Replicas -> [Tasks -> Job]]
    <3>1. [j EXCEPT !.pc = pc, !.left = OpTimeout] \in Job
      BY <2>0 DEF Job
    <3> QED BY <2>0, <2>6, <3>1, SetJobType DEF Ends
  <2>7. CASE Succeed(r, t)
    <3>1. job' \in [Replicas -> [Tasks -> Job]]
      BY <2>6, <2>7 DEF Succeed
    <3> QED BY <2>7, <3>1 DEF Succeed, TypeOK
  <2>8. CASE Fail(r, t)
    <3>1. job' \in [Replicas -> [Tasks -> Job]]
      BY <2>6, <2>8 DEF Fail
    <3> QED BY <2>8, <3>1 DEF Fail, TypeOK
  <2>9. CASE Drop(r, t)
    <3>1. obj' \in [Tasks -> Task] /\ faults' \in 0 .. MaxFaults
      BY <2>9, DropTaskType DEF Drop
    <3>2. job' \in [Replicas -> [Tasks -> Job]]
      BY <2>0, <2>9, SetJobType DEF Drop
    <3> QED BY <2>9, <3>1, <3>2 DEF Drop, TypeOK
  <2>10. CASE Retry(r, t)
    <3> DEFINE back == [obj EXCEPT ![t] = [@ EXCEPT !.tag = obj[t].tag + 1, !.owner = None,
                                                    !.lease = 0, !.notBefore = Backoff]]
    <3>1. back \in [Tasks -> Task]
      <4>1. obj[t] \in Task
        BY DEF TypeOK
      <4>2. [obj[t] EXCEPT !.tag = obj[t].tag + 1, !.owner = None,
                           !.lease = 0, !.notBefore = Backoff] \in Task
        <5>1. obj[t].tag + 1 \in Nat
          BY <4>1 DEF Task
        <5> QED BY <4>1, <5>1 DEF Task
      <4> QED BY <4>2 DEF TypeOK
    <3>2. obj' \in {obj, back} /\ (Fault \/ UNCHANGED faults)
      BY <2>10 DEF Retry
    <3>3. job' \in [Replicas -> [Tasks -> Job]]
      BY <2>0, <2>10, SetJobType DEF Retry
    <3>4. faults' \in 0 .. MaxFaults
      BY <3>2, FaultType
    <3>5. obj' \in [Tasks -> Task]
      BY <3>1, <3>2 DEF TypeOK
    <3>6. UNCHANGED <<listed, pollIn, mode, started, starts, succeeded, waited, stops>>
      BY <2>10 DEF Retry
    <3> QED BY <3>3, <3>4, <3>5, <3>6 DEF TypeOK
  <2> QED BY <1>4, <2>1, <2>2, <2>3, <2>4, <2>5, <2>7, <2>8, <2>9, <2>10 DEF JobStep
<1>5. ASSUME NEW r \in Replicas, Shutdown(r) PROVE TypeOK'
  BY <1>5 DEF Shutdown, TypeOK
<1>6. ASSUME NEW r \in Replicas, Stop(r) PROVE TypeOK'
  <2>1. [t \in Tasks |-> Idle] \in [Tasks -> Job]
    BY IdleType
  <2>2. job' \in [Replicas -> [Tasks -> Job]]
    BY <1>6, <2>1 DEF Stop, TypeOK
  <2>3. stops' \in 0 .. MaxStops
    BY <1>6 DEF Stop, TypeOK
  <2> QED BY <1>6, <2>2, <2>3 DEF Stop, TypeOK
<1>7. CASE Tick
  <2>1. \A n \in Nat : Down(n) \in Nat
    BY DEF Down
  <2>2. obj' \in [Tasks -> Task]
    <3>1. ASSUME NEW t \in Tasks
          PROVE  [obj[t] EXCEPT !.lease = Down(obj[t].lease),
                                !.notBefore = Down(obj[t].notBefore)] \in Task
      <4>1. obj[t] \in Task
        BY DEF TypeOK
      <4> QED BY <2>1, <4>1 DEF Task
    <3> QED BY <1>7, <3>1 DEF Tick
  <2>3. job' \in [Replicas -> [Tasks -> Job]]
    <3>1. ASSUME NEW r \in Replicas, NEW t \in Tasks
          PROVE  [job[r][t] EXCEPT !.lease = Down(job[r][t].lease),
                                   !.left = Down(job[r][t].left)] \in Job
      <4>1. job[r][t] \in Job
        BY JobType
      <4> QED BY <2>1, <4>1 DEF Job
    <3> QED BY <1>7, <3>1 DEF Tick
  <2>4. pollIn' \in [Replicas -> 0 .. PollMax]
    <3>1. \A n \in 0 .. PollMax : Down(n) \in 0 .. PollMax
      BY DEF Down
    <3>2. \A r \in Replicas : pollIn[r] \in 0 .. PollMax
      BY DEF TypeOK
    <3>3. \A r \in Replicas :
            (IF PollFree(r) THEN Down(pollIn[r]) ELSE pollIn[r]) \in 0 .. PollMax
      BY <3>1, <3>2
    <3> QED BY <1>7, <3>3 DEF Tick
  <2>5. waited' \in [Tasks -> 0 .. WaitCap]
    <3>1. \A t \in Tasks : waited[t] \in 0 .. WaitCap
      BY DEF TypeOK
    <3>2. \A n \in 0 .. WaitCap : n < WaitCap => n + 1 \in 0 .. WaitCap
      OBVIOUS
    <3>3. \A t \in Tasks :
            (IF obj[t].there /\ obj[t].attempts = 0 /\ waited[t] < WaitCap
             THEN waited[t] + 1 ELSE waited[t]) \in 0 .. WaitCap
      BY <3>1, <3>2
    <3> QED BY <1>7, <3>3 DEF Tick
  <2> QED BY <1>7, <2>2, <2>3, <2>4, <2>5 DEF Tick, TypeOK
<1>8. CASE UNCHANGED vars
  BY <1>8 DEF vars, TypeOK
<1> QED BY <1>1, <1>2, <1>3, <1>4, <1>5, <1>6, <1>7, <1>8 DEF Next

(* An empty bucket and idle replicas are well formed. *)
LEMMA TypeInit == Init => TypeOK
BY QueueAssumption, IdleType DEF Init, TypeOK, Task

(* No run, however long, leaves the types of TypeOK. *)
THEOREM TypeCorrect == Spec => []TypeOK
BY TypeInit, TypeStep, PTL DEF Spec

(* A claim under way was read at a tag no write has passed; if no write came  *)
(* since, it spends the next attempt.                                         *)
ClaimIsNext ==
  \A r \in Replicas, t \in Tasks :
    job[r][t].pc = "claim" =>
      /\ job[r][t].tag <= obj[t].tag
      /\ job[r][t].attempts <= MaxAttempts[t]
      /\ job[r][t].tag = obj[t].tag => job[r][t].attempts = obj[t].attempts + 1

(* An at-most-once attempt that is claimed and not started yet is nobody *)
(* else's, and was never started.                                        *)
GiveUpIsOwn ==
  \A r \in Replicas, t \in Tasks :
    job[r][t].pc = "giveup" =>
      /\ job[r][t].attempts \in 1 .. obj[t].attempts
      /\ job[r][t].attempts \notin started[t]
      /\ \A s \in Replicas :
           job[s][t].pc = "giveup" /\ job[s][t].attempts = job[r][t].attempts => s = r

(* Every start used up an attempt of its own, and the stored count covers it. *)
StartsAreAttempts ==
  \A t \in Tasks :
    /\ obj[t].attempts <= MaxAttempts[t]
    /\ started[t] \subseteq 1 .. obj[t].attempts
    /\ starts[t] = Cardinality(started[t])

Budget == TypeOK /\ ClaimIsNext /\ GiveUpIsOwn /\ StartsAreAttempts

(* SetJob changes one job. *)
LEMMA SetJobAt ==
  ASSUME TypeOK, NEW r \in Replicas, NEW t \in Tasks, NEW j, SetJob(r, t, j)
  PROVE  /\ job'[r][t] = j
         /\ \A s \in Replicas, u \in Tasks : s # r \/ u # t => job'[s][u] = job[s][u]
BY DEF TypeOK, SetJob

(* A drop leaves the attempts and the tag of every task. *)
LEMMA DropTaskKeeps ==
  ASSUME TypeOK, NEW r \in Replicas, NEW t \in Tasks, NEW live \in BOOLEAN,
         DropTask(r, t, live)
  PROVE  \A u \in Tasks : obj'[u].attempts = obj[u].attempts /\ obj'[u].tag = obj[u].tag
<1>1. \A u \in Tasks : /\ Removed(t)[u].attempts = obj[u].attempts
                       /\ Removed(t)[u].tag = obj[u].tag
  BY DEF Removed, TypeOK, Task
<1>2. obj' \in {obj, Removed(t)}
  BY DEF DropTask
<1> QED BY <1>1, <1>2

(* The types the arithmetic below needs. *)
LEMMA BudgetTypes ==
  ASSUME TypeOK, NEW r \in Replicas, NEW t \in Tasks
  PROVE  /\ obj[t].attempts \in Nat /\ obj[t].tag \in Nat
         /\ job[r][t].attempts \in Nat /\ job[r][t].tag \in Nat
         /\ MaxAttempts[t] \in Nat \ {0}
<1>1. obj[t] \in Task /\ job[r][t] \in Job
  BY DEF TypeOK
<1> QED BY <1>1, QueueAssumption DEF Task, Job

(* A step that starts no handler, brings no new claim and keeps every count *)
(* of attempts keeps the invariant, whatever it does to tags and times.     *)
LEMMA CalmStep ==
  ASSUME Budget, TypeOK', UNCHANGED <<started, starts>>,
         \A r \in Replicas, t \in Tasks :
           job'[r][t].pc \in {"claim", "giveup"} =>
             /\ job'[r][t].pc = job[r][t].pc
             /\ job'[r][t].tag = job[r][t].tag
             /\ job'[r][t].attempts = job[r][t].attempts,
         \A t \in Tasks : obj'[t].attempts = obj[t].attempts /\ obj'[t].tag >= obj[t].tag
  PROVE  Budget'
<1>1. ClaimIsNext'
  <2> SUFFICES ASSUME NEW r \in Replicas, NEW t \in Tasks, job'[r][t].pc = "claim"
               PROVE  /\ job'[r][t].tag <= obj'[t].tag
                      /\ job'[r][t].attempts <= MaxAttempts[t]
                      /\ job'[r][t].tag = obj'[t].tag =>
                           job'[r][t].attempts = obj'[t].attempts + 1
    BY DEF ClaimIsNext
  <2>1. /\ job[r][t].tag <= obj[t].tag
        /\ job[r][t].attempts <= MaxAttempts[t]
        /\ job[r][t].tag = obj[t].tag => job[r][t].attempts = obj[t].attempts + 1
    BY DEF Budget, ClaimIsNext
  <2>2. /\ obj[t].tag \in Nat /\ job[r][t].tag \in Nat
        /\ obj'[t].tag \in Nat
    BY BudgetTypes DEF Budget, TypeOK, Task
  <2> QED BY <2>1, <2>2
<1>2. GiveUpIsOwn'
  BY DEF Budget, GiveUpIsOwn
<1>3. StartsAreAttempts'
  BY DEF Budget, StartsAreAttempts
<1> QED BY <1>1, <1>2, <1>3 DEF Budget

(* A claim that is applied: the stored count moves on to the claimed attempt. *)
LEMMA ClaimedObjAt ==
  ASSUME TypeOK, NEW r \in Replicas, NEW t \in Tasks, obj' = ClaimedObj(r, t)
  PROVE  /\ obj'[t].attempts = job[r][t].attempts
         /\ obj'[t].tag = obj[t].tag + 1
         /\ \A u \in Tasks : u # t => obj'[u] = obj[u]
BY DEF TypeOK, ClaimedObj

(* After an applied claim no other claim of the task is current, and the *)
(* claimed attempt is above every attempt that started or is to start.   *)
LEMMA AppliedClaim ==
  ASSUME Budget, TypeOK', NEW r \in Replicas, NEW t \in Tasks,
         job[r][t].pc = "claim", Matches(t, job[r][t].tag), obj' = ClaimedObj(r, t),
         NEW j, SetJob(r, t, j), j.pc # "claim"
  PROVE  /\ ClaimIsNext'
         /\ obj'[t].attempts = obj[t].attempts + 1
         /\ obj'[t].attempts <= MaxAttempts[t]
         /\ \A u \in Tasks : obj'[u].attempts >= obj[u].attempts
<1>1. TypeOK
  BY DEF Budget
<1>2. /\ job[r][t].attempts <= MaxAttempts[t]
      /\ job[r][t].attempts = obj[t].attempts + 1
  BY DEF Budget, ClaimIsNext, Matches
<1>3. \A u \in Tasks : obj[u].attempts \in Nat /\ obj[u].tag \in Nat
  BY <1>1, BudgetTypes
<1>4. ClaimIsNext'
  <2> SUFFICES ASSUME NEW s \in Replicas, NEW u \in Tasks, job'[s][u].pc = "claim"
               PROVE  /\ job'[s][u].tag <= obj'[u].tag
                      /\ job'[s][u].attempts <= MaxAttempts[u]
                      /\ job'[s][u].tag = obj'[u].tag =>
                           job'[s][u].attempts = obj'[u].attempts + 1
    BY DEF ClaimIsNext
  <2>1. s # r \/ u # t
    BY <1>1, SetJobAt
  <2>2. job'[s][u] = job[s][u]
    BY <1>1, <2>1, SetJobAt
  <2>3. /\ job[s][u].tag <= obj[u].tag
        /\ job[s][u].attempts <= MaxAttempts[u]
        /\ job[s][u].tag = obj[u].tag => job[s][u].attempts = obj[u].attempts + 1
    BY <2>2 DEF Budget, ClaimIsNext
  <2>4. job[s][u].tag \in Nat
    BY <1>1, BudgetTypes
  <2>5. CASE u = t
    BY <1>1, <1>3, <2>2, <2>3, <2>4, <2>5, ClaimedObjAt
  <2>6. CASE u # t
    BY <1>1, <2>2, <2>3, <2>6, ClaimedObjAt
  <2> QED BY <2>5, <2>6
<1>5. \A u \in Tasks : obj'[u].attempts >= obj[u].attempts
  BY <1>1, <1>2, <1>3, ClaimedObjAt
<1> QED BY <1>1, <1>2, <1>4, <1>5, ClaimedObjAt

(* One more attempt has started: it is counted once. *)
LEMMA OneMoreStart ==
  ASSUME NEW S, NEW n \in Nat, S \subseteq 1 .. n, NEW a, a \notin S
  PROVE  Cardinality(S \cup {a}) = Cardinality(S) + 1
<1>1. IsFiniteSet(1 .. n)
  BY FS_Interval
<1>2. S \in SUBSET (1 .. n)
  OBVIOUS
<1>3. IsFiniteSet(S)
  BY <1>1, <1>2, FS_Subset
<1> QED BY <1>3, FS_AddElement

(* An applied claim that does not start the handler yet: the task is to be *)
(* given up first, or the claim's answer was lost.                         *)
LEMMA ClaimWithoutStart ==
  ASSUME Budget, TypeOK', NEW r \in Replicas, NEW t \in Tasks,
         job[r][t].pc = "claim", Matches(t, job[r][t].tag), obj' = ClaimedObj(r, t),
         NEW j, SetJob(r, t, j), j.pc # "claim",
         j.pc = "giveup" => j.attempts = job[r][t].attempts,
         UNCHANGED <<started, starts>>
  PROVE  Budget'
<1>1. TypeOK /\ GiveUpIsOwn /\ StartsAreAttempts
  BY DEF Budget
<1>2. /\ ClaimIsNext'
      /\ obj'[t].attempts = obj[t].attempts + 1
      /\ obj'[t].attempts <= MaxAttempts[t]
      /\ \A u \in Tasks : obj'[u].attempts >= obj[u].attempts
  BY AppliedClaim
<1>3. \A u \in Tasks : obj[u].attempts \in Nat
  BY <1>1, BudgetTypes
<1>4. \A u \in Tasks : u # t => obj'[u].attempts = obj[u].attempts
  BY <1>1, ClaimedObjAt
<1>5. obj'[t].attempts = job[r][t].attempts
  BY <1>1, ClaimedObjAt
<1>6. \A u \in Tasks : obj'[u].attempts \in Nat
  BY <1>2, <1>3, <1>4
<1>7. GiveUpIsOwn'
  <2> SUFFICES ASSUME NEW s \in Replicas, NEW u \in Tasks, job'[s][u].pc = "giveup"
               PROVE  /\ job'[s][u].attempts \in 1 .. obj'[u].attempts
                      /\ job'[s][u].attempts \notin started[u]
                      /\ \A q \in Replicas :
                           job'[q][u].pc = "giveup" /\ job'[q][u].attempts = job'[s][u].attempts
                             => q = s
    BY DEF GiveUpIsOwn
  <2>1. ASSUME NEW q \in Replicas, q # r \/ u # t, job'[q][u].pc = "giveup"
        PROVE  /\ job[q][u].pc = "giveup"
               /\ job'[q][u].attempts = job[q][u].attempts
               /\ job'[q][u].attempts \in 1 .. obj[u].attempts
               /\ job'[q][u].attempts \notin started[u]
    BY <1>1, <2>1, SetJobAt DEF GiveUpIsOwn
  <2>2. CASE s = r /\ u = t
    <3>1. job'[s][u].attempts = obj[t].attempts + 1
      BY <1>1, <1>2, <1>5, <2>2, SetJobAt
    <3>2. started[t] \subseteq 1 .. obj[t].attempts
      BY <1>1 DEF StartsAreAttempts
    <3>3. \A q \in Replicas : q # r /\ job'[q][u].pc = "giveup" =>
            job'[q][u].attempts # job'[s][u].attempts
      BY <1>3, <2>1, <2>2, <3>1
    <3> QED BY <1>2, <1>3, <2>2, <3>1, <3>2, <3>3
  <2>3. CASE s # r \/ u # t
    <3>1. /\ job[s][u].pc = "giveup"
          /\ job'[s][u].attempts = job[s][u].attempts
          /\ job'[s][u].attempts \in 1 .. obj[u].attempts
          /\ job'[s][u].attempts \notin started[u]
      BY <2>1, <2>3
    <3>2. job'[s][u].attempts \in 1 .. obj'[u].attempts
      BY <1>2, <1>3, <1>6, <3>1
    <3>3. ASSUME NEW q \in Replicas, job'[q][u].pc = "giveup",
                 job'[q][u].attempts = job'[s][u].attempts
          PROVE  q = s
      <4>1. CASE q = r /\ u = t
        <5>1. job'[q][u].attempts = obj[t].attempts + 1
          BY <1>1, <1>2, <1>5, <3>3, <4>1, SetJobAt
        <5> QED BY <1>3, <3>1, <3>3, <4>1, <5>1
      <4>2. CASE q # r \/ u # t
        BY <1>1, <2>1, <3>1, <3>3, <4>2 DEF GiveUpIsOwn
      <4> QED BY <4>1, <4>2
    <3> QED BY <3>1, <3>2, <3>3
  <2> QED BY <2>2, <2>3
<1>8. StartsAreAttempts'
  <2> SUFFICES ASSUME NEW u \in Tasks
               PROVE  /\ obj'[u].attempts <= MaxAttempts[u]
                      /\ started[u] \subseteq 1 .. obj'[u].attempts
                      /\ starts[u] = Cardinality(started[u])
    BY DEF StartsAreAttempts
  <2>1. /\ obj[u].attempts <= MaxAttempts[u]
        /\ started[u] \subseteq 1 .. obj[u].attempts
        /\ starts[u] = Cardinality(started[u])
    BY <1>1 DEF StartsAreAttempts
  <2>2. obj'[u].attempts <= MaxAttempts[u]
    BY <1>2, <1>4, <2>1
  <2>3. 1 .. obj[u].attempts \subseteq 1 .. obj'[u].attempts
    BY <1>2, <1>3, <1>6
  <2> QED BY <2>1, <2>2, <2>3
<1> QED BY <1>2, <1>7, <1>8 DEF Budget

(* Starting a handler for an attempt that never started, and that no give-up *)
(* of another replica is about to start, counts one start more.              *)
LEMMA StartStep ==
  ASSUME Budget, TypeOK', NEW r \in Replicas, NEW t \in Tasks,
         NEW j, StartHandler(r, t, j), ClaimIsNext',
         \A u \in Tasks : /\ obj'[u].attempts >= obj[u].attempts
                         /\ obj'[u].attempts <= MaxAttempts[u],
         j.attempts \in 1 .. obj'[t].attempts, j.attempts \notin started[t],
         \A s \in Replicas : s # r /\ job[s][t].pc = "giveup" => job[s][t].attempts # j.attempts
  PROVE  Budget'
<1> DEFINE a == j.attempts
<1>1. TypeOK /\ GiveUpIsOwn /\ StartsAreAttempts
  BY DEF Budget
<1>2. \A u \in Tasks : obj[u].attempts \in Nat /\ obj'[u].attempts \in Nat
  BY <1>1, BudgetTypes DEF TypeOK, Task
<1>3. /\ started'[t] = started[t] \cup {a}
      /\ starts'[t] = starts[t] + 1
      /\ \A u \in Tasks : u # t => started'[u] = started[u] /\ starts'[u] = starts[u]
  BY <1>1 DEF StartHandler, TypeOK
<1>4. /\ job'[r][t].pc = "run"
      /\ \A s \in Replicas, u \in Tasks : s # r \/ u # t => job'[s][u] = job[s][u]
  <2> DEFINE running == [j EXCEPT !.pc = "run", !.lease = 0, !.left = Timeout]
  <2>1. SetJob(r, t, running)
    BY DEF StartHandler
  <2>2. /\ job'[r][t] = running
        /\ \A s \in Replicas, u \in Tasks : s # r \/ u # t => job'[s][u] = job[s][u]
    BY <1>1, <2>1, SetJobAt
  <2>3. job'[r][t] \in Job
    BY DEF TypeOK
  <2> QED BY <2>2, <2>3 DEF Job
<1>5. GiveUpIsOwn'
  <2> SUFFICES ASSUME NEW s \in Replicas, NEW u \in Tasks, job'[s][u].pc = "giveup"
               PROVE  /\ job'[s][u].attempts \in 1 .. obj'[u].attempts
                      /\ job'[s][u].attempts \notin started'[u]
                      /\ \A q \in Replicas :
                           job'[q][u].pc = "giveup" /\ job'[q][u].attempts = job'[s][u].attempts
                             => q = s
    BY DEF GiveUpIsOwn
  <2>1. s # r \/ u # t
    BY <1>4
  <2>2. job'[s][u] = job[s][u]
    BY <1>4, <2>1
  <2>3. /\ job[s][u].attempts \in 1 .. obj[u].attempts
        /\ job[s][u].attempts \notin started[u]
        /\ \A q \in Replicas :
             job[q][u].pc = "giveup" /\ job[q][u].attempts = job[s][u].attempts => q = s
    BY <1>1, <2>2 DEF GiveUpIsOwn
  <2>4. job[s][u].attempts \in 1 .. obj'[u].attempts
    BY <1>2, <2>3
  <2>5. job[s][u].attempts \notin started'[u]
    BY <1>3, <2>1, <2>2, <2>3
  <2>6. ASSUME NEW q \in Replicas, job'[q][u].pc = "giveup",
               job'[q][u].attempts = job'[s][u].attempts
        PROVE  q = s
    <3>1. job'[q][u] = job[q][u]
      BY <1>4, <2>6
    <3> QED BY <2>2, <2>3, <2>6, <3>1
  <2> QED BY <2>2, <2>4, <2>5, <2>6
<1>6. StartsAreAttempts'
  <2> SUFFICES ASSUME NEW u \in Tasks
               PROVE  /\ obj'[u].attempts <= MaxAttempts[u]
                      /\ started'[u] \subseteq 1 .. obj'[u].attempts
                      /\ starts'[u] = Cardinality(started'[u])
    BY DEF StartsAreAttempts
  <2>1. /\ started[u] \subseteq 1 .. obj[u].attempts
        /\ starts[u] = Cardinality(started[u])
    BY <1>1 DEF StartsAreAttempts
  <2>2. 1 .. obj[u].attempts \subseteq 1 .. obj'[u].attempts
    BY <1>2
  <2>3. CASE u = t
    <3>1. Cardinality(started[t] \cup {a}) = Cardinality(started[t]) + 1
      BY <1>2, <2>1, <2>3, OneMoreStart
    <3> QED BY <1>3, <2>1, <2>2, <2>3, <3>1
  <2>4. CASE u # t
    BY <1>3, <2>1, <2>2, <2>4
  <2> QED BY <2>3, <2>4
<1> QED BY <1>5, <1>6 DEF Budget

(* Every action keeps the invariant: only a claim, its ambiguous failure, a *)
(* give-up and a read that decides to claim touch what it speaks about.     *)
LEMMA BudgetStep == Budget /\ [Next]_vars => Budget'
<1> SUFFICES ASSUME Budget, [Next]_vars PROVE Budget'
  OBVIOUS
<1>t. TypeOK /\ TypeOK'
  BY TypeStep DEF Budget
<1>n. \A t \in Tasks : obj[t].attempts \in Nat /\ obj[t].tag \in Nat
  BY <1>t DEF TypeOK, Task
<1>1. ASSUME NEW r \in Replicas, NEW t \in Tasks, Enqueue(r, t) PROVE Budget'
  <2>1. \A u \in Tasks : obj'[u].attempts = obj[u].attempts /\ obj'[u].tag >= obj[u].tag
    BY <1>1, <1>t, <1>n DEF Enqueue, TypeOK, Task
  <2> QED BY <1>1, <1>t, <2>1, CalmStep DEF Enqueue
<1>2. ASSUME NEW r \in Replicas, Poll(r) PROVE Budget'
  BY <1>2, <1>t, <1>n, CalmStep DEF Poll
<1>3. ASSUME NEW r \in Replicas, Take(r) PROVE Budget'
  <2>1. PICK t \in Oldest(listed[r]) :
          \/ SetJob(r, t, ReadTask(r, t))
          \/ UNCHANGED job
    BY <1>3 DEF Take
  <2>2. UNCHANGED <<obj, started, starts>>
    BY <1>3 DEF Take
  <2>3. CASE UNCHANGED job
    BY <1>t, <1>n, <2>2, <2>3, CalmStep
  <2>4. CASE SetJob(r, t, ReadTask(r, t))
    <3>1. t \in Tasks
      BY <1>t DEF Oldest, TypeOK
    <3>2. /\ job'[r][t] = ReadTask(r, t)
          /\ \A s \in Replicas, u \in Tasks : s # r \/ u # t => job'[s][u] = job[s][u]
      BY <1>t, <2>4, <3>1, SetJobAt
    <3>3. ReadTask(r, t).pc # "giveup"
      BY DEF ReadTask, Idle
    <3>4. ReadTask(r, t).pc = "claim" =>
            /\ ReadTask(r, t).tag = obj[t].tag
            /\ ReadTask(r, t).attempts = obj[t].attempts + 1
            /\ ReadTask(r, t).attempts <= MaxAttempts[t]
      BY <1>n, <3>1, BudgetTypes, <1>t DEF ReadTask, Idle
    <3>5. ClaimIsNext'
      BY <1>n, <2>2, <3>1, <3>2, <3>4 DEF Budget, ClaimIsNext
    <3>6. GiveUpIsOwn'
      BY <2>2, <3>1, <3>2, <3>3 DEF Budget, GiveUpIsOwn
    <3>7. StartsAreAttempts'
      BY <2>2 DEF Budget, StartsAreAttempts
    <3> QED BY <1>t, <3>5, <3>6, <3>7 DEF Budget
  <2> QED BY <2>1, <2>3, <2>4
<1>4. ASSUME NEW r \in Replicas, NEW t \in Tasks, JobStep(r, t) PROVE Budget'
  <2> DEFINE j == job[r][t]
  <2>m. /\ obj[t].attempts <= MaxAttempts[t]
        /\ started[t] \subseteq 1 .. obj[t].attempts
        /\ \A u \in Tasks : obj[u].attempts <= MaxAttempts[u]
    BY DEF Budget, StartsAreAttempts
  <2>0. ASSUME NEW k, SetJob(r, t, k), k.pc \notin {"claim", "giveup"},
               UNCHANGED <<started, starts>>,
               \A u \in Tasks : obj'[u].attempts = obj[u].attempts /\ obj'[u].tag >= obj[u].tag
        PROVE  Budget'
    <3>1. \A s \in Replicas, u \in Tasks :
            job'[s][u].pc \in {"claim", "giveup"} => job'[s][u] = job[s][u]
      BY <1>t, <2>0, SetJobAt
    <3> QED BY <1>t, <2>0, <3>1, CalmStep
  <2>i. Idle.pc \notin {"claim", "giveup"}
    BY DEF Idle
  <2>1. CASE Claim(r, t)
    <3> DEFINE k == [j EXCEPT !.tag = obj[t].tag + 1]
               g == [k EXCEPT !.pc = "giveup", !.left = OpTimeout]
    <3>1. j.pc = "claim" /\ Matches(t, j.tag) /\ obj' = ClaimedObj(r, t)
      BY <2>1 DEF Claim
    <3>2. j \in Job
      BY <1>t, JobType
    <3>3. k.attempts = j.attempts /\ k.pc = "claim"
      BY <3>1, <3>2 DEF Job
    <3>4. CASE MaxAttempts[t] = 1
      <4>1. SetJob(r, t, g) /\ UNCHANGED <<started, starts>>
        BY <2>1, <3>4 DEF Claim
      <4>2. g.pc = "giveup" /\ g.attempts = j.attempts
        BY <3>2 DEF Job
      <4> QED BY <1>t, <3>1, <4>1, <4>2, ClaimWithoutStart
    <3>5. CASE MaxAttempts[t] # 1
      <4>1. StartHandler(r, t, k)
        BY <2>1, <3>5 DEF Claim
      <4> DEFINE run == [k EXCEPT !.pc = "run", !.lease = 0, !.left = Timeout]
      <4>2. SetJob(r, t, run) /\ run.pc # "claim"
        BY <3>2, <4>1 DEF StartHandler, Job
      <4>3. /\ ClaimIsNext'
            /\ obj'[t].attempts = obj[t].attempts + 1
            /\ obj'[t].attempts <= MaxAttempts[t]
            /\ \A u \in Tasks : obj'[u].attempts >= obj[u].attempts
        BY <1>t, <3>1, <4>2, AppliedClaim
      <4>4. obj'[t].attempts = k.attempts /\ \A u \in Tasks : u # t => obj'[u] = obj[u]
        BY <1>t, <3>1, <3>3, ClaimedObjAt
      <4>5. \A u \in Tasks : obj'[u].attempts <= MaxAttempts[u]
        BY <2>m, <4>3, <4>4
      <4>6. k.attempts = obj[t].attempts + 1
        BY <4>3, <4>4
      <4>7. k.attempts \in 1 .. obj'[t].attempts /\ k.attempts \notin started[t]
        BY <1>n, <2>m, <4>3, <4>6
      <4>8. \A s \in Replicas : job[s][t].pc = "giveup" => job[s][t].attempts # k.attempts
        BY <1>n, <4>6 DEF Budget, GiveUpIsOwn
      <4> HIDE DEF k
      <4> QED BY <1>t, <4>1, <4>3, <4>5, <4>7, <4>8, StartStep
    <3> QED BY <3>4, <3>5
  <2>2. CASE ClaimLost(r, t)
    BY <1>n, <2>0, <2>2, <2>i DEF ClaimLost
  <2>3. CASE ClaimFails(r, t)
    <3>1. j.pc = "claim" /\ SetJob(r, t, Idle) /\ UNCHANGED <<started, starts>>
      BY <2>3 DEF ClaimFails
    <3>2. CASE UNCHANGED obj
      BY <1>n, <2>0, <2>i, <3>1, <3>2
    <3>3. CASE Matches(t, j.tag) /\ obj' = ClaimedObj(r, t)
      BY <1>t, <2>i, <3>1, <3>3, ClaimWithoutStart
    <3> QED BY <2>3, <3>2, <3>3 DEF ClaimFails
  <2>d. ASSUME NEW live \in BOOLEAN, DropTask(r, t, live)
        PROVE  \A u \in Tasks : obj'[u].attempts = obj[u].attempts /\ obj'[u].tag = obj[u].tag
    BY <1>t, <2>d, DropTaskKeeps
  <2>4. CASE Exhaust(r, t)
    <3>1. \A u \in Tasks : obj'[u].attempts = obj[u].attempts /\ obj'[u].tag = obj[u].tag
      BY <2>4, <2>d DEF Exhaust, Reaches
    <3>2. \A u \in Tasks : obj'[u].attempts = obj[u].attempts /\ obj'[u].tag >= obj[u].tag
      BY <1>n, <3>1
    <3> QED BY <2>0, <2>4, <2>i, <3>2 DEF Exhaust
  <2>5. CASE GiveUp(r, t)
    <3>1. \A u \in Tasks : obj'[u].attempts = obj[u].attempts /\ obj'[u].tag = obj[u].tag
      BY <2>5, <2>d DEF GiveUp, Reaches
    <3>2. /\ j.attempts \in 1 .. obj[t].attempts
          /\ j.attempts \notin started[t]
          /\ \A s \in Replicas :
               s # r /\ job[s][t].pc = "giveup" => job[s][t].attempts # j.attempts
      BY <2>5 DEF GiveUp, Budget, GiveUpIsOwn
    <3>3. StartHandler(r, t, j)
      BY <2>5 DEF GiveUp
    <3>4. ClaimIsNext'
      <4> DEFINE run == [j EXCEPT !.pc = "run", !.lease = 0, !.left = Timeout]
      <4>1. SetJob(r, t, run)
        BY <3>3 DEF StartHandler
      <4>2. j \in Job
        BY <1>t, JobType
      <4>3. run.pc # "claim"
        BY <4>2 DEF Job
      <4> HIDE DEF run
      <4>4. \A s \in Replicas, u \in Tasks :
              job'[s][u].pc = "claim" => job'[s][u] = job[s][u]
        BY <1>t, <4>1, <4>3, SetJobAt
      <4> QED BY <3>1, <4>4 DEF Budget, ClaimIsNext
    <3>5. \A u \in Tasks : /\ obj'[u].attempts >= obj[u].attempts
                           /\ obj'[u].attempts <= MaxAttempts[u]
      BY <1>n, <2>m, <3>1
    <3> QED BY <1>t, <3>1, <3>2, <3>3, <3>4, <3>5, StartStep
  <2>e. ASSUME NEW pc \in {"drop", "retry"}, Ends(r, t, pc)
        PROVE  \E k : SetJob(r, t, k) /\ k.pc \notin {"claim", "giveup"}
    <3>1. CASE MaxAttempts[t] = 1
      BY <2>e, <2>i, <3>1 DEF Ends
    <3>2. CASE MaxAttempts[t] # 1
      <4>1. SetJob(r, t, [j EXCEPT !.pc = pc, !.left = OpTimeout])
        BY <2>e, <3>2 DEF Ends
      <4>2. [j EXCEPT !.pc = pc, !.left = OpTimeout].pc \notin {"claim", "giveup"}
        BY <1>t, JobType DEF Job
      <4> QED BY <4>1, <4>2
    <3> QED BY <3>1, <3>2
  <2>6. CASE Succeed(r, t)
    <3>1. PICK k : SetJob(r, t, k) /\ k.pc \notin {"claim", "giveup"}
      BY <2>6, <2>e DEF Succeed
    <3> QED BY <1>n, <2>0, <2>6, <3>1 DEF Succeed
  <2>7. CASE Fail(r, t)
    <3>1. PICK k : SetJob(r, t, k) /\ k.pc \notin {"claim", "giveup"}
      BY <2>7, <2>e DEF Fail
    <3> QED BY <1>n, <2>0, <2>7, <3>1 DEF Fail
  <2>8. CASE Drop(r, t)
    <3>1. \A u \in Tasks : obj'[u].attempts = obj[u].attempts /\ obj'[u].tag = obj[u].tag
      BY <2>8, <2>d DEF Drop
    <3>2. \A u \in Tasks : obj'[u].attempts = obj[u].attempts /\ obj'[u].tag >= obj[u].tag
      BY <1>n, <3>1
    <3> QED BY <2>0, <2>8, <2>i, <3>2 DEF Drop
  <2>9. CASE Retry(r, t)
    <3> DEFINE again == [obj[t] EXCEPT !.tag = obj[t].tag + 1, !.owner = None,
                                       !.lease = 0, !.notBefore = Backoff]
    <3>1. obj[t] \in Task
      BY <1>t DEF TypeOK
    <3>2. again.attempts = obj[t].attempts /\ again.tag = obj[t].tag + 1
      BY <3>1 DEF Task
    <3>3. obj' = obj \/ obj' = [obj EXCEPT ![t] = again]
      BY <2>9 DEF Retry
    <3> HIDE DEF again
    <3>4. \A u \in Tasks : obj'[u] = obj[u] \/ (u = t /\ obj'[u] = again)
      BY <1>t, <3>3 DEF TypeOK
    <3>5. \A u \in Tasks : obj'[u].attempts = obj[u].attempts /\ obj'[u].tag >= obj[u].tag
      BY <1>n, <3>2, <3>4
    <3> QED BY <2>0, <2>9, <2>i, <3>5 DEF Retry
  <2> QED BY <1>4, <2>1, <2>2, <2>3, <2>4, <2>5, <2>6, <2>7, <2>8, <2>9 DEF JobStep
<1>5. ASSUME NEW r \in Replicas, Shutdown(r) PROVE Budget'
  BY <1>5, <1>t, <1>n, CalmStep DEF Shutdown
<1>6. ASSUME NEW r \in Replicas, Stop(r) PROVE Budget'
  <2>1. \A s \in Replicas, t \in Tasks :
          job'[s][t].pc \in {"claim", "giveup"} => job'[s][t] = job[s][t]
    BY <1>6, <1>t DEF Stop, TypeOK, Idle
  <2>2. UNCHANGED <<obj, started, starts>>
    BY <1>6 DEF Stop
  <2> QED BY <1>t, <1>n, <2>1, <2>2, CalmStep
<1>7. CASE Tick
  <2>1. ASSUME NEW r \in Replicas, NEW t \in Tasks
        PROVE  /\ job'[r][t].pc = job[r][t].pc
               /\ job'[r][t].tag = job[r][t].tag
               /\ job'[r][t].attempts = job[r][t].attempts
    <3>1. job[r][t] \in Job
      BY <1>t, JobType
    <3>2. job'[r][t] = [job[r][t] EXCEPT !.lease = Down(job[r][t].lease),
                                         !.left = Down(job[r][t].left)]
      BY <1>7 DEF Tick
    <3> QED BY <3>1, <3>2 DEF Job
  <2>2. ASSUME NEW t \in Tasks
        PROVE  obj'[t].attempts = obj[t].attempts /\ obj'[t].tag = obj[t].tag
    <3>1. obj[t] \in Task
      BY <1>t DEF TypeOK
    <3>2. obj'[t] = [obj[t] EXCEPT !.lease = Down(obj[t].lease),
                                   !.notBefore = Down(obj[t].notBefore)]
      BY <1>7 DEF Tick
    <3> QED BY <3>1, <3>2 DEF Task
  <2>3. UNCHANGED <<started, starts>>
    BY <1>7 DEF Tick
  <2>4. \A t \in Tasks : obj'[t].attempts = obj[t].attempts /\ obj'[t].tag >= obj[t].tag
    BY <1>n, <2>2
  <2> QED BY <1>t, <2>1, <2>3, <2>4, CalmStep
<1>8. CASE UNCHANGED vars
  BY <1>8, <1>t, <1>n, CalmStep DEF vars
<1> QED BY <1>1, <1>2, <1>3, <1>4, <1>5, <1>6, <1>7, <1>8 DEF Next

(* Nothing is claimed and nothing has started at first. *)
LEMMA BudgetInit == Init => Budget
<1> SUFFICES ASSUME Init PROVE Budget
  OBVIOUS
<1>1. TypeOK
  BY TypeInit
<1>2. ClaimIsNext /\ GiveUpIsOwn
  BY DEF Init, ClaimIsNext, GiveUpIsOwn, Idle
<1>3. StartsAreAttempts
  <2>1. Cardinality({}) = 0
    BY FS_EmptySet
  <2>2. \A t \in Tasks : MaxAttempts[t] \in Nat
    BY QueueAssumption
  <2> QED BY <2>1, <2>2 DEF Init, StartsAreAttempts
<1> QED BY <1>1, <1>2, <1>3 DEF Budget

(* The attempts that started are numbers up to the stored count, which the *)
(* budget bounds.                                                          *)
LEMMA BudgetBounds == Budget => StartsWithinBudget
<1> SUFFICES ASSUME Budget, NEW t \in Tasks PROVE starts[t] <= MaxAttempts[t]
  BY DEF StartsWithinBudget
<1> DEFINE n == obj[t].attempts
<1>1. /\ n <= MaxAttempts[t]
      /\ started[t] \in SUBSET (1 .. n)
      /\ starts[t] = Cardinality(started[t])
  BY DEF Budget, StartsAreAttempts
<1>2. n \in Nat /\ MaxAttempts[t] \in Nat
  BY QueueAssumption DEF Budget, TypeOK, Task
<1> HIDE DEF n
<1> DEFINE S == started[t]
<1>s. S \in SUBSET (1 .. n)
  BY <1>1
<1> HIDE DEF S
<1>3. IsFiniteSet(1 .. n) /\ Cardinality(1 .. n) = n
  <2>1. n \in Int
    BY <1>2
  <2>2. IsFiniteSet(1 .. n) /\ Cardinality(1 .. n) = IF 1 > n THEN 0 ELSE n - 1 + 1
    BY <2>1, FS_Interval
  <2> QED BY <1>2, <2>2
<1>4. IsFiniteSet(S) /\ Cardinality(S) <= n
  <2>1. IsFiniteSet(S) /\ Cardinality(S) <= Cardinality(1 .. n)
    BY <1>s, <1>3, FS_Subset
  <2> QED BY <1>3, <2>1
<1>5. Cardinality(S) \in Nat
  BY <1>4, FS_CardinalityType
<1>6. starts[t] = Cardinality(S)
  BY <1>1 DEF S
<1> QED BY <1>1, <1>2, <1>4, <1>5, <1>6

(* Whatever is lost, delayed, retried or stopped, on any number of replicas, *)
(* a task's handler is started at most MaxAttempts times: an at-most-once    *)
(* side effect is never replayed by the queue.                               *)
THEOREM DeliveryBudget == Spec => []StartsWithinBudget
BY BudgetInit, BudgetStep, BudgetBounds, PTL DEF Spec

----------------------------------------------------------------------------
\* What a claim under way may assume of the object it was read from.

(* A task that is taken was listed and is so no longer; the tag it was read at *)
(* is one the object has had.                                                  *)
Tagged(r, t) ==
  /\ t \in listed[r] => job[r][t].pc = "idle"
  /\ job[r][t].pc # "idle" => job[r][t].tag >= 1 /\ job[r][t].tag <= obj[t].tag

(* While no write came since: the object was free or this replica's own; the *)
(* attempt is the stored one; and a drop is due.                             *)
Earned(r, t) ==
  job[r][t].pc # "idle" /\ job[r][t].tag = obj[t].tag =>
    /\ obj[t].lease = 0 \/ obj[t].owner = r
    /\ job[r][t].pc \in {"giveup", "run"} => obj[t].attempts = job[r][t].attempts
    /\ job[r][t].pc = "exhaust" => obj[t].attempts >= MaxAttempts[t]
    /\ job[r][t].pc = "drop" => t \in succeeded \/ obj[t].attempts >= MaxAttempts[t]

Kinds(r, t) == job[r][t].pc = "giveup" => MaxAttempts[t] = 1

Good(r, t) == Tagged(r, t) /\ Earned(r, t) /\ Kinds(r, t)

Stored(t) == obj[t].there => obj[t].tag >= 1

Lost(t) == MaxAttempts[t] > 1 /\ obj[t].tag > 0 /\ ~obj[t].there
Settled(t) == t \in succeeded \/ obj[t].attempts = MaxAttempts[t]

ClaimsInv ==
  /\ Budget
  /\ \A t \in Tasks : Stored(t) /\ (Lost(t) => Settled(t))
  /\ \A r \in Replicas, t \in Tasks : Good(r, t)

(* The fields of an object and of a job. *)
LEMMA Fields ==
  ASSUME TypeOK, NEW r \in Replicas, NEW t \in Tasks
  PROVE  /\ obj[t].there \in BOOLEAN /\ obj[t].lease \in Nat /\ obj[t].notBefore \in Nat
         /\ obj[t].attempts \in Nat /\ obj[t].tag \in Nat
         /\ job[r][t].lease \in Nat /\ job[r][t].left \in Nat
         /\ job[r][t].attempts \in Nat /\ job[r][t].tag \in Nat
BY DEF TypeOK, Task, Job

(* An object that keeps its tag keeps what was read of it, or is removed. *)
Moves(t) ==
  /\ obj'[t].tag >= obj[t].tag
  /\ obj'[t].tag = obj[t].tag =>
       obj'[t].owner = obj[t].owner /\ obj'[t].lease = obj[t].lease
         /\ obj'[t].attempts = obj[t].attempts
  /\ obj'[t].there => obj'[t].tag >= 1

LEMMA JobKept ==
  ASSUME TypeOK, TypeOK', NEW r \in Replicas, NEW t \in Tasks, Good(r, t), Moves(t),
         job'[r][t] = job[r][t] \/ job'[r][t].pc = "idle", listed'[r] \subseteq listed[r],
         succeeded \subseteq succeeded'
  PROVE  Good(r, t)'
<1>1. CASE job'[r][t].pc = "idle"
  BY <1>1 DEF Good, Tagged, Earned, Kinds
<1>2. CASE job'[r][t] = job[r][t] /\ job[r][t].pc # "idle"
  <2>1. /\ obj[t].tag \in Nat /\ obj'[t].tag \in Nat /\ job[r][t].tag \in Nat
        /\ job[r][t].tag >= 1 /\ job[r][t].tag <= obj[t].tag
    BY <1>2, Fields DEF TypeOK, Task, Good, Tagged
  <2>2. Tagged(r, t)'
    BY <1>2, <2>1 DEF Moves, Good, Tagged
  <2>3. job[r][t].tag = obj'[t].tag => obj'[t].tag = obj[t].tag
    BY <2>1 DEF Moves
  <2>4. Earned(r, t)'
    BY <1>2, <2>3 DEF Moves, Good, Earned
  <2> QED BY <1>2, <2>2, <2>4 DEF Good, Kinds
<1> QED BY <1>1, <1>2

(* A step of one job that removes no task too early. *)
LEMMA OneJob ==
  ASSUME ClaimsInv, Budget', \A u \in Tasks : Moves(u), NEW r \in Replicas, NEW t \in Tasks,
         \A s \in Replicas, u \in Tasks : s # r \/ u # t => job'[s][u] = job[s][u],
         \A s \in Replicas : listed'[s] \subseteq listed[s],
         succeeded \subseteq succeeded', Good(r, t)',
         \A u \in Tasks : u # t => obj'[u] = obj[u], Lost(t)' => Settled(t)'
  PROVE  ClaimsInv'
<1>1. TypeOK /\ TypeOK'
  BY DEF ClaimsInv, Budget
<1>2. \A s \in Replicas, u \in Tasks : Good(s, u)'
  <2> SUFFICES ASSUME NEW s \in Replicas, NEW u \in Tasks, s # r \/ u # t PROVE Good(s, u)'
    OBVIOUS
  <2>1. job'[s][u] = job[s][u] /\ Good(s, u) /\ Moves(u) /\ listed'[s] \subseteq listed[s]
    BY DEF ClaimsInv
  <2> QED BY <1>1, <2>1, JobKept
<1>3. ASSUME NEW u \in Tasks PROVE Stored(u)' /\ (Lost(u)' => Settled(u)')
  <2>1. Stored(u)'
    BY DEF Moves, Stored
  <2>2. CASE u # t
    BY <2>1, <2>2 DEF ClaimsInv, Lost, Settled
  <2> QED BY <2>1, <2>2
<1> QED BY <1>2, <1>3 DEF ClaimsInv

(* drop removes the object, if its tag is the one that was read. *)
LEMMA DropAt ==
  ASSUME TypeOK, NEW r \in Replicas, NEW t \in Tasks, NEW live \in BOOLEAN,
         DropTask(r, t, live)
  PROVE  /\ \A u \in Tasks : /\ obj'[u].tag = obj[u].tag /\ obj'[u].owner = obj[u].owner
                             /\ obj'[u].lease = obj[u].lease /\ obj'[u].attempts = obj[u].attempts
                             /\ obj'[u].there => obj[u].there
         /\ \A u \in Tasks : u # t => obj'[u] = obj[u]
         /\ obj'[t] = obj[t] \/ Matches(t, job[r][t].tag)
<1>1. obj' = obj \/ (obj' = Removed(t) /\ Matches(t, job[r][t].tag))
  BY DEF DropTask
<1>2. ASSUME NEW u \in Tasks
      PROVE  /\ Removed(t)[u].tag = obj[u].tag /\ Removed(t)[u].owner = obj[u].owner
             /\ Removed(t)[u].lease = obj[u].lease /\ Removed(t)[u].attempts = obj[u].attempts
             /\ Removed(t)[u].there => obj[u].there
             /\ u # t => Removed(t)[u] = obj[u]
  BY DEF Removed, TypeOK, Task
<1> QED BY <1>1, <1>2

LEMMA DropMoves ==
  ASSUME ClaimsInv, NEW r \in Replicas, NEW t \in Tasks, NEW live \in BOOLEAN,
         DropTask(r, t, live)
  PROVE  \A u \in Tasks : Moves(u)
<1>1. TypeOK /\ \A u \in Tasks : Stored(u) /\ obj[u].tag \in Nat
  BY DEF ClaimsInv, Budget, TypeOK, Task
<1> QED BY <1>1, DropAt DEF Moves, Stored

(* A drop that is due loses no task. *)
LEMMA DropSettles ==
  ASSUME ClaimsInv, NEW r \in Replicas, NEW t \in Tasks, NEW live \in BOOLEAN,
         DropTask(r, t, live), succeeded' = succeeded,
         job[r][t].tag = obj[t].tag /\ MaxAttempts[t] > 1 =>
           t \in succeeded \/ obj[t].attempts >= MaxAttempts[t]
  PROVE  Lost(t)' => Settled(t)'
<1>1. TypeOK /\ obj[t].attempts <= MaxAttempts[t] /\ (Lost(t) => Settled(t))
  BY DEF ClaimsInv, Budget, StartsAreAttempts
<1>2. obj[t].attempts \in Nat /\ MaxAttempts[t] \in Nat
  BY <1>1, QueueAssumption DEF TypeOK, Task
<1>3. /\ obj'[t].tag = obj[t].tag /\ obj'[t].attempts = obj[t].attempts
      /\ obj'[t] = obj[t] \/ Matches(t, job[r][t].tag)
  BY <1>1, DropAt
<1>4. CASE obj'[t] = obj[t]
  BY <1>1, <1>4 DEF Lost, Settled
<1>5. CASE Matches(t, job[r][t].tag)
  BY <1>1, <1>2, <1>3, <1>5 DEF Lost, Settled, Matches
<1> QED BY <1>3, <1>4, <1>5

(* A worker takes a task: what it reads is current, and due for it. *)
LEMMA TakeGood ==
  ASSUME ClaimsInv, NEW r \in Replicas, NEW t \in Tasks, job'[r][t] = ReadTask(r, t),
         t \notin listed'[r], UNCHANGED obj
  PROVE  Good(r, t)'
<1>1. TypeOK /\ Stored(t) /\ obj[t].tag \in Nat /\ obj[t].attempts \in Nat
      /\ MaxAttempts[t] \in Nat
  BY QueueAssumption DEF ClaimsInv, Budget, TypeOK, Task
<1>2. CASE job'[r][t].pc = "idle"
  BY <1>2 DEF Good, Tagged, Earned, Kinds
<1>3. CASE job'[r][t].pc # "idle"
  <2>1. /\ obj[t].there /\ Due(r, t) /\ job'[r][t].tag = obj[t].tag
        /\ job'[r][t].pc \in {"claim", "exhaust"}
        /\ job'[r][t].pc = "exhaust" => obj[t].attempts + 1 > MaxAttempts[t]
    BY <1>3 DEF ReadTask, Idle
  <2>2. obj[t].tag >= 1
    BY <1>1, <2>1 DEF Stored
  <2> QED BY <1>1, <2>1, <2>2 DEF Good, Tagged, Earned, Kinds, Due
<1> QED BY <1>2, <1>3

(* A claim that is applied is a write of its own, by the replica that asked. *)
LEMMA ClaimedAt ==
  ASSUME ClaimsInv, NEW r \in Replicas, NEW t \in Tasks, obj' = ClaimedObj(r, t)
  PROVE  /\ \A u \in Tasks : Moves(u)
         /\ \A u \in Tasks : u # t => obj'[u] = obj[u]
         /\ obj'[t].there /\ obj'[t].tag = obj[t].tag + 1 /\ obj'[t].owner = r
         /\ obj'[t].attempts = job[r][t].attempts /\ obj'[t].lease = job[r][t].lease
<1>1. TypeOK /\ \A u \in Tasks : Stored(u) /\ obj[u].tag \in Nat
  BY DEF ClaimsInv, Budget, TypeOK, Task
<1>2. /\ \A u \in Tasks : u # t => obj'[u] = obj[u]
      /\ obj'[t].there /\ obj'[t].tag = obj[t].tag + 1 /\ obj'[t].owner = r
      /\ obj'[t].attempts = job[r][t].attempts /\ obj'[t].lease = job[r][t].lease
  BY <1>1 DEF ClaimedObj, TypeOK
<1>3. ASSUME NEW u \in Tasks PROVE Moves(u)
  <2>1. CASE u = t
    BY <1>1, <1>2, <2>1 DEF Moves
  <2>2. CASE u # t
    BY <1>1, <1>2, <2>2 DEF Moves, Stored
  <2> QED BY <2>1, <2>2
<1> QED BY <1>2, <1>3

(* A write that puts a failed task back takes the claim off. *)
LEMMA RetryAt ==
  ASSUME ClaimsInv, NEW r \in Replicas, NEW t \in Tasks, Retry(r, t)
  PROVE  /\ \A u \in Tasks : Moves(u)
         /\ \A u \in Tasks : u # t => obj'[u] = obj[u]
         /\ obj'[t] = obj[t] \/ (Matches(t, job[r][t].tag) /\ obj'[t].there)
<1> DEFINE again == [obj[t] EXCEPT !.tag = obj[t].tag + 1, !.owner = None,
                                   !.lease = 0, !.notBefore = Backoff]
<1>1. TypeOK /\ obj[t] \in Task /\ \A u \in Tasks : Stored(u) /\ obj[u].tag \in Nat
  BY DEF ClaimsInv, Budget, TypeOK, Task
<1>2. again.tag = obj[t].tag + 1 /\ again.there = obj[t].there
  BY <1>1 DEF Task
<1>3. obj' = obj \/ (obj' = [obj EXCEPT ![t] = again] /\ Matches(t, job[r][t].tag))
  BY DEF Retry
<1> HIDE DEF again
<1>4. CASE obj' = obj
  BY <1>1, <1>4 DEF Moves, Stored
<1>5. CASE obj' = [obj EXCEPT ![t] = again] /\ Matches(t, job[r][t].tag)
  <2>1. obj'[t] = again /\ \A u \in Tasks : u # t => obj'[u] = obj[u]
    BY <1>1, <1>5 DEF TypeOK
  <2>2. again.there
    BY <1>2, <1>5 DEF Matches
  <2>3. ASSUME NEW u \in Tasks PROVE Moves(u)
    <3>1. CASE u = t
      BY <1>1, <1>2, <2>1, <3>1 DEF Moves
    <3>2. CASE u # t
      BY <1>1, <2>1, <3>2 DEF Moves, Stored
    <3> QED BY <3>1, <3>2
  <2> QED BY <1>5, <2>1, <2>2, <2>3
<1> QED BY <1>3, <1>4, <1>5

(* A step that leaves every job alone, or ends it, and only moves objects on. *)
LEMMA QuietStep ==
  ASSUME ClaimsInv, Budget', \A u \in Tasks : Moves(u),
         \A r \in Replicas, t \in Tasks : job'[r][t] = job[r][t] \/ job'[r][t].pc = "idle",
         \A r \in Replicas : listed'[r] \subseteq listed[r],
         succeeded \subseteq succeeded',
         \A t \in Tasks : Lost(t)' => Settled(t)'
  PROVE  ClaimsInv'
<1>1. TypeOK /\ TypeOK'
  BY DEF ClaimsInv, Budget
<1>2. \A s \in Replicas, u \in Tasks : Good(s, u)'
  <2> SUFFICES ASSUME NEW s \in Replicas, NEW u \in Tasks PROVE Good(s, u)'
    OBVIOUS
  <2>1. Good(s, u) /\ Moves(u)
    BY DEF ClaimsInv
  <2> QED BY <1>1, <2>1, JobKept
<1>3. \A u \in Tasks : Stored(u)'
  BY DEF Moves, Stored
<1> QED BY <1>2, <1>3 DEF ClaimsInv

(* An unchanged bucket moves on, and has lost nothing it had not lost before. *)
LEMMA StillMoves ==
  ASSUME ClaimsInv, UNCHANGED obj, succeeded \subseteq succeeded'
  PROVE  \A u \in Tasks : Moves(u) /\ (Lost(u)' => Settled(u)')
<1>1. \A u \in Tasks : Stored(u) /\ (Lost(u) => Settled(u)) /\ obj[u].tag \in Nat
  BY DEF ClaimsInv, Budget, TypeOK, Task
<1> QED BY <1>1 DEF Moves, Stored, Lost, Settled

(* The calls and the handler of one claimed task. *)
LEMMA ClaimsJobStep ==
  ASSUME ClaimsInv, Budget', NEW r \in Replicas, NEW t \in Tasks, JobStep(r, t)
  PROVE  ClaimsInv'
<1> DEFINE j == job[r][t]
<1>0. /\ TypeOK /\ TypeOK' /\ j \in Job
      /\ obj[t].tag \in Nat /\ obj[t].attempts \in Nat /\ MaxAttempts[t] \in Nat \ {0}
      /\ Good(r, t) /\ (Lost(t) => Settled(t))
  BY JobType, BudgetTypes DEF ClaimsInv, Budget
<1>i. Idle.pc = "idle"
  BY DEF Idle
<1>l. \A s \in Replicas : listed'[s] \subseteq listed[s]
  BY DEF JobStep, Claim, ClaimLost, ClaimFails, Exhaust, GiveUp, Succeed, Fail, Drop, Retry
<1>s. succeeded \subseteq succeeded'
  BY DEF JobStep, Claim, ClaimLost, ClaimFails, Exhaust, GiveUp, Succeed, Fail, Drop, Retry
<1>q. ASSUME NEW k, SetJob(r, t, k)
      PROVE  /\ job'[r][t] = k
             /\ \A s \in Replicas, u \in Tasks : s # r \/ u # t => job'[s][u] = job[s][u]
  BY <1>0, <1>q, SetJobAt
<1>j. ASSUME SetJob(r, t, Idle)
      PROVE  \A s \in Replicas, u \in Tasks :
               job'[s][u] = job[s][u] \/ job'[s][u].pc = "idle"
  BY <1>i, <1>j, <1>q
<1>d. ASSUME NEW live \in BOOLEAN, DropTask(r, t, live)
      PROVE  /\ \A u \in Tasks : Moves(u)
             /\ \A u \in Tasks : u # t => obj'[u] = obj[u]
             /\ \A u \in Tasks : obj'[u].tag = obj[u].tag /\ obj'[u].owner = obj[u].owner
                                 /\ obj'[u].lease = obj[u].lease
                                 /\ obj'[u].attempts = obj[u].attempts
  BY <1>0, <1>d, DropAt, DropMoves
<1>o. ASSUME \A u \in Tasks : u # t => obj'[u] = obj[u], Lost(t)' => Settled(t)'
      PROVE  \A u \in Tasks : Lost(u)' => Settled(u)'
  <2> SUFFICES ASSUME NEW u \in Tasks, u # t PROVE Lost(u)' => Settled(u)'
    BY <1>o
  <2> QED BY <1>o, <1>s DEF ClaimsInv, Lost, Settled
<1>1. CASE Claim(r, t)
  <2>1. /\ \A u \in Tasks : Moves(u)
        /\ \A u \in Tasks : u # t => obj'[u] = obj[u]
        /\ obj'[t].there /\ obj'[t].tag = obj[t].tag + 1 /\ obj'[t].owner = r
        /\ obj'[t].attempts = j.attempts
    BY <1>1, ClaimedAt DEF Claim
  <2>2. j.pc = "claim" /\ t \notin listed'[r]
    BY <1>0, <1>1 DEF Claim, Good, Tagged
  <2>3. PICK k : /\ SetJob(r, t, k) /\ k.tag = obj[t].tag + 1 /\ k.attempts = j.attempts
                 /\ (k.pc = "giveup" /\ MaxAttempts[t] = 1) \/ k.pc = "run"
    <3> DEFINE base == [j EXCEPT !.tag = obj[t].tag + 1]
               give == [base EXCEPT !.pc = "giveup", !.left = OpTimeout]
               run == [base EXCEPT !.pc = "run", !.lease = 0, !.left = Timeout]
    <3>1. /\ give.tag = obj[t].tag + 1 /\ give.attempts = j.attempts /\ give.pc = "giveup"
          /\ run.tag = obj[t].tag + 1 /\ run.attempts = j.attempts /\ run.pc = "run"
      BY <1>0 DEF Job
    <3>2. CASE MaxAttempts[t] = 1
      <4>1. SetJob(r, t, give)
        BY <1>1, <3>2 DEF Claim
      <4> QED BY <3>1, <3>2, <4>1
    <3>3. CASE MaxAttempts[t] # 1
      <4>1. SetJob(r, t, run)
        BY <1>1, <3>3 DEF Claim, StartHandler
      <4> QED BY <3>1, <4>1
    <3> QED BY <3>2, <3>3
  <2>4. Good(r, t)'
    BY <1>0, <1>q, <2>1, <2>2, <2>3 DEF Good, Tagged, Earned, Kinds
  <2>5. Lost(t)' => Settled(t)'
    BY <2>1 DEF Lost
  <2>6. \A s \in Replicas, u \in Tasks : s # r \/ u # t => job'[s][u] = job[s][u]
    BY <1>q, <2>3
  <2> QED BY <1>l, <1>s, <2>1, <2>4, <2>5, <2>6, OneJob
<1>2. CASE ClaimLost(r, t)
  <2>1. SetJob(r, t, Idle) /\ UNCHANGED obj
    BY <1>2 DEF ClaimLost
  <2> QED BY <1>j, <1>l, <1>s, <2>1, QuietStep, StillMoves
<1>3. CASE ClaimFails(r, t)
  <2>1. SetJob(r, t, Idle) /\ (UNCHANGED obj \/ obj' = ClaimedObj(r, t))
    BY <1>3 DEF ClaimFails
  <2>2. CASE UNCHANGED obj
    BY <1>j, <1>l, <1>s, <2>1, <2>2, QuietStep, StillMoves
  <2>3. CASE obj' = ClaimedObj(r, t)
    <3>1. /\ \A u \in Tasks : Moves(u)
          /\ \A u \in Tasks : u # t => obj'[u] = obj[u]
          /\ obj'[t].there
      BY <2>3, ClaimedAt
    <3>2. \A u \in Tasks : Lost(u)' => Settled(u)'
      BY <1>o, <3>1 DEF Lost
    <3> QED BY <1>j, <1>l, <1>s, <2>1, <3>1, <3>2, QuietStep
  <2> QED BY <2>1, <2>2, <2>3
<1>4. CASE Exhaust(r, t)
  <2>1. j.pc = "exhaust" /\ DropTask(r, t, Reaches(r)) /\ SetJob(r, t, Idle)
        /\ succeeded' = succeeded /\ Reaches(r) \in BOOLEAN
    BY <1>4 DEF Exhaust, Reaches
  <2>2. j.tag = obj[t].tag => obj[t].attempts >= MaxAttempts[t]
    BY <1>0, <2>1 DEF Good, Earned
  <2>3. Lost(t)' => Settled(t)'
    BY <2>1, <2>2, DropSettles
  <2>4. /\ \A u \in Tasks : Moves(u)
        /\ \A u \in Tasks : u # t => obj'[u] = obj[u]
    BY <1>d, <2>1
  <2>5. \A u \in Tasks : Lost(u)' => Settled(u)'
    BY <1>o, <2>3, <2>4
  <2> QED BY <1>j, <1>l, <1>s, <2>1, <2>4, <2>5, QuietStep
<1>5. CASE GiveUp(r, t)
  <2> DEFINE k == [j EXCEPT !.pc = "run", !.lease = 0, !.left = Timeout]
  <2>k. k.pc = "run" /\ k.tag = j.tag /\ k.attempts = j.attempts
    BY <1>0 DEF Job
  <2>1. /\ j.pc = "giveup" /\ DropTask(r, t, Reaches(r)) /\ Reaches(r) \in BOOLEAN
        /\ succeeded' = succeeded /\ listed' = listed
        /\ SetJob(r, t, k)
    BY <1>5 DEF GiveUp, StartHandler, Reaches
  <2>2. MaxAttempts[t] = 1
    BY <1>0, <2>1 DEF Good, Kinds
  <2>3. /\ \A u \in Tasks : Moves(u)
        /\ \A u \in Tasks : u # t => obj'[u] = obj[u]
        /\ obj'[t].tag = obj[t].tag /\ obj'[t].owner = obj[t].owner
        /\ obj'[t].lease = obj[t].lease /\ obj'[t].attempts = obj[t].attempts
    BY <1>d, <2>1
  <2>4. /\ job'[r][t].pc = "run" /\ job'[r][t].tag = j.tag /\ job'[r][t].attempts = j.attempts
        /\ \A s \in Replicas, u \in Tasks : s # r \/ u # t => job'[s][u] = job[s][u]
    <3> HIDE DEF k
    <3> QED BY <1>q, <2>k, <2>1
  <2>5. Good(r, t)'
    BY <1>0, <2>1, <2>3, <2>4 DEF Good, Tagged, Earned, Kinds
  <2>6. Lost(t)' => Settled(t)'
    BY <2>2 DEF Lost
  <2> QED BY <1>l, <1>s, <2>3, <2>4, <2>5, <2>6, OneJob
<1>e. ASSUME NEW pc \in {"drop", "retry"}, Ends(r, t, pc), j.pc = "run", UNCHANGED <<obj, listed>>,
             pc = "drop" => t \in succeeded' \/ j.attempts >= MaxAttempts[t]
      PROVE  ClaimsInv'
  <2>m. \A u \in Tasks : Moves(u) /\ (Lost(u)' => Settled(u)')
    BY <1>e, <1>s, StillMoves
  <2>1. CASE MaxAttempts[t] = 1
    <3>1. SetJob(r, t, Idle)
      BY <1>e, <2>1 DEF Ends
    <3> QED BY <1>j, <1>l, <1>s, <2>m, <3>1, QuietStep
  <2>2. CASE MaxAttempts[t] # 1
    <3> DEFINE k == [j EXCEPT !.pc = pc, !.left = OpTimeout]
    <3>k. k.pc = pc /\ k.tag = j.tag /\ k.attempts = j.attempts
      BY <1>0 DEF Job
    <3>1. SetJob(r, t, k)
      BY <1>e, <2>2 DEF Ends
    <3>2. /\ job'[r][t].pc = pc /\ job'[r][t].tag = j.tag /\ job'[r][t].attempts = j.attempts
          /\ \A s \in Replicas, u \in Tasks : s # r \/ u # t => job'[s][u] = job[s][u]
      <4> HIDE DEF k
      <4> QED BY <1>q, <3>k, <3>1
    <3>3. Good(r, t)'
      BY <1>0, <1>e, <3>2 DEF Good, Tagged, Earned, Kinds
    <3> QED BY <1>e, <1>l, <1>s, <2>m, <3>2, <3>3, OneJob
  <2> QED BY <2>1, <2>2
<1>6. CASE Succeed(r, t)
  BY <1>6, <1>e DEF Succeed
<1>7. CASE Fail(r, t)
  <2> DEFINE pc == IF Spent(r, t) THEN "drop" ELSE "retry"
  <2>1. /\ Ends(r, t, pc) /\ pc \in {"drop", "retry"} /\ j.pc = "run"
        /\ UNCHANGED <<obj, listed>>
    BY <1>7 DEF Fail
  <2>2. pc = "drop" => j.attempts >= MaxAttempts[t]
    BY DEF Spent
  <2> HIDE DEF pc
  <2> QED BY <1>e, <2>1, <2>2
<1>8. CASE Drop(r, t)
  <2>1. j.pc = "drop" /\ DropTask(r, t, TRUE) /\ SetJob(r, t, Idle) /\ succeeded' = succeeded
    BY <1>8 DEF Drop
  <2>2. j.tag = obj[t].tag => t \in succeeded \/ obj[t].attempts >= MaxAttempts[t]
    BY <1>0, <2>1 DEF Good, Earned
  <2>3. Lost(t)' => Settled(t)'
    BY <2>1, <2>2, DropSettles
  <2>4. /\ \A u \in Tasks : Moves(u)
        /\ \A u \in Tasks : u # t => obj'[u] = obj[u]
    BY <1>d, <2>1
  <2>5. \A u \in Tasks : Lost(u)' => Settled(u)'
    BY <1>o, <2>3, <2>4
  <2> QED BY <1>j, <1>l, <1>s, <2>1, <2>4, <2>5, QuietStep
<1>9. CASE Retry(r, t)
  <2>1. SetJob(r, t, Idle) /\ succeeded' = succeeded
    BY <1>9 DEF Retry
  <2>2. /\ \A u \in Tasks : Moves(u)
        /\ \A u \in Tasks : u # t => obj'[u] = obj[u]
        /\ obj'[t] = obj[t] \/ obj'[t].there
    BY <1>9, RetryAt
  <2>3. Lost(t)' => Settled(t)'
    BY <1>0, <2>1, <2>2 DEF Lost, Settled
  <2>4. \A u \in Tasks : Lost(u)' => Settled(u)'
    BY <1>o, <2>2, <2>3
  <2> QED BY <1>j, <1>l, <1>s, <2>1, <2>2, <2>4, QuietStep
<1> QED BY <1>1, <1>2, <1>3, <1>4, <1>5, <1>6, <1>7, <1>8, <1>9 DEF JobStep

LEMMA ClaimsStep == ClaimsInv /\ [Next]_vars => ClaimsInv'
<1> SUFFICES ASSUME ClaimsInv, [Next]_vars PROVE ClaimsInv'
  OBVIOUS
<1>b. Budget'
  BY BudgetStep DEF ClaimsInv
<1>t. TypeOK /\ TypeOK' /\ \A t \in Tasks : Stored(t) /\ obj[t].tag \in Nat
  BY <1>b, BudgetTypes DEF ClaimsInv, Budget, TypeOK, Task
<1>1. ASSUME NEW r \in Replicas, NEW t \in Tasks, Enqueue(r, t) PROVE ClaimsInv'
  <2>1. /\ obj[t].tag = 0 /\ UNCHANGED <<job, listed, succeeded>>
        /\ obj' = [obj EXCEPT ![t] = [@ EXCEPT !.there = TRUE, !.tag = 1]]
    BY <1>1 DEF Enqueue
  <2>2. /\ obj'[t].there /\ obj'[t].tag = 1
        /\ \A u \in Tasks : u # t => obj'[u] = obj[u]
    BY <1>t, <2>1 DEF TypeOK, Task
  <2>3. \A u \in Tasks : Moves(u)
    <3>1. Moves(t)
      BY <2>1, <2>2 DEF Moves
    <3>2. ASSUME NEW u \in Tasks, u # t PROVE Moves(u)
      BY <1>t, <2>2, <3>2 DEF Moves, Stored
    <3> QED BY <3>1, <3>2
  <2>4. ASSUME NEW u \in Tasks PROVE Lost(u)' => Settled(u)'
    <3>1. CASE u = t
      BY <2>2, <3>1 DEF Lost
    <3>2. CASE u # t
      BY <2>1, <2>2, <3>2 DEF ClaimsInv, Lost, Settled
    <3> QED BY <3>1, <3>2
  <2> QED BY <1>b, <2>1, <2>3, <2>4, QuietStep
<1>2. ASSUME NEW q \in Replicas, Poll(q) PROVE ClaimsInv'
  <2>1. /\ UNCHANGED <<obj, job, succeeded>>
        /\ \A u \in Tasks : job[q][u].pc = "idle"
        /\ \A r \in Replicas : r # q => listed'[r] = listed[r]
    BY <1>2, <1>t DEF Poll, PollFree, Busy, TypeOK
  <2>2. \A r \in Replicas, t \in Tasks : Good(r, t)'
    BY <2>1 DEF ClaimsInv, Good, Tagged, Earned, Kinds
  <2> QED BY <1>b, <2>1, <2>2 DEF ClaimsInv, Stored, Lost, Settled
<1>3. ASSUME NEW r \in Replicas, Take(r) PROVE ClaimsInv'
  <2>1. PICK t \in Oldest(listed[r]) :
          /\ listed' = [listed EXCEPT ![r] = @ \ {t}]
          /\ SetJob(r, t, ReadTask(r, t)) \/ UNCHANGED job
    BY <1>3 DEF Take
  <2>2. /\ t \in Tasks /\ t \notin listed'[r] /\ UNCHANGED <<obj, succeeded>>
        /\ \A s \in Replicas : listed'[s] \subseteq listed[s]
    BY <1>3, <1>t, <2>1 DEF Take, Oldest, TypeOK
  <2>3. \A u \in Tasks : Moves(u) /\ (Lost(u)' => Settled(u)')
    BY <2>2, StillMoves
  <2>4. CASE UNCHANGED job
    BY <1>b, <2>2, <2>3, <2>4, QuietStep
  <2>5. CASE SetJob(r, t, ReadTask(r, t))
    <3>1. /\ job'[r][t] = ReadTask(r, t)
          /\ \A s \in Replicas, u \in Tasks : s # r \/ u # t => job'[s][u] = job[s][u]
      BY <1>t, <2>2, <2>5, SetJobAt
    <3>2. Good(r, t)'
      BY <2>2, <3>1, TakeGood
    <3> QED BY <1>b, <2>2, <2>3, <3>1, <3>2, OneJob
  <2> QED BY <2>1, <2>4, <2>5
<1>4. ASSUME NEW r \in Replicas, NEW t \in Tasks, JobStep(r, t) PROVE ClaimsInv'
  BY <1>4, <1>b, ClaimsJobStep
<1>5. ASSUME NEW r \in Replicas, Shutdown(r) PROVE ClaimsInv'
  <2>1. UNCHANGED <<obj, job, succeeded>> /\ \A s \in Replicas : listed'[s] \subseteq listed[s]
    BY <1>5, <1>t DEF Shutdown, TypeOK
  <2>2. \A u \in Tasks : Moves(u) /\ (Lost(u)' => Settled(u)')
    BY <2>1, StillMoves
  <2> QED BY <1>b, <2>1, <2>2, QuietStep
<1>6. ASSUME NEW r \in Replicas, Stop(r) PROVE ClaimsInv'
  <2>1. /\ UNCHANGED <<obj, succeeded>>
        /\ \A s \in Replicas : listed'[s] \subseteq listed[s]
        /\ \A s \in Replicas, u \in Tasks : job'[s][u] = job[s][u] \/ job'[s][u].pc = "idle"
    BY <1>6, <1>t DEF Stop, TypeOK, Idle
  <2>2. \A u \in Tasks : Moves(u) /\ (Lost(u)' => Settled(u)')
    BY <2>1, StillMoves
  <2> QED BY <1>b, <2>1, <2>2, QuietStep
<1>7. CASE Tick
  <2>1. ASSUME NEW t \in Tasks
        PROVE  /\ obj'[t].there = obj[t].there /\ obj'[t].tag = obj[t].tag
               /\ obj'[t].owner = obj[t].owner /\ obj'[t].attempts = obj[t].attempts
               /\ obj[t].lease = 0 => obj'[t].lease = 0
    <3>1. obj[t] \in Task
      BY <1>t DEF TypeOK
    <3>2. obj'[t] = [obj[t] EXCEPT !.lease = Down(obj[t].lease),
                                   !.notBefore = Down(obj[t].notBefore)]
      BY <1>7 DEF Tick
    <3> QED BY <3>1, <3>2 DEF Task, Down
  <2>2. ASSUME NEW r \in Replicas, NEW t \in Tasks
        PROVE  /\ job'[r][t].pc = job[r][t].pc /\ job'[r][t].tag = job[r][t].tag
               /\ job'[r][t].attempts = job[r][t].attempts
    <3>1. job[r][t] \in Job
      BY <1>t, JobType
    <3>2. job'[r][t] = [job[r][t] EXCEPT !.lease = Down(job[r][t].lease),
                                         !.left = Down(job[r][t].left)]
      BY <1>7 DEF Tick
    <3> QED BY <3>1, <3>2 DEF Job
  <2>3. UNCHANGED <<listed, succeeded>>
    BY <1>7 DEF Tick
  <2>4. ASSUME NEW r \in Replicas, NEW t \in Tasks PROVE Good(r, t)'
    <3>1. Good(r, t)
      BY DEF ClaimsInv
    <3> QED BY <2>1, <2>2, <2>3, <3>1 DEF Good, Tagged, Earned, Kinds
  <2>5. ASSUME NEW t \in Tasks PROVE Stored(t)' /\ (Lost(t)' => Settled(t)')
    BY <2>1, <2>3 DEF ClaimsInv, Stored, Lost, Settled
  <2> QED BY <1>b, <2>4, <2>5 DEF ClaimsInv
<1>8. CASE UNCHANGED vars
  <2>1. UNCHANGED <<obj, job, succeeded, listed>>
    BY <1>8 DEF vars
  <2>2. \A u \in Tasks : Moves(u) /\ (Lost(u)' => Settled(u)')
    BY <2>1, StillMoves
  <2> QED BY <1>b, <2>1, <2>2, QuietStep
<1> QED BY <1>1, <1>2, <1>3, <1>4, <1>5, <1>6, <1>7, <1>8 DEF Next

(* Nothing is stored and nothing is listed at first. *)
LEMMA ClaimsInit == Init => ClaimsInv
<1> SUFFICES ASSUME Init PROVE ClaimsInv
  OBVIOUS
<1>1. \A r \in Replicas, t \in Tasks : Good(r, t)
  BY DEF Init, Good, Tagged, Earned, Kinds, Idle
<1>2. \A t \in Tasks : Stored(t) /\ ~Lost(t)
  BY DEF Init, Stored, Lost
<1> QED BY <1>1, <1>2, BudgetInit DEF ClaimsInv

(* Whatever claim, drop or retry is lost, applied late or applied and reported *)
(* as failed, an at-least-once task leaves the bucket only when a handler      *)
(* returned nil or the last attempt of its budget has been claimed.            *)
THEOREM NothingLost == Spec => []NoLostTask
<1>1. ClaimsInv => NoLostTask
  BY DEF ClaimsInv, NoLostTask, Lost, Settled
<1> QED BY <1>1, ClaimsInit, ClaimsStep, PTL DEF Spec

----------------------------------------------------------------------------
\* Two replicas never run one task's handler together.

(* What claimAndRun's exclusion rests on: the visibility outlasts the claim and   *)
(* the handler.  withDefaults raises it only above the handler's timeout; every  *)
(* at-least-once topic that is registered has it.  At-most-once topics need none. *)
Outlasts == \A t \in Tasks : MaxAttempts[t] > 1 => Visibility > Timeout + OpTimeout

(* A running handler runs an attempt of its own. *)
RunsOnce(r, t) ==
  job[r][t].pc = "run" =>
    /\ job[r][t].attempts \in started[t]
    /\ \A s \in Replicas :
         job[s][t].pc = "run" /\ job[s][t].attempts = job[r][t].attempts => s = r

(* The lease a claim is about to write is as old as the claim; and while an    *)
(* at-least-once handler runs, nothing has been written over its claim, which  *)
(* outlasts its deadline.                                                      *)
Held(r, t) ==
  /\ job[r][t].pc = "claim" => job[r][t].lease + OpTimeout >= Visibility + job[r][t].left
  /\ job[r][t].pc = "run" /\ MaxAttempts[t] > 1 =>
       /\ obj[t].there /\ obj[t].tag = job[r][t].tag /\ obj[t].owner = r
       /\ obj[t].lease > job[r][t].left

RunInv ==
  /\ ClaimsInv
  /\ \A r \in Replicas, t \in Tasks : RunsOnce(r, t) /\ Held(r, t)

(* A step that starts at most one handler, on an attempt not started before. *)
LEMMA RunsOnceKept ==
  ASSUME \A s \in Replicas, u \in Tasks : RunsOnce(s, u),
         NEW r \in Replicas, NEW t \in Tasks,
         \A u \in Tasks : started[u] \subseteq started'[u],
         \A s \in Replicas, u \in Tasks :
           job'[s][u].pc = "run" =>
             \/ job[s][u].pc = "run" /\ job'[s][u].attempts = job[s][u].attempts
             \/ /\ s = r /\ u = t
                /\ job'[s][u].attempts \in started'[u] \ started[u]
  PROVE  \A s \in Replicas, u \in Tasks : RunsOnce(s, u)'
<1> SUFFICES ASSUME NEW s \in Replicas, NEW u \in Tasks, job'[s][u].pc = "run"
             PROVE  /\ job'[s][u].attempts \in started'[u]
                    /\ \A q \in Replicas :
                         job'[q][u].pc = "run" /\ job'[q][u].attempts = job'[s][u].attempts
                           => q = s
  BY DEF RunsOnce
<1>1. \A q \in Replicas : job[q][u].pc = "run" => job[q][u].attempts \in started[u]
  BY DEF RunsOnce
<1>2. job'[s][u].attempts \in started'[u]
  BY <1>1
<1>3. ASSUME NEW q \in Replicas, job'[q][u].pc = "run",
             job'[q][u].attempts = job'[s][u].attempts
      PROVE  q = s
  <2>1. CASE job[s][u].pc = "run" /\ job'[s][u].attempts = job[s][u].attempts
    BY <1>1, <1>3, <2>1 DEF RunsOnce
  <2>2. CASE s = r /\ u = t /\ job'[s][u].attempts \in started'[u] \ started[u]
    BY <1>1, <1>3, <2>2
  <2> QED BY <2>1, <2>2
<1> QED BY <1>2, <1>3

(* A job that is left alone keeps its hold if its task's object is left alone. *)
LEMMA HeldKept ==
  ASSUME NEW r \in Replicas, NEW t \in Tasks, Held(r, t), job'[r][t] = job[r][t],
         job[r][t].pc = "run" /\ MaxAttempts[t] > 1 => obj'[t] = obj[t]
  PROVE  Held(r, t)'
BY DEF Held

(* No other replica has a current claim on a task an at-least-once handler runs. *)
LEMMA OthersAreStale ==
  ASSUME RunInv, NEW r \in Replicas, NEW t \in Tasks, job[r][t].pc = "run",
         MaxAttempts[t] > 1, NEW s \in Replicas, s # r, job[s][t].pc # "idle"
  PROVE  job[s][t].tag # obj[t].tag
<1>1. /\ obj[t].owner = r /\ obj[t].lease > job[r][t].left
      /\ job[r][t].left \in Nat /\ obj[t].lease \in Nat
  BY Fields DEF RunInv, ClaimsInv, Budget, Held
<1>2. Earned(s, t)
  BY DEF RunInv, ClaimsInv, Good
<1> QED BY <1>1, <1>2 DEF Earned

(* A step of one job writes at most its own task, and only over what it read. *)
LEMMA JobWrites ==
  ASSUME ClaimsInv, NEW r \in Replicas, NEW t \in Tasks, JobStep(r, t)
  PROVE  /\ job[r][t].pc # "idle"
         /\ \A u \in Tasks : u # t => obj'[u] = obj[u]
         /\ obj'[t] = obj[t] \/ Matches(t, job[r][t].tag)
         /\ \A s \in Replicas, u \in Tasks : s # r \/ u # t => job'[s][u] = job[s][u]
<1>0. TypeOK
  BY DEF ClaimsInv, Budget
<1>1. \E k : SetJob(r, t, k)
  BY DEF JobStep, Claim, StartHandler, ClaimLost, ClaimFails, Exhaust, GiveUp, Succeed,
         Fail, Ends, Drop, Retry
<1>2. \A s \in Replicas, u \in Tasks : s # r \/ u # t => job'[s][u] = job[s][u]
  BY <1>0, <1>1, SetJobAt
<1>3. job[r][t].pc # "idle"
  BY DEF JobStep, Claim, ClaimLost, ClaimFails, Exhaust, GiveUp, Succeed, Fail, Drop, Retry
<1>4. ASSUME NEW live \in BOOLEAN, DropTask(r, t, live)
      PROVE  /\ \A u \in Tasks : u # t => obj'[u] = obj[u]
             /\ obj'[t] = obj[t] \/ Matches(t, job[r][t].tag)
  BY <1>0, <1>4, DropAt
<1>5. /\ \A u \in Tasks : u # t => obj'[u] = obj[u]
      /\ obj'[t] = obj[t] \/ Matches(t, job[r][t].tag)
  <2>1. CASE Claim(r, t)
    BY <2>1, ClaimedAt DEF Claim
  <2>2. CASE ClaimFails(r, t)
    <3>1. UNCHANGED obj \/ (Matches(t, job[r][t].tag) /\ obj' = ClaimedObj(r, t))
      BY <2>2 DEF ClaimFails
    <3> QED BY <3>1, ClaimedAt
  <2>3. CASE Retry(r, t)
    BY <2>3, RetryAt
  <2>4. CASE Exhaust(r, t) \/ GiveUp(r, t) \/ Drop(r, t)
    <3>1. PICK live \in BOOLEAN : DropTask(r, t, live)
      BY <2>4 DEF Exhaust, GiveUp, Drop, Reaches
    <3> QED BY <1>4, <3>1
  <2>5. CASE ClaimLost(r, t) \/ Succeed(r, t) \/ Fail(r, t)
    BY <2>5 DEF ClaimLost, Succeed, Fail
  <2> QED BY <2>1, <2>2, <2>3, <2>4, <2>5 DEF JobStep
<1> QED BY <1>2, <1>3, <1>5

(* The hold of every replica, over a step of one job. *)
LEMMA HeldJobStep ==
  ASSUME Outlasts, RunInv, NEW r \in Replicas, NEW t \in Tasks, JobStep(r, t)
  PROVE  \A s \in Replicas, u \in Tasks : Held(s, u)'
<1> DEFINE j == job[r][t]
<1>0. /\ ClaimsInv /\ TypeOK /\ j \in Job /\ Good(r, t)
      /\ \A s \in Replicas, u \in Tasks : Held(s, u)
  BY JobType DEF RunInv, ClaimsInv, Budget
<1>1. /\ j.pc # "idle"
      /\ \A u \in Tasks : u # t => obj'[u] = obj[u]
      /\ obj'[t] = obj[t] \/ Matches(t, j.tag)
      /\ \A s \in Replicas, u \in Tasks : s # r \/ u # t => job'[s][u] = job[s][u]
  BY <1>0, JobWrites
<1>2. ASSUME NEW s \in Replicas, NEW u \in Tasks, s # r \/ u # t PROVE Held(s, u)'
  <2>1. job'[s][u] = job[s][u] /\ Held(s, u)
    BY <1>0, <1>1, <1>2
  <2>2. job[s][u].pc = "run" /\ MaxAttempts[u] > 1 => obj'[u] = obj[u]
    <3>1. CASE u # t
      BY <1>1, <3>1
    <3>2. CASE u = t
      BY <1>1, <1>2, <3>2, OthersAreStale DEF Matches
    <3> QED BY <3>1, <3>2
  <2> QED BY <2>1, <2>2, HeldKept
<1>3. Held(r, t)'
  <2>q. ASSUME NEW k, SetJob(r, t, k) PROVE job'[r][t] = k
    BY <1>0, <2>q, SetJobAt
  <2>1. CASE Claim(r, t)
    <3>1. CASE MaxAttempts[t] = 1
      <4> DEFINE g == [j EXCEPT !.tag = obj[t].tag + 1, !.pc = "giveup", !.left = OpTimeout]
      <4>1. g.pc = "giveup"
        BY <1>0 DEF Job
      <4>2. SetJob(r, t, g)
        BY <2>1, <3>1 DEF Claim
      <4> HIDE DEF g
      <4> QED BY <2>q, <4>1, <4>2 DEF Held
    <3>2. CASE MaxAttempts[t] # 1
      <4> DEFINE base == [j EXCEPT !.tag = obj[t].tag + 1]
                 run == [base EXCEPT !.pc = "run", !.lease = 0, !.left = Timeout]
      <4>1. run.pc = "run" /\ run.tag = obj[t].tag + 1 /\ run.left = Timeout
        BY <1>0 DEF Job
      <4>2. SetJob(r, t, run)
        BY <2>1, <3>2 DEF Claim, StartHandler
      <4> HIDE DEF run
      <4>3. job'[r][t] = run
        BY <2>q, <4>2
      <4>4. obj'[t].there /\ obj'[t].tag = obj[t].tag + 1 /\ obj'[t].owner = r
            /\ obj'[t].lease = j.lease
        BY <1>0, <2>1, ClaimedAt DEF Claim
      <4>5. MaxAttempts[t] > 1 => j.lease > Timeout
        <5>1. j.lease + OpTimeout >= Visibility + j.left
          BY <1>0, <2>1 DEF Claim, Held
        <5>2. j.lease \in Nat /\ j.left \in Nat
          BY <1>0 DEF Job
        <5> QED BY <5>1, <5>2, QueueAssumption DEF Outlasts
      <4> QED BY <4>1, <4>3, <4>4, <4>5 DEF Held
    <3> QED BY <3>1, <3>2
  <2>2. CASE GiveUp(r, t)
    <3>1. MaxAttempts[t] = 1
      BY <1>0, <2>2 DEF GiveUp, Good, Kinds
    <3> DEFINE run == [j EXCEPT !.pc = "run", !.lease = 0, !.left = Timeout]
    <3>2. run.pc = "run"
      BY <1>0 DEF Job
    <3>3. SetJob(r, t, run)
      BY <2>2 DEF GiveUp, StartHandler
    <3> HIDE DEF run
    <3> QED BY <2>q, <3>1, <3>2, <3>3 DEF Held
  <2>3. CASE SetJob(r, t, Idle)
    BY <2>3, <2>q DEF Held, Idle
  <2>4. ASSUME NEW pc \in {"drop", "retry"}, Ends(r, t, pc) PROVE Held(r, t)'
    <3>1. CASE MaxAttempts[t] = 1
      BY <2>3, <2>4, <3>1 DEF Ends
    <3>2. CASE MaxAttempts[t] # 1
      <4> DEFINE k == [j EXCEPT !.pc = pc, !.left = OpTimeout]
      <4>1. k.pc = pc
        BY <1>0 DEF Job
      <4>2. SetJob(r, t, k)
        BY <2>4, <3>2 DEF Ends
      <4> HIDE DEF k
      <4> QED BY <2>q, <2>4, <4>1, <4>2 DEF Held
    <3> QED BY <3>1, <3>2
  <2>5. CASE Succeed(r, t) \/ Fail(r, t)
    BY <2>4, <2>5 DEF Succeed, Fail
  <2>6. CASE ClaimLost(r, t) \/ ClaimFails(r, t) \/ Exhaust(r, t) \/ Drop(r, t) \/ Retry(r, t)
    BY <2>3, <2>6 DEF ClaimLost, ClaimFails, Exhaust, Drop, Retry
  <2> QED BY <2>1, <2>2, <2>5, <2>6 DEF JobStep
<1> QED BY <1>2, <1>3

(* A step of one job starts at most its own handler, on a fresh attempt. *)
LEMMA RunsOnceJobStep ==
  ASSUME RunInv, NEW r \in Replicas, NEW t \in Tasks, JobStep(r, t)
  PROVE  \A s \in Replicas, u \in Tasks : RunsOnce(s, u)'
<1> DEFINE j == job[r][t]
<1>0. /\ ClaimsInv /\ Budget /\ TypeOK /\ j \in Job
      /\ \A s \in Replicas, u \in Tasks : RunsOnce(s, u)
  BY JobType DEF RunInv, ClaimsInv, Budget
<1>1. \A s \in Replicas, u \in Tasks : s # r \/ u # t => job'[s][u] = job[s][u]
  BY <1>0, JobWrites
<1>2. ASSUME NEW k, SetJob(r, t, k) PROVE job'[r][t] = k
  BY <1>0, <1>2, SetJobAt
<1>3. ASSUME job'[r][t].pc # "run", UNCHANGED started
      PROVE  \A s \in Replicas, u \in Tasks : RunsOnce(s, u)'
  BY <1>0, <1>1, <1>3, RunsOnceKept
<1>4. ASSUME SetJob(r, t, Idle), UNCHANGED started
      PROVE  \A s \in Replicas, u \in Tasks : RunsOnce(s, u)'
  BY <1>2, <1>3, <1>4 DEF Idle
<1>5. ASSUME NEW k \in Job, StartHandler(r, t, k), k.attempts \notin started[t]
      PROVE  \A s \in Replicas, u \in Tasks : RunsOnce(s, u)'
  <2> DEFINE run == [k EXCEPT !.pc = "run", !.lease = 0, !.left = Timeout]
  <2>1. run.attempts = k.attempts
    BY <1>5 DEF Job
  <2>2. SetJob(r, t, run) /\ started' = [started EXCEPT ![t] = @ \cup {k.attempts}]
    BY <1>5 DEF StartHandler
  <2> HIDE DEF run
  <2>3. job'[r][t].attempts = k.attempts
    BY <1>2, <2>1, <2>2
  <2>4. /\ k.attempts \in started'[t] \ started[t]
        /\ \A u \in Tasks : started[u] \subseteq started'[u]
    BY <1>0, <1>5, <2>2 DEF TypeOK
  <2>5. ASSUME NEW s \in Replicas, NEW u \in Tasks, job'[s][u].pc = "run"
        PROVE  \/ job[s][u].pc = "run" /\ job'[s][u].attempts = job[s][u].attempts
               \/ s = r /\ u = t /\ job'[s][u].attempts \in started'[u] \ started[u]
    <3>1. CASE s = r /\ u = t
      BY <2>3, <2>4, <3>1
    <3>2. CASE s # r \/ u # t
      BY <1>1, <2>5, <3>2
    <3> QED BY <3>1, <3>2
  <2>6. \A s \in Replicas, u \in Tasks : RunsOnce(s, u)
    BY <1>0
  <2> QED BY <2>4, <2>5, <2>6, RunsOnceKept
<1>6. CASE Claim(r, t)
  <2> DEFINE base == [j EXCEPT !.tag = obj[t].tag + 1]
             give == [base EXCEPT !.pc = "giveup", !.left = OpTimeout]
  <2>0. obj[t].tag + 1 \in Nat
    BY <1>0, BudgetTypes
  <2>1. base \in Job /\ base.attempts = j.attempts /\ give.pc = "giveup"
    BY <1>0, <2>0 DEF Job
  <2>2. CASE MaxAttempts[t] = 1
    <3>1. SetJob(r, t, give) /\ UNCHANGED started
      BY <1>6, <2>2 DEF Claim
    <3> HIDE DEF give
    <3> QED BY <1>2, <1>3, <2>1, <3>1
  <2>3. CASE MaxAttempts[t] # 1
    <3>1. StartHandler(r, t, base)
      BY <1>6, <2>3 DEF Claim
    <3>2. j.attempts = obj[t].attempts + 1 /\ obj[t].attempts \in Nat
          /\ started[t] \subseteq 1 .. obj[t].attempts
      BY <1>0, <1>6, BudgetTypes DEF Claim, Matches, Budget, ClaimIsNext, StartsAreAttempts
    <3>3. base.attempts \notin started[t]
      BY <2>1, <3>2
    <3> HIDE DEF base
    <3> QED BY <1>5, <2>1, <3>1, <3>3
  <2> QED BY <2>2, <2>3
<1>7. CASE GiveUp(r, t)
  <2>1. StartHandler(r, t, j) /\ j.attempts \notin started[t]
    BY <1>0, <1>7 DEF GiveUp, Budget, GiveUpIsOwn
  <2> QED BY <1>0, <1>5, <2>1
<1>8. ASSUME NEW pc \in {"drop", "retry"}, Ends(r, t, pc), UNCHANGED started
      PROVE  \A s \in Replicas, u \in Tasks : RunsOnce(s, u)'
  <2>1. CASE MaxAttempts[t] = 1
    BY <1>4, <1>8, <2>1 DEF Ends
  <2>2. CASE MaxAttempts[t] # 1
    <3> DEFINE k == [j EXCEPT !.pc = pc, !.left = OpTimeout]
    <3>1. k.pc = pc
      BY <1>0 DEF Job
    <3>2. SetJob(r, t, k)
      BY <1>8, <2>2 DEF Ends
    <3> HIDE DEF k
    <3> QED BY <1>2, <1>3, <1>8, <3>1, <3>2
  <2> QED BY <2>1, <2>2
<1>9. CASE Succeed(r, t) \/ Fail(r, t)
  BY <1>8, <1>9 DEF Succeed, Fail
<1>10. CASE ClaimLost(r, t) \/ ClaimFails(r, t) \/ Exhaust(r, t) \/ Drop(r, t) \/ Retry(r, t)
  BY <1>4, <1>10 DEF ClaimLost, ClaimFails, Exhaust, Drop, Retry
<1> QED BY <1>6, <1>7, <1>9, <1>10 DEF JobStep

(* A step that starts nothing, claims nothing and writes over no running claim. *)
LEMMA StillHeld ==
  ASSUME RunInv, ClaimsInv', UNCHANGED started,
         \A r \in Replicas, t \in Tasks :
           \/ job'[r][t] = job[r][t]
                /\ (job[r][t].pc = "run" /\ MaxAttempts[t] > 1 => obj'[t] = obj[t])
           \/ job'[r][t].pc \notin {"claim", "run"}
  PROVE  RunInv'
<1>1. \A r \in Replicas, t \in Tasks : Held(r, t)'
  <2> SUFFICES ASSUME NEW r \in Replicas, NEW t \in Tasks PROVE Held(r, t)'
    OBVIOUS
  <2>1. Held(r, t)
    BY DEF RunInv
  <2>2. CASE job'[r][t].pc \notin {"claim", "run"}
    BY <2>2 DEF Held
  <2> QED BY <2>1, <2>2, HeldKept
<1>2. \A r \in Replicas, t \in Tasks : RunsOnce(r, t)'
  <2>1. \A r \in Replicas, t \in Tasks :
          job'[r][t].pc = "run" => job[r][t].pc = "run"
                                   /\ job'[r][t].attempts = job[r][t].attempts
    OBVIOUS
  <2> QED BY <2>1 DEF RunInv, RunsOnce
<1> QED BY <1>1, <1>2 DEF RunInv

LEMMA RunStep == ASSUME Outlasts PROVE RunInv /\ [Next]_vars => RunInv'
<1> SUFFICES ASSUME RunInv, [Next]_vars PROVE RunInv'
  OBVIOUS
<1>c. ClaimsInv /\ ClaimsInv'
  BY ClaimsStep DEF RunInv
<1>t. TypeOK /\ TypeOK'
  BY <1>c DEF ClaimsInv, Budget
<1>1. ASSUME NEW r \in Replicas, NEW t \in Tasks, Enqueue(r, t) PROVE RunInv'
  <2>1. /\ obj[t].tag = 0 /\ UNCHANGED <<job, started>>
        /\ obj' = [obj EXCEPT ![t] = [@ EXCEPT !.there = TRUE, !.tag = 1]]
    BY <1>1 DEF Enqueue
  <2>2. \A u \in Tasks : u # t => obj'[u] = obj[u]
    BY <1>t, <2>1 DEF TypeOK
  <2>3. ASSUME NEW s \in Replicas PROVE job[s][t].pc = "idle"
    <3>1. Tagged(s, t) /\ job[s][t].tag \in Nat
      BY <1>c, <1>t, BudgetTypes DEF ClaimsInv, Good
    <3> QED BY <2>1, <3>1 DEF Tagged
  <2> QED BY <1>c, <2>1, <2>2, <2>3, StillHeld
<1>2. ASSUME NEW r \in Replicas, Poll(r) PROVE RunInv'
  BY <1>2, <1>c, StillHeld DEF Poll
<1>3. ASSUME NEW r \in Replicas, Take(r) PROVE RunInv'
  <2>1. PICK t \in Oldest(listed[r]) : SetJob(r, t, ReadTask(r, t)) \/ UNCHANGED job
    BY <1>3 DEF Take
  <2>2. t \in Tasks /\ UNCHANGED <<obj, started>>
    BY <1>3, <1>t, <2>1 DEF Take, Oldest, TypeOK
  <2>3. CASE UNCHANGED job
    BY <1>c, <2>2, <2>3, StillHeld
  <2>4. CASE SetJob(r, t, ReadTask(r, t))
    <3>1. /\ job'[r][t] = ReadTask(r, t)
          /\ \A s \in Replicas, u \in Tasks : s # r \/ u # t => job'[s][u] = job[s][u]
      BY <1>t, <2>2, <2>4, SetJobAt
    <3>2. /\ job'[r][t].pc # "run"
          /\ job'[r][t].pc = "claim" =>
               job'[r][t].lease = Visibility /\ job'[r][t].left = OpTimeout
      BY <3>1 DEF ReadTask, Idle
    <3>3. \A s \in Replicas, u \in Tasks : Held(s, u)'
      <4>1. Held(r, t)'
        BY <3>2, QueueAssumption DEF Held
      <4>2. ASSUME NEW s \in Replicas, NEW u \in Tasks, s # r \/ u # t PROVE Held(s, u)'
        BY <2>2, <3>1, <4>2, HeldKept DEF RunInv
      <4> QED BY <4>1, <4>2
    <3>4. \A s \in Replicas, u \in Tasks : RunsOnce(s, u)'
      BY <2>2, <3>1, <3>2, RunsOnceKept DEF RunInv
    <3> QED BY <1>c, <3>3, <3>4 DEF RunInv
  <2> QED BY <2>1, <2>3, <2>4
<1>4. ASSUME NEW r \in Replicas, NEW t \in Tasks, JobStep(r, t) PROVE RunInv'
  BY <1>4, <1>c, HeldJobStep, RunsOnceJobStep DEF RunInv
<1>5. ASSUME NEW r \in Replicas, Shutdown(r) PROVE RunInv'
  BY <1>5, <1>c, StillHeld DEF Shutdown
<1>6. ASSUME NEW r \in Replicas, Stop(r) PROVE RunInv'
  <2>1. UNCHANGED <<obj, started>>
    BY <1>6 DEF Stop
  <2>2. \A s \in Replicas, u \in Tasks : job'[s][u] = job[s][u] \/ job'[s][u].pc = "idle"
    BY <1>6, <1>t DEF Stop, TypeOK, Idle
  <2> QED BY <1>c, <2>1, <2>2, StillHeld
<1>7. CASE Tick
  <2>0. \A r \in Replicas, t \in Tasks : job[r][t].pc # "idle" => job[r][t].left > 0
    BY <1>7 DEF Tick, MayWait, Busy
  <2>1. ASSUME NEW t \in Tasks
        PROVE  /\ obj'[t].there = obj[t].there /\ obj'[t].tag = obj[t].tag
               /\ obj'[t].owner = obj[t].owner /\ obj'[t].lease = Down(obj[t].lease)
    <3>1. obj[t] \in Task
      BY <1>t DEF TypeOK
    <3>2. obj'[t] = [obj[t] EXCEPT !.lease = Down(obj[t].lease),
                                   !.notBefore = Down(obj[t].notBefore)]
      BY <1>7 DEF Tick
    <3> QED BY <3>1, <3>2 DEF Task
  <2>2. ASSUME NEW r \in Replicas, NEW t \in Tasks
        PROVE  /\ job'[r][t].pc = job[r][t].pc /\ job'[r][t].tag = job[r][t].tag
               /\ job'[r][t].attempts = job[r][t].attempts
               /\ job'[r][t].lease = Down(job[r][t].lease)
               /\ job'[r][t].left = Down(job[r][t].left)
    <3>1. job[r][t] \in Job
      BY <1>t, JobType
    <3>2. job'[r][t] = [job[r][t] EXCEPT !.lease = Down(job[r][t].lease),
                                         !.left = Down(job[r][t].left)]
      BY <1>7 DEF Tick
    <3> QED BY <3>1, <3>2 DEF Job
  <2>3. ASSUME NEW r \in Replicas, NEW t \in Tasks PROVE Held(r, t)'
    <3>1. Held(r, t) /\ job[r][t].pc \in {"claim", "run"} => job[r][t].left > 0
      BY <2>0 DEF RunInv
    <3>2. /\ obj[t].lease \in Nat /\ job[r][t].lease \in Nat /\ job[r][t].left \in Nat
          /\ MaxAttempts[t] \in Nat /\ Visibility \in Nat /\ OpTimeout \in Nat
          /\ Timeout \in Nat
      BY <1>t, Fields, QueueAssumption
    <3>3. Held(r, t)
      BY DEF RunInv
    <3>4. CASE job[r][t].pc = "claim"
      <4>1. job[r][t].lease + OpTimeout >= Visibility + job[r][t].left /\ job[r][t].left > 0
        BY <3>1, <3>3, <3>4 DEF Held
      <4>2. Down(job[r][t].lease) + OpTimeout >= Visibility + Down(job[r][t].left)
        BY <3>2, <4>1 DEF Down
      <4> QED BY <2>2, <3>4, <4>2 DEF Held
    <3>5. CASE job[r][t].pc = "run" /\ MaxAttempts[t] > 1
      <4>1. obj[t].lease > job[r][t].left /\ job[r][t].left > 0
        BY <3>1, <3>3, <3>5 DEF Held
      <4>2. Down(obj[t].lease) > Down(job[r][t].left)
        BY <3>2, <4>1 DEF Down
      <4> QED BY <2>1, <2>2, <3>3, <3>5, <4>2 DEF Held
    <3> QED BY <2>2, <3>4, <3>5 DEF Held
  <2>4. \A r \in Replicas, t \in Tasks : RunsOnce(r, t)'
    <3>1. UNCHANGED started
      BY <1>7 DEF Tick
    <3> QED BY <2>2, <3>1 DEF RunInv, RunsOnce
  <2> QED BY <1>c, <2>3, <2>4 DEF RunInv
<1>8. CASE UNCHANGED vars
  BY <1>8, <1>c, StillHeld DEF vars
<1> QED BY <1>1, <1>2, <1>3, <1>4, <1>5, <1>6, <1>7, <1>8 DEF Next

(* No handler runs at first. *)
LEMMA RunInit == Init => RunInv
<1> SUFFICES ASSUME Init PROVE RunInv
  OBVIOUS
<1>1. \A r \in Replicas, t \in Tasks : RunsOnce(r, t) /\ Held(r, t)
  BY DEF Init, RunsOnce, Held, Idle
<1> QED BY <1>1, ClaimsInit DEF RunInv

(* Two at-least-once handlers would both own the object; two at-most-once ones *)
(* would both run attempt 1.                                                   *)
LEMMA RunExcludes == RunInv => NeverTwiceAtOnce
<1> SUFFICES ASSUME RunInv, NEW t \in Tasks, NEW r \in Replicas, NEW s \in Replicas,
                    job[r][t].pc = "run", job[s][t].pc = "run"
             PROVE  r = s
  BY DEF NeverTwiceAtOnce
<1>1. MaxAttempts[t] \in Nat \ {0}
  BY QueueAssumption
<1>2. CASE MaxAttempts[t] > 1
  BY <1>2 DEF RunInv, Held
<1>3. CASE MaxAttempts[t] = 1
  <2>1. /\ RunsOnce(r, t) /\ RunsOnce(s, t)
        /\ started[t] \subseteq 1 .. obj[t].attempts /\ obj[t].attempts <= 1
        /\ obj[t].attempts \in Nat
    BY <1>3, BudgetTypes DEF RunInv, ClaimsInv, Budget, StartsAreAttempts
  <2>2. job[r][t].attempts \in started[t] /\ job[s][t].attempts \in started[t]
    BY <2>1 DEF RunsOnce
  <2>3. job[r][t].attempts = 1 /\ job[s][t].attempts = 1
    BY <2>1, <2>2
  <2> QED BY <2>1, <2>3 DEF RunsOnce
<1> QED BY <1>1, <1>2, <1>3

(* As long as an at-least-once topic's visibility outlasts one store call and   *)
(* the handler's timeout, no two replicas run a task's handler together,        *)
(* whatever claims are lost or delayed and whoever stops; an at-most-once task  *)
(* needs nothing of its visibility.                                             *)
THEOREM OneHandlerAtATime == ASSUME Outlasts PROVE Spec => []NeverTwiceAtOnce
BY RunInit, RunStep, RunExcludes, PTL DEF Spec

============================================================================
