------------------------- MODULE ProjectTicksProofs -------------------------
(***************************************************************************)
(* Proofs about ProjectTicks, for any number of tasks, groups, overlapping *)
(* ticks, reports, failures and crashes, and any limits and deadlines.     *)
(***************************************************************************)
EXTENDS ProjectTicks, FiniteSetTheorems, TLAPS

----------------------------------------------------------------------------
\* What the ledger's transitions do to a task.

LEMMA LedgerFields ==
  ASSUME NEW l \in Ledger
  PROVE  /\ \A t \in TaskIds : l.tasks[t] \in Task
         /\ \A g \in Groups : l.tracks[g] \in Track /\ l.tracks[g].attempts \in Nat
         /\ l.candidates \in SUBSET Groups
BY DEF Ledger, Track

LEMMA TaskFields ==
  ASSUME NEW a \in Task
  PROVE  /\ a.status \in Statuses /\ a.group \in Groups \cup {NoOne}
         /\ a.opening \in Guards \cup {NoOne} /\ a.age \in 0 .. RunningTimeout
         /\ a.age \in Nat /\ a.tries \in 0 .. MaxOpenAttempts
         /\ a.named \in BOOLEAN /\ a.bound \in BOOLEAN /\ a.exit \in BOOLEAN
         /\ a.ticket \in BOOLEAN
BY LedgerAssumption DEF Task

(* A task that keeps its status keeps what the invariants read of it. *)
Still(a, b) ==
  /\ b.status = a.status /\ b.group = a.group /\ b.opening = a.opening /\ b.age = a.age
  /\ a.exit => b.exit

(* A task that is over: what was running had no opening in progress, or its time was up. *)
Ends(a, b) ==
  /\ a.status # "none" /\ b.status \in Terminal \cup {"dropped"} /\ b.opening = NoOne
  /\ b.status # "dropped" => b.group = a.group /\ a.status # "dropped"
  /\ a.status = "running" => a.opening = NoOne \/ a.age >= RunningTimeout

(* decided: its pull request was; gone: its Job is. *)
Moved(a, b, decided, gone) ==
  \/ Still(a, b)
  \/ /\ Ends(a, b)
     /\ a.status = "pr_open" => decided
     /\ a.status = "running" /\ b.status = "failed" => b.exit \/ a.age >= RunningTimeout \/ gone

Counts(l, m) == \A g \in Groups : m.tracks[g].attempts = l.tracks[g].attempts

(* A write that starts nothing: every task stays, or ends for a reason. *)
Calm(l, m, P, J) ==
  /\ m \in Ledger /\ Counts(l, m)
  /\ \A t \in TaskIds : Moved(l.tasks[t], m.tasks[t], t \in P, t \in J)

AllStill(l, m) ==
  /\ m \in Ledger /\ Counts(l, m)
  /\ \A t \in TaskIds : Still(l.tasks[t], m.tasks[t])

LEMMA SetTaskDoes ==
  ASSUME NEW l \in Ledger, NEW t \in TaskIds, NEW a \in Task
  PROVE  /\ SetTask(l, t, a) \in Ledger
         /\ SetTask(l, t, a).tasks[t] = a
         /\ \A u \in TaskIds : u # t => SetTask(l, t, a).tasks[u] = l.tasks[u]
         /\ SetTask(l, t, a).tracks = l.tracks
         /\ SetTask(l, t, a).candidates = l.candidates
BY DEF SetTask, Ledger

LEMMA AbsentType == Absent \in Task
BY LedgerAssumption DEF Absent, Task, Statuses

LEMMA FinishDoes ==
  ASSUME NEW a \in Task, NEW s \in Statuses
  PROVE  /\ Finish(a, s) \in Task
         /\ Finish(a, s).status = s /\ Finish(a, s).opening = NoOne
         /\ Finish(a, s).group = a.group /\ Finish(a, s).exit = a.exit
         /\ Finish(a, s).age = a.age
BY DEF Finish, Task

(* The same, with the age counted anew. *)
LEMMA FinishNowDoes ==
  ASSUME NEW a \in Task, NEW s \in Statuses
  PROVE  /\ [Finish(a, s) EXCEPT !.age = 0] \in Task
         /\ [Finish(a, s) EXCEPT !.age = 0].status = s
         /\ [Finish(a, s) EXCEPT !.age = 0].opening = NoOne
         /\ [Finish(a, s) EXCEPT !.age = 0].group = a.group
         /\ [Finish(a, s) EXCEPT !.age = 0].exit = a.exit
<1> DEFINE b == Finish(a, s)
<1>1. b \in Task /\ b.status = s /\ b.opening = NoOne /\ b.group = a.group /\ b.exit = a.exit
  BY FinishDoes
<1>2. 0 \in 0 .. RunningTimeout
  BY LedgerAssumption
<1> HIDE DEF b
<1>3. /\ [b EXCEPT !.age = 0] \in Task
      /\ [b EXCEPT !.age = 0].status = b.status /\ [b EXCEPT !.age = 0].opening = b.opening
      /\ [b EXCEPT !.age = 0].group = b.group /\ [b EXCEPT !.age = 0].exit = b.exit
  BY <1>1, <1>2 DEF Task
<1> QED BY <1>1, <1>3 DEF b

LEMMA FailedDoes ==
  ASSUME NEW a \in Task
  PROVE  /\ Failed(a) \in Task /\ Failed(a).status = "failed" /\ Failed(a).opening = NoOne
         /\ Failed(a).group = a.group /\ Failed(a).exit = a.exit
BY FinishNowDoes DEF Failed, Statuses, Terminal

LEMMA StillRefl == ASSUME NEW a PROVE Still(a, a)
BY DEF Still

LEMMA CalmRefl == ASSUME NEW l \in Ledger, NEW P, NEW J PROVE Calm(l, l, P, J)
BY StillRefl DEF Calm, Moved, Counts

(* One task moves. *)
LEMMA CalmSet ==
  ASSUME NEW l \in Ledger, NEW t \in TaskIds, NEW a \in Task, NEW P, NEW J,
         Moved(l.tasks[t], a, t \in P, t \in J)
  PROVE  Calm(l, SetTask(l, t, a), P, J)
BY SetTaskDoes, StillRefl DEF Calm, Moved, Counts

LEMMA FailTaskCalm ==
  ASSUME NEW l \in Ledger, NEW t \in TaskIds, NEW P, NEW J
  PROVE  Calm(l, FailTask(l, t, "dispatching"), P, J)
<1>1. l.tasks[t] \in Task
  BY LedgerFields
<1>2. l.tasks[t].status = "dispatching" => Moved(l.tasks[t], Failed(l.tasks[t]), t \in P, t \in J)
  BY <1>1, FailedDoes DEF Moved, Ends, Terminal
<1> QED BY <1>1, <1>2, FailedDoes, CalmSet, CalmRefl DEF FailTask

LEMMA ReportNoFixCalm ==
  ASSUME NEW l \in Ledger, NEW t \in TaskIds, NEW P, NEW J
  PROVE  Calm(l, ReportNoFix(l, t), P, J)
<1> DEFINE a == l.tasks[t]
           b == [Finish(a, "no_fix") EXCEPT !.age = 0]
<1>1. a \in Task
  BY LedgerFields
<1>2. /\ b \in Task /\ b.status = "no_fix" /\ b.opening = NoOne /\ b.group = a.group
      /\ b.exit = a.exit
  BY <1>1, FinishNowDoes DEF Statuses, Terminal
<1>3. ReportNoFix(l, t) = IF a.status = "running" /\ a.opening = NoOne
                            THEN SetTask(l, t, b) ELSE l
  BY DEF ReportNoFix, Fresh
<1> HIDE DEF b
<1>4. a.status = "running" /\ a.opening = NoOne => Moved(a, b, t \in P, t \in J)
  BY <1>2 DEF Moved, Ends, Terminal
<1> QED BY <1>1, <1>2, <1>3, <1>4, CalmSet, CalmRefl

LEMMA SetTicketStill ==
  ASSUME NEW l \in Ledger, NEW t \in TaskIds
  PROVE  AllStill(l, SetTicket(l, t))
<1> DEFINE a == l.tasks[t]
           b == [a EXCEPT !.ticket = a.status \notin {"none", "dropped"}]
<1>1. a \in Task
  BY LedgerFields
<1>2. b \in Task /\ Still(a, b)
  BY <1>1 DEF Task, Still
<1>3. SetTicket(l, t) = SetTask(l, t, b)
  BY DEF SetTicket
<1> HIDE DEF b
<1> QED BY <1>2, <1>3, SetTaskDoes, StillRefl DEF AllStill, Counts

LEMMA StillIsCalm ==
  ASSUME NEW l, NEW m, AllStill(l, m), NEW P, NEW J
  PROVE  Calm(l, m, P, J)
BY DEF AllStill, Calm, Moved

(* A pull request that was decided. *)
LEMMA ClosePRCalm ==
  ASSUME NEW l \in Ledger, NEW t \in TaskIds, NEW J
  PROVE  Calm(l, ClosePR(l, t), {t}, J)
<1> DEFINE a == l.tasks[t]
           b == Finish(a, "closed")
<1>1. a \in Task
  BY LedgerFields
<1>2. b \in Task /\ b.status = "closed" /\ b.opening = NoOne /\ b.group = a.group
  BY <1>1, FinishDoes DEF Statuses, Terminal
<1>3. ClosePR(l, t) = IF a.status = "pr_open" THEN SetTask(l, t, b) ELSE l
  BY DEF ClosePR
<1> HIDE DEF b
<1>4. a.status = "pr_open" => Moved(a, b, t \in {t}, t \in J)
  BY <1>2 DEF Moved, Ends, Terminal
<1> QED BY <1>1, <1>2, <1>3, <1>4, CalmSet, CalmRefl

LEMMA MergePRCalm ==
  ASSUME NEW l \in Ledger, NEW t \in TaskIds, NEW J
  PROVE  Calm(l, MergePR(l, t), {t}, J)
<1> DEFINE a == l.tasks[t]
           b == Finish(a, "merged")
           m == SetTask(l, t, b)
           n == [m EXCEPT !.tracks[a.group].merged = TRUE]
<1>1. a \in Task
  BY LedgerFields
<1>2. b \in Task /\ b.status = "merged" /\ b.opening = NoOne /\ b.group = a.group
  BY <1>1, FinishDoes DEF Statuses, Terminal
<1>3. MergePR(l, t) = IF a.status = "pr_open" THEN n ELSE l
  BY DEF MergePR
<1>4. CASE a.status = "pr_open"
  <2>1. Moved(a, b, t \in {t}, t \in J)
    BY <1>2, <1>4 DEF Moved, Ends, Terminal
  <2>2. Calm(l, m, {t}, J)
    BY <1>2, <2>1, CalmSet
  <2> HIDE DEF m
  <2>3. m \in Ledger
    BY <2>2 DEF Calm
  <2>4. /\ n \in Ledger /\ n.tasks = m.tasks
        /\ \A g \in Groups : n.tracks[g].attempts = m.tracks[g].attempts
    <3> DEFINE k == [m.tracks EXCEPT ![a.group].merged = TRUE]
    <3>1. m.tracks \in [Groups -> Track]
      BY <2>3 DEF Ledger
    <3>2. k \in [Groups -> Track] /\ \A g \in Groups : k[g].attempts = m.tracks[g].attempts
      BY <3>1 DEF Track
    <3>3. n = [m EXCEPT !.tracks = k]
      BY <2>3 DEF Ledger
    <3> HIDE DEF k
    <3> QED BY <2>3, <3>2, <3>3 DEF Ledger
  <2> HIDE DEF n
  <2> QED BY <1>3, <1>4, <2>2, <2>4 DEF Calm, Counts
<1>5. CASE a.status # "pr_open"
  BY <1>3, <1>5, CalmRefl
<1> QED BY <1>4, <1>5

LEMMA FailAllDoes ==
  ASSUME NEW l \in Ledger, NEW T \in SUBSET TaskIds
  PROVE  /\ FailAll(l, T) \in Ledger /\ Counts(l, FailAll(l, T))
         /\ \A t \in TaskIds : FailAll(l, T).tasks[t] =
              IF t \in T THEN Failed(l.tasks[t]) ELSE l.tasks[t]
<1>1. \A t \in TaskIds : l.tasks[t] \in Task /\ Failed(l.tasks[t]) \in Task
  BY LedgerFields, FailedDoes
<1> DEFINE f == [t \in TaskIds |-> IF t \in T THEN Failed(l.tasks[t]) ELSE l.tasks[t]]
<1>2. f \in [TaskIds -> Task]
  BY <1>1
<1>3. FailAll(l, T) = [l EXCEPT !.tasks = f]
  BY DEF FailAll
<1>4. \A t \in TaskIds : f[t] = IF t \in T THEN Failed(l.tasks[t]) ELSE l.tasks[t]
  OBVIOUS
<1> HIDE DEF f
<1>5. [l EXCEPT !.tasks = f] \in Ledger /\ [l EXCEPT !.tasks = f].tasks = f
      /\ [l EXCEPT !.tasks = f].tracks = l.tracks
  BY <1>2 DEF Ledger
<1> QED BY <1>3, <1>4, <1>5 DEF Counts

(* Unfinished tasks are failed: waiting ones, running ones with no opening in  *)
(* progress or no time left.                                                   *)
LEMMA FailAllCalm ==
  ASSUME NEW l \in Ledger, NEW T \in SUBSET TaskIds, NEW P, NEW J,
         \A t \in T :
           \/ l.tasks[t].status = "dispatching"
           \/ /\ l.tasks[t].status = "running"
              /\ l.tasks[t].opening = NoOne \/ l.tasks[t].age >= RunningTimeout
              /\ l.tasks[t].exit \/ l.tasks[t].age >= RunningTimeout \/ t \in J
  PROVE  Calm(l, FailAll(l, T), P, J)
<1>1. ASSUME NEW t \in TaskIds
      PROVE  Moved(l.tasks[t], FailAll(l, T).tasks[t], t \in P, t \in J)
  <2>1. CASE t \notin T
    BY <2>1, FailAllDoes, StillRefl DEF Moved
  <2>2. CASE t \in T
    <3> DEFINE a == l.tasks[t]
               b == Failed(a)
    <3>1. a \in Task
      BY LedgerFields
    <3>2. b.status = "failed" /\ b.opening = NoOne /\ b.group = a.group /\ b.exit = a.exit
      BY <3>1, FailedDoes
    <3>3. FailAll(l, T).tasks[t] = b
      BY <2>2, FailAllDoes
    <3> HIDE DEF b
    <3> QED BY <2>2, <3>2, <3>3 DEF Moved, Ends, Terminal
  <2> QED BY <2>1, <2>2
<1> QED BY <1>1, FailAllDoes DEF Calm

LEMMA ReconcileCalm ==
  ASSUME NEW l \in Ledger, NEW P, NEW J
  PROVE  Calm(l, Reconcile(l), P, J)
BY FailAllCalm DEF Reconcile, Lost, Ended, TimedOut, Fresh

LEMMA ReconcileJobsCalm ==
  ASSUME NEW l \in Ledger, NEW present, NEW finished, NEW P
  PROVE  Calm(l, ReconcileJobs(l, present, finished), P,
              {t \in TaskIds : JobGone(l.tasks[t], t, present, finished)})
<1> DEFINE J == {t \in TaskIds : JobGone(l.tasks[t], t, present, finished)}
           T == {t \in TaskIds : /\ l.tasks[t].status = "running"
                                 /\ ~l.tasks[t].exit
                                 /\ ~Fresh(l.tasks[t])
                                 /\ JobGone(l.tasks[t], t, present, finished)}
<1>1. ReconcileJobs(l, present, finished) = FailAll(l, T)
  BY DEF ReconcileJobs
<1>2. \A t \in T : l.tasks[t].status = "running" /\ l.tasks[t].opening = NoOne /\ t \in J
  BY DEF Fresh
<1>3. T \in SUBSET TaskIds
  OBVIOUS
<1> HIDE DEF J, T
<1>4. Calm(l, FailAll(l, T), P, J)
  BY <1>2, <1>3, FailAllCalm
<1> QED BY <1>1, <1>4 DEF J

(* A ledger whose tasks are rewritten one by one. *)
LEMMA TasksSet ==
  ASSUME NEW l \in Ledger, NEW f \in [TaskIds -> Task]
  PROVE  /\ [l EXCEPT !.tasks = f] \in Ledger
         /\ [l EXCEPT !.tasks = f].tasks = f
         /\ Counts(l, [l EXCEPT !.tasks = f])
         /\ [l EXCEPT !.tasks = f].tracks = l.tracks
BY DEF Ledger, Counts

LEMMA UnbindStill ==
  ASSUME NEW l \in Ledger, NEW T
  PROVE  AllStill(l, Unbind(l, T))
<1> DEFINE f == [t \in TaskIds |-> IF t \in T THEN [l.tasks[t] EXCEPT !.bound = FALSE] ELSE l.tasks[t]]
<1>1. ASSUME NEW t \in TaskIds PROVE f[t] \in Task /\ Still(l.tasks[t], f[t])
  <2>1. l.tasks[t] \in Task
    BY LedgerFields
  <2>2. [l.tasks[t] EXCEPT !.bound = FALSE] \in Task /\ Still(l.tasks[t], [l.tasks[t] EXCEPT !.bound = FALSE])
    BY <2>1 DEF Task, Still
  <2> QED BY <2>1, <2>2, StillRefl
<1>2. Unbind(l, T) = [l EXCEPT !.tasks = f]
  BY DEF Unbind
<1>3. f \in [TaskIds -> Task]
  BY <1>1
<1> HIDE DEF f
<1> QED BY <1>1, <1>2, <1>3, TasksSet DEF AllStill

LEMMA SessionEndedCalm ==
  ASSUME NEW l \in Ledger, NEW t \in TaskIds, NEW P, NEW J
  PROVE  Calm(l, SessionEnded(l, t), P, J)
<1> DEFINE a == l.tasks[t]
           b == [a EXCEPT !.exit = TRUE]
<1>1. a \in Task
  BY LedgerFields
<1>2. b \in Task /\ Still(a, b) /\ b.exit
  BY <1>1 DEF Task, Still
<1>3. SessionEnded(l, t) =
        SetTask(l, t, IF b.status = "running" /\ b.opening = NoOne THEN Failed(b) ELSE b)
  BY DEF SessionEnded, Fresh
<1> HIDE DEF b
<1>4. CASE b.status = "running" /\ b.opening = NoOne
  <2> DEFINE c == Failed(b)
  <2>1. c \in Task /\ c.status = "failed" /\ c.opening = NoOne /\ c.group = b.group /\ c.exit
    BY <1>2, FailedDoes
  <2> HIDE DEF c
  <2>2. Moved(a, c, t \in P, t \in J)
    BY <1>2, <1>4, <2>1 DEF Moved, Ends, Still, Terminal
  <2> QED BY <1>3, <1>4, <2>1, <2>2, CalmSet DEF c
<1>5. CASE ~(b.status = "running" /\ b.opening = NoOne)
  BY <1>2, <1>3, <1>5, CalmSet DEF Moved
<1> QED BY <1>4, <1>5

LEMMA ScannedStill ==
  ASSUME NEW l \in Ledger, NEW seen \in SUBSET Groups
  PROVE  AllStill(l, Scanned(l, seen))
<1> DEFINE C == {g \in l.candidates \cup {c \in seen : ~OpenTask(l, c)} : ~Exhausted(l, g)}
<1>1. C \in SUBSET Groups
  BY LedgerFields
<1>2. Scanned(l, seen) = [l EXCEPT !.candidates = C]
  BY DEF Scanned, Ledger
<1> HIDE DEF C
<1>3. /\ [l EXCEPT !.candidates = C] \in Ledger
      /\ [l EXCEPT !.candidates = C].tasks = l.tasks
      /\ [l EXCEPT !.candidates = C].tracks = l.tracks
  BY <1>1 DEF Ledger
<1> QED BY <1>2, <1>3, StillRefl DEF AllStill, Counts

LEMMA ExpireTasksCalm ==
  ASSUME NEW l \in Ledger, NEW P, NEW J
  PROVE  Calm(l, ExpireTasks(l), P, J)
<1> DEFINE gone == [Absent EXCEPT !.status = "dropped"]
           f == [t \in TaskIds |-> IF Expired(l.tasks[t]) THEN gone ELSE l.tasks[t]]
<1>0. gone \in Task /\ gone.status = "dropped" /\ gone.opening = NoOne
  BY AbsentType DEF Absent, Task, Statuses
<1> HIDE DEF gone
<1>1. ASSUME NEW t \in TaskIds PROVE f[t] \in Task /\ Moved(l.tasks[t], f[t], t \in P, t \in J)
  <2>1. l.tasks[t] \in Task
    BY LedgerFields
  <2>2. CASE Expired(l.tasks[t])
    BY <1>0, <2>2 DEF Expired, Terminal, Moved, Ends
  <2>3. CASE ~Expired(l.tasks[t])
    BY <2>1, <2>3, StillRefl DEF Moved
  <2> QED BY <2>2, <2>3
<1>2. ExpireTasks(l) = [l EXCEPT !.tasks = f]
  BY DEF ExpireTasks, gone
<1>3. f \in [TaskIds -> Task]
  BY <1>1
<1> HIDE DEF f
<1> QED BY <1>1, <1>2, <1>3, TasksSet DEF Calm

(* Two writes in one. *)
LEMMA CalmThenStill ==
  ASSUME NEW l, NEW m, NEW n, NEW P, NEW J, Calm(l, m, P, J), AllStill(m, n)
  PROVE  Calm(l, n, P, J)
<1> SUFFICES ASSUME NEW t \in TaskIds
             PROVE  Moved(l.tasks[t], n.tasks[t], t \in P, t \in J)
  BY DEF Calm, AllStill, Counts
<1>1. Moved(l.tasks[t], m.tasks[t], t \in P, t \in J) /\ Still(m.tasks[t], n.tasks[t])
  BY DEF Calm, AllStill
<1> QED BY <1>1 DEF Moved, Still, Ends

LEMMA StillThenCalm ==
  ASSUME NEW l, NEW m, NEW n, NEW P, NEW J, AllStill(l, m), Calm(m, n, P, J)
  PROVE  Calm(l, n, P, J)
<1> SUFFICES ASSUME NEW t \in TaskIds
             PROVE  Moved(l.tasks[t], n.tasks[t], t \in P, t \in J)
  BY DEF Calm, AllStill, Counts
<1>1. Still(l.tasks[t], m.tasks[t]) /\ Moved(m.tasks[t], n.tasks[t], t \in P, t \in J)
  BY DEF Calm, AllStill
<1> QED BY <1>1 DEF Moved, Still, Ends

(* A task is added for a candidate nobody works on, within the limits. *)
LEMMA AddTaskDoes ==
  ASSUME NEW l \in Ledger, NEW t \in TaskIds, NEW g \in Groups
  PROVE  LET m == AddTask(l, t, g)
         IN  /\ m \in Ledger
             /\ \/ m = l
                \/ /\ l.tasks[t].status = "none" /\ HasCapacity(l) /\ Eligible(l, g)
                   /\ Counts(l, m)
                   /\ \A u \in TaskIds : u # t => m.tasks[u] = l.tasks[u]
                   /\ m.tasks[t].status = "dispatching" /\ m.tasks[t].group = g
                   /\ m.tasks[t].opening = NoOne /\ m.tasks[t] # Absent
<1> DEFINE a == [Absent EXCEPT !.status = "dispatching", !.group = g]
           k == SetTask(l, t, a)
           C == {c \in l.candidates : c # g /\ ~Exhausted(l, c)}
           n == [k EXCEPT !.candidates = C]
           cond == l.tasks[t] = Absent /\ HasCapacity(l) /\ Eligible(l, g) /\ g \in l.candidates
<1>1. a \in Task /\ a.status = "dispatching" /\ a.group = g /\ a.opening = NoOne /\ a # Absent
  BY AbsentType DEF Task, Statuses, Active, Absent
<1> HIDE DEF a
<1>2. /\ k \in Ledger /\ k.tasks[t] = a /\ k.tracks = l.tracks /\ k.candidates = l.candidates
      /\ \A u \in TaskIds : u # t => k.tasks[u] = l.tasks[u]
  BY <1>1, SetTaskDoes
<1>c. AddTask(l, t, g) = IF cond THEN n ELSE l
  BY <1>2 DEF AddTask, a
<1> HIDE DEF k
<1>3. C \in SUBSET Groups
  BY LedgerFields
<1>4. n \in Ledger /\ n.tasks = k.tasks /\ n.tracks = k.tracks
  BY <1>2, <1>3 DEF Ledger
<1>5. l.tasks[t] = Absent => l.tasks[t].status = "none"
  BY DEF Absent
<1> HIDE DEF n, C
<1>6. CASE cond
  BY <1>1, <1>2, <1>4, <1>5, <1>6, <1>c DEF Counts
<1>7. CASE ~cond
  BY <1>7, <1>c
<1> QED BY <1>6, <1>7

(* A dispatch is completed once, and counts for its group. *)
LEMMA MarkRunningDoes ==
  ASSUME NEW l \in Ledger, NEW t \in TaskIds
  PROVE  LET m == MarkRunning(l, t)
             g == l.tasks[t].group
         IN  /\ m \in Ledger
             /\ \/ m = l /\ l.tasks[t].status # "dispatching"
                \/ /\ l.tasks[t].status = "dispatching"
                   /\ \A u \in TaskIds : u # t => m.tasks[u] = l.tasks[u]
                   /\ m.tasks[t].status = "running" /\ m.tasks[t].group = g
                   /\ m.tasks[t].opening = l.tasks[t].opening /\ m.tasks[t].age = 0
                   /\ \A h \in Groups :
                        m.tracks[h].attempts =
                          IF h = g THEN l.tracks[h].attempts + 1 ELSE l.tracks[h].attempts
<1> DEFINE a == l.tasks[t]
           b == [a EXCEPT !.status = "running", !.named = TRUE, !.bound = TRUE, !.age = 0]
           k == SetTask(l, t, b)
           tr == [k.tracks EXCEPT ![a.group].attempts = @ + 1]
           n == [k EXCEPT !.tracks[a.group].attempts = @ + 1]
<1>1. a \in Task
  BY LedgerFields
<1>2. /\ b \in Task /\ b.status = "running" /\ b.group = a.group /\ b.opening = a.opening
      /\ b.age = 0
  <2>1. 0 \in 0 .. RunningTimeout /\ "running" \in Statuses
    BY LedgerAssumption DEF Statuses, Active
  <2> QED BY <1>1, <2>1 DEF Task
<1>c. MarkRunning(l, t) = IF a.status = "dispatching" THEN n ELSE l
  BY DEF MarkRunning, Bump
<1> HIDE DEF b
<1>3. /\ k \in Ledger /\ k.tasks[t] = b /\ k.tracks = l.tracks
      /\ \A u \in TaskIds : u # t => k.tasks[u] = l.tasks[u]
  BY <1>2, SetTaskDoes
<1> HIDE DEF k
<1>4. /\ k.tracks \in [Groups -> Track]
      /\ \A h \in Groups : k.tracks[h] \in Track /\ k.tracks[h].attempts \in Nat
  BY <1>3 DEF Ledger, Track
<1>5. /\ tr \in [Groups -> Track]
      /\ \A h \in Groups :
           tr[h].attempts = IF h = a.group THEN k.tracks[h].attempts + 1 ELSE k.tracks[h].attempts
  <2> DEFINE z == k.tracks
             g == a.group
             up == [z[g] EXCEPT !.attempts = @ + 1]
  <2>1. tr = [z EXCEPT ![g] = up]
    OBVIOUS
  <2> HIDE DEF tr
  <2>2. z \in [Groups -> Track]
    BY <1>4
  <2>3. g \in Groups => up \in Track /\ up.attempts = z[g].attempts + 1
    BY <1>4 DEF Track
  <2> HIDE DEF z, g, up
  <2>4. /\ tr \in [Groups -> Track]
        /\ \A h \in Groups : h = g => tr[h] = up
        /\ \A h \in Groups : h # g => tr[h] = z[h]
    BY <2>1, <2>2, <2>3
  <2>5. /\ tr \in [Groups -> Track]
        /\ \A h \in Groups : tr[h].attempts = IF h = g THEN z[h].attempts + 1 ELSE z[h].attempts
    BY <2>3, <2>4
  <2> QED BY <2>5 DEF z, g
<1>6. n = [k EXCEPT !.tracks = tr]
  BY <1>3 DEF Ledger
<1> HIDE DEF tr
<1>7. n \in Ledger /\ n.tasks = k.tasks /\ n.tracks = tr
  BY <1>3, <1>5, <1>6 DEF Ledger
<1> HIDE DEF n
<1>8. CASE a.status = "dispatching"
  BY <1>2, <1>3, <1>5, <1>7, <1>8, <1>c
<1>9. CASE a.status # "dispatching"
  BY <1>9, <1>c
<1> QED BY <1>8, <1>9

(* One task changes, and nothing that is counted. *)
Only(l, m, t) ==
  /\ m \in Ledger /\ Counts(l, m)
  /\ \A u \in TaskIds : u # t => m.tasks[u] = l.tasks[u]

LEMMA BeginOpeningDoes ==
  ASSUME NEW l \in Ledger, NEW t \in TaskIds, NEW r \in Guards
  PROVE  LET m == BeginOpening(l, t, r)
         IN  /\ Only(l, m, t)
             /\ \/ m = l
                \/ /\ l.tasks[t].status = "running" /\ l.tasks[t].opening = NoOne
                   /\ m.tasks[t].status = "running" /\ m.tasks[t].group = l.tasks[t].group
                   /\ m.tasks[t].age = l.tasks[t].age /\ m.tasks[t].opening = r
<1> DEFINE a == l.tasks[t]
           b == [a EXCEPT !.opening = r, !.tries = @ + 1]
           cond == a.status = "running" /\ ~Fresh(a) /\ a.tries < MaxOpenAttempts
<1>1. a \in Task /\ a.tries \in 0 .. MaxOpenAttempts
  BY LedgerFields, TaskFields
<1>2. cond => /\ b \in Task /\ b.status = a.status /\ b.group = a.group /\ b.age = a.age
              /\ b.opening = r
  <2> SUFFICES ASSUME cond PROVE /\ b \in Task /\ b.status = a.status /\ b.group = a.group
                                 /\ b.age = a.age /\ b.opening = r
    OBVIOUS
  <2>1. a.tries + 1 \in 0 .. MaxOpenAttempts
    BY <1>1, LedgerAssumption
  <2> QED BY <1>1, <2>1 DEF Task
<1>c. BeginOpening(l, t, r) = IF cond THEN SetTask(l, t, b) ELSE l
  BY DEF BeginOpening
<1> HIDE DEF b
<1>3. CASE cond
  BY <1>2, <1>3, <1>c, SetTaskDoes DEF Only, Counts, Fresh
<1>4. CASE ~cond
  <2>1. BeginOpening(l, t, r) = l
    BY <1>4, <1>c
  <2> QED BY <2>1 DEF Only, Counts
<1> QED BY <1>3, <1>4

LEMMA ClearOpeningDoes ==
  ASSUME NEW l \in Ledger, NEW t \in TaskIds, NEW r \in Guards
  PROVE  LET m == ClearOpening(l, t, r)
         IN  /\ Only(l, m, t)
             /\ \/ m = l
                \/ /\ l.tasks[t].opening = r
                   /\ m.tasks[t].status = l.tasks[t].status /\ m.tasks[t].group = l.tasks[t].group
                   /\ m.tasks[t].age = l.tasks[t].age /\ m.tasks[t].opening = NoOne
<1> DEFINE a == l.tasks[t]
           b == [a EXCEPT !.opening = NoOne]
<1>1. a \in Task
  BY LedgerFields
<1>2. b \in Task /\ b.status = a.status /\ b.group = a.group /\ b.age = a.age /\ b.opening = NoOne
  BY <1>1 DEF Task
<1>c. ClearOpening(l, t, r) = IF a.opening = r THEN SetTask(l, t, b) ELSE l
  BY DEF ClearOpening
<1> HIDE DEF b
<1>3. CASE a.opening = r
  BY <1>2, <1>3, <1>c, SetTaskDoes DEF Only, Counts
<1>4. CASE a.opening # r
  <2>1. ClearOpening(l, t, r) = l
    BY <1>4, <1>c
  <2> QED BY <2>1 DEF Only, Counts
<1> QED BY <1>3, <1>4

LEMMA OpenPRDoes ==
  ASSUME NEW l \in Ledger, NEW t \in TaskIds
  PROVE  LET m == OpenPR(l, t)
         IN  /\ Only(l, m, t)
             /\ \/ m = l /\ l.tasks[t].status # "running"
                \/ /\ l.tasks[t].status = "running" /\ m.tasks[t].status = "pr_open"
                   /\ m.tasks[t].group = l.tasks[t].group /\ m.tasks[t].opening = NoOne
<1> DEFINE a == l.tasks[t]
           b == [Finish(a, "pr_open") EXCEPT !.age = 0]
<1>1. a \in Task
  BY LedgerFields
<1>2. b \in Task /\ b.status = "pr_open" /\ b.group = a.group /\ b.opening = NoOne
  BY <1>1, FinishNowDoes DEF Statuses
<1>c. OpenPR(l, t) = IF a.status = "running" THEN SetTask(l, t, b) ELSE l
  BY DEF OpenPR
<1> HIDE DEF b
<1>3. CASE a.status = "running"
  BY <1>2, <1>3, <1>c, SetTaskDoes DEF Only, Counts
<1>4. CASE a.status # "running"
  <2>1. OpenPR(l, t) = l
    BY <1>4, <1>c
  <2> QED BY <1>4, <2>1 DEF Only, Counts
<1> QED BY <1>3, <1>4

LEMMA OlderDoes ==
  ASSUME NEW l \in Ledger
  PROVE  LET m == OlderBy1(l)
         IN  /\ m \in Ledger /\ Counts(l, m)
             /\ \A t \in TaskIds :
                  /\ m.tasks[t].status = l.tasks[t].status /\ m.tasks[t].group = l.tasks[t].group
                  /\ m.tasks[t].opening = NoOne /\ m.tasks[t].age <= l.tasks[t].age + 1
<1> DEFINE top(t) == IF l.tasks[t].status \in {"none", "dropped"} THEN 0
                     ELSE IF l.tasks[t].status = "dispatching" THEN DispatchLostAfter
                     ELSE IF l.tasks[t].status = "running" THEN RunningTimeout
                     ELSE WrapUp
           age(t) == IF l.tasks[t].age < top(t) THEN l.tasks[t].age + 1 ELSE l.tasks[t].age
           f == [t \in TaskIds |-> [l.tasks[t] EXCEPT !.opening = NoOne, !.age = age(t)]]
<1>1. OlderBy1(l) = [l EXCEPT !.tasks = f]
  BY DEF OlderBy1
<1>2. ASSUME NEW t \in TaskIds
      PROVE  /\ f[t] \in Task /\ f[t].status = l.tasks[t].status /\ f[t].group = l.tasks[t].group
             /\ f[t].opening = NoOne /\ f[t].age <= l.tasks[t].age + 1
  <2>1. l.tasks[t] \in Task /\ l.tasks[t].age \in 0 .. RunningTimeout
    BY LedgerFields, TaskFields
  <2>2. top(t) \in 0 .. RunningTimeout
    BY LedgerAssumption
  <2>3. age(t) \in 0 .. RunningTimeout /\ age(t) <= l.tasks[t].age + 1
    BY <2>1, <2>2, LedgerAssumption
  <2> HIDE DEF age
  <2> QED BY <2>1, <2>3 DEF Task
<1>3. f \in [TaskIds -> Task]
  <2>1. \A t \in TaskIds : f[t] \in Task
    BY <1>2
  <2>2. f = [t \in TaskIds |-> f[t]]
    OBVIOUS
  <2> HIDE DEF f
  <2> QED BY <2>1, <2>2
<1> HIDE DEF f
<1> QED BY <1>1, <1>2, <1>3, TasksSet

----------------------------------------------------------------------------
\* Types, and what a tick or a report has in hand.

HasTask == {"bind", "start", "abandon", "fail", "name", "drop", "retract"}

Shaped(k) ==
  /\ k.pc \in HasTask => k.task \in TaskIds
  /\ k.pc = "add" => k.group \in Groups

ShapedOp(k) == k.pc # "off" => k.task \in TaskIds

TypeInv ==
  /\ TypeOK
  /\ \A r \in Ticks : Shaped(tick[r])
  /\ \A r \in Guards : ShapedOp(op[r])

LEMMA Numbers ==
  /\ NoOne \notin Ticks /\ NoTask \notin TaskIds /\ 0 \notin Ticks
  /\ NoOne \notin Guards /\ NoOne \notin Groups /\ NoOne # 0
  /\ JobDeadline \in Nat /\ RunningTimeout \in Nat /\ JobDeadline < RunningTimeout
  /\ MaxFaults \in Nat /\ MaxAttempts \in Nat
BY TicksAssumption, LedgerAssumption DEF NoTask

LEMMA TickFields ==
  ASSUME NEW k \in Tick
  PROVE  /\ k.task \in TaskIds \cup {NoTask} /\ k.group \in Groups \cup {NoOne}
         /\ k.present \in SUBSET TaskIds /\ k.finished \in SUBSET TaskIds
         /\ k.healthy \in BOOLEAN /\ k.fired \in BOOLEAN /\ k.failed \in BOOLEAN
BY DEF Tick

LEMMA NoTickDoes ==
  /\ NoTick \in Tick /\ Shaped(NoTick) /\ NoTick.pc = "off" /\ NoTick.task = NoTask
  /\ NoOp \in Op /\ ShapedOp(NoOp) /\ NoOp.pc = "off" /\ NoOp.task = NoTask
BY DEF NoTick, Tick, Shaped, HasTask, NoOp, Op, ShapedOp

(* The step of one tick. *)
LEMMA TickSet ==
  ASSUME TypeInv, NEW r \in Ticks, NEW k \in Tick, Shaped(k), tick' = [tick EXCEPT ![r] = k]
  PROVE  /\ tick' \in [Ticks -> Tick] /\ \A q \in Ticks : Shaped(tick'[q])
         /\ tick'[r] = k
         /\ \A q \in Ticks : q # r => tick'[q] = tick[q]
BY DEF TypeInv, TypeOK

(* A tick that goes on to a step that needs no task, or has one. *)
LEMMA GotoDoes ==
  ASSUME TypeInv, NEW r \in Ticks,
         NEW pc \in {"reconcile", "jobs", "clean", "sync", "pick", "start", "abandon", "fail",
                     "finish"},
         pc \in HasTask => tick[r].pc \in HasTask, Goto(r, pc)
  PROVE  /\ tick' \in [Ticks -> Tick] /\ \A q \in Ticks : Shaped(tick'[q])
         /\ tick'[r].pc = pc /\ tick'[r].task = tick[r].task
         /\ \A q \in Ticks : q # r => tick'[q] = tick[q]
<1> DEFINE k == [tick[r] EXCEPT !.pc = pc]
<1>1. tick[r] \in Tick /\ Shaped(tick[r])
  BY DEF TypeInv, TypeOK
<1>2. k \in Tick /\ k.pc = pc /\ k.task = tick[r].task
  BY <1>1 DEF Tick
<1>3. Shaped(k)
  BY <1>1, <1>2 DEF Shaped, HasTask
<1>4. tick' = [tick EXCEPT ![r] = k]
  BY DEF Goto
<1> HIDE DEF k
<1> QED BY <1>2, <1>3, <1>4, TickSet

LEMMA UnhealthyDoes ==
  ASSUME TypeInv, NEW r \in Ticks, NEW pc \in {"sync", "pick"}, Unhealthy(r, pc)
  PROVE  /\ tick' \in [Ticks -> Tick] /\ \A q \in Ticks : Shaped(tick'[q])
         /\ tick'[r].pc = pc /\ tick'[r].task = tick[r].task
         /\ \A q \in Ticks : q # r => tick'[q] = tick[q]
<1> DEFINE k == [tick[r] EXCEPT !.pc = pc, !.healthy = FALSE]
<1>1. tick[r] \in Tick
  BY DEF TypeInv, TypeOK
<1>2. k \in Tick /\ k.pc = pc /\ k.task = tick[r].task
  BY <1>1 DEF Tick
<1>3. Shaped(k)
  BY <1>2 DEF Shaped, HasTask
<1>4. tick' = [tick EXCEPT ![r] = k]
  BY DEF Unhealthy
<1> HIDE DEF k
<1> QED BY <1>2, <1>3, <1>4, TickSet

(* A report that goes on, or is over. *)
LEMMA OpGotoDoes ==
  ASSUME TypeInv, NEW r \in Guards, op[r].pc # "off",
         NEW pc \in {"off", "begin", "file", "key", "create", "record", "release"}, OpGoto(r, pc)
  PROVE  /\ op' \in [Guards -> Op] /\ \A q \in Guards : ShapedOp(op'[q])
         /\ op'[r].pc = pc
         /\ pc # "off" => op'[r] = [pc |-> pc, task |-> op[r].task]
         /\ \A q \in Guards : q # r => op'[q] = op[q]
<1> DEFINE k == IF pc = "off" THEN NoOp ELSE [op[r] EXCEPT !.pc = pc]
<1>1. op[r] \in Op /\ op[r].task \in TaskIds
  BY DEF TypeInv, TypeOK, ShapedOp
<1>2. /\ k \in Op /\ k.pc = pc /\ ShapedOp(k)
      /\ pc # "off" => k = [pc |-> pc, task |-> op[r].task]
  <2>1. CASE pc = "off"
    BY <2>1, NoTickDoes
  <2>2. CASE pc # "off"
    BY <1>1, <2>2 DEF Op, ShapedOp
  <2> QED BY <2>1, <2>2
<1>3. op' = [op EXCEPT ![r] = k]
  BY DEF OpGoto
<1> HIDE DEF k
<1> QED BY <1>2, <1>3 DEF TypeInv, TypeOK

(* A call that fails is counted. *)
LEMMA FaultType ==
  ASSUME TypeOK, Fault \/ UNCHANGED faults
  PROVE  faults' \in 0 .. MaxFaults
BY Numbers DEF TypeOK, Fault

(* A write leaves a ledger, whether it is applied or not. *)
LEMMA WrittenType ==
  ASSUME TypeOK, NEW new \in Ledger, NEW T \in SUBSET TaskIds, Wrote(new) \/ WriteFails(new, T)
  PROVE  led' \in Ledger /\ faults' \in 0 .. MaxFaults /\ hurt' \subseteq TaskIds
<1>1. faults' \in 0 .. MaxFaults
  BY FaultType DEF Wrote, WriteFails
<1>2. led' \in Ledger /\ hurt' \subseteq TaskIds
  BY DEF Wrote, WriteFails, TypeOK
<1> QED BY <1>1, <1>2

(* Jobs that are stopped stay stopped, the others as they are. *)
LEMMA StopJobsDoes ==
  ASSUME TypeOK, NEW T
  PROVE  /\ StopJobs(T) \in [TaskIds -> [st: {"none", "running", "finished", "gone"},
                                        age: 0 .. JobDeadline]]
         /\ \A t \in TaskIds : \/ StopJobs(T)[t] = jobs[t]
                               \/ jobs[t].st # "none" /\ StopJobs(T)[t].st = "gone"
<1> DEFINE J == [st: {"none", "running", "finished", "gone"}, age: 0 .. JobDeadline]
           k(t) == [jobs[t] EXCEPT !.st = "gone"]
           v(t) == IF t \in T /\ jobs[t].st # "none" THEN k(t) ELSE jobs[t]
<1>1. ASSUME NEW t \in TaskIds PROVE jobs[t] \in J /\ k(t) \in J /\ k(t).st = "gone"
  BY DEF TypeOK
<1>2. StopJobs(T) = [t \in TaskIds |-> v(t)]
  BY DEF StopJobs
<1> HIDE DEF J, k
<1>3. \A t \in TaskIds : v(t) \in J /\ (v(t) = jobs[t] \/ (jobs[t].st # "none" /\ v(t).st = "gone"))
  BY <1>1
<1> HIDE DEF v
<1>4. [t \in TaskIds |-> v(t)] \in [TaskIds -> J]
  BY <1>3
<1> QED BY <1>2, <1>3, <1>4 DEF J

(* What a tick's step does to the ticks: its own goes on, keeping its task or  *)
(* leaving it, unless it adds one.                                             *)
Steps(r) ==
  /\ tick' \in [Ticks -> Tick] /\ \A q \in Ticks : Shaped(tick'[q])
  /\ \A q \in Ticks : q # r => tick'[q] = tick[q]

\* The variables whose types a step is to keep besides.
Kept == UNCHANGED <<enabled, failures, binding, jobs, gh, lease>>

LEMMA TypeByParts ==
  ASSUME TypeInv, led' \in Ledger, enabled' \in BOOLEAN, failures' \in Nat,
         binding' \subseteq TaskIds,
         jobs' \in [TaskIds -> [st: {"none", "running", "finished", "gone"}, age: 0 .. JobDeadline]],
         gh' \in [TaskIds -> {"none", "open", "merged", "closed"}],
         lease' \in Ticks \cup {NoOne, 0},
         faults' \in 0 .. MaxFaults, hurt' \subseteq TaskIds,
         \/ tick' = tick
         \/ tick' \in [Ticks -> Tick] /\ \A q \in Ticks : Shaped(tick'[q]),
         \/ op' = op
         \/ op' \in [Guards -> Op] /\ \A q \in Guards : ShapedOp(op'[q])
  PROVE  TypeInv'
BY DEF TypeInv, TypeOK

(* The ledger and the reports: what a tick or a report writes. *)
LEMMA TypeKept ==
  ASSUME TypeInv, Kept, led' \in Ledger, faults' \in 0 .. MaxFaults, hurt' \subseteq TaskIds,
         \/ tick' = tick
         \/ tick' \in [Ticks -> Tick] /\ \A q \in Ticks : Shaped(tick'[q]),
         \/ op' = op
         \/ op' \in [Guards -> Op] /\ \A q \in Guards : ShapedOp(op'[q])
  PROVE  TypeInv'
BY TypeByParts DEF TypeInv, TypeOK, Kept

(* The ledger that TickClean works on. *)
Checked(r) ==
  IF At(r, "jobs") THEN ReconcileJobs(led, tick[r].present, tick[r].finished) ELSE led

LEMMA CheckedCalm ==
  ASSUME TypeInv, NEW r \in Ticks, NEW P
  PROVE  /\ Checked(r) \in Ledger
         /\ Calm(led, Checked(r), P,
                 IF At(r, "jobs")
                 THEN {t \in TaskIds : JobGone(led.tasks[t], t, tick[r].present, tick[r].finished)}
                 ELSE {})
<1>1. led \in Ledger
  BY DEF TypeInv, TypeOK
<1>2. CASE At(r, "jobs")
  BY <1>1, <1>2, ReconcileJobsCalm DEF Checked, Calm
<1>3. CASE ~At(r, "jobs")
  BY <1>1, <1>3, CalmRefl DEF Checked, Calm
<1> QED BY <1>2, <1>3

(* One reading of TickClean for all that follows. *)
LEMMA TickCleanDoes ==
  ASSUME TypeInv, NEW r \in Ticks, TickClean(r)
  PROVE  /\ At(r, "jobs") \/ At(r, "clean")
         /\ led' \in {led, Checked(r)} \/ (\E done : led' = Unbind(Checked(r), done))
         /\ binding' \subseteq binding
         /\ jobs' = jobs \/ (\E stop : jobs' = StopJobs(stop))
         /\ Fault \/ UNCHANGED faults
         /\ Steps(r) /\ tick'[r].pc = "sync" /\ tick'[r].task = NoTask
         /\ UNCHANGED <<enabled, failures, gh, lease, op, hurt>>
<1> DEFINE k(healthy) == [NoTick EXCEPT !.pc = "sync", !.healthy = healthy]
<1>1. \A b \in BOOLEAN : /\ k(b) \in Tick /\ Shaped(k(b))
                         /\ k(b).pc = "sync" /\ k(b).task = NoTask
  BY NoTickDoes DEF Tick, Shaped, HasTask
<1>2. \E b \in BOOLEAN : tick' = [tick EXCEPT ![r] = k(b)]
  BY DEF TickClean
<1> HIDE DEF k
<1>3. Steps(r) /\ tick'[r].pc = "sync" /\ tick'[r].task = NoTask
  BY <1>1, <1>2, TickSet DEF Steps
<1>4. /\ At(r, "jobs") \/ At(r, "clean")
      /\ binding' \subseteq binding
      /\ jobs' = jobs \/ (\E stop : jobs' = StopJobs(stop))
      /\ UNCHANGED <<enabled, failures, gh, lease, op>>
  BY DEF TickClean
<1>5. led' \in {led, Checked(r)} \/ (\E done : led' = Unbind(Checked(r), done))
  BY DEF TickClean, Checked, Wrote, WriteFails
<1>6. Fault \/ UNCHANGED faults
  BY DEF TickClean, Wrote, WriteFails
<1>7. UNCHANGED hurt
  BY DEF TickClean, Wrote, WriteFails
<1> QED BY <1>3, <1>4, <1>5, <1>6, <1>7

LEMMA TickAddDoes ==
  ASSUME TypeInv, NEW r \in Ticks, TickAdd(r)
  PROVE  \E t \in TaskIds, new \in Ledger :
           /\ FreeId(t) /\ tick[r].group \in Groups /\ new = AddTask(led, t, tick[r].group)
           /\ Wrote(new) \/ WriteFails(new, {t})
           /\ Steps(r)
           /\ \/ tick'[r].pc = "finish" /\ tick'[r].task = NoTask
              \/ /\ tick'[r].pc = "bind" /\ tick'[r].task = t
                 /\ led' = new /\ new.tasks[t] # Absent
           /\ UNCHANGED <<enabled, failures, outside, lease, op>>
<1> DEFINE k(pc, t) == [tick[r] EXCEPT !.pc = pc, !.group = NoOne,
                                       !.task = IF pc = "bind" THEN t ELSE NoTask]
<1>1. tick[r] \in Tick /\ tick[r].group \in Groups /\ led \in Ledger
  BY DEF TypeInv, TypeOK, Shaped, TickAdd, At
<1>2. PICK t \in TaskIds :
        /\ FreeId(t)
        /\ \E new \in {AddTask(led, t, tick[r].group)} :
             \/ /\ Wrote(new)
                /\ tick' = [tick EXCEPT ![r] = k(IF new.tasks[t] = Absent THEN "finish" ELSE "bind", t)]
             \/ WriteFails(new, {t}) /\ tick' = [tick EXCEPT ![r] = k("finish", t)]
  <2>1. PICK t \in TaskIds :
          /\ FreeId(t)
          /\ LET new == AddTask(led, t, tick[r].group)
                 then(pc) == tick' = [tick EXCEPT ![r].pc = pc, ![r].group = NoOne,
                                        ![r].task = IF pc = "bind" THEN t ELSE NoTask]
             IN  \/ Wrote(new) /\ then(IF new.tasks[t] = Absent THEN "finish" ELSE "bind")
                 \/ WriteFails(new, {t}) /\ then("finish")
    BY DEF TickAdd
  <2>2. \A pc : [tick EXCEPT ![r].pc = pc, ![r].group = NoOne,
                             ![r].task = IF pc = "bind" THEN t ELSE NoTask]
                = [tick EXCEPT ![r] = k(pc, t)]
    BY DEF TypeInv, TypeOK, Tick
  <2> HIDE DEF k
  <2> QED BY <2>1, <2>2
<1> DEFINE new == AddTask(led, t, tick[r].group)
<1>3. new \in Ledger
  BY <1>1, AddTaskDoes
<1>4. \A pc \in {"finish", "bind"} :
        /\ k(pc, t) \in Tick /\ Shaped(k(pc, t)) /\ k(pc, t).pc = pc
        /\ k(pc, t).task = IF pc = "bind" THEN t ELSE NoTask
  BY <1>1 DEF Tick, Shaped, HasTask
<1> HIDE DEF k
<1>5. \/ Wrote(new) /\ new.tasks[t] = Absent /\ tick' = [tick EXCEPT ![r] = k("finish", t)]
      \/ Wrote(new) /\ new.tasks[t] # Absent /\ tick' = [tick EXCEPT ![r] = k("bind", t)]
      \/ WriteFails(new, {t}) /\ tick' = [tick EXCEPT ![r] = k("finish", t)]
  BY <1>2
<1>6. UNCHANGED <<enabled, failures, outside, lease, op>>
  BY DEF TickAdd
<1> HIDE DEF new
<1>7. /\ Steps(r)
      /\ Wrote(new) \/ WriteFails(new, {t})
      /\ \/ tick'[r].pc = "finish" /\ tick'[r].task = NoTask
         \/ /\ tick'[r].pc = "bind" /\ tick'[r].task = t
            /\ led' = new /\ new.tasks[t] # Absent
  BY <1>4, <1>5, TickSet DEF Steps, Wrote
<1> QED BY <1>1, <1>2, <1>3, <1>6, <1>7 DEF new

LEMMA TickStartDoes ==
  ASSUME TypeInv, NEW r \in Ticks, TickStart(r)
  PROVE  /\ Steps(r) /\ tick'[r].pc = "reconcile" /\ tick'[r].task = tick[r].task
         /\ lease' \in {lease, r} /\ (Fault \/ UNCHANGED faults)
         /\ UNCHANGED <<led, enabled, failures, outside, op, hurt>>
<1>1. Goto(r, "reconcile")
  BY DEF TickStart
<1> QED BY <1>1, GotoDoes DEF TickStart, Steps, HasTask

LEMMA TickReconcileDoes ==
  ASSUME TypeInv, NEW r \in Ticks, TickReconcile(r)
  PROVE  /\ led' \in {led, Reconcile(led)} /\ (Fault \/ UNCHANGED faults) /\ UNCHANGED hurt
         /\ Steps(r) /\ tick'[r].task = tick[r].task
         /\ tick'[r].pc \in {"jobs", "clean", "sync"}
         /\ tick'[r].pc = "jobs" =>
              /\ led' = Reconcile(led)
              /\ tick'[r].present = {t \in TaskIds : jobs[t].st \in {"running", "finished"}}
              /\ tick'[r].finished = {t \in TaskIds : jobs[t].st = "finished"}
         /\ UNCHANGED <<enabled, failures, outside, lease, op>>
<1> DEFINE present == {t \in TaskIds : jobs[t].st \in {"running", "finished"}}
           finished == {t \in TaskIds : jobs[t].st = "finished"}
           k == [tick[r] EXCEPT !.pc = "jobs", !.present = present, !.finished = finished]
<1>1. tick[r] \in Tick /\ present \in SUBSET TaskIds /\ finished \in SUBSET TaskIds
  BY DEF TypeInv, TypeOK
<1> HIDE DEF present, finished
<1>2. k \in Tick /\ k.pc = "jobs" /\ k.task = tick[r].task /\ k.present = present
      /\ k.finished = finished
  BY <1>1 DEF Tick
<1>3. Shaped(k)
  BY <1>2 DEF Shaped, HasTask
<1>4. CASE /\ Wrote(Reconcile(led))
           /\ tick' = [tick EXCEPT ![r].pc = "jobs", ![r].present = present, ![r].finished = finished]
  <2>1. tick' = [tick EXCEPT ![r] = k]
    BY <1>4 DEF TypeInv, TypeOK, Tick
  <2> HIDE DEF k
  <2>2. Steps(r) /\ tick'[r] = k
    BY <1>2, <1>3, <2>1, TickSet DEF Steps
  <2>3. UNCHANGED <<enabled, failures, outside, lease, op>>
    BY DEF TickReconcile
  <2>4. led' = Reconcile(led) /\ UNCHANGED <<faults, hurt>>
    BY <1>4 DEF Wrote
  <2> QED BY <1>2, <2>2, <2>3, <2>4 DEF present, finished
<1>5. CASE led' = Reconcile(led) /\ Fault /\ UNCHANGED hurt /\ Goto(r, "clean")
  BY <1>5, GotoDoes DEF TickReconcile, Steps, HasTask
<1>6. CASE WriteFails(Reconcile(led), {}) /\ Unhealthy(r, "sync")
  BY <1>6, UnhealthyDoes DEF TickReconcile, Steps, WriteFails, HasTask
<1> QED BY <1>4, <1>5, <1>6 DEF TickReconcile, present, finished

LEMMA TickBindDoes ==
  ASSUME TypeInv, NEW r \in Ticks, TickBind(r)
  PROVE  /\ tick[r].pc = "bind" /\ tick[r].task \in TaskIds
         /\ binding' \subseteq TaskIds /\ (Fault \/ UNCHANGED faults)
         /\ hurt \subseteq hurt' /\ hurt' \subseteq TaskIds
         /\ Steps(r) /\ tick'[r].pc \in {"start", "fail"} /\ tick'[r].task = tick[r].task
         /\ UNCHANGED <<led, enabled, failures, jobs, gh, lease, op>>
<1>1. tick[r].pc = "bind" /\ tick[r].task \in TaskIds
  BY DEF TickBind, At, TypeInv, Shaped, HasTask
<1>2. PICK pc \in {"start", "fail"} : Goto(r, pc)
  BY DEF TickBind
<1>3. Steps(r) /\ tick'[r].pc = pc /\ tick'[r].task = tick[r].task
  BY <1>1, <1>2, GotoDoes DEF Steps, HasTask
<1> QED BY <1>1, <1>3 DEF TickBind, TypeInv, TypeOK

LEMMA TickLaunchDoes ==
  ASSUME TypeInv, NEW r \in Ticks, TickLaunch(r)
  PROVE  /\ tick[r].pc = "start" /\ tick[r].task \in TaskIds
         /\ jobs' \in [TaskIds -> [st: {"none", "running", "finished", "gone"}, age: 0 .. JobDeadline]]
         /\ \A t \in TaskIds : t # tick[r].task => jobs'[t] = jobs[t]
         /\ \/ UNCHANGED jobs /\ tick'[r].pc = "abandon"
            \/ jobs'[tick[r].task] = [st |-> "running", age |-> 0]
         /\ (Fault \/ UNCHANGED faults) /\ hurt \subseteq hurt' /\ hurt' \subseteq TaskIds
         /\ Steps(r) /\ tick'[r].pc \in {"name", "abandon"} /\ tick'[r].task = tick[r].task
         /\ UNCHANGED <<led, enabled, failures, binding, gh, lease, op>>
<1> DEFINE started == [jobs EXCEPT ![tick[r].task] = [st |-> "running", age |-> 0]]
<1>1. tick[r].pc = "start" /\ tick[r].task \in TaskIds
  BY DEF TickLaunch, At, TypeInv, Shaped, HasTask
<1>2. /\ started \in [TaskIds -> [st: {"none", "running", "finished", "gone"}, age: 0 .. JobDeadline]]
      /\ \A t \in TaskIds : t # tick[r].task => started[t] = jobs[t]
      /\ started[tick[r].task] = [st |-> "running", age |-> 0]
  BY <1>1, Numbers DEF TypeInv, TypeOK
<1>3. CASE jobs' = started /\ Goto(r, "name") /\ UNCHANGED <<faults, hurt>>
  <2> DEFINE k == [tick[r] EXCEPT !.pc = "name"]
  <2>1. k \in Tick /\ k.pc = "name" /\ k.task = tick[r].task
    BY DEF TypeInv, TypeOK, Tick
  <2>2. Shaped(k)
    BY <1>1, <2>1 DEF Shaped
  <2>3. tick' = [tick EXCEPT ![r] = k]
    BY <1>3 DEF Goto
  <2> HIDE DEF k, started
  <2>4. Steps(r) /\ tick'[r] = k
    BY <2>1, <2>2, <2>3, TickSet DEF Steps
  <2> QED BY <1>1, <1>2, <1>3, <2>1, <2>4 DEF TickLaunch, TypeInv, TypeOK
<1>4. CASE /\ Fault /\ hurt' = hurt \cup {tick[r].task} /\ jobs' \in {jobs, started}
           /\ Goto(r, "abandon")
  <2> HIDE DEF started
  <2>1. Steps(r) /\ tick'[r].pc = "abandon" /\ tick'[r].task = tick[r].task
    BY <1>1, <1>4, GotoDoes DEF Steps, HasTask
  <2>2. jobs \in [TaskIds -> [st: {"none", "running", "finished", "gone"}, age: 0 .. JobDeadline]]
        /\ hurt \subseteq TaskIds
    BY DEF TypeInv, TypeOK
  <2>3. UNCHANGED <<led, enabled, failures, binding, gh, lease, op>>
    BY DEF TickLaunch
  <2> QED BY <1>1, <1>2, <1>4, <2>1, <2>2, <2>3
<1> QED BY <1>3, <1>4 DEF TickLaunch

LEMMA TickAbandonDoes ==
  ASSUME TypeInv, NEW r \in Ticks, TickAbandon(r)
  PROVE  /\ tick[r].pc \in {"abandon", "drop", "retract"} /\ tick[r].task \in TaskIds
         /\ jobs' \in {jobs, StopJobs({tick[r].task})} /\ binding' \subseteq binding
         /\ (Fault \/ UNCHANGED faults)
         /\ Steps(r) /\ tick'[r].pc \in {"fail", "finish", "pick"}
         /\ tick'[r].task \in {tick[r].task, NoTask}
         /\ UNCHANGED <<led, enabled, failures, gh, lease, op, hurt>>
<1> DEFINE k(pc) == [tick[r] EXCEPT !.pc = pc, !.task = IF pc = "pick" THEN NoTask ELSE tick[r].task]
<1>1. tick[r].pc \in {"abandon", "drop", "retract"} /\ tick[r].task \in TaskIds
  BY DEF TickAbandon, At, TypeInv, Shaped, HasTask
<1>2. PICK pc \in {"fail", "finish", "pick"} :
        tick' = [tick EXCEPT ![r].pc = pc, ![r].task = IF pc = "pick" THEN NoTask ELSE tick[r].task]
  <2> DEFINE after == CASE At(r, "abandon") -> "fail" [] At(r, "drop") -> "finish" [] OTHER -> "pick"
  <2>1. tick' = [tick EXCEPT ![r].pc = after, ![r].task = IF after = "pick" THEN NoTask ELSE tick[r].task]
    BY DEF TickAbandon
  <2>2. after \in {"fail", "finish", "pick"}
    <3>1. ~(At(r, "abandon") /\ At(r, "drop"))
      BY DEF At
    <3> QED BY <3>1
  <2> HIDE DEF after
  <2> QED BY <2>1, <2>2
<1>3. tick' = [tick EXCEPT ![r] = k(pc)]
  BY <1>2 DEF TypeInv, TypeOK, Tick
<1>4. k(pc) \in Tick /\ k(pc).pc = pc /\ k(pc).task \in {tick[r].task, NoTask}
      /\ (pc # "pick" => k(pc).task = tick[r].task)
  BY <1>1 DEF TypeInv, TypeOK, Tick
<1>5. Shaped(k(pc))
  BY <1>1, <1>4 DEF Shaped, HasTask
<1> HIDE DEF k
<1>6. Steps(r) /\ tick'[r] = k(pc)
  BY <1>3, <1>4, <1>5, TickSet DEF Steps
<1>7. /\ jobs' \in {jobs, StopJobs({tick[r].task})} /\ binding' \subseteq binding
      /\ (Fault \/ UNCHANGED faults)
      /\ UNCHANGED <<led, enabled, failures, gh, lease, op, hurt>>
  BY DEF TickAbandon
<1> QED BY <1>1, <1>4, <1>6, <1>7

LEMMA TickFailDoes ==
  ASSUME TypeInv, NEW r \in Ticks, TickFail(r)
  PROVE  /\ tick[r].task \in TaskIds
         /\ LET new == FailTask(led, tick[r].task, "dispatching")
            IN  Wrote(new) \/ WriteFails(new, {})
         /\ Steps(r) /\ tick'[r].pc = "finish" /\ tick'[r].task = tick[r].task
         /\ UNCHANGED <<enabled, failures, outside, lease, op>>
<1> DEFINE k(c) == [tick[r] EXCEPT !.pc = "finish", !.failed = c]
<1>1. tick[r].task \in TaskIds
  BY DEF TickFail, At, TypeInv, Shaped, HasTask
<1>2. PICK c \in BOOLEAN : tick' = [tick EXCEPT ![r].pc = "finish", ![r].failed = c]
  BY DEF TickFail
<1>3. tick' = [tick EXCEPT ![r] = k(c)]
  BY <1>2 DEF TypeInv, TypeOK, Tick
<1>4. k(c) \in Tick /\ k(c).pc = "finish" /\ k(c).task = tick[r].task
  BY DEF TypeInv, TypeOK, Tick
<1>5. Shaped(k(c))
  BY <1>4 DEF Shaped, HasTask
<1> HIDE DEF k
<1>6. Steps(r) /\ tick'[r] = k(c)
  BY <1>3, <1>4, <1>5, TickSet DEF Steps
<1> QED BY <1>1, <1>4, <1>6 DEF TickFail

LEMMA TickNameDoes ==
  ASSUME TypeInv, NEW r \in Ticks, TickName(r)
  PROVE  /\ tick[r].pc = "name" /\ tick[r].task \in TaskIds
         /\ LET new == MarkRunning(led, tick[r].task)
            IN  Wrote(new) \/ WriteFails(new, {tick[r].task})
         /\ Steps(r) /\ tick'[r].pc \in {"pick", "retract", "drop"}
         /\ tick'[r].task \in {tick[r].task, NoTask}
         /\ UNCHANGED <<enabled, failures, outside, lease, op>>
<1> DEFINE k(pc) == [tick[r] EXCEPT !.pc = pc, !.fired = TRUE,
                                    !.task = IF pc = "pick" THEN NoTask ELSE tick[r].task]
<1>1. tick[r].pc = "name" /\ tick[r].task \in TaskIds
  BY DEF TickName, At, TypeInv, Shaped, HasTask
<1>2. PICK pc \in {"pick", "retract", "drop"} :
        tick' = [tick EXCEPT ![r].pc = pc, ![r].fired = TRUE,
                             ![r].task = IF pc = "pick" THEN NoTask ELSE tick[r].task]
  BY DEF TickName
<1>3. tick' = [tick EXCEPT ![r] = k(pc)]
  BY <1>2 DEF TypeInv, TypeOK, Tick
<1>4. k(pc) \in Tick /\ k(pc).pc = pc /\ k(pc).task \in {tick[r].task, NoTask}
      /\ (pc # "pick" => k(pc).task = tick[r].task)
  BY <1>1 DEF TypeInv, TypeOK, Tick
<1>5. Shaped(k(pc))
  BY <1>1, <1>4 DEF Shaped, HasTask
<1> HIDE DEF k
<1>6. Steps(r) /\ tick'[r] = k(pc)
  BY <1>3, <1>4, <1>5, TickSet DEF Steps
<1>7. /\ LET new == MarkRunning(led, tick[r].task)
         IN  Wrote(new) \/ WriteFails(new, {tick[r].task})
      /\ UNCHANGED <<enabled, failures, outside, lease, op>>
  BY DEF TickName
<1> QED BY <1>1, <1>4, <1>6, <1>7

LEMMA TickPickDoes ==
  ASSUME TypeInv, NEW r \in Ticks, TickPick(r)
  PROVE  /\ Steps(r) /\ tick'[r].pc = "add" /\ tick'[r].task = tick[r].task
         /\ UNCHANGED <<led, enabled, failures, outside, lease, op, faults, hurt>>
<1> DEFINE k(g) == [tick[r] EXCEPT !.pc = "add", !.group = g]
<1>1. PICK g \in led.candidates : tick' = [tick EXCEPT ![r].pc = "add", ![r].group = g]
  BY DEF TickPick
<1>2. g \in Groups
  BY <1>1, LedgerFields DEF TypeInv, TypeOK
<1>3. tick' = [tick EXCEPT ![r] = k(g)]
  BY <1>1 DEF TypeInv, TypeOK, Tick
<1>4. k(g) \in Tick /\ k(g).pc = "add" /\ k(g).task = tick[r].task /\ k(g).group = g
  BY <1>2 DEF TypeInv, TypeOK, Tick
<1>5. Shaped(k(g))
  BY <1>2, <1>4 DEF Shaped, HasTask
<1> HIDE DEF k
<1>6. Steps(r) /\ tick'[r] = k(g)
  BY <1>3, <1>4, <1>5, TickSet DEF Steps
<1> QED BY <1>4, <1>6 DEF TickPick

(* The step of one report. *)
StepsOp(r) ==
  /\ op' \in [Guards -> Op] /\ \A q \in Guards : ShapedOp(op'[q])
  /\ \A q \in Guards : q # r => op'[q] = op[q]

LEMMA OpStepDoes ==
  ASSUME TypeInv, NEW r \in Guards, OpStep(r)
  PROVE  /\ op[r].pc # "off" /\ op[r].task \in TaskIds
         /\ StepsOp(r)
         /\ \/ op'[r].pc = "off"
            \/ op'[r].task = op[r].task /\ op'[r].pc # "begin"
         /\ UNCHANGED <<enabled, failures, binding, jobs, lease, tick>>
<1>1. op[r].pc # "off" /\ op[r].task \in TaskIds
  BY DEF OpStep, OpBegin, OpFile, OpKey, OpCreate, OpProblem, OpRecord, OpRelease, OpAt,
         TypeInv, ShapedOp
<1>2. PICK pc \in {"off", "file", "key", "create", "record", "release"} : OpGoto(r, pc)
  BY DEF OpStep, OpBegin, OpFile, OpKey, OpCreate, OpProblem, OpRecord, OpRelease
<1>3. /\ StepsOp(r) /\ op'[r].pc = pc
      /\ pc # "off" => op'[r] = [pc |-> pc, task |-> op[r].task]
  BY <1>1, <1>2, OpGotoDoes DEF StepsOp
<1>4. UNCHANGED <<enabled, failures, binding, jobs, lease, tick>>
  BY DEF OpStep, OpBegin, OpFile, OpKey, OpCreate, OpProblem, OpRecord, OpRelease, outside
<1> QED BY <1>1, <1>3, <1>4

LEMMA OpTypeStep ==
  ASSUME TypeInv, NEW r \in Guards, OpStep(r)
  PROVE  TypeInv'
<1> DEFINE t == op[r].task
<1>1. t \in TaskIds /\ led \in Ledger /\ TypeOK
  BY OpStepDoes DEF TypeInv, TypeOK
<1>2. led' \in Ledger /\ faults' \in 0 .. MaxFaults /\ hurt' \subseteq TaskIds
  <2>1. CASE OpBegin(r)
    <3>1. BeginOpening(led, t, r) \in Ledger
      BY <1>1, BeginOpeningDoes DEF Only
    <3>2. Wrote(BeginOpening(led, t, r)) \/ WriteFails(BeginOpening(led, t, r), {t})
      BY <2>1 DEF OpBegin
    <3> QED BY <1>1, <3>1, <3>2, WrittenType
  <2>2. CASE OpFile(r)
    BY <1>1, <2>2, FaultType DEF OpFile, TypeOK
  <2>3. CASE OpKey(r)
    <3>1. SetTicket(led, t) \in Ledger
      BY <1>1, SetTicketStill DEF AllStill
    <3>2. Wrote(SetTicket(led, t)) \/ WriteFails(SetTicket(led, t), {t})
      BY <2>3 DEF OpKey
    <3> QED BY <1>1, <3>1, <3>2, WrittenType
  <2>4. CASE OpCreate(r)
    BY <1>1, <2>4, FaultType DEF OpCreate, TypeOK
  <2>5. CASE OpProblem(r)
    BY <2>5 DEF OpProblem, TypeInv, TypeOK
  <2>6. CASE OpRecord(r)
    <3>1. OpenPR(led, t) \in Ledger
      BY <1>1, OpenPRDoes DEF Only
    <3>2. Wrote(OpenPR(led, t)) \/ WriteFails(OpenPR(led, t), {t})
      BY <2>6 DEF OpRecord
    <3> QED BY <1>1, <3>1, <3>2, WrittenType
  <2>7. CASE OpRelease(r)
    <3>1. ClearOpening(led, t, r) \in Ledger
      BY <1>1, ClearOpeningDoes DEF Only
    <3>2. Wrote(ClearOpening(led, t, r)) \/ WriteFails(ClearOpening(led, t, r), {t})
      BY <2>7 DEF OpRelease
    <3> QED BY <1>1, <3>1, <3>2, WrittenType
  <2> QED BY <2>1, <2>2, <2>3, <2>4, <2>5, <2>6, <2>7 DEF OpStep
<1>3. gh' \in [TaskIds -> {"none", "open", "merged", "closed"}]
  BY <1>1 DEF OpStep, OpBegin, OpFile, OpKey, OpCreate, OpProblem, OpRecord, OpRelease,
         outside, TypeOK
<1>4. StepsOp(r) /\ UNCHANGED <<enabled, failures, binding, jobs, lease, tick>>
  BY OpStepDoes
<1> QED BY <1>1, <1>2, <1>3, <1>4, TypeByParts DEF TypeOK, StepsOp

LEMMA TickTypeStep ==
  ASSUME TypeInv, NEW r \in Ticks, TickStep(r)
  PROVE  TypeInv'
<1>0. led \in Ledger /\ TypeOK
  BY DEF TypeInv, TypeOK
<1>1. CASE TickReconcile(r)
  <2>1. Reconcile(led) \in Ledger
    BY <1>0, ReconcileCalm DEF Calm
  <2>2. /\ led' \in {led, Reconcile(led)} /\ (Fault \/ UNCHANGED faults)
        /\ Steps(r) /\ UNCHANGED <<enabled, failures, outside, lease, op, hurt>>
    BY <1>1, TickReconcileDoes
  <2>3. faults' \in 0 .. MaxFaults
    BY <1>0, <2>2, FaultType
  <2> QED BY <1>0, <2>1, <2>2, <2>3, TypeKept DEF Steps, outside, TypeOK, Kept
<1>2. CASE TickClean(r)
  <2>0. Checked(r) \in Ledger
    BY CheckedCalm
  <2>1. /\ led' \in {led, Checked(r)} \/ (\E done : led' = Unbind(Checked(r), done))
        /\ binding' \subseteq binding
        /\ jobs' = jobs \/ (\E stop : jobs' = StopJobs(stop))
        /\ Fault \/ UNCHANGED faults
        /\ Steps(r) /\ UNCHANGED <<enabled, failures, gh, lease, op, hurt>>
    BY <1>2, TickCleanDoes
  <2>2. led' \in Ledger
    BY <1>0, <2>0, <2>1, UnbindStill DEF AllStill
  <2>3. jobs' \in [TaskIds -> [st: {"none", "running", "finished", "gone"}, age: 0 .. JobDeadline]]
    BY <1>0, <2>1, StopJobsDoes DEF TypeOK
  <2>4. faults' \in 0 .. MaxFaults
    BY <1>0, <2>1, FaultType
  <2> QED BY <1>0, <2>1, <2>2, <2>3, <2>4, TypeByParts DEF Steps, TypeOK
<1>3. ASSUME NEW t \in TaskIds, TickSyncPR(r, t) PROVE TypeInv'
  <2>1. led' \in {MergePR(led, t), ClosePR(led, t)}
        /\ UNCHANGED <<tick, enabled, failures, outside, lease, op, faults, hurt>>
    BY <1>3 DEF TickSyncPR, Wrote
  <2>2. led' \in Ledger
    BY <1>0, <2>1, MergePRCalm, ClosePRCalm DEF Calm
  <2> QED BY <1>0, <2>1, <2>2, TypeKept DEF outside, Kept, TypeOK
<1>4. CASE TickScan(r)
  <2>1. PICK seen \in SUBSET Groups : led' = ExpireTasks(Scanned(led, seen))
    BY <1>4 DEF TickScan
  <2>2. led' \in Ledger
    BY <1>0, <2>1, ScannedStill, ExpireTasksCalm DEF AllStill, Calm
  <2>3. Steps(r)
    BY <1>4, GotoDoes, UnhealthyDoes DEF TickScan, Steps, HasTask
  <2>4. (Fault \/ UNCHANGED faults) /\ UNCHANGED <<enabled, failures, outside, lease, op, hurt>>
    BY <1>4 DEF TickScan
  <2>5. faults' \in 0 .. MaxFaults
    BY <1>0, <2>4, FaultType
  <2> QED BY <1>0, <2>2, <2>3, <2>4, <2>5, TypeKept DEF Steps, outside, Kept, TypeOK
<1>5. CASE TickPick(r)
  BY <1>0, <1>5, TickPickDoes, TypeKept DEF Steps, outside, Kept, TypeOK
<1>6. CASE TickPicked(r)
  <2>1. /\ Goto(r, "finish") /\ (Fault \/ UNCHANGED faults)
        /\ UNCHANGED <<led, enabled, failures, outside, lease, op, hurt>>
    BY <1>6 DEF TickPicked
  <2>2. Steps(r) /\ faults' \in 0 .. MaxFaults
    BY <1>0, <2>1, GotoDoes, FaultType DEF Steps, HasTask
  <2> QED BY <1>0, <2>1, <2>2, TypeKept DEF Steps, outside, Kept, TypeOK
<1>7. CASE TickAdd(r)
  <2>1. PICK t \in TaskIds, new \in Ledger :
          /\ Wrote(new) \/ WriteFails(new, {t})
          /\ Steps(r) /\ UNCHANGED <<enabled, failures, outside, lease, op>>
    BY <1>7, TickAddDoes
  <2>2. led' \in Ledger /\ faults' \in 0 .. MaxFaults /\ hurt' \subseteq TaskIds
    BY <1>0, <2>1, WrittenType
  <2> QED BY <2>1, <2>2, TypeKept DEF Steps, outside, Kept
<1>8. CASE TickBind(r)
  <2>1. faults' \in 0 .. MaxFaults
    BY <1>0, <1>8, TickBindDoes, FaultType
  <2> QED BY <1>0, <1>8, <2>1, TickBindDoes, TypeByParts DEF Steps, TypeOK
<1>9. CASE TickLaunch(r)
  <2>1. faults' \in 0 .. MaxFaults
    BY <1>0, <1>9, TickLaunchDoes, FaultType
  <2> QED BY <1>0, <1>9, <2>1, TickLaunchDoes, TypeByParts DEF Steps, TypeOK
<1>10. CASE TickAbandon(r)
  <2>1. /\ jobs' \in {jobs, StopJobs({tick[r].task})} /\ binding' \subseteq binding
        /\ (Fault \/ UNCHANGED faults) /\ Steps(r)
        /\ UNCHANGED <<led, enabled, failures, gh, lease, op, hurt>>
    BY <1>10, TickAbandonDoes
  <2>2. faults' \in 0 .. MaxFaults
    BY <1>0, <2>1, FaultType
  <2>3. jobs' \in [TaskIds -> [st: {"none", "running", "finished", "gone"}, age: 0 .. JobDeadline]]
    BY <1>0, <2>1, StopJobsDoes DEF TypeOK
  <2> QED BY <1>0, <2>1, <2>2, <2>3, TypeByParts DEF Steps, TypeOK
<1>11. CASE TickFail(r)
  <2> DEFINE new == FailTask(led, tick[r].task, "dispatching")
  <2>1. /\ tick[r].task \in TaskIds /\ (Wrote(new) \/ WriteFails(new, {}))
        /\ Steps(r) /\ UNCHANGED <<enabled, failures, outside, lease, op>>
    BY <1>11, TickFailDoes
  <2>2. new \in Ledger
    BY <1>0, <2>1, FailTaskCalm DEF Calm
  <2> HIDE DEF new
  <2>3. led' \in Ledger /\ faults' \in 0 .. MaxFaults /\ hurt' \subseteq TaskIds
    BY <1>0, <2>1, <2>2, WrittenType
  <2> QED BY <2>1, <2>3, TypeKept DEF Steps, outside, Kept
<1>12. CASE TickName(r)
  <2> DEFINE new == MarkRunning(led, tick[r].task)
  <2>1. /\ tick[r].task \in TaskIds /\ (Wrote(new) \/ WriteFails(new, {tick[r].task}))
        /\ Steps(r) /\ UNCHANGED <<enabled, failures, outside, lease, op>>
    BY <1>12, TickNameDoes
  <2>2. new \in Ledger
    BY <1>0, <2>1, MarkRunningDoes
  <2> HIDE DEF new
  <2>3. led' \in Ledger /\ faults' \in 0 .. MaxFaults /\ hurt' \subseteq TaskIds
    BY <1>0, <2>1, <2>2, WrittenType
  <2> QED BY <2>1, <2>3, TypeKept DEF Steps, outside, Kept
<1>13. CASE TickFinish(r)
  <2>1. /\ tick' = [tick EXCEPT ![r] = NoTick] /\ (Fault \/ UNCHANGED faults)
        /\ lease' \in {lease, NoOne} /\ UNCHANGED <<led, outside, op, hurt>>
    BY <1>13 DEF TickFinish
  <2>2. enabled' \in BOOLEAN /\ failures' \in Nat
    <3> DEFINE n == IF tick[r].failed THEN failures + 1 ELSE IF tick[r].fired THEN 0 ELSE failures
    <3>1. n \in Nat /\ enabled \in BOOLEAN
      BY <1>0 DEF TypeOK
    <3>2. failures' \in {failures, n} /\ (enabled' = enabled \/ enabled' \in BOOLEAN)
      BY <1>13 DEF TickFinish
    <3> HIDE DEF n
    <3> QED BY <1>0, <3>1, <3>2 DEF TypeOK
  <2>3. Steps(r) /\ faults' \in 0 .. MaxFaults
    BY <1>0, <2>1, NoTickDoes, TickSet, FaultType DEF Steps
  <2> QED BY <1>0, <2>1, <2>2, <2>3, TypeByParts DEF Steps, outside, TypeOK
<1> QED BY <1>1, <1>2, <1>3, <1>4, <1>5, <1>6, <1>7, <1>8, <1>9, <1>10, <1>11, <1>12, <1>13
        DEF TickStep

(* Every action keeps every variable in its type. *)
LEMMA TypeStep == TypeInv /\ [Next]_vars => TypeInv'
<1> SUFFICES ASSUME TypeInv, [Next]_vars PROVE TypeInv'
  OBVIOUS
<1>0. led \in Ledger /\ TypeOK
  BY DEF TypeInv, TypeOK
<1>1. ASSUME NEW r \in Ticks, TickStart(r) PROVE TypeInv'
  <2>1. faults' \in 0 .. MaxFaults
    BY <1>0, <1>1, TickStartDoes, FaultType
  <2> QED BY <1>0, <1>1, <2>1, TickStartDoes, TypeByParts DEF Steps, outside, TypeOK
<1>2. ASSUME NEW r \in Ticks, TickStep(r) PROVE TypeInv'
  BY <1>2, TickTypeStep
<1>3. ASSUME NEW r \in Ticks, TickDies(r) PROVE TypeInv'
  <2>1. /\ Fault /\ hurt' = hurt \cup ({tick[r].task} \ {NoTask})
        /\ tick' = [tick EXCEPT ![r] = NoTick] /\ lease' \in {0, lease}
        /\ UNCHANGED <<led, enabled, failures, outside, op>>
    BY <1>3 DEF TickDies
  <2>2. Steps(r) /\ faults' \in 0 .. MaxFaults
    BY <1>0, <2>1, NoTickDoes, TickSet, FaultType DEF Steps
  <2>3. hurt' \subseteq TaskIds
    BY <1>0, <2>1, TickFields DEF TypeOK
  <2> QED BY <1>0, <2>1, <2>2, <2>3, TypeByParts DEF Steps, outside, TypeOK
<1>4. ASSUME NEW r \in Guards, NEW t \in TaskIds, ReportFixed(r, t) PROVE TypeInv'
  <2> DEFINE k == [pc |-> "begin", task |-> t]
  <2>1. k \in Op /\ ShapedOp(k)
    BY DEF Op, ShapedOp
  <2>2. op' = [op EXCEPT ![r] = k]
        /\ UNCHANGED <<led, enabled, failures, outside, lease, tick, faults, hurt>>
    BY <1>4 DEF ReportFixed
  <2> HIDE DEF k
  <2>3. op' \in [Guards -> Op] /\ \A q \in Guards : ShapedOp(op'[q])
    BY <2>1, <2>2 DEF TypeInv, TypeOK
  <2> QED BY <1>0, <2>2, <2>3, TypeKept DEF outside, Kept, TypeOK
<1>5. ASSUME NEW r \in Guards, OpStep(r) PROVE TypeInv'
  BY <1>5, OpTypeStep
<1>6. ASSUME NEW r \in Guards, OpDies(r) PROVE TypeInv'
  <2>1. /\ op[r].pc # "off" /\ Fault /\ hurt' = hurt \cup {op[r].task} /\ OpGoto(r, "off")
        /\ UNCHANGED <<led, enabled, failures, outside, lease, tick>>
    BY <1>6 DEF OpDies, OpAt
  <2>2. op[r].task \in TaskIds
    BY <2>1 DEF TypeInv, ShapedOp
  <2>3. /\ op' \in [Guards -> Op] /\ \A q \in Guards : ShapedOp(op'[q])
        /\ faults' \in 0 .. MaxFaults
    BY <1>0, <2>1, OpGotoDoes, FaultType
  <2> QED BY <1>0, <2>1, <2>2, <2>3, TypeKept DEF outside, Kept, TypeOK
<1>7. ASSUME NEW t \in TaskIds, CheckIn(t) PROVE TypeInv'
  <2>1. MarkRunning(led, t) \in Ledger
    BY <1>0, MarkRunningDoes
  <2> QED BY <1>0, <1>7, <2>1, TypeKept DEF CheckIn, outside, Kept, TypeOK
<1>8. ASSUME NEW t \in TaskIds, ReportOther(t) PROVE TypeInv'
  <2>1. ReportNoFix(led, t) \in Ledger
    BY <1>0, ReportNoFixCalm DEF Calm
  <2> QED BY <1>0, <1>8, <2>1, TypeKept DEF ReportOther, outside, Kept, TypeOK
<1>9. ASSUME NEW t \in TaskIds, ReportEnd(t) PROVE TypeInv'
  <2>1. SessionEnded(led, t) \in Ledger
    BY <1>0, SessionEndedCalm DEF Calm
  <2>2. /\ led' = SessionEnded(led, t) /\ binding' \subseteq binding /\ (Fault \/ UNCHANGED faults)
        /\ UNCHANGED <<enabled, failures, jobs, gh, lease, tick, op, hurt>>
    BY <1>9 DEF ReportEnd
  <2>3. faults' \in 0 .. MaxFaults
    BY <1>0, <2>2, FaultType
  <2> QED BY <1>0, <2>1, <2>2, <2>3, TypeByParts DEF TypeOK
<1>10. ASSUME NEW t \in TaskIds, JobEnds(t) PROVE TypeInv'
  <2>1. jobs' \in [TaskIds -> [st: {"none", "running", "finished", "gone"}, age: 0 .. JobDeadline]]
    BY <1>0, <1>10 DEF JobEnds, TypeOK
  <2> QED BY <1>0, <1>10, <2>1, TypeByParts DEF JobEnds, TypeOK
<1>11. ASSUME NEW t \in TaskIds, Decide(t) PROVE TypeInv'
  <2>1. gh' \in [TaskIds -> {"none", "open", "merged", "closed"}]
    BY <1>0, <1>11 DEF Decide, TypeOK
  <2> QED BY <1>0, <1>11, <2>1, TypeByParts DEF Decide, TypeOK
<1>12. CASE Resume
  BY <1>0, <1>12, TypeByParts DEF Resume, outside, TypeOK
<1>13. CASE Pass
  <2>1. OlderBy1(led) \in Ledger
    BY <1>0, OlderDoes
  <2>2. jobs' \in [TaskIds -> [st: {"none", "running", "finished", "gone"}, age: 0 .. JobDeadline]]
    <3> DEFINE J == [st: {"none", "running", "finished", "gone"}, age: 0 .. JobDeadline]
               v(t) == IF Running(t) THEN [jobs[t] EXCEPT !.age = @ + 1] ELSE jobs[t]
    <3>1. ASSUME NEW t \in TaskIds PROVE v(t) \in J
      <4>1. jobs[t] \in J
        BY <1>0 DEF TypeOK
      <4>2. Running(t) => jobs[t].age + 1 \in 0 .. JobDeadline
        BY <1>13, <4>1, Numbers DEF Pass
      <4> QED BY <4>1, <4>2
    <3>2. jobs' = [t \in TaskIds |-> v(t)]
      BY <1>13 DEF Pass
    <3> HIDE DEF v, J
    <3>3. jobs' \in [TaskIds -> J]
      BY <3>1, <3>2
    <3> QED BY <3>3 DEF J
  <2>3. lease' \in {lease, NoOne}
    BY <1>13 DEF Pass
  <2> QED BY <1>0, <1>13, <2>1, <2>2, <2>3, TypeByParts DEF Pass, TypeOK
<1>14. CASE UNCHANGED vars
  BY <1>0, <1>14, TypeByParts DEF vars, outside, TypeOK
<1> QED BY <1>1, <1>2, <1>3, <1>4, <1>5, <1>6, <1>7, <1>8, <1>9, <1>10, <1>11, <1>12, <1>13,
           <1>14 DEF Next

(* A project that has seen no tick. *)
LEMMA TypeInit == Init => TypeInv
<1> SUFFICES ASSUME Init PROVE TypeInv
  OBVIOUS
<1>1. EmptyLedger \in Ledger
  BY AbsentType DEF EmptyLedger, Ledger, Track
<1> QED BY <1>1, NoTickDoes, Numbers, TicksAssumption DEF Init, TypeInv, TypeOK

(* However many ticks overlap, calls fail and replicas die, no variable leaves *)
(* its type; the attempts to open a pull request stay within maxOpenAttempts.  *)
THEOREM TypeCorrect == Spec => []TypeOK
<1>1. TypeInv => TypeOK
  BY DEF TypeInv
<1> QED BY <1>1, TypeInit, TypeStep, PTL DEF Spec

----------------------------------------------------------------------------
\* Limits and budgets: what mergeLedger's transitions keep of the ledger.

OnePerGroup(l) ==
  \A t, u \in TaskIds :
    l.tasks[t].status \in Open /\ l.tasks[u].status \in Open /\ l.tasks[t].group = l.tasks[u].group
      => t = u

TaskBounded(l, t) ==
  /\ l.tasks[t].status \notin {"none", "dropped"} => l.tasks[t].group \in Groups
  /\ l.tasks[t].opening # NoOne => l.tasks[t].status = "running"
  /\ l.tasks[t].status = "dispatching" => l.tracks[l.tasks[t].group].attempts < MaxAttempts

WithinLimits(l) ==
  /\ Cardinality(WithStatus(l, Open)) <= MaxOpenPRs
  /\ Cardinality(WithStatus(l, Active)) <= MaxActiveSessions

(* A dispatch that is not completed yet has an attempt left for it: nobody else *)
(* works on its group, so nobody else can use it up.                            *)
Bounded(l) ==
  /\ \A t \in TaskIds : TaskBounded(l, t)
  /\ OnePerGroup(l)
  /\ \A g \in Groups : l.tracks[g].attempts <= MaxAttempts
  /\ WithinLimits(l)

(* A write that opens no task and completes no dispatch. *)
Tame(l, m) ==
  /\ m \in Ledger /\ Counts(l, m)
  /\ \A t \in TaskIds :
       LET a == l.tasks[t]
           b == m.tasks[t]
       IN  /\ b.status \in Open => a.status \in Open
           /\ b.status \in Active => a.status \in Active
           /\ b.status = "dispatching" => a.status = "dispatching"
           /\ b.status \notin {"none", "dropped"} =>
                b.group = a.group /\ a.status \notin {"none", "dropped"}
           /\ b.opening # NoOne => b.status = "running"

LEMMA Counting ==
  ASSUME NEW l, NEW S
  PROVE  /\ IsFiniteSet(WithStatus(l, S)) /\ Cardinality(WithStatus(l, S)) \in Nat
<1>1. WithStatus(l, S) \in SUBSET TaskIds /\ IsFiniteSet(TaskIds)
  BY LedgerAssumption DEF WithStatus
<1> QED BY <1>1, FS_Subset, FS_CardinalityType

LEMMA FewerTasks ==
  ASSUME NEW l, NEW m, NEW S, WithStatus(m, S) \subseteq WithStatus(l, S)
  PROVE  Cardinality(WithStatus(m, S)) <= Cardinality(WithStatus(l, S))
<1>1. WithStatus(m, S) \in SUBSET WithStatus(l, S)
  OBVIOUS
<1> QED BY <1>1, Counting, FS_Subset

LEMMA TameKeeps ==
  ASSUME NEW l \in Ledger, NEW m, Bounded(l), Tame(l, m)
  PROVE  Bounded(m)
<1>0. /\ \A t \in TaskIds : TaskBounded(l, t)
      /\ \A g \in Groups : m.tracks[g].attempts = l.tracks[g].attempts
  BY DEF Bounded, Tame, Counts
<1>1. ASSUME NEW t \in TaskIds PROVE TaskBounded(m, t)
  <2>1. /\ m.tasks[t].status = "dispatching" => l.tasks[t].status = "dispatching"
        /\ m.tasks[t].status \notin {"none", "dropped"} =>
             m.tasks[t].group = l.tasks[t].group /\ l.tasks[t].status \notin {"none", "dropped"}
        /\ m.tasks[t].opening # NoOne => m.tasks[t].status = "running"
    BY DEF Tame
  <2> QED BY <1>0, <2>1 DEF TaskBounded
<1>2. OnePerGroup(m)
  <2> SUFFICES ASSUME NEW t \in TaskIds, NEW u \in TaskIds,
                      m.tasks[t].status \in Open, m.tasks[u].status \in Open,
                      m.tasks[t].group = m.tasks[u].group
               PROVE  t = u
    BY DEF OnePerGroup
  <2>1. /\ l.tasks[t].status \in Open /\ m.tasks[t].group = l.tasks[t].group
        /\ l.tasks[u].status \in Open /\ m.tasks[u].group = l.tasks[u].group
    BY DEF Tame, Open, Active
  <2> QED BY <2>1 DEF Bounded, OnePerGroup
<1>3. WithinLimits(m)
  <2>1. /\ WithStatus(m, Open) \subseteq WithStatus(l, Open)
        /\ WithStatus(m, Active) \subseteq WithStatus(l, Active)
    BY DEF Tame, WithStatus
  <2>2. WithinLimits(l)
    BY DEF Bounded
  <2> QED BY <2>1, <2>2, FewerTasks, Counting, LedgerAssumption DEF WithinLimits
<1> QED BY <1>0, <1>1, <1>2, <1>3 DEF Bounded

LEMMA CalmTame ==
  ASSUME NEW l \in Ledger, NEW m, NEW P, NEW J, Bounded(l), Calm(l, m, P, J)
  PROVE  Tame(l, m)
<1> SUFFICES ASSUME NEW t \in TaskIds
             PROVE  LET a == l.tasks[t]
                        b == m.tasks[t]
                    IN  /\ b.status \in Open => a.status \in Open
                        /\ b.status \in Active => a.status \in Active
                        /\ b.status = "dispatching" => a.status = "dispatching"
                        /\ b.status \notin {"none", "dropped"} =>
                             b.group = a.group /\ a.status \notin {"none", "dropped"}
                        /\ b.opening # NoOne => b.status = "running"
  BY DEF Calm, Tame
<1>1. Moved(l.tasks[t], m.tasks[t], t \in P, t \in J) /\ TaskBounded(l, t)
  BY DEF Calm, Bounded
<1>2. CASE Still(l.tasks[t], m.tasks[t])
  BY <1>1, <1>2 DEF Still, TaskBounded
<1>3. CASE Ends(l.tasks[t], m.tasks[t])
  BY <1>3 DEF Ends, Terminal, Open, Active
<1> QED BY <1>1, <1>2, <1>3 DEF Moved

(* A new task takes a free place and a group nobody works on. *)
LEMMA AddKeeps ==
  ASSUME NEW l \in Ledger, NEW m \in Ledger, NEW t \in TaskIds, NEW g \in Groups, Bounded(l),
         l.tasks[t].status = "none", HasCapacity(l), Eligible(l, g), Counts(l, m),
         \A u \in TaskIds : u # t => m.tasks[u] = l.tasks[u],
         m.tasks[t].status = "dispatching", m.tasks[t].group = g, m.tasks[t].opening = NoOne
  PROVE  Bounded(m)
<1>1. ASSUME NEW u \in TaskIds PROVE TaskBounded(m, u)
  <2>1. TaskBounded(l, u)
    BY DEF Bounded
  <2>2. CASE u = t
    BY <2>2 DEF TaskBounded, Eligible, Counts
  <2>3. CASE u # t
    <3>1. m.tasks[u] = l.tasks[u]
      BY <2>3
    <3> QED BY <2>1, <3>1 DEF TaskBounded, Counts
  <2> QED BY <2>2, <2>3
<1>2. OnePerGroup(m)
  <2>1. \A u \in TaskIds : l.tasks[u].status \in Open => l.tasks[u].group # g
    BY DEF Eligible, OpenTask, WithStatus
  <2>2. OnePerGroup(l)
    BY DEF Bounded
  <2> QED BY <2>1, <2>2 DEF OnePerGroup
<1>3. ASSUME NEW S, "dispatching" \in S, "none" \notin S
      PROVE  Cardinality(WithStatus(m, S)) = Cardinality(WithStatus(l, S)) + 1
  <2>1. WithStatus(m, S) = WithStatus(l, S) \cup {t} /\ t \notin WithStatus(l, S)
    BY <1>3 DEF WithStatus
  <2> QED BY <2>1, Counting, FS_AddElement
<1>4. WithinLimits(m)
  <2>1. /\ Cardinality(WithStatus(m, Open)) = Cardinality(WithStatus(l, Open)) + 1
        /\ Cardinality(WithStatus(m, Active)) = Cardinality(WithStatus(l, Active)) + 1
    BY <1>3 DEF Open, Active
  <2>2. /\ Cardinality(WithStatus(l, Open)) < MaxOpenPRs
        /\ Cardinality(WithStatus(l, Active)) < MaxActiveSessions
    BY DEF HasCapacity
  <2> QED BY <2>1, <2>2, Counting, LedgerAssumption DEF WithinLimits
<1> QED BY <1>1, <1>2, <1>4 DEF Bounded, Counts

(* A completed dispatch uses the attempt that was left for it. *)
LEMMA MarkKeeps ==
  ASSUME NEW l \in Ledger, NEW t \in TaskIds, Bounded(l)
  PROVE  Bounded(MarkRunning(l, t))
<1> DEFINE m == MarkRunning(l, t)
           g == l.tasks[t].group
<1>1. \/ m = l
      \/ /\ l.tasks[t].status = "dispatching"
         /\ \A u \in TaskIds : u # t => m.tasks[u] = l.tasks[u]
         /\ m.tasks[t].status = "running" /\ m.tasks[t].group = g
         /\ m.tasks[t].opening = l.tasks[t].opening
         /\ \A h \in Groups :
              m.tracks[h].attempts =
                IF h = g THEN l.tracks[h].attempts + 1 ELSE l.tracks[h].attempts
  BY MarkRunningDoes
<1> HIDE DEF m
<1>2. CASE m = l
  BY <1>2 DEF m
<1>3. CASE /\ l.tasks[t].status = "dispatching"
           /\ \A u \in TaskIds : u # t => m.tasks[u] = l.tasks[u]
           /\ m.tasks[t].status = "running" /\ m.tasks[t].group = g
           /\ m.tasks[t].opening = l.tasks[t].opening
           /\ \A h \in Groups :
                m.tracks[h].attempts =
                  IF h = g THEN l.tracks[h].attempts + 1 ELSE l.tracks[h].attempts
  <2>1. /\ g \in Groups /\ l.tracks[g].attempts < MaxAttempts
        /\ \A h \in Groups : l.tracks[h].attempts \in Nat /\ l.tracks[h].attempts <= MaxAttempts
        /\ MaxAttempts \in Nat
    BY <1>3, LedgerFields, Numbers DEF Bounded, TaskBounded
  <2>2. \A h \in Groups : m.tracks[h].attempts <= MaxAttempts
    BY <1>3, <2>1
  <2>3. ASSUME NEW u \in TaskIds PROVE TaskBounded(m, u)
    <3>1. CASE u = t
      BY <1>3, <2>1, <3>1 DEF TaskBounded
    <3>2. CASE u # t
      <4>1. m.tasks[u] = l.tasks[u] /\ TaskBounded(l, u)
        BY <1>3, <3>2 DEF Bounded
      <4>2. l.tasks[u].status = "dispatching" => l.tasks[u].group # g
        BY <1>3, <3>2 DEF Bounded, OnePerGroup, Open, Active
      <4>3. l.tasks[u].status = "dispatching" => l.tasks[u].group \in Groups
        BY <4>1 DEF TaskBounded
      <4>4. l.tasks[u].status = "dispatching" =>
              m.tracks[l.tasks[u].group].attempts = l.tracks[l.tasks[u].group].attempts
        BY <1>3, <4>2, <4>3
      <4> QED BY <4>1, <4>4 DEF TaskBounded
    <3> QED BY <3>1, <3>2
  <2>4. OnePerGroup(m)
    <3>1. \A u \in TaskIds : /\ m.tasks[u].status \in Open => l.tasks[u].status \in Open
                             /\ m.tasks[u].group = l.tasks[u].group
      BY <1>3 DEF Open, Active
    <3>2. OnePerGroup(l)
      BY DEF Bounded
    <3> QED BY <3>1, <3>2 DEF OnePerGroup
  <2>5. WithinLimits(m)
    <3>1. /\ WithStatus(m, Open) \subseteq WithStatus(l, Open)
          /\ WithStatus(m, Active) \subseteq WithStatus(l, Active)
      BY <1>3 DEF WithStatus, Open, Active
    <3>2. WithinLimits(l)
      BY DEF Bounded
    <3> QED BY <3>1, <3>2, FewerTasks, Counting, LedgerAssumption DEF WithinLimits
  <2> QED BY <2>2, <2>3, <2>4, <2>5 DEF Bounded, m
<1> QED BY <1>1, <1>2, <1>3

(* The remaining transitions open no task either. *)
LEMMA OnlyTame ==
  ASSUME NEW l \in Ledger, Bounded(l), NEW t \in TaskIds, NEW r \in Guards
  PROVE  /\ Tame(l, BeginOpening(l, t, r))
         /\ Tame(l, ClearOpening(l, t, r))
         /\ Tame(l, OpenPR(l, t))
         /\ Tame(l, OlderBy1(l))
<1>0. \A u \in TaskIds : TaskBounded(l, u)
  BY DEF Bounded
<1>1. Tame(l, BeginOpening(l, t, r))
  <2> DEFINE m == BeginOpening(l, t, r)
  <2>1. /\ Only(l, m, t)
        /\ \/ m = l
           \/ /\ l.tasks[t].status = "running"
              /\ m.tasks[t].status = "running" /\ m.tasks[t].group = l.tasks[t].group
    BY BeginOpeningDoes
  <2> HIDE DEF m
  <2>2. Tame(l, m)
    BY <1>0, <2>1 DEF Only, Tame, TaskBounded, Open, Active
  <2> QED BY <2>2 DEF m
<1>2. Tame(l, ClearOpening(l, t, r))
  <2> DEFINE m == ClearOpening(l, t, r)
  <2>1. /\ Only(l, m, t)
        /\ \/ m = l
           \/ /\ m.tasks[t].status = l.tasks[t].status /\ m.tasks[t].group = l.tasks[t].group
              /\ m.tasks[t].opening = NoOne
    BY ClearOpeningDoes
  <2> HIDE DEF m
  <2>2. Tame(l, m)
    BY <1>0, <2>1 DEF Only, Tame, TaskBounded, Open, Active
  <2> QED BY <2>2 DEF m
<1>3. Tame(l, OpenPR(l, t))
  <2> DEFINE m == OpenPR(l, t)
  <2>1. /\ Only(l, m, t)
        /\ \/ m = l
           \/ /\ l.tasks[t].status = "running" /\ m.tasks[t].status = "pr_open"
              /\ m.tasks[t].group = l.tasks[t].group /\ m.tasks[t].opening = NoOne
    BY OpenPRDoes
  <2> HIDE DEF m
  <2>2. Tame(l, m)
    BY <1>0, <2>1 DEF Only, Tame, TaskBounded, Open, Active
  <2> QED BY <2>2 DEF m
<1>4. Tame(l, OlderBy1(l))
  <2> DEFINE m == OlderBy1(l)
  <2>1. /\ m \in Ledger /\ Counts(l, m)
        /\ \A u \in TaskIds :
             /\ m.tasks[u].status = l.tasks[u].status /\ m.tasks[u].group = l.tasks[u].group
             /\ m.tasks[u].opening = NoOne
    BY OlderDoes
  <2> HIDE DEF m
  <2>2. Tame(l, m)
    BY <2>1 DEF Tame
  <2> QED BY <2>2 DEF m
<1> QED BY <1>1, <1>2, <1>3, <1>4

----------------------------------------------------------------------------
\* What a step may write to the ledger.

(* The pull requests that were decided, the Jobs a tick takes for over. *)
Decided == {t \in TaskIds : gh[t] \in {"merged", "closed"}}
Over == {t \in TaskIds : \E r \in Ticks :
           At(r, "jobs") /\ JobGone(led.tasks[t], t, tick[r].present, tick[r].finished)}

LEMMA CalmMore ==
  ASSUME NEW l, NEW m, NEW P, NEW J, NEW Q, NEW K, Calm(l, m, P, J), P \subseteq Q, J \subseteq K
  PROVE  Calm(l, m, Q, K)
<1>1. ASSUME NEW t \in TaskIds PROVE Moved(l.tasks[t], m.tasks[t], t \in Q, t \in K)
  <2>1. Moved(l.tasks[t], m.tasks[t], t \in P, t \in J)
    BY DEF Calm
  <2> QED BY <2>1 DEF Moved
<1> QED BY <1>1 DEF Calm

AddWrites == \E t \in TaskIds, g \in Groups : FreeId(t) /\ led' = AddTask(led, t, g)

MarkWrites ==
  \E t \in TaskIds :
    /\ Running(t) \/ \E r \in Ticks : tick[r].pc = "name" /\ tick[r].task = t
    /\ led' = MarkRunning(led, t)
    /\ UNCHANGED <<jobs, gh, op>>

OpWrites ==
  \E r \in Guards :
    /\ op[r].task \in TaskIds /\ UNCHANGED <<jobs, tick>>
    /\ \/ OpBegin(r) /\ led' = BeginOpening(led, op[r].task, r) /\ UNCHANGED gh
       \/ OpRecord(r) /\ led' = OpenPR(led, op[r].task) /\ UNCHANGED gh
       \/ OpRelease(r) /\ led' = ClearOpening(led, op[r].task, r) /\ UNCHANGED gh

LEMMA TickWrites ==
  ASSUME TypeInv, NEW r \in Ticks, TickStep(r)
  PROVE  Calm(led, led', Decided, Over) \/ AddWrites \/ MarkWrites
<1>0. led \in Ledger /\ Calm(led, led, Decided, Over)
  BY CalmRefl DEF TypeInv, TypeOK
<1>1. CASE TickReconcile(r)
  BY <1>0, <1>1, TickReconcileDoes, ReconcileCalm
<1>2. CASE TickClean(r)
  <2>1. Checked(r) \in Ledger /\ Calm(led, Checked(r), Decided, Over)
    <3> DEFINE J == IF At(r, "jobs")
                    THEN {t \in TaskIds : JobGone(led.tasks[t], t, tick[r].present, tick[r].finished)}
                    ELSE {}
    <3>1. Checked(r) \in Ledger /\ Calm(led, Checked(r), Decided, J)
      BY CheckedCalm
    <3>2. J \subseteq Over
      BY DEF Over
    <3> HIDE DEF J
    <3> QED BY <3>1, <3>2, CalmMore
  <2>2. led' \in {led, Checked(r)} \/ (\E done : led' = Unbind(Checked(r), done))
    BY <1>2, TickCleanDoes
  <2> QED BY <1>0, <2>1, <2>2, UnbindStill, CalmThenStill
<1>3. ASSUME NEW t \in TaskIds, TickSyncPR(r, t) PROVE Calm(led, led', Decided, Over)
  <2>1. led' \in {MergePR(led, t), ClosePR(led, t)} /\ {t} \subseteq Decided
    BY <1>3 DEF TickSyncPR, Wrote, Decided
  <2>2. Calm(led, led', {t}, {})
    BY <1>0, <2>1, MergePRCalm, ClosePRCalm
  <2> QED BY <2>1, <2>2, CalmMore
<1>4. CASE TickScan(r)
  <2>1. PICK seen \in SUBSET Groups : led' = ExpireTasks(Scanned(led, seen))
    BY <1>4 DEF TickScan
  <2>2. AllStill(led, Scanned(led, seen)) /\ Scanned(led, seen) \in Ledger
    BY <1>0, ScannedStill DEF AllStill
  <2>3. Calm(Scanned(led, seen), ExpireTasks(Scanned(led, seen)), Decided, Over)
    BY <2>2, ExpireTasksCalm
  <2> QED BY <2>1, <2>2, <2>3, StillThenCalm
<1>5. CASE TickPick(r) \/ TickPicked(r) \/ TickFinish(r)
  BY <1>0, <1>5 DEF TickPick, TickPicked, TickFinish
<1>6. CASE TickAdd(r)
  <2>1. PICK t \in TaskIds, new \in Ledger :
          /\ FreeId(t) /\ tick[r].group \in Groups /\ new = AddTask(led, t, tick[r].group)
          /\ Wrote(new) \/ WriteFails(new, {t})
    BY <1>6, TickAddDoes
  <2>2. led' = led \/ led' = AddTask(led, t, tick[r].group)
    BY <2>1 DEF Wrote, WriteFails
  <2> QED BY <1>0, <2>1, <2>2 DEF AddWrites
<1>7. CASE TickBind(r)
  BY <1>0, <1>7, TickBindDoes
<1>8. CASE TickLaunch(r)
  BY <1>0, <1>8, TickLaunchDoes
<1>9. CASE TickAbandon(r)
  BY <1>0, <1>9, TickAbandonDoes
<1>10. CASE TickFail(r)
  <2>1. tick[r].task \in TaskIds /\ led' \in {led, FailTask(led, tick[r].task, "dispatching")}
    BY <1>10, TickFailDoes DEF Wrote, WriteFails
  <2> QED BY <1>0, <2>1, FailTaskCalm
<1>11. CASE TickName(r)
  <2>1. /\ tick[r].pc = "name" /\ tick[r].task \in TaskIds
        /\ led' \in {led, MarkRunning(led, tick[r].task)} /\ UNCHANGED <<jobs, gh, op>>
    BY <1>11, TickNameDoes DEF Wrote, WriteFails, outside
  <2> QED BY <1>0, <2>1 DEF MarkWrites
<1> QED BY <1>1, <1>2, <1>3, <1>4, <1>5, <1>6, <1>7, <1>8, <1>9, <1>10, <1>11 DEF TickStep

LEMMA StepWrites ==
  ASSUME TypeInv, [Next]_vars
  PROVE  Calm(led, led', Decided, Over) \/ AddWrites \/ MarkWrites \/ OpWrites \/ Pass
<1>0. led \in Ledger /\ Calm(led, led, Decided, Over)
  BY CalmRefl DEF TypeInv, TypeOK
<1>1. ASSUME NEW r \in Ticks, TickStart(r) \/ TickDies(r) PROVE led' = led
  BY <1>1 DEF TickStart, TickDies
<1>2. ASSUME NEW r \in Guards, OpStep(r) PROVE Calm(led, led', Decided, Over) \/ OpWrites
  <2> DEFINE t == op[r].task
  <2>1. t \in TaskIds /\ UNCHANGED <<jobs, tick>>
    BY <1>2, OpStepDoes
  <2>2. CASE OpFile(r) \/ OpCreate(r) \/ OpProblem(r)
    BY <1>0, <2>2 DEF OpFile, OpCreate, OpProblem
  <2>3. CASE OpKey(r)
    <3>1. led' \in {led, SetTicket(led, t)}
      BY <2>3 DEF OpKey, Wrote, WriteFails
    <3> QED BY <1>0, <2>1, <3>1, SetTicketStill, StillIsCalm
  <2>4. CASE OpBegin(r)
    <3>1. led' \in {led, BeginOpening(led, t, r)} /\ UNCHANGED gh
      BY <2>4 DEF OpBegin, Wrote, WriteFails, outside
    <3> QED BY <1>0, <2>1, <2>4, <3>1 DEF OpWrites
  <2>5. CASE OpRecord(r)
    <3>1. led' \in {led, OpenPR(led, t)} /\ UNCHANGED gh
      BY <2>5 DEF OpRecord, Wrote, WriteFails, outside
    <3> QED BY <1>0, <2>1, <2>5, <3>1 DEF OpWrites
  <2>6. CASE OpRelease(r)
    <3>1. led' \in {led, ClearOpening(led, t, r)} /\ UNCHANGED gh
      BY <2>6 DEF OpRelease, Wrote, WriteFails, outside
    <3> QED BY <1>0, <2>1, <2>6, <3>1 DEF OpWrites
  <2> QED BY <1>2, <2>2, <2>3, <2>4, <2>5, <2>6 DEF OpStep
<1>3. ASSUME NEW r \in Guards, NEW t \in TaskIds, ReportFixed(r, t) PROVE led' = led
  BY <1>3 DEF ReportFixed
<1>4. ASSUME NEW r \in Guards, OpDies(r) PROVE led' = led
  BY <1>4 DEF OpDies
<1>5. ASSUME NEW t \in TaskIds, CheckIn(t) PROVE MarkWrites
  BY <1>5 DEF CheckIn, MarkWrites, outside
<1>6. ASSUME NEW t \in TaskIds, ReportOther(t) PROVE Calm(led, led', Decided, Over)
  BY <1>0, <1>6, ReportNoFixCalm DEF ReportOther
<1>7. ASSUME NEW t \in TaskIds, ReportEnd(t) PROVE Calm(led, led', Decided, Over)
  BY <1>0, <1>7, SessionEndedCalm DEF ReportEnd
<1>8. ASSUME NEW t \in TaskIds, JobEnds(t) \/ Decide(t) PROVE led' = led
  BY <1>8 DEF JobEnds, Decide
<1>9. CASE Resume \/ UNCHANGED vars
  BY <1>0, <1>9 DEF Resume, vars
<1> QED BY <1>0, <1>1, <1>2, <1>3, <1>4, <1>5, <1>6, <1>7, <1>8, <1>9, TickWrites DEF Next

----------------------------------------------------------------------------
\* The project's limits.

LEMMA BoundedStep == TypeInv /\ Bounded(led) /\ [Next]_vars => Bounded(led')
<1> SUFFICES ASSUME TypeInv, Bounded(led), [Next]_vars PROVE Bounded(led')
  OBVIOUS
<1>0. led \in Ledger
  BY DEF TypeInv, TypeOK
<1>1. CASE Calm(led, led', Decided, Over)
  BY <1>0, <1>1, CalmTame, TameKeeps
<1>2. CASE AddWrites
  <2>1. PICK t \in TaskIds, g \in Groups : led' = AddTask(led, t, g)
    BY <1>2 DEF AddWrites
  <2>2. /\ led' \in Ledger
        /\ \/ led' = led
           \/ /\ led.tasks[t].status = "none" /\ HasCapacity(led) /\ Eligible(led, g)
              /\ Counts(led, led')
              /\ \A u \in TaskIds : u # t => led'.tasks[u] = led.tasks[u]
              /\ led'.tasks[t].status = "dispatching" /\ led'.tasks[t].group = g
              /\ led'.tasks[t].opening = NoOne
    BY <1>0, <2>1, AddTaskDoes
  <2> QED BY <1>0, <2>2, AddKeeps
<1>3. CASE MarkWrites
  BY <1>0, <1>3, MarkKeeps DEF MarkWrites
<1>4. CASE OpWrites
  <2>1. PICK r \in Guards :
          /\ op[r].task \in TaskIds
          /\ led' \in {BeginOpening(led, op[r].task, r), OpenPR(led, op[r].task),
                       ClearOpening(led, op[r].task, r)}
    BY <1>4 DEF OpWrites
  <2>2. Tame(led, led')
    BY <1>0, <2>1, OnlyTame
  <2> QED BY <1>0, <2>2, TameKeeps
<1>5. CASE Pass
  <2>1. led' = OlderBy1(led)
    BY <1>5 DEF Pass
  <2>2. Tame(led, led')
    <3>1. /\ led' \in Ledger /\ Counts(led, led')
          /\ \A t \in TaskIds : /\ led'.tasks[t].status = led.tasks[t].status
                              /\ led'.tasks[t].group = led.tasks[t].group
                              /\ led'.tasks[t].opening = NoOne
      BY <1>0, <2>1, OlderDoes
    <3> QED BY <3>1 DEF Tame
  <2> QED BY <1>0, <2>2, TameKeeps
<1> QED BY <1>1, <1>2, <1>3, <1>4, <1>5, StepWrites

LEMMA BoundedInit == Init => Bounded(led)
<1> SUFFICES ASSUME Init PROVE Bounded(led)
  OBVIOUS
<1>1. /\ \A t \in TaskIds : led.tasks[t].status = "none" /\ led.tasks[t].opening = NoOne
      /\ \A g \in Groups : led.tracks[g].attempts = 0
  BY DEF Init, EmptyLedger, Absent
<1>2. WithStatus(led, Open) = {} /\ WithStatus(led, Active) = {}
  BY <1>1 DEF WithStatus, Open, Active
<1>3. WithinLimits(led)
  BY <1>2, FS_EmptySet, LedgerAssumption DEF WithinLimits
<1>4. OnePerGroup(led)
  BY <1>1 DEF OnePerGroup, Open, Active
<1> QED BY <1>1, <1>3, <1>4, LedgerAssumption DEF Bounded, TaskBounded

LimitsInv == TypeInv /\ Bounded(led)

LEMMA LimitsInvariant == Spec => []LimitsInv
<1>1. Init => LimitsInv
  BY TypeInit, BoundedInit DEF LimitsInv
<1>2. LimitsInv /\ [Next]_vars => LimitsInv'
  BY TypeStep, BoundedStep DEF LimitsInv, Bounded, TaskBounded, OnePerGroup, WithinLimits
<1> QED BY <1>1, <1>2, PTL DEF Spec

(* Ticks that overlap because the lease was out of reach, check-ins that race  *)
(* with them and writes that fail keep to MaxOpenPRs and MaxActiveSessions:    *)
(* addTask looks at both again in the write that opens the task.               *)
THEOREM Limits == Spec => []WorkWithinLimits
<1>1. LimitsInv => WorkWithinLimits
  BY DEF LimitsInv, Bounded, WithinLimits, WorkWithinLimits
<1> QED BY <1>1, LimitsInvariant, PTL

(* A group is worked on by one task at a time and gets no more sessions than   *)
(* MaxAttempts.  A task being dispatched keeps an attempt for itself: its      *)
(* group is nobody else's until it ends, so markRunning, which does not look   *)
(* at the budget, cannot exceed it.                                            *)
THEOREM Budgets == Spec => []GroupBudget
<1>1. ASSUME LimitsInv PROVE GroupBudget
  <2>1. \A g \in Groups : led.tracks[g].attempts <= MaxAttempts
    BY <1>1 DEF LimitsInv, Bounded
  <2>2. ASSUME NEW g \in Groups
        PROVE  Cardinality({t \in WithStatus(led, Open) : led.tasks[t].group = g}) <= 1
    <3> DEFINE S == {t \in WithStatus(led, Open) : led.tasks[t].group = g}
    <3>1. \A t, u \in S : t = u
      BY <1>1 DEF LimitsInv, Bounded, OnePerGroup, WithStatus
    <3>2. CASE S = {}
      BY <3>2, FS_EmptySet
    <3>3. ASSUME NEW t \in S PROVE Cardinality(S) <= 1
      <4>1. S = {t}
        BY <3>1, <3>3
      <4> HIDE DEF S
      <4>2. Cardinality(S) = 1
        BY <4>1, FS_Singleton
      <4> QED BY <4>2
    <3> QED BY <3>2, <3>3
  <2> QED BY <2>1, <2>2 DEF GroupBudget
<1> QED BY <1>1, LimitsInvariant, PTL

----------------------------------------------------------------------------
\* Sessions and their Jobs: how a step moves a task, a Job and a tick.

(* What a step other than Pass does to a task. *)
Goes(t) ==
  LET a == led.tasks[t]
      b == led'.tasks[t]
  IN  /\ b.status = "none" => a.status = "none"
      /\ b.status = "dispatching" => a.status \in {"none", "dispatching"}
      /\ b.status = "running" =>
           \/ a.status = "running" /\ b.age = a.age
           \/ /\ a.status = "dispatching" /\ b.age = 0 /\ UNCHANGED jobs
              /\ Running(t) \/ \E r \in Ticks : tick[r].pc = "name" /\ tick[r].task = t

LEMMA TasksGo ==
  ASSUME TypeInv, [Next]_vars, ~Pass, NEW t \in TaskIds
  PROVE  Goes(t)
<1>0. led \in Ledger
  BY DEF TypeInv, TypeOK
<1>1. ASSUME led'.tasks[t] = led.tasks[t] PROVE Goes(t)
  <2>1. led.tasks[t].status = "running" => led'.tasks[t].age = led.tasks[t].age
    BY <1>1
  <2> QED BY <1>1, <2>1 DEF Goes
<1>2. CASE Calm(led, led', Decided, Over)
  <2>1. Moved(led.tasks[t], led'.tasks[t], t \in Decided, t \in Over)
    BY <1>2 DEF Calm
  <2>2. CASE Still(led.tasks[t], led'.tasks[t])
    BY <2>2 DEF Still, Goes
  <2>3. CASE Ends(led.tasks[t], led'.tasks[t])
    BY <2>3 DEF Ends, Terminal, Goes
  <2> QED BY <2>1, <2>2, <2>3 DEF Moved
<1>3. CASE AddWrites
  <2>1. PICK u \in TaskIds, g \in Groups : led' = AddTask(led, u, g)
    BY <1>3 DEF AddWrites
  <2>2. \/ led' = led
        \/ /\ led.tasks[u].status = "none"
           /\ \A v \in TaskIds : v # u => led'.tasks[v] = led.tasks[v]
           /\ led'.tasks[u].status = "dispatching"
    BY <1>0, <2>1, AddTaskDoes
  <2>3. CASE u = t /\ led.tasks[t].status = "none" /\ led'.tasks[t].status = "dispatching"
    BY <2>3 DEF Goes
  <2> QED BY <1>1, <2>2, <2>3
<1>4. CASE MarkWrites
  <2>1. PICK u \in TaskIds :
          /\ Running(u) \/ \E r \in Ticks : tick[r].pc = "name" /\ tick[r].task = u
          /\ led' = MarkRunning(led, u)
          /\ UNCHANGED <<jobs, gh, op>>
    BY <1>4 DEF MarkWrites
  <2>2. \/ led' = led
        \/ /\ led.tasks[u].status = "dispatching"
           /\ \A v \in TaskIds : v # u => led'.tasks[v] = led.tasks[v]
           /\ led'.tasks[u].status = "running" /\ led'.tasks[u].age = 0
    BY <1>0, <2>1, MarkRunningDoes
  <2>3. CASE u = t /\ led.tasks[t].status = "dispatching"
             /\ led'.tasks[t].status = "running" /\ led'.tasks[t].age = 0
    BY <2>1, <2>3 DEF Goes
  <2> QED BY <1>1, <2>2, <2>3
<1>5. CASE OpWrites
  <2>1. PICK r \in Guards :
          /\ op[r].task \in TaskIds
          /\ led' \in {BeginOpening(led, op[r].task, r), OpenPR(led, op[r].task),
                       ClearOpening(led, op[r].task, r)}
    BY <1>5 DEF OpWrites
  <2>2. op[r].task # t => led'.tasks[t] = led.tasks[t]
    <3> DEFINE u == op[r].task
    <3> HIDE DEF u
    <3>1. u \in TaskIds => /\ Only(led, BeginOpening(led, u, r), u)
                          /\ Only(led, OpenPR(led, u), u)
                          /\ Only(led, ClearOpening(led, u, r), u)
      BY <1>0, BeginOpeningDoes, OpenPRDoes, ClearOpeningDoes
    <3>2. u \in TaskIds /\ Only(led, led', u)
      BY <2>1, <3>1 DEF u
    <3>3. u # t => led'.tasks[t] = led.tasks[t]
      BY <3>2 DEF Only
    <3> QED BY <3>3 DEF u
  <2>3. ASSUME op[r].task = t PROVE Goes(t)
    <3>1. CASE led' = BeginOpening(led, t, r)
      <4>1. \/ led' = led
            \/ /\ led.tasks[t].status = "running" /\ led'.tasks[t].status = "running"
               /\ led'.tasks[t].age = led.tasks[t].age
        BY <1>0, <3>1, BeginOpeningDoes
      <4>2. CASE /\ led.tasks[t].status = "running" /\ led'.tasks[t].status = "running"
                 /\ led'.tasks[t].age = led.tasks[t].age
        BY <4>2 DEF Goes
      <4> QED BY <1>1, <4>1, <4>2
    <3>2. CASE led' = OpenPR(led, t)
      <4>1. \/ led' = led
            \/ led'.tasks[t].status = "pr_open"
        BY <1>0, <3>2, OpenPRDoes
      <4>2. CASE led'.tasks[t].status = "pr_open"
        BY <4>2 DEF Goes
      <4> QED BY <1>1, <4>1, <4>2
    <3>3. CASE led' = ClearOpening(led, t, r)
      <4>1. \/ led' = led
            \/ /\ led'.tasks[t].status = led.tasks[t].status
               /\ led'.tasks[t].age = led.tasks[t].age
        BY <1>0, <3>3, ClearOpeningDoes
      <4>2. CASE /\ led'.tasks[t].status = led.tasks[t].status
                 /\ led'.tasks[t].age = led.tasks[t].age
        BY <4>2 DEF Goes
      <4> QED BY <1>1, <4>1, <4>2
    <3> QED BY <2>1, <2>3, <3>1, <3>2, <3>3
  <2> QED BY <1>1, <2>2, <2>3
<1> QED BY <1>2, <1>3, <1>4, <1>5, StepWrites

(* What it does to a Job: only a tick that has yet to start it makes it run. *)
JobGoes(t) ==
  \/ jobs'[t] = jobs[t]
  \/ jobs[t].st # "none" /\ jobs'[t].st \in {"finished", "gone"}
  \/ \E r \in Ticks : /\ tick[r].pc = "start" /\ tick[r].task = t
                      /\ tick'[r].pc # "start" /\ UNCHANGED led /\ jobs'[t].st = "running"

LEMMA JobsGo ==
  ASSUME TypeInv, [Next]_vars, ~Pass, NEW t \in TaskIds
  PROVE  JobGoes(t)
<1>0. TypeOK
  BY DEF TypeInv
<1>1. ASSUME NEW r \in Ticks, TickStart(r) \/ TickStep(r) \/ TickDies(r) PROVE JobGoes(t)
  <2>1. CASE TickClean(r)
    <3>1. jobs' = jobs \/ \E stop : jobs' = StopJobs(stop)
      BY <2>1, TickCleanDoes
    <3> QED BY <1>0, <3>1, StopJobsDoes DEF JobGoes
  <2>2. CASE TickAbandon(r)
    <3>1. jobs' \in {jobs, StopJobs({tick[r].task})}
      BY <2>2, TickAbandonDoes
    <3> QED BY <1>0, <3>1, StopJobsDoes DEF JobGoes
  <2>3. CASE TickLaunch(r)
    <3>1. /\ tick[r].pc = "start" /\ tick'[r].pc # "start"
          /\ t # tick[r].task => jobs'[t] = jobs[t]
          /\ UNCHANGED jobs \/ jobs'[tick[r].task].st = "running"
          /\ UNCHANGED led
      BY <2>3, TickLaunchDoes
    <3> QED BY <3>1 DEF JobGoes
  <2>4. CASE ~TickClean(r) /\ ~TickAbandon(r) /\ ~TickLaunch(r)
    <3>1. UNCHANGED jobs
      BY <1>1, <2>4 DEF TickStart, TickDies, TickStep, TickReconcile, TickSyncPR, TickScan,
         TickPick, TickPicked, TickAdd, TickBind, TickFail, TickName, TickFinish, outside
    <3> QED BY <3>1 DEF JobGoes
  <2> QED BY <2>1, <2>2, <2>3, <2>4
<1>2. ASSUME NEW r \in Guards, NEW u \in TaskIds, ReportFixed(r, u) PROVE jobs' = jobs
  BY <1>2 DEF ReportFixed, outside
<1>3. ASSUME NEW r \in Guards, OpStep(r) \/ OpDies(r) PROVE jobs' = jobs
  BY <1>3, OpStepDoes DEF OpDies, outside
<1>4. ASSUME NEW u \in TaskIds, CheckIn(u) \/ ReportOther(u) \/ ReportEnd(u) \/ Decide(u)
      PROVE  jobs' = jobs
  BY <1>4 DEF CheckIn, ReportOther, ReportEnd, Decide, outside
<1>5. ASSUME NEW u \in TaskIds, JobEnds(u) PROVE JobGoes(t)
  <2>1. jobs[u].st = "running" /\ jobs' = [jobs EXCEPT ![u].st = "finished"]
    BY <1>5 DEF JobEnds, Running
  <2>2. CASE u = t
    <3>1. jobs'[t].st = "finished"
      BY <1>0, <2>1, <2>2 DEF TypeOK
    <3> QED BY <2>1, <2>2, <3>1 DEF JobGoes
  <2>3. CASE u # t
    BY <1>0, <2>1, <2>3 DEF JobGoes, TypeOK
  <2> QED BY <2>2, <2>3
<1>6. CASE Resume \/ UNCHANGED vars
  BY <1>6 DEF Resume, vars, outside, JobGoes
<1>7. ASSUME jobs' = jobs PROVE JobGoes(t)
  BY <1>7 DEF JobGoes
<1> QED BY <1>1, <1>2, <1>3, <1>4, <1>5, <1>6, <1>7 DEF Next

(* What it does to a tick: it keeps its task or leaves it, except where it adds one. *)
TickGoes(r) ==
  LET k == tick[r]
      n == tick'[r]
  IN  \/ /\ n.task \in {k.task, NoTask} /\ n.pc \notin {"jobs", "bind"}
         /\ n.pc = "start" => k.pc = "bind" /\ UNCHANGED jobs
         /\ n.pc = "name" => jobs'[n.task].st = "running"
      \/ /\ n.task = k.task /\ n.pc = "jobs" /\ UNCHANGED jobs
         /\ n.present = {t \in TaskIds : jobs[t].st \in {"running", "finished"}}
         /\ n.finished = {t \in TaskIds : jobs[t].st = "finished"}
      \/ /\ n.task \in TaskIds /\ FreeId(n.task) /\ n.pc = "bind" /\ UNCHANGED jobs
         /\ led'.tasks[n.task].status # "none"

LEMMA TicksGo ==
  ASSUME TypeInv, [Next]_vars
  PROVE  UNCHANGED tick \/ \E r \in Ticks : (Steps(r) /\ TickGoes(r))
<1>0. TypeOK /\ led \in Ledger
  BY DEF TypeInv, TypeOK
<1>1. ASSUME NEW r \in Ticks, TickStart(r) \/ TickStep(r) \/ TickDies(r)
      PROVE  UNCHANGED tick \/ (Steps(r) /\ TickGoes(r))
  <2>1. CASE TickStart(r)
    BY <2>1, TickStartDoes DEF TickGoes
  <2>2. CASE TickDies(r) \/ TickFinish(r)
    <3>1. tick' = [tick EXCEPT ![r] = NoTick]
      BY <2>2 DEF TickDies, TickFinish
    <3>2. Steps(r) /\ tick'[r] = NoTick
      BY <3>1, NoTickDoes, TickSet DEF Steps
    <3> QED BY <3>2, NoTickDoes DEF TickGoes
  <2>3. CASE TickReconcile(r)
    <3>1. Steps(r) /\ tick'[r].task = tick[r].task /\ UNCHANGED jobs
      BY <2>3, TickReconcileDoes DEF outside
    <3>2. CASE tick'[r].pc = "jobs"
      <4>1. /\ tick'[r].present = {t \in TaskIds : jobs[t].st \in {"running", "finished"}}
            /\ tick'[r].finished = {t \in TaskIds : jobs[t].st = "finished"}
        BY <2>3, <3>2, TickReconcileDoes
      <4> QED BY <3>1, <3>2, <4>1 DEF TickGoes
    <3>3. CASE tick'[r].pc \in {"clean", "sync"}
      BY <3>1, <3>3 DEF TickGoes
    <3> QED BY <2>3, <3>2, <3>3, TickReconcileDoes
  <2>4. CASE TickClean(r)
    BY <2>4, TickCleanDoes DEF TickGoes
  <2>5. ASSUME NEW t \in TaskIds, TickSyncPR(r, t) PROVE UNCHANGED tick
    BY <2>5 DEF TickSyncPR
  <2>6. CASE TickScan(r)
    <3>1. Steps(r) /\ tick'[r].pc = "pick" /\ tick'[r].task = tick[r].task
      BY <2>6, GotoDoes, UnhealthyDoes DEF TickScan, Steps, HasTask
    <3> QED BY <3>1 DEF TickGoes
  <2>7. CASE TickPick(r)
    BY <2>7, TickPickDoes DEF TickGoes
  <2>8. CASE TickPicked(r)
    <3>1. Steps(r) /\ tick'[r].pc = "finish" /\ tick'[r].task = tick[r].task
      BY <2>8, GotoDoes DEF TickPicked, Steps, HasTask
    <3> QED BY <3>1 DEF TickGoes
  <2>9. CASE TickAdd(r)
    <3>1. PICK t \in TaskIds, new \in Ledger :
            /\ FreeId(t) /\ tick[r].group \in Groups /\ new = AddTask(led, t, tick[r].group)
            /\ Steps(r)
            /\ \/ tick'[r].pc = "finish" /\ tick'[r].task = NoTask
               \/ /\ tick'[r].pc = "bind" /\ tick'[r].task = t
                  /\ led' = new /\ new.tasks[t] # Absent
            /\ UNCHANGED jobs
      BY <2>9, TickAddDoes DEF outside
    <3>2. CASE tick'[r].pc = "finish" /\ tick'[r].task = NoTask
      BY <3>1, <3>2 DEF TickGoes
    <3>3. CASE tick'[r].pc = "bind" /\ tick'[r].task = t /\ led' = new /\ new.tasks[t] # Absent
      <4>1. led.tasks[t] = Absent
        BY <3>1 DEF FreeId
      <4>2. new.tasks[t].status = "dispatching"
        BY <1>0, <3>1, <3>3, <4>1, AddTaskDoes
      <4> QED BY <3>1, <3>3, <4>2 DEF TickGoes
    <3> QED BY <3>1, <3>2, <3>3
  <2>10. CASE TickBind(r)
    BY <2>10, TickBindDoes DEF TickGoes
  <2>11. CASE TickLaunch(r)
    <3>1. /\ Steps(r) /\ tick'[r].task = tick[r].task /\ tick'[r].pc \in {"name", "abandon"}
          /\ tick'[r].pc = "name" => jobs'[tick[r].task] = [st |-> "running", age |-> 0]
      BY <2>11, TickLaunchDoes
    <3> QED BY <3>1 DEF TickGoes
  <2>12. CASE TickAbandon(r)
    BY <2>12, TickAbandonDoes DEF TickGoes
  <2>13. CASE TickFail(r)
    BY <2>13, TickFailDoes DEF TickGoes
  <2>14. CASE TickName(r)
    BY <2>14, TickNameDoes DEF TickGoes
  <2>15. TickStep(r) => UNCHANGED tick \/ (Steps(r) /\ TickGoes(r))
    BY <2>2, <2>3, <2>4, <2>5, <2>6, <2>7, <2>8, <2>9, <2>10, <2>11, <2>12, <2>13, <2>14
       DEF TickStep
  <2> QED BY <1>1, <2>1, <2>2, <2>15
<1>2. ASSUME NEW r \in Guards, NEW u \in TaskIds, ReportFixed(r, u) PROVE tick' = tick
  BY <1>2 DEF ReportFixed
<1>3. ASSUME NEW r \in Guards, OpStep(r) \/ OpDies(r) PROVE tick' = tick
  BY <1>3, OpStepDoes DEF OpDies
<1>4. ASSUME NEW u \in TaskIds,
             CheckIn(u) \/ ReportOther(u) \/ ReportEnd(u) \/ Decide(u) \/ JobEnds(u)
      PROVE  tick' = tick
  BY <1>4 DEF CheckIn, ReportOther, ReportEnd, Decide, JobEnds
<1>5. CASE Resume \/ Pass \/ UNCHANGED vars
  BY <1>5 DEF Resume, Pass, vars
<1> QED BY <1>1, <1>2, <1>3, <1>4, <1>5 DEF Next

(* A running session has a Job, which has run for as long as the ledger thinks; *)
(* a task nobody has used yet has none.                                         *)
JobsInv ==
  \A t \in TaskIds :
    /\ led.tasks[t].status = "running" => jobs[t].st # "none"
    /\ led.tasks[t].status = "running" /\ Running(t) => led.tasks[t].age <= jobs[t].age
    /\ led.tasks[t].status = "none" => jobs[t].st = "none"

(* Nobody else has the task a tick has in hand, whose Job the tick has started *)
(* or not.                                                                     *)
HandsInv ==
  \A r \in Ticks :
    tick[r].task \in TaskIds =>
      /\ led.tasks[tick[r].task].status # "none"
      /\ tick[r].pc \in {"bind", "start"} => jobs[tick[r].task].st = "none"
      /\ tick[r].pc = "name" => jobs[tick[r].task].st # "none"
      /\ \A q \in Ticks : tick[q].task = tick[r].task => q = r

(* What a tick read of the Jobs is still true of the sessions it would fail:   *)
(* one that runs was listed, or became running since, which makes it new.      *)
ListInv ==
  \A r \in Ticks, t \in TaskIds :
    tick[r].pc = "jobs" =>
      /\ t \in tick[r].finished => jobs[t].st \in {"finished", "gone"}
      /\ t \notin tick[r].present /\ led.tasks[t].status = "running" /\ led.tasks[t].age >= 1
           => ~Running(t)

SessionInv == TypeInv /\ JobsInv /\ HandsInv /\ ListInv

(* A Job does not run before its task's tick has started it. *)
LEMMA NotStartedYet ==
  ASSUME SessionInv, NEW r \in Ticks, tick[r].pc = "start"
  PROVE  /\ tick[r].task \in TaskIds /\ jobs[tick[r].task].st = "none"
         /\ led.tasks[tick[r].task].status \notin {"none", "running"}
<1>1. tick[r].task \in TaskIds
  BY DEF SessionInv, TypeInv, Shaped, HasTask
<1> QED BY <1>1 DEF SessionInv, HandsInv, JobsInv

LEMMA NamedHasJob ==
  ASSUME SessionInv, NEW t \in TaskIds,
         Running(t) \/ \E r \in Ticks : tick[r].pc = "name" /\ tick[r].task = t
  PROVE  jobs[t].st # "none"
BY DEF SessionInv, HandsInv, Running

LEMMA JobsStep == SessionInv /\ [Next]_vars /\ ~Pass => JobsInv'
<1> SUFFICES ASSUME SessionInv, [Next]_vars, ~Pass, NEW t \in TaskIds
             PROVE  /\ led'.tasks[t].status = "running" => jobs'[t].st # "none"
                    /\ led'.tasks[t].status = "running" /\ jobs'[t].st = "running" =>
                         led'.tasks[t].age <= jobs'[t].age
                    /\ led'.tasks[t].status = "none" => jobs'[t].st = "none"
  BY DEF JobsInv, Running
<1>0. TypeInv /\ JobsInv
  BY DEF SessionInv
<1>1. Goes(t) /\ JobGoes(t)
  BY <1>0, TasksGo, JobsGo
<1>2. jobs'[t].age \in Nat
  BY <1>0, TypeStep, Numbers DEF TypeInv, TypeOK
<1>3. CASE \E r \in Ticks : tick[r].pc = "start" /\ tick[r].task = t /\ UNCHANGED led
  BY <1>3, NotStartedYet
<1>4. CASE jobs'[t] = jobs[t] \/ (jobs[t].st # "none" /\ jobs'[t].st \in {"finished", "gone"})
  <2>1. CASE led'.tasks[t].status = "running" /\ led.tasks[t].status = "running"
             /\ led'.tasks[t].age = led.tasks[t].age
    BY <1>0, <1>4, <2>1 DEF JobsInv, Running
  <2>2. CASE led'.tasks[t].status = "running" /\ led'.tasks[t].age = 0 /\ jobs[t].st # "none"
    BY <1>2, <1>4, <2>2
  <2>3. CASE led'.tasks[t].status = "none"
    <3>1. jobs[t].st = "none"
      BY <1>0, <1>1, <2>3 DEF Goes, JobsInv
    <3> QED BY <1>4, <2>3, <3>1
  <2> QED BY <1>1, <2>1, <2>2, <2>3, NamedHasJob DEF Goes
<1> QED BY <1>1, <1>3, <1>4 DEF JobGoes

LEMMA HandsStep == SessionInv /\ [Next]_vars /\ ~Pass => HandsInv'
<1> SUFFICES ASSUME SessionInv, [Next]_vars, ~Pass, NEW r \in Ticks, tick'[r].task \in TaskIds
             PROVE  /\ led'.tasks[tick'[r].task].status # "none"
                    /\ tick'[r].pc \in {"bind", "start"} => jobs'[tick'[r].task].st = "none"
                    /\ tick'[r].pc = "name" => jobs'[tick'[r].task].st # "none"
                    /\ \A q \in Ticks : tick'[q].task = tick'[r].task => q = r
  BY DEF HandsInv
<1> DEFINE t == tick'[r].task
<1>0. TypeInv /\ HandsInv /\ JobsInv
  BY DEF SessionInv
<1>1. NoTask \notin TaskIds /\ Goes(t) /\ JobGoes(t)
  BY <1>0, TasksGo, JobsGo, Numbers
<1>2. \A q \in Ticks : tick[q].task = t => led.tasks[t].status # "none"
  BY <1>0 DEF HandsInv
<1>3. PICK q \in Ticks : UNCHANGED tick \/ (Steps(q) /\ TickGoes(q))
  BY <1>0, TicksGo
<1>4. CASE tick'[r] = tick[r]
  <2>1. led'.tasks[t].status # "none"
    BY <1>1, <1>2, <1>4 DEF Goes
  <2>2. \A p \in Ticks : tick'[p].task = t => p = r
    <3>1. \A p \in Ticks : tick[p].task = t => p = r
      BY <1>0, <1>4 DEF HandsInv
    <3>2. \A p \in Ticks : p # q => tick'[p] = tick[p]
      BY <1>3 DEF Steps
    <3>3. ASSUME tick'[q].task = t PROVE q = r
      <4>1. ~FreeId(t)
        BY <1>4 DEF FreeId
      <4>2. UNCHANGED tick \/ tick'[q].task \in {tick[q].task, NoTask} \/ FreeId(tick'[q].task)
        BY <1>3 DEF TickGoes
      <4>3. tick[q].task = t
        BY <1>1, <3>3, <4>1, <4>2
      <4> QED BY <3>1, <4>3
    <3> QED BY <3>1, <3>2, <3>3
  <2>3. tick'[r].pc \in {"bind", "start"} => jobs'[t].st = "none"
    <3>1. tick[r].pc \in {"bind", "start"} => jobs[t].st = "none"
      BY <1>0, <1>4 DEF HandsInv
    <3>2. ASSUME jobs'[t].st # "none", jobs[t].st = "none"
          PROVE  \E p \in Ticks : /\ tick[p].pc = "start" /\ tick[p].task = t
                                 /\ tick'[p].pc # "start"
      BY <1>1, <3>2 DEF JobGoes
    <3>3. \A p \in Ticks : tick[p].task = t => p = r
      BY <1>0, <1>4 DEF HandsInv
    <3> QED BY <1>4, <3>1, <3>2, <3>3
  <2>4. tick'[r].pc = "name" => jobs'[t].st # "none"
    <3>1. tick[r].pc = "name" => jobs[t].st # "none"
      BY <1>0, <1>4 DEF HandsInv
    <3> QED BY <1>1, <1>4, <3>1 DEF JobGoes
  <2> QED BY <2>1, <2>2, <2>3, <2>4
<1>5. CASE q = r /\ Steps(r) /\ TickGoes(r)
  <2>0. \A p \in Ticks : p # r => tick'[p] = tick[p]
    BY <1>5 DEF Steps
  <2>1. CASE t = tick[r].task /\ tick'[r].pc # "bind"
    <3>1. led'.tasks[t].status # "none"
      BY <1>1, <1>2, <2>1 DEF Goes
    <3>2. \A p \in Ticks : tick'[p].task = t => p = r
      BY <1>0, <2>0, <2>1 DEF HandsInv
    <3>3. tick'[r].pc = "start" => jobs'[t].st = "none"
      BY <1>0, <1>5, <2>1 DEF TickGoes, HandsInv
    <3>4. tick'[r].pc = "name" => jobs'[t].st # "none"
      BY <1>5 DEF TickGoes
    <3> QED BY <2>1, <3>1, <3>2, <3>3, <3>4
  <2>2. CASE FreeId(t) /\ tick'[r].pc = "bind" /\ UNCHANGED jobs /\ led'.tasks[t].status # "none"
    <3>1. led.tasks[t].status = "none"
      BY <2>2 DEF FreeId, Absent
    <3>2. jobs'[t].st = "none"
      BY <1>0, <2>2, <3>1 DEF JobsInv
    <3>3. \A p \in Ticks : tick'[p].task = t => p = r
      BY <2>0, <2>2 DEF FreeId
    <3> QED BY <2>2, <3>2, <3>3
  <2> QED BY <1>1, <1>5, <2>1, <2>2 DEF TickGoes
<1> QED BY <1>3, <1>4, <1>5 DEF Steps

LEMMA ListStep == SessionInv /\ [Next]_vars /\ ~Pass => ListInv'
<1> SUFFICES ASSUME SessionInv, [Next]_vars, ~Pass, NEW r \in Ticks, NEW t \in TaskIds,
                    tick'[r].pc = "jobs"
             PROVE  /\ t \in tick'[r].finished => jobs'[t].st \in {"finished", "gone"}
                    /\ (t \notin tick'[r].present /\ led'.tasks[t].status = "running"
                         /\ led'.tasks[t].age >= 1) => jobs'[t].st # "running"
  BY DEF ListInv, Running
<1>0. TypeInv /\ ListInv
  BY DEF SessionInv
<1>1. Goes(t) /\ JobGoes(t)
  BY <1>0, TasksGo, JobsGo
<1>2. CASE tick'[r] = tick[r]
  <2>1. CASE \E q \in Ticks : tick[q].pc = "start" /\ tick[q].task = t /\ UNCHANGED led
    <3>1. jobs[t].st = "none" /\ led'.tasks[t].status # "running"
      BY <2>1, NotStartedYet
    <3>2. t \notin tick[r].finished
      BY <1>0, <1>2, <3>1 DEF ListInv
    <3> QED BY <1>2, <3>1, <3>2
  <2>2. CASE jobs'[t] = jobs[t] \/ (jobs[t].st # "none" /\ jobs'[t].st \in {"finished", "gone"})
    <3>1. t \in tick[r].finished => jobs[t].st \in {"finished", "gone"}
      BY <1>0, <1>2 DEF ListInv
    <3>2. (t \notin tick[r].present /\ led.tasks[t].status = "running"
           /\ led.tasks[t].age >= 1) => jobs[t].st # "running"
      BY <1>0, <1>2 DEF ListInv, Running
    <3>3. led'.tasks[t].status = "running" /\ led'.tasks[t].age >= 1 =>
            led.tasks[t].status = "running" /\ led.tasks[t].age >= 1
      BY <1>1 DEF Goes
    <3> QED BY <1>2, <2>2, <3>1, <3>2, <3>3
  <2> QED BY <1>1, <2>1, <2>2 DEF JobGoes
<1>3. CASE /\ UNCHANGED jobs
           /\ tick'[r].present = {u \in TaskIds : jobs[u].st \in {"running", "finished"}}
           /\ tick'[r].finished = {u \in TaskIds : jobs[u].st = "finished"}
  BY <1>3
<1>4. PICK q \in Ticks : UNCHANGED tick \/ (Steps(q) /\ TickGoes(q))
  BY <1>0, TicksGo
<1> QED BY <1>2, <1>3, <1>4 DEF Steps, TickGoes

(* Time passes while nobody works: the ages of a session and its Job keep step. *)
LEMMA SessionPass == SessionInv /\ Pass => JobsInv' /\ HandsInv' /\ ListInv'
<1> SUFFICES ASSUME SessionInv, Pass PROVE JobsInv' /\ HandsInv' /\ ListInv'
  OBVIOUS
<1>0. TypeInv /\ JobsInv /\ led \in Ledger
  BY DEF SessionInv, TypeInv, TypeOK
<1>1. tick' = [r \in Ticks |-> NoTick]
  BY DEF Pass
<1>2. HandsInv' /\ ListInv'
  BY <1>1, NoTickDoes, Numbers DEF HandsInv, ListInv
<1>3. ASSUME NEW t \in TaskIds
      PROVE  /\ led'.tasks[t].status = "running" => jobs'[t].st # "none"
             /\ led'.tasks[t].status = "running" /\ jobs'[t].st = "running" =>
                  led'.tasks[t].age <= jobs'[t].age
             /\ led'.tasks[t].status = "none" => jobs'[t].st = "none"
  <2>1. led' = OlderBy1(led)
    BY DEF Pass
  <2>2. /\ led'.tasks[t].status = led.tasks[t].status
        /\ led'.tasks[t].age <= led.tasks[t].age + 1
        /\ led' \in Ledger
    BY <1>0, <2>1, OlderDoes
  <2>3. jobs[t] \in [st: {"none", "running", "finished", "gone"}, age: 0 .. JobDeadline]
    BY <1>0 DEF TypeInv, TypeOK
  <2>4. /\ jobs'[t].st = jobs[t].st
        /\ Running(t) => jobs'[t].age = jobs[t].age + 1
    BY <2>3 DEF Pass
  <2>5. led.tasks[t].age \in Nat /\ led'.tasks[t].age \in Nat /\ jobs[t].age \in Nat
    BY <1>0, <2>2, <2>3, LedgerFields, TaskFields, Numbers
  <2>6. CASE Running(t) /\ led.tasks[t].status = "running"
    <3>1. led.tasks[t].age <= jobs[t].age
      BY <1>0, <2>6 DEF JobsInv
    <3>2. led'.tasks[t].age <= jobs'[t].age
      BY <2>2, <2>4, <2>5, <2>6, <3>1
    <3> QED BY <2>2, <2>4, <2>6, <3>2 DEF Running
  <2>7. CASE ~Running(t) \/ led.tasks[t].status # "running"
    BY <1>0, <2>2, <2>4, <2>7 DEF JobsInv, Running
  <2> QED BY <2>6, <2>7
<1> QED BY <1>2, <1>3 DEF JobsInv, Running

LEMMA SessionStep == SessionInv /\ [Next]_vars => SessionInv'
<1>1. SessionInv /\ [Next]_vars => TypeInv'
  BY TypeStep DEF SessionInv
<1>2. SessionInv /\ [Next]_vars => JobsInv' /\ HandsInv' /\ ListInv'
  BY JobsStep, HandsStep, ListStep, SessionPass
<1> QED BY <1>1, <1>2 DEF SessionInv

LEMMA SessionInit == Init => SessionInv
<1> SUFFICES ASSUME Init PROVE SessionInv
  OBVIOUS
<1>1. TypeInv
  BY TypeInit
<1>2. \A t \in TaskIds : led.tasks[t].status = "none" /\ jobs[t].st = "none"
  BY DEF Init, EmptyLedger, Absent
<1>3. \A r \in Ticks : tick[r].task \notin TaskIds /\ tick[r].pc = "off"
  BY NoTickDoes, Numbers DEF Init
<1> QED BY <1>1, <1>2, <1>3 DEF SessionInv, JobsInv, HandsInv, ListInv

(* What a tick takes for over, of the sessions that run, is over. *)
LEMMA OverIsOver ==
  ASSUME SessionInv, NEW t \in Over, led.tasks[t].status = "running"
  PROVE  ~Running(t)
<1>1. PICK r \in Ticks :
        At(r, "jobs") /\ JobGone(led.tasks[t], t, tick[r].present, tick[r].finished)
  BY DEF Over
<1>2. /\ t \in TaskIds /\ tick[r].pc = "jobs"
      /\ t \in tick[r].finished => jobs[t].st \in {"finished", "gone"}
      /\ (t \notin tick[r].present /\ led.tasks[t].age >= 1) => ~Running(t)
  BY <1>1 DEF SessionInv, ListInv, Over, At
<1>3. led.tasks[t].age \in Nat /\ JobGoneAfter \in Nat /\ JobGoneAfter >= 1
  BY <1>2, LedgerFields, TaskFields, LedgerAssumption DEF SessionInv, TypeInv, TypeOK
<1>4. CASE t \in tick[r].finished
  BY <1>2, <1>4 DEF Running
<1>5. CASE t \notin tick[r].present /\ led.tasks[t].age >= JobGoneAfter
  BY <1>2, <1>3, <1>5
<1> QED BY <1>1, <1>4, <1>5 DEF JobGone

(* A session that works is younger than RunningTimeout: its Job's deadline,   *)
(* jobDeadlineGrace after the session timeout, comes first.                   *)
LEMMA WorkingIsYoung ==
  ASSUME SessionInv, NEW t \in TaskIds, led.tasks[t].status = "running", Running(t)
  PROVE  led.tasks[t].age < RunningTimeout
<1>1. led.tasks[t].age <= jobs[t].age
  BY DEF SessionInv, JobsInv
<1>2. jobs[t].age \in Nat /\ jobs[t].age <= JobDeadline /\ led.tasks[t].age \in Nat
  BY LedgerFields, TaskFields, Numbers DEF SessionInv, TypeInv, TypeOK
<1> QED BY <1>1, <1>2, Numbers

(* Only a session that said it ended fails while its Job runs: a tick that     *)
(* listed the Jobs before this one was started finds it too young to be gone,  *)
(* and RunningTimeout is not over before the Job's deadline.                   *)
THEOREM SparesTheWorking == Spec => WorkingSessionNeverFails
<1> DEFINE Fails(t) == led.tasks[t].status = "running" /\ led'.tasks[t].status = "failed"
<1>1. ASSUME SessionInv, [Next]_vars, NEW t \in TaskIds, Fails(t), Running(t)
      PROVE  led'.tasks[t].exit
  <2>0. TypeInv /\ led \in Ledger
    BY <1>1 DEF SessionInv, TypeInv, TypeOK
  <2>1. CASE Calm(led, led', Decided, Over)
    <3>1. Moved(led.tasks[t], led'.tasks[t], t \in Decided, t \in Over)
      BY <1>1, <2>1 DEF Calm
    <3>2. led.tasks[t].age < RunningTimeout /\ t \notin Over
      BY <1>1, WorkingIsYoung, OverIsOver
    <3>3. led.tasks[t].age \in Nat
      BY <1>1, <2>0, LedgerFields, TaskFields
    <3> QED BY <1>1, <3>1, <3>2, <3>3, Numbers DEF Moved, Still
  <2>2. CASE Pass
    <3>1. led' = OlderBy1(led)
      BY <2>2 DEF Pass
    <3> QED BY <1>1, <2>0, <3>1, OlderDoes
  <2>3. CASE AddWrites
    <3>1. PICK u \in TaskIds, g \in Groups : led' = AddTask(led, u, g)
      BY <2>3 DEF AddWrites
    <3>2. \/ led' = led
          \/ /\ led'.tasks[u].status = "dispatching"
             /\ \A v \in TaskIds : v # u => led'.tasks[v] = led.tasks[v]
      BY <2>0, <3>1, AddTaskDoes
    <3> QED BY <1>1, <3>2
  <2>4. CASE MarkWrites
    <3>1. PICK u \in TaskIds : led' = MarkRunning(led, u)
      BY <2>4 DEF MarkWrites
    <3>2. \/ led' = led
          \/ /\ led'.tasks[u].status = "running"
             /\ \A v \in TaskIds : v # u => led'.tasks[v] = led.tasks[v]
      BY <2>0, <3>1, MarkRunningDoes
    <3> QED BY <1>1, <3>2
  <2>5. CASE OpWrites
    <3>1. PICK r \in Guards, u \in TaskIds :
            led' \in {BeginOpening(led, u, r), OpenPR(led, u), ClearOpening(led, u, r)}
      BY <2>5 DEF OpWrites
    <3>2. led' = led \/ Only(led, led', u)
      BY <2>0, <3>1, BeginOpeningDoes, OpenPRDoes, ClearOpeningDoes
    <3>3. led' = led \/ led'.tasks[u].status \in {"running", "pr_open", led.tasks[u].status}
      BY <2>0, <3>1, BeginOpeningDoes, OpenPRDoes, ClearOpeningDoes
    <3> QED BY <1>1, <3>2, <3>3 DEF Only
  <2> QED BY <1>1, <2>0, <2>1, <2>2, <2>3, <2>4, <2>5, StepWrites
<1>2. SessionInv /\ [Next]_vars =>
        [\A t \in TaskIds :
           led.tasks[t].status = "running" /\ led'.tasks[t].status = "failed"
             => ~Running(t) \/ led'.tasks[t].exit]_vars
  BY <1>1
<1> QED BY <1>2, SessionInit, SessionStep, PTL DEF Spec, WorkingSessionNeverFails

----------------------------------------------------------------------------
\* Openings of pull requests.

PastBegin == {"file", "key", "create", "record", "release"}

(* A report under way is about a session that was dispatched and, while it     *)
(* runs, is not too old; past the guard, the guard of a task that still runs   *)
(* is the report's own, and the task runs until the pull request is recorded.  *)
OpensAs(k, r, a) ==
  /\ a.status \notin {"none", "dispatching"}
  /\ a.status = "running" => a.age < RunningTimeout
  /\ k.pc \in PastBegin => (a.status = "running" => a.opening = r)
  /\ k.pc \in PastBegin \ {"release"} => a.status = "running"

OpeningInv ==
  \A r \in Guards : op[r].pc # "off" => OpensAs(op[r], r, led.tasks[op[r].task])

WorkInv == SessionInv /\ Bounded(led) /\ OpeningInv

(* What a report's own step does: it takes the guard, goes on, or gives up. *)
OpGoes(r) ==
  LET t == op[r].task
  IN  \/ op'[r].pc = "off"
      \/ /\ op'[r] = [pc |-> op'[r].pc, task |-> t]
         /\ \/ /\ op[r].pc = "begin" /\ op'[r].pc \in PastBegin \ {"release"}
               /\ led' = BeginOpening(led, t, r) /\ led'.tasks[t].opening = r
            \/ /\ op[r].pc \in PastBegin \ {"release"} /\ op'[r].pc \in PastBegin
               /\ \/ Still(led.tasks[t], led'.tasks[t])
                  \/ led'.tasks[t].status = "pr_open" /\ op'[r].pc = "release"

LEMMA OpStepGoes ==
  ASSUME TypeInv, NEW r \in Guards, OpStep(r)
  PROVE  StepsOp(r) /\ op'[r].pc # op[r].pc /\ OpGoes(r)
<1> DEFINE t == op[r].task
<1>1. op[r].pc # "off" /\ t \in TaskIds /\ StepsOp(r) /\ led \in Ledger
  BY OpStepDoes DEF TypeInv, TypeOK
<1>2. \A pc \in {"off", "begin", "file", "key", "create", "record", "release"} :
        OpGoto(r, pc) => /\ op'[r].pc = pc
                         /\ pc # "off" => op'[r] = [pc |-> pc, task |-> t]
  BY <1>1, OpGotoDoes
<1>3. Still(led.tasks[t], led.tasks[t])
  BY StillRefl
<1>4. CASE OpBegin(r)
  <2> DEFINE new == BeginOpening(led, t, r)
  <2>1. op[r].pc = "begin"
    BY <1>4 DEF OpBegin, OpAt
  <2>2. CASE OpGoto(r, "off")
    BY <1>1, <1>2, <2>1, <2>2 DEF OpGoes
  <2>3. CASE led' = new /\ new.tasks[t].opening = r /\ (OpGoto(r, "create") \/ OpGoto(r, "file"))
    <3> HIDE DEF new
    <3>1. \/ op'[r].pc = "create" /\ op'[r] = [pc |-> "create", task |-> t]
          \/ op'[r].pc = "file" /\ op'[r] = [pc |-> "file", task |-> t]
      BY <1>2, <2>3
    <3> QED BY <1>1, <2>1, <2>3, <3>1 DEF OpGoes, PastBegin, new
  <2> QED BY <1>4, <2>2, <2>3 DEF OpBegin, Wrote, WriteFails
<1>5. CASE OpFile(r)
  <2>1. op[r].pc = "file" /\ led' = led /\ (OpGoto(r, "key") \/ OpGoto(r, "release"))
    BY <1>5 DEF OpFile, OpAt
  <2>2. \/ op'[r].pc = "key" /\ op'[r] = [pc |-> "key", task |-> t]
        \/ op'[r].pc = "release" /\ op'[r] = [pc |-> "release", task |-> t]
    BY <1>2, <2>1
  <2> QED BY <1>1, <1>3, <2>1, <2>2 DEF OpGoes, PastBegin
<1>6. CASE OpKey(r)
  <2>1. /\ op[r].pc = "key" /\ led' \in {led, SetTicket(led, t)}
        /\ OpGoto(r, "create") \/ OpGoto(r, "release")
    BY <1>6 DEF OpKey, OpAt, Wrote, WriteFails
  <2>2. \/ op'[r].pc = "create" /\ op'[r] = [pc |-> "create", task |-> t]
        \/ op'[r].pc = "release" /\ op'[r] = [pc |-> "release", task |-> t]
    BY <1>2, <2>1
  <2>3. Still(led.tasks[t], led'.tasks[t])
    BY <1>1, <1>3, <2>1, SetTicketStill DEF AllStill
  <2> QED BY <1>1, <2>1, <2>2, <2>3 DEF OpGoes, PastBegin
<1>7. CASE OpCreate(r)
  <2>1. op[r].pc = "create" /\ led' = led /\ (OpGoto(r, "record") \/ OpGoto(r, "release"))
    BY <1>7 DEF OpCreate, OpAt
  <2>2. \/ op'[r].pc = "record" /\ op'[r] = [pc |-> "record", task |-> t]
        \/ op'[r].pc = "release" /\ op'[r] = [pc |-> "release", task |-> t]
    BY <1>2, <2>1
  <2> QED BY <1>1, <1>3, <2>1, <2>2 DEF OpGoes, PastBegin
<1>8. CASE OpProblem(r)
  <2>1. op[r].pc \in {"file", "create"} /\ led' = led /\ OpGoto(r, "release")
    BY <1>8 DEF OpProblem, OpAt
  <2>2. op'[r].pc = "release" /\ op'[r] = [pc |-> "release", task |-> t]
    BY <1>2, <2>1
  <2> QED BY <1>1, <1>3, <2>1, <2>2 DEF OpGoes, PastBegin
<1>9. CASE OpRecord(r)
  <2>1. /\ op[r].pc = "record" /\ led' \in {led, OpenPR(led, t)}
        /\ OpGoto(r, "off") \/ OpGoto(r, "release")
    BY <1>9 DEF OpRecord, OpAt, Wrote, WriteFails
  <2>2. led' = led \/ led'.tasks[t].status = "pr_open"
    BY <1>1, <2>1, OpenPRDoes
  <2>3. CASE OpGoto(r, "off")
    BY <1>1, <1>2, <2>1, <2>3 DEF OpGoes
  <2>4. CASE OpGoto(r, "release")
    <3>1. op'[r].pc = "release" /\ op'[r] = [pc |-> "release", task |-> t]
      BY <1>2, <2>4
    <3> QED BY <1>1, <1>3, <2>1, <2>2, <3>1 DEF OpGoes, PastBegin
  <2> QED BY <2>1, <2>3, <2>4
<1>10. CASE OpRelease(r)
  <2>1. op[r].pc = "release" /\ OpGoto(r, "off")
    BY <1>10 DEF OpRelease, OpAt
  <2> QED BY <1>1, <1>2, <2>1 DEF OpGoes
<1> QED BY <1>4, <1>5, <1>6, <1>7, <1>8, <1>9, <1>10 DEF OpStep

(* A report that has just been let in. *)
LEMMA ReportGoes ==
  ASSUME WorkInv, NEW r \in Guards, NEW t \in TaskIds, ReportFixed(r, t)
  PROVE  /\ op[r].pc = "off" /\ StepsOp(r) /\ op'[r] = [pc |-> "begin", task |-> t]
         /\ led' = led /\ OpensAs(op'[r], r, led.tasks[t])
<1>1. TypeInv /\ SessionInv /\ led \in Ledger
  BY DEF WorkInv, SessionInv, TypeInv, TypeOK
<1> DEFINE k == [pc |-> "begin", task |-> t]
<1>2. k \in Op /\ ShapedOp(k) /\ k.pc = "begin"
  BY DEF Op, ShapedOp
<1>3. op[r].pc = "off" /\ op' = [op EXCEPT ![r] = k] /\ led' = led
  BY DEF ReportFixed
<1> HIDE DEF k
<1>4. StepsOp(r) /\ op'[r] = k
  BY <1>1, <1>2, <1>3 DEF StepsOp, TypeInv, TypeOK
<1>5. led.tasks[t].status = "running" /\ Running(t)
  BY <1>1, BeginOpeningDoes DEF ReportFixed, Admitted
<1>6. led.tasks[t].age < RunningTimeout
  BY <1>1, <1>5, WorkingIsYoung
<1>7. OpensAs(k, r, led.tasks[t])
  BY <1>2, <1>5, <1>6 DEF OpensAs, PastBegin
<1> QED BY <1>3, <1>4, <1>7 DEF k

LEMMA OpsGo ==
  ASSUME TypeInv, [Next]_vars
  PROVE  \/ UNCHANGED op
         \/ \E r \in Guards :
              \/ \E t \in TaskIds : ReportFixed(r, t)
              \/ OpStep(r)
              \/ /\ OpDies(r) /\ StepsOp(r) /\ op'[r].pc = "off"
                 /\ op[r].pc # "off" /\ led' = led
<1>1. ASSUME NEW r \in Ticks, TickStart(r) \/ TickStep(r) \/ TickDies(r) PROVE UNCHANGED op
  BY <1>1 DEF TickStart, TickDies, TickStep, TickReconcile, TickClean, TickSyncPR, TickScan,
     TickPick, TickPicked, TickAdd, TickBind, TickLaunch, TickAbandon, TickFail, TickName,
     TickFinish
<1>2. ASSUME NEW r \in Guards, OpDies(r)
      PROVE  StepsOp(r) /\ op'[r].pc = "off" /\ op[r].pc # "off" /\ led' = led
  <2>1. op[r].pc # "off" /\ OpGoto(r, "off") /\ led' = led
    BY <1>2 DEF OpDies, OpAt
  <2> QED BY <2>1, OpGotoDoes DEF StepsOp
<1>3. ASSUME NEW t \in TaskIds,
             CheckIn(t) \/ ReportOther(t) \/ ReportEnd(t) \/ JobEnds(t) \/ Decide(t)
      PROVE  UNCHANGED op
  BY <1>3 DEF CheckIn, ReportOther, ReportEnd, JobEnds, Decide
<1>4. CASE Resume \/ Pass \/ UNCHANGED vars
  BY <1>4 DEF Resume, Pass, vars
<1> QED BY <1>1, <1>2, <1>3, <1>4 DEF Next

(* A report that takes no step keeps what it has: what ends a running task     *)
(* spares one whose pull request is being opened.                              *)
LEMMA OpeningStays ==
  ASSUME WorkInv, [Next]_vars, ~Pass, NEW r \in Guards, op[r].pc # "off", op'[r] = op[r]
  PROVE  OpensAs(op[r], r, led'.tasks[op[r].task])
<1> DEFINE t == op[r].task
           a == led.tasks[t]
           b == led'.tasks[t]
<1>0. /\ TypeInv /\ led \in Ledger /\ t \in TaskIds /\ OpensAs(op[r], r, a)
      /\ r # NoOne
  BY Numbers DEF WorkInv, SessionInv, TypeInv, TypeOK, ShapedOp, OpeningInv
<1>1. a.age \in Nat /\ RunningTimeout \in Nat
  BY <1>0, LedgerFields, TaskFields, Numbers
<1>2. CASE b = a
  BY <1>0, <1>2
<1>3. CASE Calm(led, led', Decided, Over)
  <2>1. Moved(a, b, t \in Decided, t \in Over)
    BY <1>0, <1>3 DEF Calm
  <2>2. CASE Still(a, b)
    BY <1>0, <2>2 DEF Still, OpensAs
  <2>3. CASE Ends(a, b)
    <3>1. b.status \notin {"none", "dispatching", "running"}
      BY <2>3 DEF Ends, Terminal
    <3>2. op[r].pc \notin PastBegin \ {"release"}
      <4>1. SUFFICES ASSUME op[r].pc \in PastBegin \ {"release"} PROVE FALSE
        OBVIOUS
      <4>2. a.status = "running" /\ a.opening = r /\ a.age < RunningTimeout
        BY <1>0, <4>1 DEF OpensAs
      <4> QED BY <1>0, <1>1, <2>3, <4>2 DEF Ends
    <3> QED BY <3>1, <3>2 DEF OpensAs
  <2> QED BY <2>1, <2>2, <2>3 DEF Moved
<1>4. CASE AddWrites
  <2>1. PICK u \in TaskIds, g \in Groups : led' = AddTask(led, u, g)
    BY <1>4 DEF AddWrites
  <2>2. \/ led' = led
        \/ /\ led.tasks[u].status = "none"
           /\ \A v \in TaskIds : v # u => led'.tasks[v] = led.tasks[v]
    BY <1>0, <2>1, AddTaskDoes
  <2>3. b = a
    BY <1>0, <2>2 DEF OpensAs
  <2> QED BY <1>2, <2>3
<1>5. CASE MarkWrites
  <2>1. PICK u \in TaskIds : led' = MarkRunning(led, u)
    BY <1>5 DEF MarkWrites
  <2>2. \/ led' = led
        \/ /\ led.tasks[u].status = "dispatching"
           /\ \A v \in TaskIds : v # u => led'.tasks[v] = led.tasks[v]
    BY <1>0, <2>1, MarkRunningDoes
  <2>3. b = a
    BY <1>0, <2>2 DEF OpensAs
  <2> QED BY <1>2, <2>3
<1>6. CASE OpWrites
  <2>1. PICK q \in Guards :
          /\ op[q].task \in TaskIds
          /\ \/ OpBegin(q) /\ led' = BeginOpening(led, op[q].task, q)
             \/ OpRecord(q) /\ led' = OpenPR(led, op[q].task)
             \/ OpRelease(q) /\ led' = ClearOpening(led, op[q].task, q)
    BY <1>6 DEF OpWrites
  <2>2. OpStep(q)
    BY <2>1 DEF OpStep
  <2>3. q # r
    BY <1>0, <2>2, OpStepGoes
  <2> DEFINE u == op[q].task
  <2>4. CASE u # t
    <3>1. Only(led, led', u)
      BY <1>0, <2>1, BeginOpeningDoes, OpenPRDoes, ClearOpeningDoes
    <3>2. b = a
      BY <1>0, <2>4, <3>1 DEF Only
    <3> QED BY <1>2, <3>2
  <2>5. CASE u = t /\ OpBegin(q)
    <3>1. led' = BeginOpening(led, t, q)
      BY <2>1, <2>5 DEF OpBegin, OpRecord, OpRelease, OpAt
    <3>2. \/ led' = led
          \/ /\ a.status = "running" /\ a.opening = NoOne
             /\ b.status = "running" /\ b.age = a.age
      BY <1>0, <3>1, BeginOpeningDoes
    <3>3. CASE /\ a.status = "running" /\ a.opening = NoOne
               /\ b.status = "running" /\ b.age = a.age
      BY <1>0, <3>3 DEF OpensAs
    <3> QED BY <1>2, <3>2, <3>3
  <2>6. CASE u = t /\ OpRecord(q)
    <3>1. led' = OpenPR(led, t) /\ op[q].pc = "record"
      BY <2>1, <2>6 DEF OpBegin, OpRecord, OpRelease, OpAt
    <3>2. a.status = "running" /\ a.opening = q
      BY <2>6, <3>1 DEF WorkInv, OpeningInv, OpensAs, PastBegin
    <3>3. b.status = "pr_open"
      BY <1>0, <3>1, <3>2, OpenPRDoes
    <3>4. op[r].pc \notin PastBegin
      BY <1>0, <2>3, <3>2 DEF OpensAs
    <3> QED BY <3>3, <3>4 DEF OpensAs
  <2>7. CASE u = t /\ OpRelease(q)
    <3>1. led' = ClearOpening(led, t, q)
      BY <2>1, <2>7 DEF OpBegin, OpRecord, OpRelease, OpAt
    <3>2. \/ led' = led
          \/ a.opening = q /\ b.status = a.status /\ b.age = a.age
      BY <1>0, <3>1, ClearOpeningDoes
    <3>3. CASE a.opening = q /\ b.status = a.status /\ b.age = a.age
      BY <1>0, <2>3, <3>3 DEF OpensAs
    <3> QED BY <1>2, <3>2, <3>3
  <2> QED BY <2>1, <2>4, <2>5, <2>6, <2>7
<1> QED BY <1>0, <1>3, <1>4, <1>5, <1>6, StepWrites

LEMMA OpeningStep == WorkInv /\ [Next]_vars => OpeningInv'
<1> SUFFICES ASSUME WorkInv, [Next]_vars, NEW r \in Guards, op'[r].pc # "off"
             PROVE  OpensAs(op'[r], r, led'.tasks[op'[r].task])
  BY DEF OpeningInv
<1>0. /\ TypeInv /\ led \in Ledger /\ r # NoOne
      /\ Bounded(led)
  BY Numbers DEF WorkInv, SessionInv, TypeInv, TypeOK
<1>1. ~Pass
  BY NoTickDoes DEF Pass
<1>2. CASE op'[r] = op[r]
  BY <1>1, <1>2, OpeningStays
<1>3. ASSUME NEW t \in TaskIds, ReportFixed(r, t)
      PROVE  OpensAs(op'[r], r, led'.tasks[op'[r].task])
  <2>1. op'[r] = [pc |-> "begin", task |-> t] /\ led' = led
    BY <1>3, ReportGoes
  <2>2. op'[r].task = t /\ OpensAs(op'[r], r, led.tasks[t])
    BY <1>3, <2>1, ReportGoes
  <2> QED BY <2>1, <2>2
<1>4. CASE OpStep(r)
  <2> DEFINE t == op[r].task
             a == led.tasks[t]
             b == led'.tasks[t]
  <2>1. t \in TaskIds /\ op[r].pc # "off" /\ OpGoes(r)
    BY <1>0, <1>4, OpStepDoes, OpStepGoes
  <2>2. OpensAs(op[r], r, a) /\ TaskBounded(led, t)
    BY <1>0, <2>1 DEF WorkInv, OpeningInv, Bounded
  <2>3. op'[r].task = t
    BY <2>1 DEF OpGoes
  <2>4. CASE /\ op[r].pc = "begin" /\ op'[r].pc \in PastBegin \ {"release"}
             /\ led' = BeginOpening(led, t, r) /\ b.opening = r
    <3>1. \/ b = a
          \/ /\ a.status = "running" /\ b.status = "running" /\ b.age = a.age
      BY <1>0, <2>1, <2>4, BeginOpeningDoes
    <3>2. a.status = "running" /\ b.status = "running" /\ b.age = a.age
      BY <1>0, <2>2, <2>4, <3>1 DEF TaskBounded
    <3> QED BY <2>2, <2>3, <2>4, <3>2 DEF OpensAs
  <2>5. CASE /\ op[r].pc \in PastBegin \ {"release"} /\ op'[r].pc \in PastBegin
             /\ Still(a, b)
    BY <2>2, <2>3, <2>5 DEF OpensAs, Still
  <2>6. CASE op'[r].pc = "release" /\ b.status = "pr_open"
    BY <2>3, <2>6 DEF OpensAs
  <2> QED BY <2>1, <2>4, <2>5, <2>6 DEF OpGoes
<1>5. PICK q \in Guards : \/ UNCHANGED op
                          \/ \E t \in TaskIds : ReportFixed(q, t)
                          \/ OpStep(q)
                          \/ StepsOp(q) /\ op'[q].pc = "off"
  <2>1. CASE UNCHANGED op
    BY <2>1
  <2> QED BY <1>0, <2>1, OpsGo
<1>6. q # r => op'[r] = op[r]
  BY <1>0, <1>5, ReportGoes, OpStepDoes DEF StepsOp
<1> QED BY <1>2, <1>3, <1>4, <1>5, <1>6

(* Two reports past the guard of one task: while it runs, its guard is of one  *)
(* of them only, and nobody passes a guard that is taken.                      *)
LEMMA OneOpeningStep ==
  WorkInv /\ OneOpeningAtATime /\ [Next]_vars /\ TypeInv' /\ Bounded(led)' /\ OpeningInv'
    => OneOpeningAtATime'
<1> SUFFICES ASSUME WorkInv, OneOpeningAtATime, [Next]_vars, TypeInv', Bounded(led)', OpeningInv'
             PROVE  OneOpeningAtATime'
  OBVIOUS
<1>b. Bounded(led')
  BY DEF Bounded, TaskBounded, OnePerGroup, WithinLimits
<1>c. \A r \in Guards : op'[r].pc \in {"off", "begin"} \cup PastBegin
  BY DEF TypeInv, TypeOK, Op, PastBegin
<1> SUFFICES ASSUME NEW r \in Guards, NEW u \in Guards, r # u, op'[r].task = op'[u].task,
                    op'[r].pc \in PastBegin, op'[u].pc \in PastBegin
             PROVE  FALSE
  BY <1>c DEF OneOpeningAtATime
<1>0. TypeInv /\ led \in Ledger /\ NoOne \notin Guards
  BY Numbers DEF WorkInv, SessionInv, TypeInv, TypeOK
<1>1. ~Pass
  BY NoTickDoes DEF Pass, PastBegin
(* Whoever is past the guard now was so before, or has taken the guard. *)
<1>2. ASSUME NEW q \in Guards, op'[q].pc \in PastBegin
      PROVE  \/ op[q].pc \in PastBegin /\ op[q].task = op'[q].task
             \/ /\ led'.tasks[op'[q].task].opening = q /\ op'[q].task \in TaskIds
                /\ \A p \in Guards : p # q => op'[p] = op[p]
  <2>1. CASE op'[q] = op[q]
    BY <1>2, <2>1
  <2>2. CASE OpStep(q)
    <3>1. /\ op[q].task \in TaskIds /\ OpGoes(q)
          /\ \A p \in Guards : p # q => op'[p] = op[p]
      BY <1>0, <2>2, OpStepGoes, OpStepDoes DEF StepsOp
    <3>2. op'[q].task = op[q].task /\ op'[q].pc # "off"
      BY <1>2, <3>1 DEF OpGoes, PastBegin
    <3>3. CASE op[q].pc = "begin" /\ led'.tasks[op[q].task].opening = q
      BY <3>1, <3>2, <3>3
    <3>4. CASE op[q].pc \in PastBegin
      BY <3>2, <3>4
    <3> QED BY <3>1, <3>2, <3>3, <3>4 DEF OpGoes
  <2>3. ASSUME NEW t \in TaskIds, ReportFixed(q, t) PROVE FALSE
    <3>1. op'[q] = [pc |-> "begin", task |-> t]
      BY <2>3, ReportGoes
    <3> QED BY <1>2, <3>1 DEF PastBegin
  <2>4. PICK p \in Guards : \/ UNCHANGED op
                            \/ \E t \in TaskIds : ReportFixed(p, t)
                            \/ OpStep(p)
                            \/ StepsOp(p) /\ op'[p].pc = "off"
    <3>1. CASE UNCHANGED op
      BY <3>1
    <3> QED BY <1>0, <3>1, OpsGo
  <2>5. p # q => op'[q] = op[q]
    BY <1>0, <2>4, ReportGoes, OpStepDoes DEF StepsOp
  <2>6. ~(StepsOp(q) /\ op'[q].pc = "off")
    BY <1>2 DEF PastBegin
  <2> QED BY <2>1, <2>2, <2>3, <2>4, <2>5, <2>6
(* The guard is in the ledger of a task that runs, so the other's is gone. *)
<1>3. ASSUME NEW p \in Guards, NEW q \in Guards, p # q, op'[p].task = op'[q].task,
             op'[p].pc \in PastBegin, op'[q].pc \in PastBegin, op'[q].task \in TaskIds,
             led'.tasks[op'[q].task].opening = q
      PROVE  FALSE
  <2>1. led'.tasks[op'[q].task].status = "running"
    BY <1>0, <1>b, <1>3 DEF Bounded, TaskBounded
  <2>2. OpensAs(op'[p], p, led'.tasks[op'[p].task])
    BY <1>3 DEF OpeningInv, PastBegin
  <2> QED BY <1>3, <2>1, <2>2 DEF OpensAs
<1>4. CASE op[r].pc \in PastBegin /\ op[r].task = op'[r].task
           /\ op[u].pc \in PastBegin /\ op[u].task = op'[u].task
  BY <1>4 DEF OneOpeningAtATime, PastBegin
<1> QED BY <1>2, <1>3, <1>4

(* A task that a failure has met keeps that, and only openPullRequest opens    *)
(* the pull request of one.                                                    *)
LEMMA HurtGrows == TypeInv /\ [Next]_vars => hurt \subseteq hurt'
<1> SUFFICES ASSUME TypeInv, [Next]_vars PROVE hurt \subseteq hurt'
  OBVIOUS
<1>1. ASSUME NEW new, NEW T, Wrote(new) \/ WriteFails(new, T) PROVE hurt \subseteq hurt'
  BY <1>1 DEF Wrote, WriteFails
<1>2. ASSUME NEW r \in Ticks, TickStep(r) PROVE hurt \subseteq hurt'
  <2>1. CASE TickReconcile(r) \/ TickClean(r)
    BY <2>1, TickReconcileDoes, TickCleanDoes
  <2>2. CASE TickAdd(r)
    <3>1. PICK t \in TaskIds, new \in Ledger : Wrote(new) \/ WriteFails(new, {t})
      BY <2>2, TickAddDoes
    <3> QED BY <1>1, <3>1
  <2>3. CASE TickBind(r) \/ TickLaunch(r) \/ TickAbandon(r)
    BY <2>3, TickBindDoes, TickLaunchDoes, TickAbandonDoes
  <2>4. CASE TickFail(r)
    BY <1>1, <2>4, TickFailDoes
  <2>5. CASE TickName(r)
    BY <1>1, <2>5, TickNameDoes
  <2>6. CASE \E t \in TaskIds : TickSyncPR(r, t)
    BY <2>6 DEF TickSyncPR, Wrote
  <2>7. CASE TickScan(r) \/ TickPick(r) \/ TickPicked(r) \/ TickFinish(r)
    BY <2>7 DEF TickScan, TickPick, TickPicked, TickFinish
  <2> QED BY <1>2, <2>1, <2>2, <2>3, <2>4, <2>5, <2>6, <2>7 DEF TickStep
<1>3. ASSUME NEW r \in Ticks, TickStart(r) \/ TickDies(r) PROVE hurt \subseteq hurt'
  BY <1>3 DEF TickStart, TickDies
<1>4. ASSUME NEW r \in Guards, OpStep(r) PROVE hurt \subseteq hurt'
  <2>1. CASE OpBegin(r) \/ OpKey(r) \/ OpRecord(r) \/ OpRelease(r)
    BY <2>1 DEF OpBegin, OpKey, OpRecord, OpRelease, Wrote, WriteFails
  <2>2. CASE OpFile(r) \/ OpCreate(r) \/ OpProblem(r)
    BY <2>2 DEF OpFile, OpCreate, OpProblem
  <2> QED BY <1>4, <2>1, <2>2 DEF OpStep
<1>5. ASSUME NEW r \in Guards, NEW t \in TaskIds, ReportFixed(r, t) PROVE hurt \subseteq hurt'
  BY <1>5 DEF ReportFixed
<1>6. ASSUME NEW r \in Guards, OpDies(r) PROVE hurt \subseteq hurt'
  BY <1>6 DEF OpDies
<1>7. ASSUME NEW t \in TaskIds,
             CheckIn(t) \/ ReportOther(t) \/ ReportEnd(t) \/ JobEnds(t) \/ Decide(t)
      PROVE  hurt \subseteq hurt'
  BY <1>7 DEF CheckIn, ReportOther, ReportEnd, JobEnds, Decide
<1>8. CASE Resume \/ Pass \/ UNCHANGED vars
  BY <1>8 DEF Resume, Pass, vars
<1> QED BY <1>2, <1>3, <1>4, <1>5, <1>6, <1>7, <1>8 DEF Next

LEMMA OpenedBefore ==
  ASSUME TypeInv, [Next]_vars, NEW t \in TaskIds, gh'[t] = "open",
         ~(\E r \in Guards : OpCreate(r) /\ op[r].task = t)
  PROVE  gh[t] = "open"
<1>0. gh \in [TaskIds -> {"none", "open", "merged", "closed"}]
  BY DEF TypeInv, TypeOK
<1>1. ASSUME NEW r \in Ticks, TickStart(r) \/ TickStep(r) \/ TickDies(r) PROVE gh' = gh
  <2>1. CASE TickClean(r) \/ TickBind(r) \/ TickLaunch(r) \/ TickAbandon(r)
    BY <2>1, TickCleanDoes, TickBindDoes, TickLaunchDoes, TickAbandonDoes
  <2>2. CASE TickStart(r) \/ TickDies(r)
    BY <2>2 DEF TickStart, TickDies, outside
  <2>3. CASE /\ TickStep(r)
             /\ ~(TickClean(r) \/ TickBind(r) \/ TickLaunch(r) \/ TickAbandon(r))
    BY <2>3 DEF TickStep, TickReconcile, TickSyncPR, TickScan, TickPick, TickPicked, TickAdd,
       TickFail, TickName, TickFinish, outside
  <2> QED BY <1>1, <2>1, <2>2, <2>3
<1>2. ASSUME NEW r \in Guards, OpStep(r) PROVE gh[t] = "open"
  <2>1. CASE OpCreate(r)
    <3>1. gh' \in {gh, [gh EXCEPT ![op[r].task] = "open"]} /\ op[r].task # t
      BY <2>1 DEF OpCreate
    <3> QED BY <1>0, <3>1
  <2>2. CASE ~OpCreate(r)
    <3>1. gh' = gh
      BY <1>2, <2>2 DEF OpStep, OpBegin, OpFile, OpKey, OpProblem, OpRecord, OpRelease, outside
    <3> QED BY <3>1
  <2> QED BY <2>1, <2>2
<1>3. ASSUME NEW r \in Guards, NEW u \in TaskIds, ReportFixed(r, u) PROVE gh' = gh
  BY <1>3 DEF ReportFixed, outside
<1>4. ASSUME NEW r \in Guards, OpDies(r) PROVE gh' = gh
  BY <1>4 DEF OpDies, outside
<1>5. ASSUME NEW u \in TaskIds, CheckIn(u) \/ ReportOther(u) \/ ReportEnd(u) \/ JobEnds(u)
      PROVE  gh' = gh
  BY <1>5 DEF CheckIn, ReportOther, ReportEnd, JobEnds, outside
<1>6. ASSUME NEW u \in TaskIds, Decide(u) PROVE gh[t] = "open"
  BY <1>0, <1>6 DEF Decide
<1>7. CASE Resume \/ Pass \/ UNCHANGED vars
  BY <1>7 DEF Resume, Pass, vars, outside
<1> QED BY <1>1, <1>2, <1>3, <1>4, <1>5, <1>6, <1>7 DEF Next

(* A pull request that is open was decided by nobody, and is recorded before   *)
(* the task it belongs to can end.                                             *)
LEMMA TrackedStep == WorkInv /\ OpenedPRIsTracked /\ [Next]_vars => OpenedPRIsTracked'
<1> SUFFICES ASSUME WorkInv, OpenedPRIsTracked, [Next]_vars, NEW t \in TaskIds, t \notin hurt',
                    gh'[t] = "open"
             PROVE  \/ led'.tasks[t].status = "pr_open"
                    \/ \E r \in Guards : op'[r] = [pc |-> "record", task |-> t]
  BY DEF OpenedPRIsTracked
<1>0. TypeInv /\ led \in Ledger /\ gh \in [TaskIds -> {"none", "open", "merged", "closed"}]
  BY DEF WorkInv, SessionInv, TypeInv, TypeOK
<1>1. CASE \E r \in Guards : OpCreate(r) /\ op[r].task = t
  <2>1. PICK r \in Guards : OpCreate(r) /\ op[r].task = t
    BY <1>1
  <2>2. OpGoto(r, "record") /\ op[r].pc # "off"
    BY <2>1 DEF OpCreate, OpAt
  <2> QED BY <1>0, <2>1, <2>2, OpGotoDoes
<1>2. ASSUME gh[t] = "open", t \notin hurt, led.tasks[t].status = "pr_open"
      PROVE  led'.tasks[t].status = "pr_open"
  <2>1. t \notin Decided
    BY <1>2 DEF Decided
  <2>2. CASE Calm(led, led', Decided, Over)
    <3>1. Moved(led.tasks[t], led'.tasks[t], t \in Decided, t \in Over)
      BY <2>2 DEF Calm
    <3> QED BY <1>2, <2>1, <3>1 DEF Moved, Still
  <2>3. CASE AddWrites
    <3>1. PICK u \in TaskIds, g \in Groups : led' = AddTask(led, u, g)
      BY <2>3 DEF AddWrites
    <3>2. \/ led' = led
          \/ /\ led.tasks[u].status = "none"
             /\ \A v \in TaskIds : v # u => led'.tasks[v] = led.tasks[v]
      BY <1>0, <3>1, AddTaskDoes
    <3> QED BY <1>2, <3>2
  <2>4. CASE MarkWrites
    <3>1. PICK u \in TaskIds : led' = MarkRunning(led, u)
      BY <2>4 DEF MarkWrites
    <3>2. \/ led' = led
          \/ /\ led.tasks[u].status = "dispatching"
             /\ \A v \in TaskIds : v # u => led'.tasks[v] = led.tasks[v]
      BY <1>0, <3>1, MarkRunningDoes
    <3> QED BY <1>2, <3>2
  <2>5. CASE OpWrites
    <3>1. PICK r \in Guards, u \in TaskIds :
            led' \in {BeginOpening(led, u, r), OpenPR(led, u), ClearOpening(led, u, r)}
      BY <2>5 DEF OpWrites
    <3>2. led' = led \/ Only(led, led', u)
      BY <1>0, <3>1, BeginOpeningDoes, OpenPRDoes, ClearOpeningDoes
    <3>3. \/ led' = led \/ led'.tasks[u].status = led.tasks[u].status
          \/ led.tasks[u].status = "running"
      BY <1>0, <3>1, BeginOpeningDoes, OpenPRDoes, ClearOpeningDoes
    <3> QED BY <1>2, <3>2, <3>3 DEF Only
  <2>6. CASE Pass
    <3>1. led' = OlderBy1(led)
      BY <2>6 DEF Pass
    <3> QED BY <1>0, <1>2, <3>1, OlderDoes
  <2> QED BY <1>0, <2>2, <2>3, <2>4, <2>5, <2>6, StepWrites
<1>3. ASSUME NEW r \in Guards, op[r] = [pc |-> "record", task |-> t]
      PROVE  led'.tasks[t].status = "pr_open" \/ op'[r] = op[r]
  <2>0. op[r].pc = "record" /\ op[r].task = t
    BY <1>3
  <2>1. CASE OpStep(r)
    <3>1. OpRecord(r)
      BY <2>0, <2>1 DEF OpStep, OpBegin, OpFile, OpKey, OpCreate, OpProblem, OpRelease, OpAt
    <3>2. led' = OpenPR(led, t)
      <4>1. Wrote(OpenPR(led, t)) \/ WriteFails(OpenPR(led, t), {t})
        BY <2>0, <3>1 DEF OpRecord
      <4>2. ~WriteFails(OpenPR(led, t), {t})
        BY DEF WriteFails
      <4> QED BY <4>1, <4>2 DEF Wrote
    <3>3. led.tasks[t].status = "running"
      BY <2>0 DEF WorkInv, OpeningInv, OpensAs, PastBegin
    <3> QED BY <1>0, <3>2, <3>3, OpenPRDoes
  <2>2. ~(\E u \in TaskIds : ReportFixed(r, u))
    BY <2>0, ReportGoes
  <2>3. ~OpDies(r)
    BY <2>0 DEF OpDies
  <2>4. CASE \E q \in Guards : q # r /\ StepsOp(q)
    BY <2>4 DEF StepsOp
  <2>5. CASE UNCHANGED op
    BY <2>5
  <2>6. ASSUME ~UNCHANGED op
        PROVE  \E q \in Guards :
                 \/ \E u \in TaskIds : ReportFixed(q, u)
                 \/ OpStep(q)
                 \/ OpDies(q) /\ StepsOp(q)
    <3>1. \E q \in Guards :
            \/ \E u \in TaskIds : ReportFixed(q, u)
            \/ OpStep(q)
            \/ /\ OpDies(q) /\ StepsOp(q) /\ op'[q].pc = "off"
               /\ op[q].pc # "off" /\ led' = led
      BY <1>0, <2>6, OpsGo
    <3> QED BY <3>1
  <2>7. \A q \in Guards : (\E u \in TaskIds : ReportFixed(q, u)) \/ OpStep(q) => StepsOp(q)
    BY <1>0, ReportGoes, OpStepDoes
  <2> QED BY <2>1, <2>2, <2>3, <2>4, <2>5, <2>6, <2>7
<1>4. CASE ~(\E r \in Guards : OpCreate(r) /\ op[r].task = t)
  <2>1. gh[t] = "open" /\ t \notin hurt
    BY <1>0, <1>4, HurtGrows, OpenedBefore
  <2> QED BY <1>2, <1>3, <2>1 DEF OpenedPRIsTracked
<1> QED BY <1>1, <1>4

FullInv == WorkInv /\ OneOpeningAtATime /\ OpenedPRIsTracked

LEMMA FullInit == Init => FullInv
<1> SUFFICES ASSUME Init PROVE FullInv
  OBVIOUS
<1>1. SessionInv /\ Bounded(led)
  BY SessionInit, BoundedInit
<1>2. \A r \in Guards : op[r].pc = "off"
  BY NoTickDoes DEF Init
<1>3. \A t \in TaskIds : gh[t] # "open"
  BY DEF Init
<1> QED BY <1>1, <1>2, <1>3 DEF FullInv, WorkInv, OpeningInv, OneOpeningAtATime, OpenedPRIsTracked

LEMMA FullStep == FullInv /\ [Next]_vars => FullInv'
<1> SUFFICES ASSUME FullInv, [Next]_vars PROVE FullInv'
  OBVIOUS
<1>1. WorkInv /\ OneOpeningAtATime /\ OpenedPRIsTracked /\ SessionInv /\ TypeInv /\ Bounded(led)
  BY DEF FullInv, WorkInv, SessionInv
<1>2. SessionInv' /\ TypeInv'
  BY <1>1, SessionStep, TypeStep
<1>3. Bounded(led)'
  <2>1. Bounded(led')
    BY <1>1, BoundedStep
  <2> QED BY <2>1 DEF Bounded, TaskBounded, OnePerGroup, WithinLimits
<1>4. OpeningInv'
  BY <1>1, OpeningStep
<1>5. OneOpeningAtATime' /\ OpenedPRIsTracked'
  BY <1>1, <1>2, <1>3, <1>4, OneOpeningStep, TrackedStep
<1> QED BY <1>2, <1>3, <1>4, <1>5 DEF FullInv, WorkInv

LEMMA FullInvariant == Spec => []FullInv
BY FullInit, FullStep, PTL DEF Spec

(* However often a session repeats its report, and however its requests        *)
(* overlap, fail or die, one request at a time is past the guard beginOpening  *)
(* stores (Task.Opening): one issue is filed and one pull request opened.      *)
THEOREM OneOpening == Spec => []OneOpeningAtATime
<1>1. FullInv => OneOpeningAtATime
  BY DEF FullInv
<1> QED BY <1>1, FullInvariant, PTL

(* A pull request that is open on GitHub is in the ledger or about to be       *)
(* recorded there, unless a call failed for its task: ticks, ends of sessions  *)
(* and other reports leave a task alone whose opening is in progress, and the  *)
(* time-out that does not ask comes after the Job's deadline.                  *)
THEOREM Tracked == Spec => []OpenedPRIsTracked
<1>1. FullInv => OpenedPRIsTracked
  BY DEF FullInv
<1> QED BY <1>1, FullInvariant, PTL

=============================================================================
