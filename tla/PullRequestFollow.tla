-------------------------- MODULE PullRequestFollow --------------------------
(***************************************************************************)
(* The follow-up of one open pull request of a coding project: what ticks  *)
(* do about it (syncPRs, observePR, advanceReviews, dispatchRounds in      *)
(* projects/review.go and projects/automerge.go), the reports of follow-up *)
(* rounds (projects/round_report.go), and what people, checks and GitHub   *)
(* do meanwhile.  Auto-merge is on for the project.                        *)
(*                                                                         *)
(* A write of the ledger is one action, as in ProjectTicks, and so is one  *)
(* tick's read of the pull request, its discussion and its checks.  What a *)
(* tick decides on is a step of its own, before the write or call it       *)
(* decided on.  The unit of time is at least the auto-merge delay, which   *)
(* is longer than a tick and a report.                                     *)
(***************************************************************************)
EXTENDS ReviewState

CONSTANTS
  Ticks,      \* ticks that may be under way: one for each replica
  MaxMoves,   \* bound: what people do
  MaxFaults   \* bound: calls that fail, leases out of reach, crashes

ASSUME FollowAssumption ==
  /\ Ticks \cup Guards \subseteq Nat \ {0}  \* numbered: the first free one is taken
  /\ NoOne \notin Nat
  /\ {MaxMoves, MaxFaults} \subseteq Nat

VARIABLES
  rv,       \* the stored review of the pull request
  pr,       \* the pull request on GitHub
  changes,  \* the head at which the changes of each head first appeared
  pods,     \* rounds whose session works
  lease,    \* the tick that holds locks/projects/<id>, or 0 when that died, or NoOne
  tick,     \* the ticks under way
  op,       \* the reports of rounds under way
  moves, faults,
  past      \* history, see Past

vars == <<rv, pr, changes, pods, lease, tick, op, moves, faults, past>>

\* by: who last turned auto-merge off.  approved: the head a person approved last.
\* still: neither the changes nor the discussion moved for a unit of time.
PullRequest == [open: BOOLEAN, head: Heads, ci: {"pending", "passed", "failed"},
                talk: SUBSET Comments, approved: Epochs, auto: {"off", "ours", "theirs"},
                by: {"nobody", "person"}, still: BOOLEAN]
OpenedPR == [open |-> TRUE, head |-> 1, ci |-> "pending", talk |-> {}, approved |-> NoHead,
             auto |-> "off", by |-> "nobody", still |-> FALSE]

\* The watch of a tick: what it read, and what it decided to do next.
Tick == [pc: {"off", "over", "observe", "advance", "withdraw", "disable", "cleared", "turned", "on",
              "disarm", "stop", "note", "done", "arm", "claim", "merge", "enabled", "merged",
              "round", "launch", "running"},
         head: Epochs, seen: Epochs, ci: {"pending", "passed", "failed"}, talk: SUBSET Comments,
         items: SUBSET Comments, approved: Epochs, auto: {"off", "ours", "theirs"},
         changes: Epochs, fresh: BOOLEAN, content: Epochs, need: SUBSET {"feedback", "checks"},
         still: BOOLEAN]
NoTick == [pc |-> "off", head |-> NoHead, seen |-> NoHead, ci |-> "pending", talk |-> {},
           items |-> {}, approved |-> NoHead, auto |-> "off", changes |-> NoHead, fresh |-> FALSE,
           content |-> NoHead, need |-> {}, still |-> FALSE]

Op == [pc: {"off", "post", "record", "release"}, n: 0 .. MaxRounds, question: BOOLEAN, head: Epochs,
       items: SUBSET Comments]
NoOp == [pc |-> "off", n |-> 0, question |-> FALSE, head |-> NoHead, items |-> {}]

\* noted, answered: changes announced as ready, comments answered; renoted, reanswered: one
\* more than once though no call failed.  overlap: ticks overlapped.  declined: a person
\* turned off an auto-merge that arbetern had recorded.
Past == [noted: SUBSET Heads, answered: SUBSET Comments, renoted: BOOLEAN, reanswered: BOOLEAN,
         overlap: BOOLEAN, declined: BOOLEAN]

Init ==
  /\ rv = Opened
  /\ pr = OpenedPR
  /\ changes = [h \in Heads |-> IF h = 1 THEN 1 ELSE NoHead]
  /\ pods = {}
  /\ lease = NoOne
  /\ tick = [r \in Ticks |-> NoTick]
  /\ op = [g \in Guards |-> NoOp]
  /\ moves = 0 /\ faults = 0
  /\ past = [noted |-> {}, answered |-> {}, renoted |-> FALSE, reanswered |-> FALSE,
             overlap |-> FALSE, declined |-> FALSE]

\* A failure; what is said about notes and answers is about behaviours without one.
Fault(overlaps) ==
  /\ faults < MaxFaults /\ faults' = faults + 1
  /\ past' = [past EXCEPT !.noted = {}, !.answered = {}, !.overlap = @ \/ overlaps]
Fine == UNCHANGED <<faults, past>>

Same(h) == {x \in 1 .. h : changes[x] = changes[h]}

\* A write of the ledger, or one that answers with an error, applied or not.
Wrote(new) == rv' = new /\ Fine
WriteFails(new) == rv' \in {rv, new} /\ Fault(FALSE)

-----------------------------------------------------------------------------
(* A tick. *)

At(r, pc) == tick[r].pc = pc
Goto(r, pc) == tick' = [tick EXCEPT ![r] = [@ EXCEPT !.pc = pc]]

\* The pull request needs nothing more from this tick, which ends and releases the lease.
Finish(r) ==
  /\ tick' = [tick EXCEPT ![r] = NoTick]
  /\ lease' = IF lease = r THEN NoOne ELSE lease
Then(r, pc) == Goto(r, pc) /\ UNCHANGED lease

Snapshot(w) == [content |-> w.content, talk |-> w.talk]

\* What a tick reads of the pull request, its checks and discussion, next to the review new it
\* has; whether its changes could be read is known.
ReadPR(new, known) ==
  LET read == IF known /\ new.contentHead # pr.head THEN changes[pr.head] ELSE NoHead
  IN  [NoTick EXCEPT
        !.pc = "observe", !.head = pr.head, !.seen = new.head, !.ci = pr.ci, !.talk = pr.talk,
        !.items = pr.talk \ new.handled, !.approved = pr.approved, !.auto = pr.auto,
        !.changes = read, !.still = pr.still, !.fresh = (read # NoHead /\ read # new.content)]

\* A tick starts under the lease, or without it when it cannot be reached, ends the rounds that
\* are over, and reads the pull request (syncPRs) or finds it over.
TickStart(r) ==
  LET kept == ReconcileRounds(rv, {n \in 1 .. MaxRounds : n \notin pods})
  IN  /\ At(r, "off") /\ (\A u \in Ticks : u < r => ~At(u, "off")) /\ rv.open
      /\ lease # r /\ lease' = IF lease = NoOne THEN r ELSE lease
      /\ pods' = {n \in pods : kept.rounds[n].status # "failed"}
      /\ rv' = kept
      /\ \E known \in BOOLEAN :
           /\ IF lease = NoOne /\ known THEN Fine ELSE Fault(lease # NoOne)
           /\ known \/ (lease = NoOne /\ pr.open /\ rv.contentHead # pr.head)
           /\ tick' = [tick EXCEPT ![r] = IF pr.open THEN ReadPR(kept, known)
                                          ELSE [NoTick EXCEPT !.pc = "over"]]
      /\ UNCHANGED <<pr, changes, op, moves>>

\* closePR, mergePR.
TickOver(r) ==
  /\ At(r, "over")
  /\ Wrote(CloseReview)
  /\ Finish(r)
  /\ UNCHANGED <<pr, changes, pods, op, moves>>

\* The approval read counts for this head, or for one with the same changes.
Approval(new, w, content) ==
  IF w.approved = w.head \/ (content # NoHead /\ w.approved \in new.lineage \cup {content})
    THEN w.approved ELSE NoHead

TickObserve(r) ==
  LET w == tick[r]
      new == Observe(rv, w, Same(w.head))
      content == IF new.contentHead = w.head THEN new.content ELSE NoHead
  IN  /\ At(r, "observe")
      /\ Wrote(new)
      /\ tick' = [tick EXCEPT ![r] = [@ EXCEPT
           !.pc = "advance", !.seen = NoHead, !.changes = NoHead, !.fresh = FALSE,
           !.content = content, !.approved = Approval(new, w, content)]]
      /\ UNCHANGED <<pr, changes, pods, lease, op, moves>>

NeedsRound(w, items) ==
  {why \in {"feedback", "checks"} :
     /\ ~rv.exhausted /\ w.ci # "pending"
     /\ IF why = "feedback" THEN items # {} ELSE w.ci = "failed" /\ rv.checksHandled # w.head}

MergeHold(w) ==
  w.need # {} \/ w.items # {} \/ rv.waiting \/ (w.ci = "failed" /\ rv.checksHandled # w.head)

ContentMoved(w) ==
  IF w.content = NoHead THEN rv.merge.onHead # w.head
  ELSE IF rv.merge.onContent # NoHead THEN rv.merge.onContent # w.content
  ELSE rv.merge.onHead # w.head /\ rv.merge.onHead \notin rv.lineage

ReadyFor(new, w) ==
  /\ ~new.exhausted /\ ~new.waiting /\ w.items = {} /\ w.ci = "passed"
  /\ new.doneHead # w.head /\ new.quiet

\* autoMerge: the delay is started, waited for, or over.
AutoMerges(m, w) ==
  IF ~MayMerge(m) \/ w.auto # "off" THEN "off"
  ELSE IF m.snapshot # Snapshot(w) \/ m.armed = "no" THEN "arm"
  ELSE IF m.armed = "due" THEN "claim" ELSE "off"

\* What a tick does that has the ledger new.
Acts(new, w) ==
  IF ~new.open THEN "off"
  ELSE IF w.need # {} THEN IF Used(new) >= MaxRounds THEN "stop" ELSE IF new.cooldown THEN "off" ELSE "round"
  ELSE IF ReadyFor(new, w) THEN IF w.content = NoHead /\ new.doneContent # NoHead THEN "off" ELSE "note"
  ELSE IF w.content # NoHead /\ Done(new) /\ new.doneHead = w.head /\ w.ci = "passed"
    THEN AutoMerges(new.merge, w)
  ELSE "off"

\* Mutant: auto-merge stays on while a round is due.
FollowsMoved(w) ==
  IF w.auto = "ours" /\ (rv.merge.withdrawing \/ ContentMoved(w)) THEN "withdraw"
  ELSE IF rv.merge.withdrawing THEN "cleared"
  ELSE IF rv.merge.on /\ w.auto = "off" THEN "turned"
  ELSE IF w.auto # "off" /\ ~rv.merge.on THEN "on"
  ELSE IF rv.merge.armed # "no" /\ (MergeHold(w) \/ w.ci = "failed") THEN "disarm"
  ELSE Acts(rv, w)

\* followAutoMerge: what is to be done about auto-merge itself, before anything else.
Follows(w) ==
  IF w.auto = "ours" /\ (rv.merge.withdrawing \/ MergeHold(w) \/ ContentMoved(w)) THEN "withdraw"
  ELSE IF rv.merge.withdrawing THEN "cleared"
  ELSE IF rv.merge.on /\ w.auto = "off" THEN "turned"
  ELSE IF w.auto # "off" /\ ~rv.merge.on THEN "on"
  ELSE IF rv.merge.armed # "no" /\ (MergeHold(w) \/ w.ci = "failed") THEN "disarm"
  ELSE Acts(rv, w)

\* The watch keeps what the step decided on needs.
Needed(w, pc) ==
  IF pc \in {"withdraw", "cleared", "turned", "on", "disarm"} THEN [w EXCEPT !.pc = pc]
  ELSE IF pc = "note" THEN [NoTick EXCEPT !.pc = pc, !.head = w.head, !.content = w.content, !.auto = w.auto]
  ELSE IF pc = "round" THEN [NoTick EXCEPT !.pc = pc, !.head = w.head, !.items = w.items, !.need = w.need]
  ELSE IF pc \in {"arm", "claim"}
    THEN [NoTick EXCEPT !.pc = pc, !.head = w.head, !.content = w.content, !.talk = w.talk,
                        !.approved = w.approved, !.still = w.still]
  ELSE [NoTick EXCEPT !.pc = pc]

Decide(r, w, pc) ==
  IF pc = "off" THEN Finish(r) ELSE tick' = [tick EXCEPT ![r] = Needed(w, pc)] /\ UNCHANGED lease

\* advanceReviews: nothing while a round is active or when the head moved since the read.
TickAdvance(r) ==
  LET items == tick[r].items \ rv.handled
      w == [tick[r] EXCEPT !.items = items, !.need = NeedsRound(tick[r], items)]
  IN  /\ At(r, "advance")
      /\ Decide(r, w, IF ~rv.open \/ HasActive(rv) \/ rv.head # w.head THEN "off" ELSE Follows(w))
      /\ UNCHANGED <<rv, pr, changes, pods, op, moves, faults, past>>

\* withdrawAutoMerge: recorded first, then turned off, then recorded as off.
TickWithdraw(r) ==
  /\ At(r, "withdraw")
  /\ Wrote(WithdrawMerge(rv))
  /\ Then(r, "disable")
  /\ UNCHANGED <<pr, changes, pods, op, moves>>

Disabled == [pr EXCEPT !.auto = "off", !.by = IF pr.auto = "off" THEN @ ELSE "nobody"]

TickDisable(r) ==
  /\ At(r, "disable")
  /\ pr' = Disabled /\ Fine
  /\ Then(r, "cleared")
  /\ UNCHANGED <<rv, changes, pods, op, moves>>

\* The writes of followAutoMerge; after a failed one the tick goes on with what it had.
TickRecord(r) ==
  LET w == tick[r]
      new == IF w.pc = "cleared" THEN MergeOff(rv, FALSE)
             ELSE IF w.pc = "turned" THEN MergeOff(rv, pr.by = "person")
             ELSE IF w.pc = "on" THEN MergeOn(rv, w.content, w.head, FALSE)
             ELSE DisarmMerge(rv)
  IN  /\ w.pc \in {"cleared", "turned", "on", "disarm"}
      /\ \/ Wrote(new) /\ Decide(r, w, Acts(new, w))
         \/ WriteFails(new) /\ Decide(r, w, Acts(rv, w))
      /\ UNCHANGED <<pr, changes, pods, op, moves>>

\* stopFollowing posts what is left, then records that the rounds are used up.
TickStop(r) ==
  /\ At(r, "stop")
  /\ Wrote(Exhaust(rv))
  /\ Finish(r)
  /\ UNCHANGED <<pr, changes, pods, op, moves>>

\* Mutant: a head that only merged the base in is announced again.
RepeatedHead(w) == rv.doneHead = w.head

\* The changes were announced before.
Repeated(w) ==
  rv.doneHead # NoHead /\
    IF w.content # NoHead /\ rv.doneContent # NoHead THEN rv.doneContent = w.content
    ELSE w.auto # "off"

\* finishReview: the ready note, unless it would be a repeat, then the record.
TickNote(r) ==
  LET w == tick[r]
      c == changes[w.head]
  IN  /\ At(r, "note")
      /\ Then(r, "done")
      /\ past' = IF Repeated(w) \/ faults > 0 THEN past
                 ELSE [past EXCEPT !.noted = @ \cup {c}, !.renoted = @ \/ c \in past.noted]
      /\ UNCHANGED <<rv, pr, changes, pods, op, moves, faults>>

\* The last write about this pull request: done, or the delay starts.
TickDone(r) ==
  LET w == tick[r]
  IN  /\ \/ At(r, "done") /\ Wrote(MarkDone(rv, w.head, w.content))
         \/ At(r, "arm") /\ Wrote(ArmMerge(rv, Snapshot(w)))
      /\ Finish(r)
      /\ UNCHANGED <<pr, changes, pods, op, moves>>

TickClaim(r) ==
  LET new == ClaimMerge(rv, tick[r].head, Snapshot(tick[r]))
  IN  /\ At(r, "claim")
      /\ Wrote(new)
      /\ IF new # rv THEN Then(r, "merge") ELSE Finish(r)
      /\ UNCHANGED <<pr, changes, pods, op, moves>>

\* GitHub's answer once the pull request is over: none of its state is looked at again.
ClosedPR == [OpenedPR EXCEPT !.open = FALSE, !.head = pr.head]

\* Merges while the head is still the one read, when nothing is left to wait for; else turns
\* auto-merge on for that head.  Without an approval that is needed, or when GitHub refuses,
\* the delay starts over; a failed call may have been applied, and keeps the delay.
TickMerge(r) ==
  LET w == tick[r]
      current == pr.open /\ pr.head = w.head
      outcomes == {pc \in {"merged", "enabled"} :
                     IF pc = "merged" THEN w.approved # NoHead ELSE pr.auto = "off"}
      waits(since) == rv' = MergeWaits(rv, Snapshot(w), since) /\ Finish(r)
  IN  /\ At(r, "merge")
      /\ \/ /\ current
            /\ \E pc \in outcomes :
                 /\ pr' = IF pc = "merged" THEN ClosedPR ELSE [pr EXCEPT !.auto = "ours"]
                 /\ \/ Then(r, pc) /\ UNCHANGED rv /\ Fine
                    \/ waits("new") /\ Fault(FALSE)
         \/ waits("new") /\ UNCHANGED pr /\ Fine
         \/ waits("due") /\ UNCHANGED pr /\ Fault(FALSE)
      /\ UNCHANGED <<changes, pods, op, moves>>

\* The merge or the auto-merge is recorded.
TickMerged(r) ==
  LET w == tick[r]
  IN  /\ \/ At(r, "merged") /\ Wrote(MergedByArbetern(rv))
         \/ At(r, "enabled") /\ Wrote(MergeOn(rv, w.content, w.head, TRUE))
      /\ Finish(r)
      /\ UNCHANGED <<pr, changes, pods, op, moves>>

\* dispatchRounds: the round is recorded before its session starts.
TickRound(r) ==
  LET w == tick[r]
      new == AddRound(rv, w.need, w.items, w.head)
  IN  /\ At(r, "round")
      /\ Wrote(new)
      /\ IF new # rv THEN Then(r, "launch") ELSE Finish(r)
      /\ UNCHANGED <<pr, changes, pods, op, moves>>

\* fireRound: the session starts, or the round fails.
TickLaunch(r) ==
  /\ At(r, "launch")
  /\ \E n \in 1 .. MaxRounds :
       /\ ActiveRound(rv, n)
       /\ \/ pods' = pods \cup {n} /\ Then(r, "running") /\ UNCHANGED rv /\ Fine
          \/ rv' = FailDispatching(rv, n) /\ Finish(r) /\ UNCHANGED pods /\ Fault(FALSE)
  /\ UNCHANGED <<pr, changes, op, moves>>

TickRunning(r) ==
  /\ At(r, "running")
  /\ \E n \in 1 .. MaxRounds :
       /\ ActiveRound(rv, n)
       /\ \/ Wrote(RoundRunning(rv, n)) /\ UNCHANGED pods
          \/ WriteFails(RoundRunning(rv, n)) /\ pods' = pods \ {n}
  /\ Finish(r)
  /\ UNCHANGED <<pr, changes, op, moves>>

\* The round ended before the tick named it: the pod checked in first.
TickRan(r) ==
  /\ At(r, "running") \/ At(r, "launch")
  /\ ~HasActive(rv)
  /\ Finish(r)
  /\ UNCHANGED <<rv, pr, changes, pods, op, moves, faults, past>>

TickStep(r) ==
  \/ TickOver(r) \/ TickObserve(r) \/ TickAdvance(r) \/ TickWithdraw(r) \/ TickDisable(r)
  \/ TickRecord(r) \/ TickStop(r) \/ TickNote(r) \/ TickDone(r)
  \/ TickClaim(r) \/ TickMerge(r) \/ TickMerged(r) \/ TickRound(r) \/ TickLaunch(r)
  \/ TickRunning(r) \/ TickRan(r)

-----------------------------------------------------------------------------
(* The session of a round, and its reports. *)

Admitted(n) == n \in pods /\ rv.open /\ rv.rounds[n].status = "running"

CheckIn(n) ==
  /\ n \in pods /\ rv.open /\ rv.rounds[n].status = "dispatching"
  /\ rv' = RoundRunning(rv, n)
  /\ UNCHANGED <<pr, changes, pods, lease, tick, op, moves, faults, past>>

\* A new head: its checks have to run.  epoch names its changes.
NewHead(epoch) ==
  /\ pr.open /\ pr.head < MaxHeads
  /\ pr' = [pr EXCEPT !.head = @ + 1, !.ci = "pending", !.still = @ /\ epoch # pr.head + 1]
  /\ changes' = [changes EXCEPT ![pr.head + 1] = epoch]

\* The session pushes to the branch of the pull request.
SessionPush(n) ==
  /\ Admitted(n)
  /\ NewHead(pr.head + 1)
  /\ UNCHANGED <<rv, pods, lease, tick, op, moves, faults, past>>

OpAt(g, pc) == op[g].pc = pc
OpGoto(g, pc) == op' = [op EXCEPT ![g] = IF pc = "off" THEN NoOp ELSE [@ EXCEPT !.pc = pc]]

\* report_outcome of a round: the guard, once the round may be reported.
Report(g, n) ==
  LET new == BeginRoundReport(rv, n, g)
      begun == [NoOp EXCEPT !.pc = "post", !.n = n, !.head = rv.rounds[n].before,
                              !.items = rv.rounds[n].items]
  IN  /\ OpAt(g, "off") /\ (\A u \in Guards : u < g => ~OpAt(u, "off"))
      /\ Admitted(n) /\ new # rv
      /\ Wrote(new) /\ op' = [op EXCEPT ![g] = begun]
      /\ UNCHANGED <<pr, changes, pods, lease, tick, moves>>

\* landRound of a fix: the head the commits are on has to be another than the one the round
\* began at.  An answer, a question or cannot_fix leaves the head.  Then the replies and the
\* summary are posted.
OpPost(g) ==
  LET before == op[g].head
      posted(head) ==
        /\ \E question \in BOOLEAN :
             op' = [op EXCEPT ![g] = [@ EXCEPT !.pc = "record", !.head = head, !.question = question]]
        /\ past' = IF faults > 0 THEN past
                   ELSE [past EXCEPT !.answered = @ \cup op[g].items,
                                     !.reanswered = @ \/ op[g].items \cap past.answered # {}]
  IN  /\ OpAt(g, "post")
      /\ \/ posted(before)
         \/ pr.open /\ pr.head # before /\ posted(pr.head)
         \/ (~pr.open \/ pr.head = before) /\ OpGoto(g, "release") /\ UNCHANGED past
      /\ UNCHANGED <<rv, pr, changes, pods, lease, tick, moves, faults>>

OpRecord(g) ==
  LET n == op[g].n
      res == [head |-> op[g].head, question |-> op[g].question]
      new == IF FinishRound(rv, n, res) # rv THEN FinishRound(rv, n, res) ELSE RecordRoundReplies(rv, n, res)
  IN  /\ OpAt(g, "record")
      /\ Wrote(new)
      /\ OpGoto(g, "off")
      /\ UNCHANGED <<pr, changes, pods, lease, tick, moves>>

OpRelease(g) ==
  LET new == ClearRoundReport(rv, op[g].n, g)
  IN  /\ OpAt(g, "release")
      /\ Wrote(new)
      /\ OpGoto(g, "off")
      /\ UNCHANGED <<pr, changes, pods, lease, tick, moves>>

OpStep(g) == OpPost(g) \/ OpRecord(g) \/ OpRelease(g)

\* The session ends, and says so or not.
PodEnds(n) ==
  /\ n \in pods
  /\ pods' = pods \ {n}
  /\ rv' \in {rv, RoundEnded(rv, n)}
  /\ UNCHANGED <<pr, changes, lease, tick, op, moves, faults, past>>

-----------------------------------------------------------------------------
(* People, checks and GitHub. *)

Elsewhere == UNCHANGED <<rv, pods, lease, tick, op, faults>>
Moved == moves < MaxMoves /\ moves' = moves + 1 /\ Elsewhere

\* Someone pushes new changes, or GitHub merges the base branch in and leaves them as they are.
Push == Moved /\ NewHead(pr.head + 1) /\ UNCHANGED past
MergeBase == Moved /\ NewHead(changes[pr.head]) /\ UNCHANGED past

ChecksEnd ==
  /\ pr.open /\ pr.ci = "pending"
  /\ \/ pr' = [pr EXCEPT !.ci = "passed"] /\ UNCHANGED moves /\ Elsewhere
     \/ pr' = [pr EXCEPT !.ci = "failed"] /\ Moved
  /\ UNCHANGED <<changes, past>>

\* A comment, which may be a review that asks for changes.
Comment(c) ==
  /\ pr.open /\ c \notin pr.talk
  /\ \E approved \in {pr.approved, NoHead} :
       pr' = [pr EXCEPT !.talk = @ \cup {c}, !.approved = approved, !.still = FALSE]
  /\ UNCHANGED <<changes, past>> /\ Moved

Approve ==
  /\ pr.open /\ pr.approved # pr.head
  /\ pr' = [pr EXCEPT !.approved = pr.head]
  /\ UNCHANGED <<changes, past>> /\ Moved

TurnOn ==
  /\ pr.open /\ pr.auto = "off"
  /\ pr' = [pr EXCEPT !.auto = "theirs"]
  /\ past' = [past EXCEPT !.declined = FALSE]
  /\ UNCHANGED changes /\ Moved

\* A tick that read auto-merge as on before may still be at work on it.
TurnOff ==
  /\ pr.open /\ pr.auto # "off"
  /\ pr' = [pr EXCEPT !.auto = "off", !.by = "person"]
  /\ past' = [past EXCEPT !.declined = rv.merge.on /\ ~rv.merge.withdrawing /\ \A r \in Ticks : At(r, "off")]
  /\ UNCHANGED changes /\ Moved

\* GitHub merges by itself.
GitHubMerges ==
  /\ pr.open /\ pr.auto # "off" /\ pr.ci = "passed" /\ pr' = ClosedPR
  /\ UNCHANGED <<changes, moves, past>> /\ Elsewhere

\* A person merges or closes.
Close == pr.open /\ pr' = ClosedPR /\ UNCHANGED <<changes, past>> /\ Moved

\* A call or a write of a tick fails, applied or not, and the tick gives the pull request up;
\* or its replica dies, and the lease stays.
TickFails(r) ==
  /\ ~At(r, "off") /\ Fault(FALSE)
  /\ tick' = [tick EXCEPT ![r] = NoTick]
  /\ lease' \in IF lease = r THEN {NoOne, 0} ELSE {lease}
  /\ UNCHANGED <<rv, pr, changes, pods, op, moves>>

\* A write of a report fails, applied or not, or the replica that serves it dies.
OpFails(g) ==
  /\ ~OpAt(g, "off") /\ Fault(FALSE)
  /\ OpGoto(g, "off")
  /\ UNCHANGED <<rv, pr, changes, pods, lease, tick, moves>>

\* Time passes: delays, cooldowns, the lease of a dead replica; a session ends in time.
Pass ==
  /\ tick = [r \in Ticks |-> NoTick] /\ op = [g \in Guards |-> NoOp]
  /\ rv' = Older(rv)
  /\ pods' = {n \in pods : rv'.rounds[n].age < RoundTimeout}
  /\ pr' = [pr EXCEPT !.still = pr.open]
  /\ lease' = IF lease = 0 THEN NoOne ELSE lease
  /\ UNCHANGED <<changes, tick, op, moves, faults, past>>

Next ==
  \/ \E r \in Ticks : TickStart(r) \/ TickStep(r) \/ TickFails(r)
  \/ \E n \in 1 .. MaxRounds : CheckIn(n) \/ SessionPush(n) \/ PodEnds(n)
  \/ \E g \in Guards : (\E n \in 1 .. MaxRounds : Report(g, n)) \/ OpStep(g) \/ OpFails(g)
  \/ Push \/ MergeBase \/ ChecksEnd \/ (\E c \in Comments : Comment(c)) \/ Approve
  \/ TurnOn \/ TurnOff \/ GitHubMerges \/ Close
  \/ Pass

Spec == Init /\ [][Next]_vars

-----------------------------------------------------------------------------
(* Properties. *)

\* The shape of the state: a person's hold excludes an auto-merge that is on or going off.
TypeOK ==
  /\ rv \in Review /\ pr \in PullRequest
  /\ changes \in [Heads -> Epochs]
  /\ pods \subseteq 1 .. MaxRounds
  /\ lease \in Ticks \cup {NoOne, 0}
  /\ tick \in [Ticks -> Tick] /\ op \in [Guards -> Op]
  /\ moves \in 0 .. MaxMoves /\ faults \in 0 .. MaxFaults /\ past \in Past
  /\ ~(rv.merge.held /\ (rv.merge.on \/ rv.merge.withdrawing))

\* What arbetern merges itself was approved by a person: this head, or an earlier one with the
\* same changes, however heads, reads and reports interleave, unless ticks overlapped: a report
\* may set the head back to the one a slow tick saw, which then records changes that are no
\* longer there, and a tick that read the new ones as known adds them to the old lineage.
MergedIsApproved ==
  \A r \in Ticks : At(r, "merged") /\ ~past.overlap =>
    tick[r].approved # NoHead /\ changes[tick[r].approved] = changes[pr.head]

\* Auto-merge goes on, and arbetern merges, only when neither the changes nor the discussion
\* moved for the delay before the tick's fresh read.
DelayWasQuiet ==
  \A r \in Ticks : tick[r].pc \in {"merge", "enabled", "merged"} => tick[r].still

\* No follow-up round works on a pull request whose auto-merge arbetern turned on, unless
\* ticks overlapped: it is off before the round is recorded.
NoRoundUnderAutoMerge ==
  HasActive(rv) /\ pr.auto = "ours" => past.overlap

\* A pull request that is ready again with the same changes gets no second note, unless a
\* call failed.
OneNotePerChanges == ~past.renoted

\* A comment is answered by one report only, unless a call failed.
AnsweredOnce == ~past.reanswered

\* Once a person turned auto-merge off by hand, arbetern leaves it off until a person turns
\* it on again.
DeclineIsKept == past.declined => pr.auto # "ours"
=============================================================================
