---------------------------- MODULE ReviewState ----------------------------
(***************************************************************************)
(* What the ledger keeps of one open pull request (ReviewState, Round and  *)
(* MergeState) and its transitions: projects/rounds.go and the ledger half *)
(* of projects/automerge.go.  A transition whose guard fails returns the   *)
(* record unchanged, as the code's return false.                           *)
(*                                                                         *)
(* Heads are numbered in the order they are pushed, 0 is none.  The        *)
(* changes of a head are named by the head they first appeared at          *)
(* (changeRead.epoch).  The phase is what settle() makes of the record, so *)
(* only "exhausted" is kept.  Conflicts, drafts, the base branch, branch   *)
(* updates asked for and notes are left out.                               *)
(***************************************************************************)
EXTENDS Naturals, FiniteSets

CONSTANTS
  Comments,    \* review comments of people
  Guards,      \* guards of reports in progress
  NoOne,       \* no guard
  MaxHeads,    \* bound: heads of the pull request
  MaxRounds,   \* review.max_rounds
  RoundTimeout \* session timeout and runningGrace

ASSUME ReviewAssumption ==
  /\ NoOne \notin Guards
  /\ {MaxHeads, MaxRounds, RoundTimeout} \subseteq Nat \ {0}

Heads == 1 .. MaxHeads
NoHead == 0
Epochs == Heads \cup {NoHead}
Unarmed == [content |-> NoHead, talk |-> {}]
Snapshots == [content: Epochs, talk: SUBSET Comments]

Round == [status: {"none", "dispatching", "running", "done", "failed"},
          trigger: SUBSET {"feedback", "checks"}, items: SUBSET Comments, before: Epochs,
          named: BOOLEAN, reporting: Guards \cup {NoOne}, exit: BOOLEAN, age: 0 .. RoundTimeout]
NoRound == [status |-> "none", trigger |-> {}, items |-> {}, before |-> NoHead, named |-> FALSE,
            reporting |-> NoOne, exit |-> FALSE, age |-> 0]

\* armed: the delay has not started, runs, or has passed.
MergeState == [armed: {"no", "new", "due"}, snapshot: Snapshots, on: BOOLEAN, onContent: Epochs,
               onHead: Epochs, withdrawing: BOOLEAN, held: BOOLEAN, merged: BOOLEAN]
NoMerge == [armed |-> "no", snapshot |-> Unarmed, on |-> FALSE, onContent |-> NoHead,
            onHead |-> NoHead, withdrawing |-> FALSE, held |-> FALSE, merged |-> FALSE]

\* open: the task still has the status pr_open.  quiet: the settle time has passed since the
\* head moved or a round finished.  cooldown: NextRoundAfter is ahead.
Review == [open: BOOLEAN, head: Epochs, content: Epochs, contentHead: Epochs,
           lineage: SUBSET Heads, doneHead: Epochs, doneContent: Epochs, ci: {"pending", "passed", "failed"},
           pending: BOOLEAN, handled: SUBSET Comments, waiting: BOOLEAN, checksHandled: Epochs,
           exhausted: BOOLEAN, quiet: BOOLEAN, cooldown: BOOLEAN,
           rounds: [1 .. MaxRounds -> Round], merge: MergeState]
Opened == [open |-> TRUE, head |-> NoHead, content |-> NoHead, contentHead |-> NoHead,
           lineage |-> {}, doneHead |-> NoHead, doneContent |-> NoHead, ci |-> "pending",
           pending |-> FALSE, handled |-> {}, waiting |-> FALSE, checksHandled |-> NoHead,
           exhausted |-> FALSE, quiet |-> FALSE, cooldown |-> FALSE,
           rounds |-> [n \in 1 .. MaxRounds |-> NoRound], merge |-> NoMerge]

-----------------------------------------------------------------------------
\* What the transitions read.

ActiveRound(rv, n) == rv.rounds[n].status \in {"dispatching", "running"}
HasActive(rv) == \E n \in 1 .. MaxRounds : ActiveRound(rv, n)

Used(rv) == Cardinality({n \in 1 .. MaxRounds : rv.rounds[n].named})

\* settle() in order: exhausted, fixing, waiting, done, else checking.
Done(rv) ==
  /\ ~rv.exhausted /\ ~HasActive(rv) /\ ~rv.waiting
  /\ rv.doneHead # NoHead /\ rv.doneHead = rv.head
  /\ ~rv.pending /\ rv.ci # "failed"

ReportFresh(rd) == rd.reporting # NoOne

-----------------------------------------------------------------------------
\* Observations.  o is what a tick read; same(h) are the heads up to h with the changes of h.

Moves(rv, o) == o.head # rv.head /\ (o.seen = NoHead \/ rv.head = o.seen)

\* Mutant: approvals of the changes before stay in the lineage.
NewLineageKeeps(rv, o, same) == rv.lineage \cup same

NewLineage(rv, o, same) == IF rv.contentHead = NoHead \/ o.fresh THEN same ELSE rv.lineage \cup same

Observe(rv, o, same) ==
  LET head == IF Moves(rv, o) THEN o.head ELSE rv.head
      reads == o.changes # NoHead /\ head = o.head /\ rv.contentHead # o.head
      seen == [rv EXCEPT
        !.head = head, !.quiet = @ /\ o.still /\ ~Moves(rv, o),
        !.content = IF reads THEN o.changes ELSE @,
        !.contentHead = IF reads THEN o.head ELSE @,
        !.lineage = IF reads THEN NewLineage(rv, o, same) ELSE @,
        !.merge = IF reads /\ rv.contentHead # NoHead /\ o.fresh
                    THEN [@ EXCEPT !.armed = "no", !.snapshot = Unarmed] ELSE @,
        !.ci = o.ci, !.pending = (o.items # {})]
  IN  IF ~rv.open THEN rv
      ELSE IF seen.contentHead # NoHead /\ seen.contentHead = seen.head
              /\ seen.doneContent = NoHead /\ seen.doneHead \in seen.lineage
        THEN [seen EXCEPT !.doneContent = seen.content]
        ELSE seen

\* The review of a task that is over is not looked at again.
CloseReview == [Opened EXCEPT !.open = FALSE]

-----------------------------------------------------------------------------
\* Rounds.

Unnamed(rd) == rd.status = "failed" /\ ~rd.named

NewRound(trigger, items, before) ==
  [NoRound EXCEPT !.status = "dispatching", !.trigger = trigger, !.items = items, !.before = before]

\* Failed rounds that never had a session give up their number.
WithRound(rv, rd) ==
  [rv EXCEPT !.rounds = [n \in 1 .. MaxRounds |->
                           IF n = Used(rv) + 1 THEN rd
                           ELSE IF Unnamed(rv.rounds[n]) THEN NoRound ELSE rv.rounds[n]],
             !.merge.armed = "no", !.merge.snapshot = Unarmed]

MayAddRound(rv) ==
  rv.open /\ ~HasActive(rv) /\ Used(rv) < MaxRounds /\ ~rv.exhausted /\ ~rv.cooldown

AddRound(rv, trigger, items, before) ==
  LET left == items \ rv.handled
      why == IF left = {} THEN trigger \ {"feedback"} ELSE trigger
  IN  IF MayAddRound(rv) /\ why # {} THEN WithRound(rv, NewRound(why, left, before)) ELSE rv

RoundRunning(rv, n) ==
  IF rv.open /\ rv.rounds[n].status = "dispatching"
    THEN [rv EXCEPT !.rounds[n].status = "running", !.rounds[n].named = TRUE, !.rounds[n].age = 0]
    ELSE rv

FailRound(rv, n) ==
  [rv EXCEPT !.rounds[n] = [@ EXCEPT !.status = "failed", !.reporting = NoOne, !.exit = FALSE,
                                     !.age = 0],
             !.cooldown = TRUE, !.quiet = FALSE]

FailDispatching(rv, n) ==
  IF rv.open /\ rv.rounds[n].status = "dispatching" THEN FailRound(rv, n) ELSE rv

\* A dispatch lost, a session that said it ended, or ran out of time, or whose Job is over.
RoundOver(rd, gone) ==
  \/ rd.status = "dispatching" /\ rd.age >= 1
  \/ rd.status = "running" /\ ~ReportFresh(rd) /\ (rd.exit \/ rd.age >= RoundTimeout \/ gone)

\* There is at most one active round.
ReconcileRounds(rv, gone) ==
  LET over == {n \in 1 .. MaxRounds : RoundOver(rv.rounds[n], n \in gone)}
  IN  IF rv.open /\ over # {} THEN FailRound(rv, CHOOSE n \in over : TRUE) ELSE rv

\* Mutant: a report in progress does not keep a second one out.
BeginRoundReportAnyway(rv, n, guard) ==
  IF rv.open /\ rv.rounds[n].status = "running"
    THEN [rv EXCEPT !.rounds[n].reporting = guard] ELSE rv

BeginRoundReport(rv, n, guard) ==
  IF rv.open /\ rv.rounds[n].status = "running" /\ ~ReportFresh(rv.rounds[n])
    THEN [rv EXCEPT !.rounds[n].reporting = guard] ELSE rv

ClearRoundReport(rv, n, guard) ==
  IF rv.open /\ rv.rounds[n].reporting = guard THEN [rv EXCEPT !.rounds[n].reporting = NoOne] ELSE rv

\* recordRoundResult: the comments answered, the head left, and the question that is open.
Recorded(rv, n, res) ==
  LET rd == rv.rounds[n]
  IN  [rv EXCEPT
        !.handled = @ \cup rd.items,
        !.checksHandled = IF res.head = rd.before /\ "checks" \in rd.trigger THEN rd.before ELSE @,
        !.waiting = res.question \/ (@ /\ rd.items = {}),
        !.head = res.head, !.quiet = IF res.head # rv.head THEN FALSE ELSE @,
        !.rounds[n] = [NoRound EXCEPT !.status = rd.status, !.named = TRUE]]

FinishRound(rv, n, res) ==
  IF rv.open /\ rv.rounds[n].status = "running"
    THEN Recorded([rv EXCEPT !.rounds[n].status = "done", !.quiet = FALSE], n, res)
    ELSE rv

\* What a round posted that was ended before its report landed.
RecordRoundReplies(rv, n, res) ==
  IF rv.open /\ rv.rounds[n].status = "failed" THEN Recorded(rv, n, res) ELSE rv

RoundEnded(rv, n) ==
  IF ~rv.open \/ rv.rounds[n].status # "running" THEN rv
  ELSE IF ReportFresh(rv.rounds[n]) THEN [rv EXCEPT !.rounds[n].exit = TRUE]
  ELSE FailRound(rv, n)

MarkDone(rv, head, content) ==
  IF rv.open /\ rv.head = head /\ rv.doneHead # head
    THEN [rv EXCEPT !.doneHead = head, !.doneContent = content] ELSE rv

Exhaust(rv) == IF rv.open /\ ~HasActive(rv) THEN [rv EXCEPT !.exhausted = TRUE] ELSE rv

-----------------------------------------------------------------------------
\* Auto-merge.

MayMerge(m) == ~m.held /\ ~m.on /\ ~m.withdrawing /\ ~m.merged

\* Mutant: the delay is over as soon as it starts.
ArmMergeAtOnce(rv, snapshot) ==
  IF rv.open /\ MayMerge(rv.merge) /\ ~(rv.merge.snapshot = snapshot /\ rv.merge.armed # "no")
    THEN [rv EXCEPT !.merge.armed = "due", !.merge.snapshot = snapshot] ELSE rv

ArmMerge(rv, snapshot) ==
  IF rv.open /\ MayMerge(rv.merge) /\ ~(rv.merge.snapshot = snapshot /\ rv.merge.armed # "no")
    THEN [rv EXCEPT !.merge.armed = "new", !.merge.snapshot = snapshot] ELSE rv

DisarmMerge(rv) ==
  IF rv.open THEN [rv EXCEPT !.merge.armed = "no", !.merge.snapshot = Unarmed] ELSE rv

ClaimMerge(rv, head, snapshot) ==
  IF /\ rv.open /\ ~HasActive(rv) /\ Done(rv) /\ rv.head = head /\ rv.doneHead = head
     /\ MayMerge(rv.merge) /\ rv.merge.armed # "no" /\ rv.merge.snapshot = snapshot
    THEN [rv EXCEPT !.merge.armed = "no"] ELSE rv

\* since: "due" keeps the delay that passed, "new" starts it over.
MergeWaits(rv, snapshot, since) ==
  IF rv.open /\ rv.merge.snapshot = snapshot THEN [rv EXCEPT !.merge.armed = since] ELSE rv

\* Mutant: the hold of a person stays on record.
MergeOnHeld(rv, content, head, enabled) ==
  IF rv.open /\ ~(rv.merge.on /\ ~rv.merge.withdrawing /\ ~enabled)
    THEN [rv EXCEPT !.merge = [@ EXCEPT !.on = TRUE, !.onContent = content, !.onHead = head,
                                        !.withdrawing = FALSE, !.armed = "no"]]
    ELSE rv

MergeOn(rv, content, head, enabled) ==
  IF rv.open /\ ~(rv.merge.on /\ ~rv.merge.withdrawing /\ ~enabled)
    THEN [rv EXCEPT !.merge = [@ EXCEPT !.on = TRUE, !.onContent = content, !.onHead = head,
                                        !.held = FALSE, !.withdrawing = FALSE, !.armed = "no"]]
    ELSE rv

WithdrawMerge(rv) ==
  IF rv.open THEN [rv EXCEPT !.merge.withdrawing = TRUE, !.merge.held = FALSE] ELSE rv

\* Mutant: who turned it off is not asked.
MergeOffByNobody(rv, person) ==
  IF rv.open THEN [rv EXCEPT !.merge = [NoMerge EXCEPT !.held = rv.merge.held, !.merged = rv.merge.merged]]
  ELSE rv

MergeOff(rv, person) ==
  IF rv.open THEN [rv EXCEPT !.merge = [NoMerge EXCEPT !.held = rv.merge.held \/ person,
                                                       !.merged = rv.merge.merged]]
  ELSE rv

MergedByArbetern(rv) ==
  IF rv.open THEN [rv EXCEPT !.merge.merged = TRUE, !.merge.armed = "no"] ELSE rv

-----------------------------------------------------------------------------
\* Time: the delays and the cooldown pass.
Older(rv) ==
  [rv EXCEPT !.quiet = TRUE, !.cooldown = FALSE,
             !.merge.armed = IF @ = "new" THEN "due" ELSE @,
             !.rounds = [n \in 1 .. MaxRounds |->
               IF ActiveRound(rv, n) /\ rv.rounds[n].age < RoundTimeout
                 THEN [rv.rounds[n] EXCEPT !.reporting = NoOne, !.age = @ + 1]
                 ELSE rv.rounds[n]]]
=============================================================================
