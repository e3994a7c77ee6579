---------------------- MODULE PullRequestFollowProofs ----------------------
(***************************************************************************)
(* Proofs about PullRequestFollow, for every number of ticks, reports,     *)
(* heads, comments, rounds, moves of people and failures.                  *)
(***************************************************************************)
EXTENDS PullRequestFollow, FiniteSetTheorems, TLAPS

LEMMA Numbers ==
  /\ Ticks \subseteq Nat \ {0} /\ Guards \subseteq Nat \ {0}
  /\ NoOne \notin Ticks /\ NoOne \notin Guards /\ NoOne # 0
  /\ MaxHeads \in Nat /\ MaxHeads >= 1 /\ MaxRounds \in Nat /\ MaxRounds >= 1
  /\ RoundTimeout \in Nat /\ RoundTimeout >= 1
  /\ MaxMoves \in Nat /\ MaxFaults \in Nat
BY ReviewAssumption, FollowAssumption

LEMMA Ranges ==
  /\ 1 \in Heads /\ NoHead \in Epochs /\ Heads \subseteq Epochs
  /\ \A h \in Epochs : h \in Nat /\ h <= MaxHeads /\ (h # NoHead => h \in Heads)
  /\ \A h \in Heads : h \in Nat /\ h >= 1
  /\ NoHead = 0
BY Numbers DEF Heads, Epochs, NoHead

-----------------------------------------------------------------------------
\* What the transitions of the review do.

\* A person's hold excludes an auto-merge that is on or going off.
Apart(m) == ~(m.held /\ (m.on \/ m.withdrawing))

ReadKept(v, n) ==
  /\ n.open = v.open /\ n.head = v.head /\ n.content = v.content
  /\ n.contentHead = v.contentHead /\ n.lineage = v.lineage
DoneKept(v, n) == n.doneHead = v.doneHead /\ n.doneContent = v.doneContent
WorkKept(v, n) == n.rounds = v.rounds /\ n.handled = v.handled

(* Only auto-merge changes. *)
MergeWrite(v, n) ==
  /\ n \in Review /\ Apart(n.merge)
  /\ ReadKept(v, n) /\ DoneKept(v, n) /\ WorkKept(v, n) /\ n.quiet = v.quiet

LEMMA MergeWrites ==
  ASSUME NEW v \in Review, NEW m \in MergeState, Apart(m)
  PROVE  MergeWrite(v, [v EXCEPT !.merge = m]) /\ [v EXCEPT !.merge = m].merge = m
BY DEF MergeWrite, ReadKept, DoneKept, WorkKept, Review

LEMMA MergeSame ==
  ASSUME NEW v \in Review, Apart(v.merge)
  PROVE  MergeWrite(v, v)
BY DEF MergeWrite, ReadKept, DoneKept, WorkKept, Review

LEMMA ReviewMerge == \A v \in Review : v.merge \in MergeState
BY DEF Review

LEMMA MergeTypes ==
  /\ Unarmed \in Snapshots /\ NoMerge \in MergeState /\ NoMerge.armed = "no"
  /\ NoMerge.on = FALSE /\ NoMerge.held = FALSE /\ NoMerge.withdrawing = FALSE
BY Ranges DEF Unarmed, Snapshots, NoMerge, MergeState

(* The delay starts, or is as it was. *)
LEMMA ArmMergeDoes ==
  ASSUME NEW v \in Review, Apart(v.merge), NEW s \in Snapshots
  PROVE  LET n == ArmMerge(v, s)
         IN  /\ MergeWrite(v, n)
             /\ \/ n.merge = v.merge
                \/ /\ n.merge.armed = "new" /\ n.merge.snapshot = s
                   /\ n.merge.held = v.merge.held /\ n.merge.on = v.merge.on
                   /\ n.merge.withdrawing = v.merge.withdrawing
<1> DEFINE m == [v.merge EXCEPT !.armed = "new", !.snapshot = s]
<1>1. v.merge \in MergeState
  BY ReviewMerge
<1>2. /\ m \in MergeState /\ m.armed = "new" /\ m.snapshot = s /\ m.held = v.merge.held
      /\ m.on = v.merge.on /\ m.withdrawing = v.merge.withdrawing
  BY <1>1 DEF MergeState
<1>3. [v EXCEPT !.merge.armed = "new", !.merge.snapshot = s] = [v EXCEPT !.merge = m]
  BY <1>1 DEF Review, MergeState
<1> HIDE DEF m
<1>4. ArmMerge(v, s) = v \/ ArmMerge(v, s) = [v EXCEPT !.merge = m]
  BY <1>3 DEF ArmMerge
<1> QED BY <1>2, <1>4, MergeWrites, MergeSame DEF Apart

(* The delay is over or starts again, is called off, or its claim is made. *)
LEMMA ArmedWrites ==
  ASSUME NEW v \in Review, Apart(v.merge), NEW a \in {"no", "new", "due"}
  PROVE  LET n == [v EXCEPT !.merge.armed = a]
         IN  /\ MergeWrite(v, n) /\ n.merge.armed = a /\ n.merge.snapshot = v.merge.snapshot
             /\ n.merge.held = v.merge.held /\ n.merge.on = v.merge.on
             /\ n.merge.withdrawing = v.merge.withdrawing
<1> DEFINE m == [v.merge EXCEPT !.armed = a]
<1>1. v.merge \in MergeState
  BY ReviewMerge
<1>2. /\ m \in MergeState /\ m.armed = a /\ m.snapshot = v.merge.snapshot
      /\ m.held = v.merge.held /\ m.on = v.merge.on /\ m.withdrawing = v.merge.withdrawing
  BY <1>1 DEF MergeState
<1>3. [v EXCEPT !.merge.armed = a] = [v EXCEPT !.merge = m]
  BY <1>1 DEF Review, MergeState
<1> HIDE DEF m
<1> QED BY <1>2, <1>3, MergeWrites DEF Apart

LEMMA DisarmMergeDoes ==
  ASSUME NEW v \in Review, Apart(v.merge)
  PROVE  LET n == DisarmMerge(v)
         IN  /\ MergeWrite(v, n)
             /\ n.merge.held = v.merge.held /\ n.merge.on = v.merge.on
             /\ n.merge.withdrawing = v.merge.withdrawing
             /\ n.merge = v.merge \/ (n.merge.armed = "no" /\ n.merge.snapshot = Unarmed)
<1> DEFINE m == [v.merge EXCEPT !.armed = "no", !.snapshot = Unarmed]
<1>1. v.merge \in MergeState
  BY ReviewMerge
<1>2. /\ m \in MergeState /\ m.armed = "no" /\ m.snapshot = Unarmed /\ m.held = v.merge.held
      /\ m.on = v.merge.on /\ m.withdrawing = v.merge.withdrawing
  BY <1>1, MergeTypes DEF MergeState
<1>3. [v EXCEPT !.merge.armed = "no", !.merge.snapshot = Unarmed] = [v EXCEPT !.merge = m]
  BY <1>1 DEF Review, MergeState
<1> HIDE DEF m
<1>4. DisarmMerge(v) = v \/ DisarmMerge(v) = [v EXCEPT !.merge = m]
  BY <1>3 DEF DisarmMerge
<1> QED BY <1>2, <1>4, MergeWrites, MergeSame DEF Apart

LEMMA ClaimMergeDoes ==
  ASSUME NEW v \in Review, Apart(v.merge), NEW h, NEW s
  PROVE  LET n == ClaimMerge(v, h, s)
         IN  /\ MergeWrite(v, n)
             /\ n.merge.held = v.merge.held /\ n.merge.on = v.merge.on
             /\ n.merge.withdrawing = v.merge.withdrawing
             /\ n = v \/ (/\ n.merge.armed = "no" /\ n.merge.snapshot = v.merge.snapshot
                          /\ v.open /\ ~HasActive(v) /\ MayMerge(v.merge))
<1>1. \/ ClaimMerge(v, h, s) = v
      \/ /\ ClaimMerge(v, h, s) = [v EXCEPT !.merge.armed = "no"]
         /\ v.open /\ ~HasActive(v) /\ MayMerge(v.merge)
  BY DEF ClaimMerge
<1>2. CASE ClaimMerge(v, h, s) = v
  BY <1>2, MergeSame
<1>3. CASE ClaimMerge(v, h, s) # v
  <2> DEFINE n == [v EXCEPT !.merge.armed = "no"]
  <2>1. /\ MergeWrite(v, n) /\ n.merge.armed = "no" /\ n.merge.snapshot = v.merge.snapshot
        /\ n.merge.held = v.merge.held /\ n.merge.on = v.merge.on
        /\ n.merge.withdrawing = v.merge.withdrawing
    BY ArmedWrites
  <2> HIDE DEF n
  <2>2. ClaimMerge(v, h, s) = n /\ v.open /\ ~HasActive(v) /\ MayMerge(v.merge)
    BY <1>1, <1>3 DEF n
  <2> QED BY <2>1, <2>2
<1> QED BY <1>2, <1>3

LEMMA MergeWaitsDoes ==
  ASSUME NEW v \in Review, Apart(v.merge), NEW s, NEW a \in {"new", "due"}
  PROVE  LET n == MergeWaits(v, s, a)
         IN  /\ MergeWrite(v, n)
             /\ n.merge.held = v.merge.held /\ n.merge.on = v.merge.on
             /\ n.merge.withdrawing = v.merge.withdrawing /\ n.merge.snapshot = v.merge.snapshot
             /\ n.merge.armed = v.merge.armed \/ (n.merge.armed = a /\ v.merge.snapshot = s)
<1>1. \/ MergeWaits(v, s, a) = v
      \/ MergeWaits(v, s, a) = [v EXCEPT !.merge.armed = a] /\ v.merge.snapshot = s
  BY DEF MergeWaits
<1>2. CASE MergeWaits(v, s, a) = v
  BY <1>2, MergeSame
<1>3. CASE MergeWaits(v, s, a) # v
  <2> DEFINE n == [v EXCEPT !.merge.armed = a]
  <2>1. /\ MergeWrite(v, n) /\ n.merge.armed = a /\ n.merge.snapshot = v.merge.snapshot
        /\ n.merge.held = v.merge.held /\ n.merge.on = v.merge.on
        /\ n.merge.withdrawing = v.merge.withdrawing
    <3>1. a \in {"no", "new", "due"}
      OBVIOUS
    <3> QED BY <3>1, ArmedWrites
  <2> HIDE DEF n
  <2>2. MergeWaits(v, s, a) = n /\ v.merge.snapshot = s
    BY <1>1, <1>3 DEF n
  <2> QED BY <2>1, <2>2
<1> QED BY <1>2, <1>3

LEMMA MergeOnDoes ==
  ASSUME NEW v \in Review, Apart(v.merge), NEW c \in Epochs, NEW h \in Epochs, NEW e \in BOOLEAN
  PROVE  LET n == MergeOn(v, c, h, e)
         IN  /\ MergeWrite(v, n)
             /\ n.merge = v.merge \/ (n.merge.armed = "no" /\ n.merge.snapshot = v.merge.snapshot)
<1> DEFINE m == [v.merge EXCEPT !.on = TRUE, !.onContent = c, !.onHead = h, !.held = FALSE,
                               !.withdrawing = FALSE, !.armed = "no"]
<1>1. v.merge \in MergeState
  BY ReviewMerge
<1>2. /\ m \in MergeState /\ m.armed = "no" /\ m.snapshot = v.merge.snapshot /\ m.held = FALSE
  BY <1>1 DEF MergeState
<1>3. MergeOn(v, c, h, e) = v \/ MergeOn(v, c, h, e) = [v EXCEPT !.merge = m]
  BY DEF MergeOn
<1> HIDE DEF m
<1> QED BY <1>2, <1>3, MergeWrites, MergeSame DEF Apart

LEMMA WithdrawMergeDoes ==
  ASSUME NEW v \in Review, Apart(v.merge)
  PROVE  LET n == WithdrawMerge(v)
         IN  /\ MergeWrite(v, n)
             /\ n.merge.armed = v.merge.armed /\ n.merge.snapshot = v.merge.snapshot
<1> DEFINE m == [v.merge EXCEPT !.withdrawing = TRUE, !.held = FALSE]
<1>1. v.merge \in MergeState
  BY ReviewMerge
<1>2. /\ m \in MergeState /\ m.armed = v.merge.armed /\ m.snapshot = v.merge.snapshot
      /\ m.held = FALSE
  BY <1>1 DEF MergeState
<1>3. [v EXCEPT !.merge.withdrawing = TRUE, !.merge.held = FALSE] = [v EXCEPT !.merge = m]
  BY <1>1 DEF Review, MergeState
<1> HIDE DEF m
<1>4. WithdrawMerge(v) = v \/ WithdrawMerge(v) = [v EXCEPT !.merge = m]
  BY <1>3 DEF WithdrawMerge
<1> QED BY <1>2, <1>4, MergeWrites, MergeSame DEF Apart

LEMMA MergeOffDoes ==
  ASSUME NEW v \in Review, Apart(v.merge), NEW p \in BOOLEAN
  PROVE  LET n == MergeOff(v, p)
         IN  /\ MergeWrite(v, n)
             /\ n.merge = v.merge \/ (n.merge.armed = "no" /\ n.merge.snapshot = Unarmed)
             /\ v.open => /\ n.merge.on = FALSE /\ n.merge.withdrawing = FALSE
                          /\ n.merge.held = (v.merge.held \/ p)
<1> DEFINE m == [NoMerge EXCEPT !.held = v.merge.held \/ p, !.merged = v.merge.merged]
<1>1. v.merge \in MergeState
  BY ReviewMerge
<1>2. v.merge.held \in BOOLEAN /\ v.merge.merged \in BOOLEAN /\ (v.merge.held \/ p) \in BOOLEAN
  BY <1>1 DEF MergeState
<1>3. /\ m \in MergeState /\ m.armed = "no" /\ m.snapshot = Unarmed /\ m.on = FALSE
      /\ m.withdrawing = FALSE /\ m.held = (v.merge.held \/ p)
  BY <1>2, MergeTypes DEF MergeState, NoMerge
<1>4. IF v.open THEN MergeOff(v, p) = [v EXCEPT !.merge = m] ELSE MergeOff(v, p) = v
  BY DEF MergeOff
<1> HIDE DEF m
<1> QED BY <1>3, <1>4, MergeWrites, MergeSame DEF Apart

LEMMA MergedDoes ==
  ASSUME NEW v \in Review, Apart(v.merge)
  PROVE  LET n == MergedByArbetern(v)
         IN  /\ MergeWrite(v, n)
             /\ n.merge.held = v.merge.held /\ n.merge.on = v.merge.on
             /\ n.merge.withdrawing = v.merge.withdrawing /\ n.merge.snapshot = v.merge.snapshot
             /\ n.merge.armed \in {v.merge.armed, "no"}
<1> DEFINE m == [v.merge EXCEPT !.merged = TRUE, !.armed = "no"]
<1>1. v.merge \in MergeState
  BY ReviewMerge
<1>2. /\ m \in MergeState /\ m.armed = "no" /\ m.snapshot = v.merge.snapshot
      /\ m.held = v.merge.held /\ m.on = v.merge.on /\ m.withdrawing = v.merge.withdrawing
  BY <1>1 DEF MergeState
<1>3. [v EXCEPT !.merge.merged = TRUE, !.merge.armed = "no"] = [v EXCEPT !.merge = m]
  BY <1>1 DEF Review, MergeState
<1> HIDE DEF m
<1>4. MergedByArbetern(v) = v \/ MergedByArbetern(v) = [v EXCEPT !.merge = m]
  BY <1>3 DEF MergedByArbetern
<1> QED BY <1>2, <1>4, MergeWrites, MergeSame DEF Apart

-----------------------------------------------------------------------------
(* Rounds. *)

\* Nothing but the rounds, their delays and the auto-merge delay changes.
RoundWrite(v, n) ==
  /\ n \in Review /\ n.open = v.open /\ n.content = v.content /\ n.contentHead = v.contentHead
  /\ n.lineage = v.lineage /\ DoneKept(v, n)

\* No round begins, a report in progress keeps its round, and no comment becomes handled.
RoundsKept(v, n) ==
  /\ n.open = v.open /\ n.handled = v.handled
  /\ \A k \in 1 .. MaxRounds :
       /\ ActiveRound(n, k) => ActiveRound(v, k) /\ n.rounds[k].items = v.rounds[k].items
       /\ v.rounds[k].status = "running" /\ v.rounds[k].reporting # NoOne =>
            /\ n.rounds[k].status = "running" /\ n.rounds[k].reporting = v.rounds[k].reporting
            /\ n.rounds[k].items = v.rounds[k].items

LEMMA WorkKeeps ==
  ASSUME NEW v, NEW n, WorkKept(v, n), n.open = v.open
  PROVE  RoundsKept(v, n)
BY DEF WorkKept, RoundsKept, ActiveRound

\* One round is written.
LEMMA OneRoundWrites ==
  ASSUME NEW v \in Review, NEW k \in 1 .. MaxRounds, NEW rd \in Round
  PROVE  LET n == [v EXCEPT !.rounds[k] = rd]
         IN  /\ RoundWrite(v, n) /\ n.rounds[k] = rd
             /\ \A j \in 1 .. MaxRounds : j # k => n.rounds[j] = v.rounds[j]
             /\ n.handled = v.handled /\ n.merge = v.merge /\ n.head = v.head /\ n.quiet = v.quiet
BY DEF RoundWrite, DoneKept, Review

LEMMA FailRoundDoes ==
  ASSUME NEW v \in Review, NEW k \in 1 .. MaxRounds
  PROVE  LET n == FailRound(v, k)
         IN  /\ RoundWrite(v, n) /\ n.rounds[k].status = "failed"
             /\ \A j \in 1 .. MaxRounds : j # k => n.rounds[j] = v.rounds[j]
             /\ n.handled = v.handled /\ n.merge = v.merge /\ n.head = v.head /\ n.quiet = FALSE
<1> DEFINE rd == [v.rounds[k] EXCEPT !.status = "failed", !.reporting = NoOne, !.exit = FALSE,
                                     !.age = 0]
           u == [v EXCEPT !.cooldown = TRUE, !.quiet = FALSE]
<1>1. v.rounds[k] \in Round
  BY DEF Review
<1>2. rd \in Round /\ rd.status = "failed"
  <2>1. 0 \in 0 .. RoundTimeout /\ NoOne \in Guards \cup {NoOne}
    BY Numbers
  <2> QED BY <1>1, <2>1 DEF Round
<1>3. /\ u \in Review /\ RoundWrite(v, u) /\ u.rounds = v.rounds /\ u.handled = v.handled
      /\ u.merge = v.merge /\ u.head = v.head /\ u.quiet = FALSE
  BY DEF Review, RoundWrite, DoneKept
<1>4. FailRound(v, k) = [u EXCEPT !.rounds[k] = rd]
  BY DEF FailRound, Review
<1> HIDE DEF rd, u
<1> QED BY <1>2, <1>3, <1>4, OneRoundWrites DEF RoundWrite, DoneKept

\* A round goes on, or ends before its report: nothing else but the delays changes.
RoundStep(v, n) ==
  /\ RoundWrite(v, n) /\ RoundsKept(v, n)
  /\ n.merge = v.merge /\ n.head = v.head /\ (n.quiet => v.quiet)

LEMMA RoundStepSame ==
  ASSUME NEW v \in Review
  PROVE  RoundStep(v, v)
BY DEF RoundStep, RoundWrite, RoundsKept, DoneKept, ActiveRound

LEMMA FailRoundKeeps ==
  ASSUME NEW v \in Review, NEW k \in 1 .. MaxRounds,
         ~(v.rounds[k].status = "running" /\ v.rounds[k].reporting # NoOne)
  PROVE  RoundStep(v, FailRound(v, k))
<1> DEFINE n == FailRound(v, k)
<1>1. /\ RoundWrite(v, n) /\ n.rounds[k].status = "failed"
      /\ \A j \in 1 .. MaxRounds : j # k => n.rounds[j] = v.rounds[j]
      /\ n.handled = v.handled /\ n.merge = v.merge /\ n.head = v.head /\ n.quiet = FALSE
  BY FailRoundDoes
<1> HIDE DEF n
<1>2. n.open = v.open
  BY <1>1 DEF RoundWrite
<1>3. RoundsKept(v, n)
  BY <1>1, <1>2 DEF RoundsKept, ActiveRound
<1> QED BY <1>1, <1>3 DEF RoundStep, n

LEMMA ReconcileDoes ==
  ASSUME NEW v \in Review, NEW gone
  PROVE  RoundStep(v, ReconcileRounds(v, gone))
<1> DEFINE over == {k \in 1 .. MaxRounds : RoundOver(v.rounds[k], k \in gone)}
<1>1. CASE v.open /\ over # {}
  <2> DEFINE k == CHOOSE k \in over : TRUE
  <2>1. k \in over
    BY <1>1
  <2>2. k \in 1 .. MaxRounds /\ RoundOver(v.rounds[k], k \in gone)
    BY <2>1
  <2>3. ReconcileRounds(v, gone) = FailRound(v, k)
    BY <1>1 DEF ReconcileRounds
  <2> HIDE DEF k
  <2>4. ~(v.rounds[k].status = "running" /\ v.rounds[k].reporting # NoOne)
    BY <2>2 DEF RoundOver, ReportFresh
  <2> QED BY <2>2, <2>3, <2>4, FailRoundKeeps
<1>2. CASE ~(v.open /\ over # {})
  BY <1>2, RoundStepSame DEF ReconcileRounds
<1> QED BY <1>1, <1>2

LEMMA FailDispatchingDoes ==
  ASSUME NEW v \in Review, NEW k \in 1 .. MaxRounds
  PROVE  RoundStep(v, FailDispatching(v, k))
BY FailRoundKeeps, RoundStepSame DEF FailDispatching

LEMMA RoundRunningDoes ==
  ASSUME NEW v \in Review, NEW k \in 1 .. MaxRounds
  PROVE  RoundStep(v, RoundRunning(v, k))
<1> DEFINE rd == [v.rounds[k] EXCEPT !.status = "running", !.named = TRUE, !.age = 0]
           n == [v EXCEPT !.rounds[k] = rd]
<1>1. v.rounds[k] \in Round
  BY DEF Review
<1>2. rd \in Round /\ rd.status = "running" /\ rd.items = v.rounds[k].items
  <2>1. 0 \in 0 .. RoundTimeout
    BY Numbers
  <2> QED BY <1>1, <2>1 DEF Round
<1>3. CASE v.open /\ v.rounds[k].status = "dispatching"
  <2>1. RoundRunning(v, k) = n
    BY <1>3 DEF RoundRunning, Review
  <2> HIDE DEF rd
  <2>2. /\ RoundWrite(v, n) /\ n.rounds[k] = rd
        /\ \A j \in 1 .. MaxRounds : j # k => n.rounds[j] = v.rounds[j]
        /\ n.handled = v.handled /\ n.merge = v.merge /\ n.head = v.head /\ n.quiet = v.quiet
    BY <1>2, OneRoundWrites
  <2> HIDE DEF n
  <2>3. n.open = v.open
    BY <2>2 DEF RoundWrite
  <2>4. RoundsKept(v, n)
    BY <1>2, <1>3, <2>2, <2>3 DEF RoundsKept, ActiveRound
  <2> QED BY <2>1, <2>2, <2>4 DEF RoundStep
<1>4. CASE ~(v.open /\ v.rounds[k].status = "dispatching")
  BY <1>4, RoundStepSame DEF RoundRunning
<1> QED BY <1>3, <1>4

LEMMA RoundEndedDoes ==
  ASSUME NEW v \in Review, NEW k \in 1 .. MaxRounds
  PROVE  RoundStep(v, RoundEnded(v, k))
<1> DEFINE rd == [v.rounds[k] EXCEPT !.exit = TRUE]
           n == [v EXCEPT !.rounds[k] = rd]
<1>1. v.rounds[k] \in Round
  BY DEF Review
<1>2. /\ rd \in Round /\ rd.status = v.rounds[k].status /\ rd.items = v.rounds[k].items
      /\ rd.reporting = v.rounds[k].reporting
  BY <1>1 DEF Round
<1>3. CASE ~v.open \/ v.rounds[k].status # "running"
  BY <1>3, RoundStepSame DEF RoundEnded
<1>4. CASE v.open /\ v.rounds[k].status = "running" /\ ~ReportFresh(v.rounds[k])
  <2>1. RoundEnded(v, k) = FailRound(v, k)
    BY <1>4 DEF RoundEnded
  <2> QED BY <1>4, <2>1, FailRoundKeeps DEF ReportFresh
<1>5. CASE v.open /\ v.rounds[k].status = "running" /\ ReportFresh(v.rounds[k])
  <2>1. RoundEnded(v, k) = n
    BY <1>5 DEF RoundEnded, Review
  <2> HIDE DEF rd
  <2>2. /\ RoundWrite(v, n) /\ n.rounds[k] = rd
        /\ \A j \in 1 .. MaxRounds : j # k => n.rounds[j] = v.rounds[j]
        /\ n.handled = v.handled /\ n.merge = v.merge /\ n.head = v.head /\ n.quiet = v.quiet
    BY <1>2, OneRoundWrites
  <2> HIDE DEF n
  <2>3. n.open = v.open
    BY <2>2 DEF RoundWrite
  <2>4. RoundsKept(v, n)
    BY <1>2, <2>2, <2>3 DEF RoundsKept, ActiveRound
  <2> QED BY <2>1, <2>2, <2>4 DEF RoundStep
<1> QED BY <1>3, <1>4, <1>5

\* A report in progress is entered or cleared: the round keeps what it is about.
LEMMA ReportingWrites ==
  ASSUME NEW v \in Review, NEW k \in 1 .. MaxRounds, NEW g \in Guards \cup {NoOne}
  PROVE  LET n == [v EXCEPT !.rounds[k].reporting = g]
         IN  /\ RoundWrite(v, n) /\ n.merge = v.merge /\ n.head = v.head /\ n.quiet = v.quiet
             /\ n.handled = v.handled /\ n.rounds[k].reporting = g
             /\ n.rounds[k].status = v.rounds[k].status /\ n.rounds[k].items = v.rounds[k].items
             /\ \A j \in 1 .. MaxRounds : j # k => n.rounds[j] = v.rounds[j]
<1> DEFINE rd == [v.rounds[k] EXCEPT !.reporting = g]
           n == [v EXCEPT !.rounds[k] = rd]
<1>1. v.rounds[k] \in Round
  BY DEF Review
<1>2. /\ rd \in Round /\ rd.status = v.rounds[k].status /\ rd.items = v.rounds[k].items
      /\ rd.reporting = g
  BY <1>1 DEF Round
<1>3. [v EXCEPT !.rounds[k].reporting = g] = n
  BY DEF Review
<1> HIDE DEF rd
<1>4. /\ RoundWrite(v, n) /\ n.rounds[k] = rd
      /\ \A j \in 1 .. MaxRounds : j # k => n.rounds[j] = v.rounds[j]
      /\ n.handled = v.handled /\ n.merge = v.merge /\ n.head = v.head /\ n.quiet = v.quiet
  BY <1>2, OneRoundWrites
<1> HIDE DEF n
<1> QED BY <1>2, <1>3, <1>4

\* The outcome of round k is recorded: it is over, and its comments are handled.
RoundRecord(v, n, k, res) ==
  /\ RoundWrite(v, n) /\ n.merge = v.merge /\ n.head = res.head
  /\ (n.quiet => v.quiet /\ n.head = v.head)
  /\ ~ActiveRound(n, k) /\ \A j \in 1 .. MaxRounds : j # k => n.rounds[j] = v.rounds[j]
  /\ n.handled = v.handled \cup v.rounds[k].items

LEMMA RecordedDoes ==
  ASSUME NEW v \in Review, NEW k \in 1 .. MaxRounds, ~ActiveRound(v, k),
         NEW res \in [head: Epochs, question: BOOLEAN]
  PROVE  RoundRecord(v, Recorded(v, k, res), k, res)
<1> DEFINE rd == v.rounds[k]
           last == [NoRound EXCEPT !.status = rd.status, !.named = TRUE]
           u == [v EXCEPT !.handled = @ \cup rd.items,
                          !.checksHandled = IF res.head = rd.before /\ "checks" \in rd.trigger
                                              THEN rd.before ELSE @,
                          !.waiting = res.question \/ (@ /\ rd.items = {}),
                          !.head = res.head, !.quiet = IF res.head # v.head THEN FALSE ELSE @]
           n == [u EXCEPT !.rounds[k] = last]
<1>1. /\ rd \in Round /\ rd.status = v.rounds[k].status /\ rd.items \subseteq Comments
      /\ rd.before \in Epochs /\ rd.status \in {"none", "dispatching", "running", "done", "failed"}
  BY DEF Review, Round
<1>2. last \in Round /\ last.status = rd.status
  <2>1. 0 \in 0 .. RoundTimeout /\ NoHead \in Epochs
    BY Numbers, Ranges
  <2> QED BY <1>1, <2>1 DEF Round, NoRound
<1>3. /\ v.handled \subseteq Comments /\ v.checksHandled \in Epochs /\ v.quiet \in BOOLEAN
      /\ v.waiting \in BOOLEAN
  BY DEF Review
<1>4. Recorded(v, k, res) = n
  BY DEF Recorded, Review
<1> HIDE DEF rd, last
<1>5. /\ u \in Review /\ RoundWrite(v, u) /\ u.rounds = v.rounds /\ u.merge = v.merge
      /\ u.head = res.head /\ u.handled = v.handled \cup rd.items
      /\ (u.quiet => v.quiet /\ u.head = v.head)
  <2>1. (IF res.head = rd.before /\ "checks" \in rd.trigger THEN rd.before ELSE v.checksHandled) \in Epochs
    BY <1>1, <1>3
  <2>2. (IF res.head # v.head THEN FALSE ELSE v.quiet) \in BOOLEAN
    BY <1>3
  <2>3. (res.question \/ (v.waiting /\ rd.items = {})) \in BOOLEAN
    BY <1>3
  <2>4. u \in Review
    BY <1>1, <1>3, <2>1, <2>2, <2>3 DEF Review
  <2>5. /\ RoundWrite(v, u) /\ u.rounds = v.rounds /\ u.merge = v.merge
        /\ u.head = res.head /\ u.handled = v.handled \cup rd.items
    <3>1. /\ u.open = v.open /\ u.content = v.content /\ u.contentHead = v.contentHead
          /\ u.lineage = v.lineage /\ u.doneHead = v.doneHead /\ u.doneContent = v.doneContent
      BY DEF Review
    <3>2. u.rounds = v.rounds /\ u.merge = v.merge
      BY DEF Review
    <3>3. u.head = res.head
      BY DEF Review
    <3>4. u.handled = v.handled \cup rd.items
      BY DEF Review
    <3> HIDE DEF u
    <3> QED BY <2>4, <3>1, <3>2, <3>3, <3>4 DEF RoundWrite, DoneKept
  <2>6. u.quiet = IF res.head # v.head THEN FALSE ELSE v.quiet
    BY DEF Review
  <2>7. u.quiet => v.quiet /\ u.head = v.head
    BY <2>5, <2>6
  <2> QED BY <2>4, <2>5, <2>7
<1> HIDE DEF u
<1>6. /\ RoundWrite(u, n) /\ n.rounds[k] = last
      /\ \A j \in 1 .. MaxRounds : j # k => n.rounds[j] = u.rounds[j]
      /\ n.handled = u.handled /\ n.merge = u.merge /\ n.head = u.head /\ n.quiet = u.quiet
  BY <1>2, <1>5, OneRoundWrites
<1>7. RoundWrite(v, n)
  BY <1>5, <1>6 DEF RoundWrite, DoneKept
<1>8. ~ActiveRound(n, k)
  BY <1>1, <1>2, <1>6 DEF ActiveRound
<1> HIDE DEF n
<1> QED BY <1>1, <1>4, <1>5, <1>6, <1>7, <1>8 DEF RoundRecord, rd

LEMMA FinishRoundDoes ==
  ASSUME NEW v \in Review, NEW k \in 1 .. MaxRounds, NEW res \in [head: Epochs, question: BOOLEAN]
  PROVE  LET n == FinishRound(v, k, res)
         IN  \/ n = v /\ ~(v.open /\ v.rounds[k].status = "running")
             \/ v.open /\ v.rounds[k].status = "running" /\ RoundRecord(v, n, k, res) /\ ~n.quiet
<1>1. CASE ~(v.open /\ v.rounds[k].status = "running")
  BY <1>1 DEF FinishRound
<1>2. CASE v.open /\ v.rounds[k].status = "running"
  <2> DEFINE rd == [v.rounds[k] EXCEPT !.status = "done"]
             q == [v EXCEPT !.quiet = FALSE]
             u == [q EXCEPT !.rounds[k] = rd]
             n == Recorded(u, k, res)
  <2>1. v.rounds[k] \in Round
    BY DEF Review
  <2>2. rd \in Round /\ rd.status = "done" /\ rd.items = v.rounds[k].items
    BY <2>1 DEF Round
  <2>3. /\ q \in Review /\ RoundWrite(v, q) /\ q.rounds = v.rounds /\ q.merge = v.merge
        /\ q.head = v.head /\ q.handled = v.handled /\ q.quiet = FALSE
    BY DEF Review, RoundWrite, DoneKept
  <2>4. FinishRound(v, k, res) = n
    BY <1>2 DEF FinishRound, Review
  <2> HIDE DEF rd, q
  <2>5. /\ RoundWrite(q, u) /\ u.rounds[k] = rd
        /\ \A j \in 1 .. MaxRounds : j # k => u.rounds[j] = q.rounds[j]
        /\ u.handled = q.handled /\ u.merge = q.merge /\ u.head = q.head /\ u.quiet = q.quiet
    BY <2>2, <2>3, OneRoundWrites
  <2>6. u \in Review /\ ~ActiveRound(u, k)
    BY <2>2, <2>5 DEF RoundWrite, ActiveRound
  <2> HIDE DEF u
  <2>7. RoundRecord(u, n, k, res)
    BY <2>6, RecordedDoes
  <2> HIDE DEF n
  <2>8. RoundWrite(v, n)
    BY <2>3, <2>5, <2>7 DEF RoundRecord, RoundWrite, DoneKept
  <2>9. RoundRecord(v, n, k, res) /\ ~n.quiet
    BY <2>2, <2>3, <2>5, <2>7, <2>8 DEF RoundRecord
  <2> QED BY <1>2, <2>4, <2>9
<1> QED BY <1>1, <1>2

LEMMA RecordRepliesDoes ==
  ASSUME NEW v \in Review, NEW k \in 1 .. MaxRounds, NEW res \in [head: Epochs, question: BOOLEAN]
  PROVE  LET n == RecordRoundReplies(v, k, res)
         IN  \/ n = v
             \/ v.open /\ v.rounds[k].status = "failed" /\ RoundRecord(v, n, k, res)
<1>1. CASE v.open /\ v.rounds[k].status = "failed"
  <2>1. ~ActiveRound(v, k)
    BY <1>1 DEF ActiveRound
  <2> QED BY <1>1, <2>1, RecordedDoes DEF RecordRoundReplies
<1>2. CASE ~(v.open /\ v.rounds[k].status = "failed")
  BY <1>2 DEF RecordRoundReplies
<1> QED BY <1>1, <1>2

\* A round begins: the auto-merge delay is called off, and nothing else changes.
RoundBegins(v, n, items) ==
  /\ RoundWrite(v, n) /\ v.open /\ ~HasActive(v) /\ n.head = v.head /\ n.quiet = v.quiet
  /\ n.handled = v.handled
  /\ n.merge.armed = "no" /\ n.merge.snapshot = Unarmed /\ n.merge.held = v.merge.held
  /\ n.merge.on = v.merge.on /\ n.merge.withdrawing = v.merge.withdrawing
  /\ \E k \in 1 .. MaxRounds :
       /\ n.rounds[k].status = "dispatching" /\ n.rounds[k].items = items \ v.handled
       /\ \A j \in 1 .. MaxRounds : j # k => ~ActiveRound(n, j)

LEMMA AddRoundDoes ==
  ASSUME NEW v \in Review, NEW why \in SUBSET {"feedback", "checks"}, NEW items \in SUBSET Comments,
         NEW h \in Epochs
  PROVE  LET n == AddRound(v, why, items, h) IN n = v \/ RoundBegins(v, n, items)
<1> DEFINE left == items \ v.handled
           due == IF left = {} THEN why \ {"feedback"} ELSE why
           rd == NewRound(due, left, h)
           k == Used(v) + 1
           rounds == [j \in 1 .. MaxRounds |->
                        IF j = k THEN rd ELSE IF Unnamed(v.rounds[j]) THEN NoRound ELSE v.rounds[j]]
           m == [v.merge EXCEPT !.armed = "no", !.snapshot = Unarmed]
           n == [v EXCEPT !.rounds = rounds, !.merge = m]
<1>1. CASE ~(MayAddRound(v) /\ due # {})
  BY <1>1 DEF AddRound
<1>2. CASE MayAddRound(v) /\ due # {}
  <2>1. AddRound(v, why, items, h) = n
    <3>1. AddRound(v, why, items, h) = WithRound(v, rd)
      BY <1>2 DEF AddRound
    <3>2. WithRound(v, rd) = n
      BY DEF WithRound, Review, MergeState
    <3> QED BY <3>1, <3>2
  <2>2. rd \in Round /\ NoRound \in Round /\ rd.status = "dispatching" /\ rd.items = left
    <3>1. 0 \in 0 .. RoundTimeout /\ NoHead \in Epochs /\ due \in SUBSET {"feedback", "checks"}
      BY Numbers, Ranges
    <3>2. left \subseteq Comments
      OBVIOUS
    <3> HIDE DEF left, due
    <3> QED BY <3>1, <3>2 DEF NewRound, NoRound, Round
  <2>3. v.rounds \in [1 .. MaxRounds -> Round] /\ v.merge \in MergeState
    BY DEF Review
  <2>4. /\ m \in MergeState /\ m.armed = "no" /\ m.snapshot = Unarmed /\ m.held = v.merge.held
        /\ m.on = v.merge.on /\ m.withdrawing = v.merge.withdrawing
    BY <2>3, MergeTypes DEF MergeState
  <2>5. k \in 1 .. MaxRounds
    <3>1. Used(v) \in Nat
      <4> DEFINE S == {j \in 1 .. MaxRounds : v.rounds[j].named}
      <4>1. IsFiniteSet(1 .. MaxRounds)
        BY Numbers, FS_Interval
      <4>2. IsFiniteSet(S)
        BY <4>1, FS_Subset
      <4>3. Cardinality(S) \in Nat
        BY <4>2, FS_CardinalityType
      <4> QED BY <4>3 DEF Used
    <3> QED BY <1>2, <3>1, Numbers DEF MayAddRound
  <2> HIDE DEF rd, m, k
  <2>6. /\ rounds \in [1 .. MaxRounds -> Round] /\ rounds[k] = rd
        /\ \A j \in 1 .. MaxRounds : j # k => rounds[j] \in {NoRound, v.rounds[j]}
    BY <2>2, <2>3, <2>5
  <2> HIDE DEF rounds
  <2>7. /\ n \in Review /\ RoundWrite(v, n) /\ n.rounds = rounds /\ n.merge = m
        /\ n.head = v.head /\ n.quiet = v.quiet /\ n.handled = v.handled
    BY <2>4, <2>6 DEF Review, RoundWrite, DoneKept
  <2> HIDE DEF n
  <2>8. v.open /\ ~HasActive(v)
    BY <1>2 DEF MayAddRound
  <2>9. \A j \in 1 .. MaxRounds : j # k => ~ActiveRound(n, j)
    BY <2>6, <2>7, <2>8 DEF HasActive, ActiveRound, NoRound
  <2> QED BY <2>1, <2>2, <2>4, <2>5, <2>6, <2>7, <2>8, <2>9 DEF RoundBegins
<1> QED BY <1>1, <1>2

\* Time passes: active rounds and the delay grow older, and a due delay stays due.
LEMMA OlderDoes ==
  ASSUME NEW v \in Review
  PROVE  LET n == Older(v)
         IN  /\ RoundWrite(v, n) /\ n.head = v.head /\ n.handled = v.handled
             /\ n.merge.snapshot = v.merge.snapshot /\ n.merge.held = v.merge.held
             /\ n.merge.on = v.merge.on /\ n.merge.withdrawing = v.merge.withdrawing
             /\ \A k \in 1 .. MaxRounds : /\ n.rounds[k].status = v.rounds[k].status
                                          /\ n.rounds[k].items = v.rounds[k].items
<1> DEFINE m == [v.merge EXCEPT !.armed = IF v.merge.armed = "new" THEN "due" ELSE @]
           rounds == [k \in 1 .. MaxRounds |->
                        IF ActiveRound(v, k) /\ v.rounds[k].age < RoundTimeout
                          THEN [v.rounds[k] EXCEPT !.reporting = NoOne, !.age = @ + 1]
                          ELSE v.rounds[k]]
           n == [v EXCEPT !.quiet = TRUE, !.cooldown = FALSE, !.merge = m, !.rounds = rounds]
<1>1. v.merge \in MergeState /\ v.rounds \in [1 .. MaxRounds -> Round]
  BY DEF Review
<1>2. Older(v) = n
  BY <1>1 DEF Older, Review, MergeState
<1>3. /\ m \in MergeState /\ m.snapshot = v.merge.snapshot /\ m.held = v.merge.held
      /\ m.on = v.merge.on /\ m.withdrawing = v.merge.withdrawing
  BY <1>1 DEF MergeState
<1>4. ASSUME NEW k \in 1 .. MaxRounds
      PROVE  /\ rounds[k] \in Round /\ rounds[k].status = v.rounds[k].status
             /\ rounds[k].items = v.rounds[k].items
  <2> DEFINE rd == v.rounds[k]
  <2>1. rd \in Round
    BY <1>1
  <2>2. CASE ActiveRound(v, k) /\ rd.age < RoundTimeout
    <3> DEFINE new == [rd EXCEPT !.reporting = NoOne, !.age = rd.age + 1]
    <3>1. rd.age + 1 \in 0 .. RoundTimeout
      <4>1. rd.age \in 0 .. RoundTimeout
        BY <2>1 DEF Round
      <4> QED BY <2>2, <4>1, Numbers
    <3>2. new \in Round /\ new.status = rd.status /\ new.items = rd.items
      BY <2>1, <3>1 DEF Round
    <3>3. rounds[k] = new
      BY <2>2
    <3> QED BY <3>2, <3>3
  <2>3. CASE ~(ActiveRound(v, k) /\ rd.age < RoundTimeout)
    BY <2>1, <2>3
  <2> QED BY <2>2, <2>3
<1>5. rounds \in [1 .. MaxRounds -> Round]
  <2>1. \A k \in 1 .. MaxRounds : rounds[k] \in Round
    BY <1>4
  <2> QED BY <2>1
<1> HIDE DEF m, rounds
<1>6. /\ n \in Review /\ RoundWrite(v, n) /\ n.head = v.head /\ n.handled = v.handled
      /\ n.merge = m /\ n.rounds = rounds
  BY <1>3, <1>5 DEF Review, RoundWrite, DoneKept
<1> HIDE DEF n
<1> QED BY <1>2, <1>3, <1>4, <1>6

LEMMA OpenedTypes ==
  /\ Opened \in Review /\ CloseReview \in Review /\ ~HasActive(Opened) /\ ~HasActive(CloseReview)
  /\ CloseReview.open = FALSE /\ CloseReview.merge = NoMerge /\ CloseReview.doneHead = NoHead
  /\ CloseReview.contentHead = NoHead /\ CloseReview.head = NoHead
  /\ CloseReview.rounds = [n \in 1 .. MaxRounds |-> NoRound]
<1>1. NoRound \in Round
  BY Numbers, Ranges DEF NoRound, Round
<1>2. [n \in 1 .. MaxRounds |-> NoRound] \in [1 .. MaxRounds -> Round]
  BY <1>1
<1>3. Opened \in Review
  BY <1>2, MergeTypes, Ranges DEF Opened, Review
<1>4. CloseReview \in Review
  BY <1>3 DEF Review, CloseReview
<1>5. /\ Opened.rounds = [n \in 1 .. MaxRounds |-> NoRound]
      /\ Opened.merge = NoMerge /\ Opened.doneHead = NoHead /\ Opened.contentHead = NoHead
      /\ Opened.head = NoHead
  BY DEF Opened
<1>6. /\ CloseReview.open = FALSE /\ CloseReview.rounds = Opened.rounds
      /\ CloseReview.merge = Opened.merge /\ CloseReview.doneHead = Opened.doneHead
      /\ CloseReview.contentHead = Opened.contentHead /\ CloseReview.head = Opened.head
  BY <1>3 DEF Review, CloseReview
<1>7. \A n \in 1 .. MaxRounds : ~ActiveRound(Opened, n) /\ ~ActiveRound(CloseReview, n)
  BY <1>5, <1>6 DEF ActiveRound, NoRound
<1> QED BY <1>3, <1>4, <1>5, <1>6, <1>7 DEF HasActive

\* The review is marked: done, or out of rounds.
LEMMA MarkDoneDoes ==
  ASSUME NEW v \in Review, NEW h \in Epochs, NEW c \in Epochs
  PROVE  LET n == MarkDone(v, h, c)
         IN  /\ n \in Review /\ ReadKept(v, n) /\ WorkKept(v, n) /\ n.merge = v.merge
             /\ n.quiet = v.quiet
             /\ IF v.open /\ v.head = h /\ v.doneHead # h
                  THEN n.doneHead = h /\ n.doneContent = c ELSE n = v
BY DEF MarkDone, Review, ReadKept, WorkKept

LEMMA ExhaustDoes ==
  ASSUME NEW v \in Review
  PROVE  LET n == Exhaust(v)
         IN  /\ n \in Review /\ ReadKept(v, n) /\ WorkKept(v, n) /\ DoneKept(v, n)
             /\ n.merge = v.merge /\ n.quiet = v.quiet
BY DEF Exhaust, Review, ReadKept, WorkKept, DoneKept

\* The head a review has once o is observed, and whether the changes read are entered.
HeadSeen(v, o) == IF Moves(v, o) THEN o.head ELSE v.head
Enters(v, o) == o.changes # NoHead /\ HeadSeen(v, o) = o.head /\ v.contentHead # o.head

LEMMA ObserveDoes ==
  ASSUME NEW v \in Review, Apart(v.merge), NEW o \in Tick, NEW same \in SUBSET Heads
  PROVE  LET n == Observe(v, o, same)
         IN  /\ n \in Review /\ WorkKept(v, n) /\ n.open = v.open /\ n.doneHead = v.doneHead
             /\ n.merge.held = v.merge.held /\ n.merge.on = v.merge.on
             /\ n.merge.withdrawing = v.merge.withdrawing
             /\ n.merge = v.merge \/ (n.merge.armed = "no" /\ n.merge.snapshot = Unarmed)
             /\ ~v.open => n = v
             /\ v.open =>
                  /\ n.head = HeadSeen(v, o)
                  /\ n.quiet => v.quiet /\ ~Moves(v, o)
                  /\ IF Enters(v, o)
                       THEN n.content = o.changes /\ n.contentHead = o.head /\ n.lineage = NewLineage(v, o, same)
                       ELSE n.content = v.content /\ n.contentHead = v.contentHead /\ n.lineage = v.lineage
                  /\ n.doneContent = v.doneContent \/
                       /\ n.doneContent = n.content /\ n.contentHead # NoHead /\ n.contentHead = n.head
                       /\ v.doneContent = NoHead /\ n.doneHead \in n.lineage
<1> DEFINE head == HeadSeen(v, o)
           reads == Enters(v, o)
           m == [v.merge EXCEPT !.armed = "no", !.snapshot = Unarmed]
           merge == IF reads /\ v.contentHead # NoHead /\ o.fresh THEN m ELSE v.merge
           content == IF reads THEN o.changes ELSE v.content
           contentHead == IF reads THEN o.head ELSE v.contentHead
           lineage == IF reads THEN NewLineage(v, o, same) ELSE v.lineage
           quiet == v.quiet /\ o.still /\ ~Moves(v, o)
           pending == (o.items # {})
           seen == [v EXCEPT !.head = head, !.quiet = quiet, !.content = content,
                             !.contentHead = contentHead, !.lineage = lineage, !.merge = merge,
                             !.ci = o.ci, !.pending = pending]
           done == [seen EXCEPT !.doneContent = seen.content]
           marks == /\ seen.contentHead # NoHead /\ seen.contentHead = seen.head
                    /\ seen.doneContent = NoHead /\ seen.doneHead \in seen.lineage
<1>1. Observe(v, o, same) = IF ~v.open THEN v ELSE IF marks THEN done ELSE seen
  BY DEF Observe, HeadSeen, Enters
<1>2. /\ v.head \in Epochs /\ v.content \in Epochs /\ v.contentHead \in Epochs
      /\ v.lineage \subseteq Heads /\ v.quiet \in BOOLEAN /\ v.merge \in MergeState
      /\ v.doneHead \in Epochs /\ v.doneContent \in Epochs
  BY DEF Review
<1>3. /\ o.head \in Epochs /\ o.changes \in Epochs /\ o.still \in BOOLEAN
      /\ o.ci \in {"pending", "passed", "failed"} /\ o.fresh \in BOOLEAN
  BY DEF Tick
<1>4. /\ m \in MergeState /\ m.armed = "no" /\ m.snapshot = Unarmed /\ m.held = v.merge.held
      /\ m.on = v.merge.on /\ m.withdrawing = v.merge.withdrawing
  BY <1>2, MergeTypes DEF MergeState
<1> HIDE DEF m
<1>5. /\ head \in Epochs /\ quiet \in BOOLEAN /\ content \in Epochs /\ contentHead \in Epochs
      /\ lineage \subseteq Heads /\ merge \in MergeState /\ pending \in BOOLEAN
  <2>1. head \in Epochs
    BY <1>2, <1>3 DEF HeadSeen
  <2>2. lineage \subseteq Heads
    BY <1>2 DEF NewLineage
  <2>3. content \in Epochs /\ contentHead \in Epochs
    BY <1>2, <1>3
  <2> QED BY <1>2, <1>4, <2>1, <2>2, <2>3
<1>6. merge = v.merge \/ merge = m
  OBVIOUS
<1> HIDE DEF head, quiet, content, contentHead, lineage, merge, pending
<1>7. seen \in Review
  BY <1>3, <1>5 DEF Review
<1>8. /\ seen.head = head /\ seen.quiet = quiet /\ seen.content = content
      /\ seen.contentHead = contentHead /\ seen.lineage = lineage /\ seen.merge = merge
  BY DEF Review
<1>9. /\ seen.open = v.open /\ seen.doneHead = v.doneHead /\ seen.doneContent = v.doneContent
      /\ WorkKept(v, seen)
  BY DEF Review, WorkKept
<1> HIDE DEF seen
<1>10. done \in Review /\ WorkKept(seen, done)
  BY <1>5, <1>7, <1>8 DEF Review, WorkKept
<1>11. /\ done.head = seen.head /\ done.quiet = seen.quiet /\ done.content = seen.content
       /\ done.contentHead = seen.contentHead /\ done.lineage = seen.lineage
       /\ done.merge = seen.merge /\ done.open = seen.open /\ done.doneHead = seen.doneHead
       /\ done.doneContent = seen.content
  BY <1>7 DEF Review
<1> HIDE DEF done
<1> DEFINE n == Observe(v, o, same)
<1>12. CASE ~v.open
  <2>1. n = v
    BY <1>1, <1>12
  <2> HIDE DEF n
  <2>2. WorkKept(v, v)
    BY DEF WorkKept
  <2> QED BY <1>12, <2>1, <2>2 DEF n
<1>13. CASE v.open
  <2>1. n = IF marks THEN done ELSE seen
    BY <1>1, <1>13
  <2> HIDE DEF n
  <2>2. /\ n \in Review /\ n.head = head /\ n.quiet = quiet /\ n.content = content
        /\ n.contentHead = contentHead /\ n.lineage = lineage /\ n.merge = merge
        /\ n.open = v.open /\ n.doneHead = v.doneHead
    BY <1>7, <1>8, <1>9, <1>10, <1>11, <2>1
  <2>3. WorkKept(v, n)
    BY <1>9, <1>10, <2>1 DEF WorkKept
  <2>4. n.doneContent = v.doneContent \/
          /\ n.doneContent = n.content /\ n.contentHead # NoHead /\ n.contentHead = n.head
          /\ v.doneContent = NoHead /\ n.doneHead \in n.lineage
    BY <1>8, <1>9, <1>11, <2>1, <2>2
  <2>5. quiet => v.quiet /\ ~Moves(v, o)
    BY DEF quiet
  <2>6. IF Enters(v, o)
          THEN content = o.changes /\ contentHead = o.head /\ lineage = NewLineage(v, o, same)
          ELSE content = v.content /\ contentHead = v.contentHead /\ lineage = v.lineage
    BY DEF content, contentHead, lineage
  <2>7. head = HeadSeen(v, o)
    BY DEF head
  <2>8. /\ n.merge.held = v.merge.held /\ n.merge.on = v.merge.on
        /\ n.merge.withdrawing = v.merge.withdrawing
        /\ n.merge = v.merge \/ (n.merge.armed = "no" /\ n.merge.snapshot = Unarmed)
    BY <1>4, <1>6, <2>2
  <2> QED BY <1>13, <2>2, <2>3, <2>4, <2>5, <2>6, <2>7, <2>8 DEF n
<1> QED BY <1>12, <1>13

-----------------------------------------------------------------------------
(* The shape of the state. *)

\* A report under way is about a round.
OpKnown == \A g \in Guards : op[g].pc # "off" => op[g].n \in 1 .. MaxRounds

TypeInv == TypeOK /\ OpKnown

LEMMA Typed ==
  ASSUME TypeInv
  PROVE  /\ rv \in Review /\ Apart(rv.merge) /\ pr \in PullRequest /\ changes \in [Heads -> Epochs]
         /\ pods \subseteq 1 .. MaxRounds /\ lease \in Ticks \cup {NoOne, 0}
         /\ tick \in [Ticks -> Tick] /\ op \in [Guards -> Op]
         /\ moves \in 0 .. MaxMoves /\ faults \in 0 .. MaxFaults /\ past \in Past
BY DEF TypeInv, TypeOK, Apart

LEMMA NoneTypes ==
  /\ NoTick \in Tick /\ NoTick.pc = "off" /\ NoOp \in Op /\ NoOp.pc = "off"
  /\ OpenedPR \in PullRequest
<1>1. 0 \in 0 .. MaxRounds
  BY Numbers
<1> QED BY <1>1, Ranges DEF NoTick, Tick, NoOp, Op, OpenedPR, PullRequest

\* What a step does to the bookkeeping: nothing, or it counts a failure.
Books(overlaps) ==
  /\ faults' \in 0 .. MaxFaults /\ past' \in Past
  /\ past'.renoted = past.renoted /\ past'.reanswered = past.reanswered
  /\ past'.declined = past.declined /\ past'.overlap = (past.overlap \/ overlaps)
  /\ \/ faults' = faults /\ past' = past
     \/ faults' # 0 /\ past'.noted = {} /\ past'.answered = {}
  /\ faults' = 0 => faults = 0 /\ past' = past

LEMMA FaultBooks ==
  ASSUME TypeInv, NEW b \in BOOLEAN, Fault(b)
  PROVE  Books(b) /\ faults' # 0
<1>1. past \in Past /\ past.overlap \in BOOLEAN
  BY DEF TypeInv, TypeOK, Past
<1>2. faults' \in 0 .. MaxFaults /\ faults' # 0
  BY Numbers DEF TypeInv, TypeOK, Fault
<1>3. past' = [past EXCEPT !.noted = {}, !.answered = {}, !.overlap = past.overlap \/ b]
  BY <1>1 DEF Fault, Past
<1>4. (past.overlap \/ b) \in BOOLEAN
  OBVIOUS
<1>5. past' \in Past
  BY <1>1, <1>3, <1>4 DEF Past
<1>6. past'.overlap = (past.overlap \/ b)
  BY <1>1, <1>3 DEF Past
<1>7. /\ past'.renoted = past.renoted /\ past'.reanswered = past.reanswered
      /\ past'.declined = past.declined /\ past'.noted = {} /\ past'.answered = {}
  BY <1>1, <1>3 DEF Past
<1> QED BY <1>2, <1>5, <1>6, <1>7 DEF Books

LEMMA BooksAre ==
  ASSUME TypeInv, Fine \/ Fault(FALSE)
  PROVE  Books(FALSE)
<1>1. CASE Fine
  <2>1. past \in Past /\ past.overlap \in BOOLEAN /\ faults \in 0 .. MaxFaults
    BY DEF TypeInv, TypeOK, Past
  <2>2. past' = past /\ faults' = faults
    BY <1>1 DEF Fine
  <2>3. past'.overlap = (past.overlap \/ FALSE)
    BY <2>1, <2>2
  <2> QED BY <2>1, <2>2, <2>3 DEF Books
<1>2. CASE Fault(FALSE)
  BY <1>2, FaultBooks
<1> QED BY <1>1, <1>2

\* Tick r becomes t.
TickMoves(r, t) ==
  /\ tick' \in [Ticks -> Tick] /\ t \in Tick /\ tick'[r] = t
  /\ \A q \in Ticks : q # r => tick'[q] = tick[q]

\* Tick r ends and releases the lease.
TickEnds(r) ==
  /\ TickMoves(r, NoTick)
  /\ lease' = IF lease = r THEN NoOne ELSE lease

\* Tick t has what w read.
Keeps(w, t) ==
  /\ t.head = w.head /\ t.seen = w.seen /\ t.ci = w.ci /\ t.talk = w.talk /\ t.items = w.items
  /\ t.approved = w.approved /\ t.auto = w.auto /\ t.changes = w.changes /\ t.fresh = w.fresh
  /\ t.content = w.content /\ t.need = w.need /\ t.still = w.still

TickGoes(r, pc) ==
  \E t \in Tick : TickMoves(r, t) /\ t.pc = pc /\ Keeps(tick[r], t) /\ lease' = lease

LEMMA MovesTo ==
  ASSUME TypeInv, NEW r \in Ticks, NEW t \in Tick, tick' = [tick EXCEPT ![r] = t]
  PROVE  TickMoves(r, t)
BY DEF TypeInv, TypeOK, TickMoves

LEMMA FinishMoves ==
  ASSUME TypeInv, NEW r \in Ticks, Finish(r)
  PROVE  TickEnds(r)
BY MovesTo, NoneTypes DEF Finish, TickEnds

PCs == {"off", "over", "observe", "advance", "withdraw", "disable", "cleared", "turned", "on",
        "disarm", "stop", "note", "done", "arm", "claim", "merge", "enabled", "merged",
        "round", "launch", "running"}

LEMMA PcTypes ==
  ASSUME NEW w \in Tick, NEW pc \in PCs
  PROVE  [w EXCEPT !.pc = pc] \in Tick /\ [w EXCEPT !.pc = pc].pc = pc /\ Keeps(w, [w EXCEPT !.pc = pc])
<1>1. [w EXCEPT !.pc = pc] \in Tick
  BY DEF Tick, PCs
<1>2. [w EXCEPT !.pc = pc].pc = pc
  BY DEF Tick
<1>3. Keeps(w, [w EXCEPT !.pc = pc])
  BY DEF Tick, Keeps
<1> QED BY <1>1, <1>2, <1>3

LEMMA ThenMoves ==
  ASSUME TypeInv, NEW r \in Ticks, NEW pc \in PCs, Then(r, pc)
  PROVE  TickGoes(r, pc)
<1> DEFINE t == [tick[r] EXCEPT !.pc = pc]
<1>1. tick[r] \in Tick /\ tick' = [tick EXCEPT ![r] = t] /\ lease' = lease
  BY DEF TypeInv, TypeOK, Then, Goto
<1>2. t \in Tick /\ t.pc = pc /\ Keeps(tick[r], t)
  BY <1>1, PcTypes
<1> HIDE DEF t
<1> QED BY <1>1, <1>2, MovesTo DEF TickGoes

\* What the watch keeps of w for the step pc.
LEMMA NeededDoes ==
  ASSUME NEW w \in Tick, NEW pc \in PCs
  PROVE  LET t == Needed(w, pc)
         IN  /\ t \in Tick /\ t.pc = pc
             /\ pc \in {"withdraw", "cleared", "turned", "on", "disarm"} => Keeps(w, t)
             /\ t.head \in {w.head, NoHead} /\ t.content \in {w.content, NoHead}
             /\ t.approved \in {w.approved, NoHead} /\ t.auto \in {w.auto, "off"}
             /\ pc \in {"note", "round", "arm", "claim"} => t.head = w.head
             /\ pc \in {"note", "arm", "claim"} => t.content = w.content
             /\ pc = "note" => t.auto = w.auto
             /\ pc = "round" => t.items = w.items /\ t.need = w.need
             /\ pc \in {"arm", "claim"} => t.talk = w.talk /\ t.approved = w.approved /\ t.still = w.still
             /\ pc = "stop" => t.head = NoHead
<1> DEFINE t == Needed(w, pc)
<1>0. /\ w.head \in Epochs /\ w.content \in Epochs /\ w.auto \in {"off", "ours", "theirs"}
      /\ w.items \in SUBSET Comments /\ w.need \in SUBSET {"feedback", "checks"}
      /\ w.talk \in SUBSET Comments /\ w.approved \in Epochs /\ w.still \in BOOLEAN
  BY DEF Tick
<1>1. CASE pc \in {"withdraw", "cleared", "turned", "on", "disarm"}
  <2>1. t = [w EXCEPT !.pc = pc]
    BY <1>1 DEF Needed
  <2>2. t \in Tick /\ t.pc = pc /\ Keeps(w, t)
    BY <2>1, PcTypes
  <2> HIDE DEF t
  <2> QED BY <1>1, <2>2 DEF Keeps, t
<1>2. CASE pc = "note"
  <2>1. t = [NoTick EXCEPT !.pc = pc, !.head = w.head, !.content = w.content, !.auto = w.auto]
    BY <1>2 DEF Needed
  <2>2. /\ t.pc = pc /\ t.head = w.head /\ t.content = w.content /\ t.auto = w.auto
        /\ t.approved = NoHead
    BY <2>1 DEF NoTick
  <2>3. t \in Tick
    BY <1>0, <1>2, <2>1, NoneTypes DEF Tick
  <2> HIDE DEF t
  <2> QED BY <1>2, <2>2, <2>3 DEF t
<1>3. CASE pc = "round"
  <2>1. t = [NoTick EXCEPT !.pc = pc, !.head = w.head, !.items = w.items, !.need = w.need]
    BY <1>3 DEF Needed
  <2>2. /\ t.pc = pc /\ t.head = w.head /\ t.items = w.items /\ t.need = w.need
        /\ t.approved = NoHead /\ t.content = NoHead /\ t.auto = "off"
    BY <2>1 DEF NoTick
  <2>3. t \in Tick
    BY <1>0, <1>3, <2>1, NoneTypes DEF Tick
  <2> HIDE DEF t
  <2> QED BY <1>3, <2>2, <2>3 DEF t
<1>4. CASE pc \in {"arm", "claim"}
  <2>1. t = [NoTick EXCEPT !.pc = pc, !.head = w.head, !.content = w.content, !.talk = w.talk,
                           !.approved = w.approved, !.still = w.still]
    BY <1>4 DEF Needed
  <2>2. /\ t.pc = pc /\ t.head = w.head /\ t.content = w.content /\ t.talk = w.talk
        /\ t.approved = w.approved /\ t.still = w.still /\ t.auto = "off"
    BY <2>1 DEF NoTick
  <2>3. t \in Tick
    BY <1>0, <1>4, <2>1, NoneTypes DEF Tick
  <2> HIDE DEF t
  <2> QED BY <1>4, <2>2, <2>3 DEF t
<1>5. CASE pc \notin {"withdraw", "cleared", "turned", "on", "disarm", "note", "round", "arm", "claim"}
  <2>1. t = [NoTick EXCEPT !.pc = pc]
    BY <1>5 DEF Needed
  <2>2. t.pc = pc /\ t.head = NoHead /\ t.approved = NoHead /\ t.content = NoHead /\ t.auto = "off"
    BY <2>1 DEF NoTick
  <2>3. t \in Tick
    BY <1>0, <2>1, NoneTypes DEF Tick, PCs
  <2> HIDE DEF t
  <2> QED BY <1>5, <2>2, <2>3 DEF t
<1> QED BY <1>1, <1>2, <1>3, <1>4, <1>5

\* What a tick decides: it ends, or keeps what the step needs.
Decides(r, w, pc) ==
  /\ pc = "off" => TickEnds(r)
  /\ pc # "off" => TickMoves(r, Needed(w, pc)) /\ lease' = lease

LEMMA DecideMoves ==
  ASSUME TypeInv, NEW r \in Ticks, NEW w \in Tick, NEW pc \in PCs, Decide(r, w, pc)
  PROVE  Decides(r, w, pc)
<1>1. CASE pc = "off"
  BY <1>1, FinishMoves DEF Decide, Decides
<1>2. CASE pc # "off"
  <2>1. Needed(w, pc) \in Tick
    BY NeededDoes
  <2> QED BY <1>2, <2>1, MovesTo DEF Decide, Decides
<1> QED BY <1>1, <1>2

LEMMA ActsIn ==
  ASSUME NEW new, NEW w
  PROVE  Acts(new, w) \in {"off", "stop", "round", "note", "arm", "claim"}
BY DEF Acts, AutoMerges

LEMMA FollowsIn ==
  ASSUME NEW w
  PROVE  Follows(w) \in {"withdraw", "cleared", "turned", "on", "disarm"} \/ Follows(w) = Acts(rv, w)
BY DEF Follows

LEMMA TypeNext ==
  ASSUME rv' \in Review, Apart(rv'.merge), pr' \in PullRequest, changes' \in [Heads -> Epochs],
         pods' \subseteq 1 .. MaxRounds, lease' \in Ticks \cup {NoOne, 0},
         tick' \in [Ticks -> Tick], op' \in [Guards -> Op], moves' \in 0 .. MaxMoves,
         faults' \in 0 .. MaxFaults, past' \in Past, OpKnown'
  PROVE  TypeInv'
BY DEF TypeInv, TypeOK, Apart

\* A step of a tick leaves people's moves and the reports alone.
LEMMA TickTypes ==
  ASSUME TypeInv, NEW r \in Ticks, NEW t, NEW b, TickMoves(r, t), Books(b),
         rv' \in Review, Apart(rv'.merge), pr' \in PullRequest, pods' \subseteq 1 .. MaxRounds,
         lease' \in Ticks \cup {NoOne, 0}, UNCHANGED <<changes, op, moves>>
  PROVE  TypeInv'
<1>1. OpKnown'
  BY DEF TypeInv, OpKnown
<1> QED BY <1>1, Typed, TypeNext DEF TickMoves, Books

\* What a tick that starts reads.
LEMMA ReadDoes ==
  ASSUME TypeInv, NEW new \in Review, NEW known \in BOOLEAN
  PROVE  LET t == ReadPR(new, known)
             read == IF known /\ new.contentHead # pr.head THEN changes[pr.head] ELSE NoHead
         IN  /\ t \in Tick /\ t.pc = "observe" /\ t.head = pr.head /\ t.seen = new.head
             /\ t.ci = pr.ci /\ t.talk = pr.talk /\ t.items = pr.talk \ new.handled
             /\ t.approved = pr.approved /\ t.auto = pr.auto /\ t.changes = read
             /\ t.still = pr.still /\ t.content = NoHead /\ t.need = {}
             /\ (t.fresh <=> read # NoHead /\ read # new.content)
<1> DEFINE read == IF known /\ new.contentHead # pr.head THEN changes[pr.head] ELSE NoHead
           items == pr.talk \ new.handled
           fresh == (read # NoHead /\ read # new.content)
           t == ReadPR(new, known)
<1>1. /\ pr.head \in Heads /\ pr.ci \in {"pending", "passed", "failed"} /\ pr.talk \in SUBSET Comments
      /\ pr.approved \in Epochs /\ pr.auto \in {"off", "ours", "theirs"} /\ pr.still \in BOOLEAN
  BY Typed DEF PullRequest
<1>2. read \in Epochs
  <2>1. changes[pr.head] \in Epochs
    BY <1>1, Typed
  <2> QED BY <2>1, Ranges
<1>3. items \in SUBSET Comments /\ new.head \in Epochs /\ pr.head \in Epochs
  BY <1>1, Ranges DEF Review
<1>4. t = [NoTick EXCEPT !.pc = "observe", !.head = pr.head, !.seen = new.head, !.ci = pr.ci,
                         !.talk = pr.talk, !.items = items, !.approved = pr.approved,
                         !.auto = pr.auto, !.changes = read, !.still = pr.still, !.fresh = fresh]
  BY DEF ReadPR
<1>5. fresh \in BOOLEAN
  OBVIOUS
<1> HIDE DEF t, read, items
<1>6. /\ t.pc = "observe" /\ t.head = pr.head /\ t.seen = new.head
      /\ t.ci = pr.ci /\ t.talk = pr.talk /\ t.items = items
      /\ t.approved = pr.approved /\ t.auto = pr.auto /\ t.changes = read
      /\ t.still = pr.still /\ t.content = NoHead /\ t.need = {} 
  BY <1>4 DEF NoTick
<1>7. t.fresh = fresh
  BY <1>4 DEF NoTick
<1> HIDE DEF fresh
<1>8. t \in Tick
  BY <1>1, <1>2, <1>3, <1>4, <1>5, NoneTypes DEF Tick
<1> QED BY <1>6, <1>7, <1>8 DEF read, items, t, fresh

LEMMA StartStep ==
  ASSUME TypeInv, NEW r \in Ticks, TickStart(r)
  PROVE  /\ At(r, "off") /\ rv.open /\ lease # r /\ lease' = IF lease = NoOne THEN r ELSE lease
         /\ RoundStep(rv, rv') /\ pods' \subseteq pods /\ UNCHANGED <<pr, changes, op, moves>>
         /\ Books(lease # NoOne) /\ (lease # NoOne => faults' # 0)
         /\ \E known \in BOOLEAN, t \in Tick :
              /\ known \/ faults' # 0
              /\ TickMoves(r, t)
              /\ pr.open => t = ReadPR(rv', known)
              /\ ~pr.open => t = [NoTick EXCEPT !.pc = "over"]
<1> DEFINE gone == {n \in 1 .. MaxRounds : n \notin pods}
           kept == ReconcileRounds(rv, gone)
<1>1. RoundStep(rv, kept)
  BY Typed, ReconcileDoes
<1> HIDE DEF kept
<1>2. /\ At(r, "off") /\ rv.open /\ lease # r /\ lease' = IF lease = NoOne THEN r ELSE lease
      /\ rv' = kept /\ pods' = {n \in pods : kept.rounds[n].status # "failed"}
      /\ UNCHANGED <<pr, changes, op, moves>>
  BY DEF TickStart, kept
<1>3. PICK known \in BOOLEAN :
        /\ IF lease = NoOne /\ known THEN Fine ELSE Fault(lease # NoOne)
        /\ tick' = [tick EXCEPT ![r] = IF pr.open THEN ReadPR(kept, known)
                                       ELSE [NoTick EXCEPT !.pc = "over"]]
  BY DEF TickStart, kept
<1>4. /\ Books(lease # NoOne) /\ (lease # NoOne => faults' # 0) /\ (known \/ faults' # 0)
  <2>1. CASE lease = NoOne /\ known
    <3>1. Books(FALSE)
      BY <1>3, <2>1, BooksAre
    <3> QED BY <2>1, <3>1
  <2>2. CASE ~(lease = NoOne /\ known)
    <3>1. Books(lease # NoOne) /\ faults' # 0
      BY <1>3, <2>2, FaultBooks
    <3> QED BY <3>1
  <2> QED BY <2>1, <2>2
<1>5. ReadPR(kept, known) \in Tick
  <2>1. kept \in Review
    BY <1>1 DEF RoundStep, RoundWrite
  <2> QED BY <2>1, ReadDoes
<1>6. [NoTick EXCEPT !.pc = "over"] \in Tick
  BY NoneTypes, PcTypes DEF PCs
<1> DEFINE t == IF pr.open THEN ReadPR(kept, known) ELSE [NoTick EXCEPT !.pc = "over"]
<1>7. t \in Tick
  BY <1>5, <1>6
<1>8. TickMoves(r, t)
  BY <1>3, <1>7, MovesTo
<1>9. /\ known \/ faults' # 0
      /\ pr.open => t = ReadPR(rv', known)
      /\ ~pr.open => t = [NoTick EXCEPT !.pc = "over"]
  BY <1>2, <1>4
<1> HIDE DEF t
<1>10. \E known1 \in BOOLEAN, t1 \in Tick :
              /\ known1 \/ faults' # 0
              /\ TickMoves(r, t1)
              /\ pr.open => t1 = ReadPR(rv', known1)
              /\ ~pr.open => t1 = [NoTick EXCEPT !.pc = "over"]
  BY <1>3, <1>7, <1>8, <1>9
<1> QED BY <1>1, <1>2, <1>4, <1>10

LEMMA TypeStart ==
  ASSUME TypeInv, NEW r \in Ticks, TickStart(r)
  PROVE  TypeInv'
<1>1. /\ RoundStep(rv, rv') /\ pods' \subseteq pods /\ UNCHANGED <<pr, changes, op, moves>>
      /\ Books(lease # NoOne) /\ lease' = IF lease = NoOne THEN r ELSE lease
  BY StartStep
<1>2. PICK t \in Tick : TickMoves(r, t)
  BY StartStep
<1>3. rv' \in Review /\ rv'.merge = rv.merge
  BY <1>1 DEF RoundStep, RoundWrite
<1>4. Apart(rv'.merge) /\ pr' \in PullRequest /\ pods' \subseteq 1 .. MaxRounds
      /\ lease' \in Ticks \cup {NoOne, 0}
  BY <1>1, <1>3, Typed
<1> QED BY <1>1, <1>2, <1>3, <1>4, TickTypes

LEMMA OverStep ==
  ASSUME TypeInv, NEW r \in Ticks, TickOver(r)
  PROVE  /\ At(r, "over") /\ rv' = CloseReview /\ Fine /\ Books(FALSE) /\ TickEnds(r)
         /\ UNCHANGED <<pr, changes, pods, op, moves>>
BY BooksAre, FinishMoves DEF TickOver, Wrote

\* What a tick keeps of what it read once it has observed it.
Looks(w, t) ==
  /\ t.head = w.head /\ t.ci = w.ci /\ t.talk = w.talk /\ t.items = w.items /\ t.auto = w.auto
  /\ t.need = w.need /\ t.still = w.still

LEMMA SameHeads ==
  ASSUME NEW h \in Epochs
  PROVE  Same(h) \in SUBSET Heads
BY Ranges, Numbers DEF Same, Heads

LEMMA ObserveStep ==
  ASSUME TypeInv, NEW r \in Ticks, TickObserve(r)
  PROVE  LET w == tick[r]
         IN  /\ At(r, "observe") /\ rv' = Observe(rv, w, Same(w.head)) /\ Same(w.head) \in SUBSET Heads
             /\ w \in Tick /\ Fine /\ Books(FALSE) /\ UNCHANGED <<pr, changes, pods, lease, op, moves>>
             /\ \E t \in Tick :
                  /\ TickMoves(r, t) /\ t.pc = "advance" /\ Looks(w, t)
                  /\ t.content = IF rv'.contentHead = w.head THEN rv'.content ELSE NoHead
                  /\ t.approved = Approval(rv', w, t.content)
<1> DEFINE w == tick[r]
           new == Observe(rv, w, Same(w.head))
           content == IF new.contentHead = w.head THEN new.content ELSE NoHead
           approved == Approval(new, w, content)
           t == [w EXCEPT !.pc = "advance", !.seen = NoHead, !.changes = NoHead, !.fresh = FALSE,
                          !.content = content, !.approved = approved]
<1>1. w \in Tick /\ rv \in Review /\ Apart(rv.merge) /\ w.head \in Epochs /\ w.approved \in Epochs
  BY Typed DEF Tick
<1>2. Same(w.head) \in SUBSET Heads
  BY <1>1, SameHeads
<1>3. new \in Review
  BY <1>1, <1>2, ObserveDoes
<1>4. /\ At(r, "observe") /\ rv' = new /\ Fine /\ tick' = [tick EXCEPT ![r] = t]
      /\ UNCHANGED <<pr, changes, pods, lease, op, moves>>
  BY DEF TickObserve, Wrote
<1> HIDE DEF w, new
<1>5. content \in Epochs /\ approved \in Epochs
  <2>1. new.content \in Epochs
    BY <1>3 DEF Review
  <2> QED BY <1>1, <2>1, Ranges DEF Approval
<1> HIDE DEF content, approved
<1>6. t \in Tick
  BY <1>1, <1>5, Ranges DEF Tick
<1>7. t.pc = "advance" /\ Looks(w, t) /\ t.content = content /\ t.approved = approved
  BY <1>1 DEF Looks, Tick
<1> HIDE DEF t
<1>8. TickMoves(r, t) /\ Books(FALSE)
  BY <1>4, <1>6, MovesTo, BooksAre
<1>9. /\ t.content = IF rv'.contentHead = w.head THEN rv'.content ELSE NoHead
      /\ t.approved = Approval(rv', w, t.content)
  BY <1>4, <1>7 DEF content, approved
<1> QED BY <1>1, <1>2, <1>4, <1>6, <1>7, <1>8, <1>9 DEF w, new

\* The watch a tick decides with.
Weighed(w) ==
  [w EXCEPT !.items = w.items \ rv.handled, !.need = NeedsRound(w, w.items \ rv.handled)]

LEMMA WeighedDoes ==
  ASSUME NEW w \in Tick
  PROVE  LET x == Weighed(w)
         IN  /\ x \in Tick /\ x.items = w.items \ rv.handled /\ x.need = NeedsRound(w, x.items)
             /\ x.head = w.head /\ x.seen = w.seen /\ x.ci = w.ci /\ x.talk = w.talk
             /\ x.approved = w.approved /\ x.auto = w.auto /\ x.changes = w.changes
             /\ x.fresh = w.fresh /\ x.content = w.content /\ x.still = w.still
<1> DEFINE items == w.items \ rv.handled
           need == NeedsRound(w, items)
           x == [w EXCEPT !.items = items, !.need = need]
<1>1. items \in SUBSET Comments /\ need \in SUBSET {"feedback", "checks"}
  BY DEF Tick, NeedsRound
<1>2. Weighed(w) = x
  BY DEF Weighed
<1> HIDE DEF items, need
<1>3. x \in Tick
  BY <1>1 DEF Tick
<1>4. /\ x.items = items /\ x.need = need
      /\ x.head = w.head /\ x.seen = w.seen /\ x.ci = w.ci /\ x.talk = w.talk
      /\ x.approved = w.approved /\ x.auto = w.auto /\ x.changes = w.changes
      /\ x.fresh = w.fresh /\ x.content = w.content /\ x.still = w.still
  BY DEF Tick
<1> HIDE DEF x
<1> QED BY <1>2, <1>3, <1>4 DEF items, need

LEMMA AdvanceStep ==
  ASSUME TypeInv, NEW r \in Ticks, TickAdvance(r)
  PROVE  LET w == tick[r]
             x == Weighed(w)
         IN  /\ At(r, "advance") /\ w \in Tick /\ x \in Tick
             /\ Fine /\ Books(FALSE) /\ UNCHANGED <<rv, pr, changes, pods, op, moves>>
             /\ \E pc \in PCs :
                  /\ Decides(r, x, pc)
                  /\ pc # "off" => /\ rv.open /\ ~HasActive(rv) /\ rv.head = w.head
                                   /\ pc = Follows(x)
                  /\ pc \in {"off", "withdraw", "cleared", "turned", "on", "disarm"} \/ pc = Acts(rv, x)
<1> DEFINE w == tick[r]
           x == Weighed(w)
           pc == IF ~rv.open \/ HasActive(rv) \/ rv.head # x.head THEN "off" ELSE Follows(x)
<1>1. w \in Tick
  BY Typed
<1>2. x \in Tick /\ x.head = w.head
  BY <1>1, WeighedDoes
<1>3. /\ At(r, "advance") /\ Decide(r, x, pc)
      /\ UNCHANGED <<rv, pr, changes, pods, op, moves, faults, past>>
  BY DEF TickAdvance, Weighed
<1> HIDE DEF x
<1>4. /\ pc \in {"off", "withdraw", "cleared", "turned", "on", "disarm"} \/ pc = Acts(rv, x)
      /\ pc # "off" => rv.open /\ ~HasActive(rv) /\ rv.head = w.head /\ pc = Follows(x)
  BY <1>2, FollowsIn
<1>5. Acts(rv, x) \in {"off", "stop", "round", "note", "arm", "claim"}
  BY ActsIn
<1> HIDE DEF pc
<1>6. pc \in PCs
  BY <1>4, <1>5 DEF PCs
<1>7. Decides(r, x, pc) /\ Fine /\ Books(FALSE)
  BY <1>2, <1>3, <1>6, DecideMoves, BooksAre DEF Fine
<1> QED BY <1>1, <1>2, <1>3, <1>4, <1>6, <1>7 DEF x

LEMMA DecidesTypes ==
  ASSUME TypeInv, NEW r \in Ticks, NEW w \in Tick, NEW pc \in PCs, Decides(r, w, pc)
  PROVE  /\ \E t \in Tick : TickMoves(r, t)
         /\ lease' \in Ticks \cup {NoOne, 0}
<1>1. CASE pc = "off"
  BY <1>1, NoneTypes, Typed DEF Decides, TickEnds
<1>2. CASE pc # "off"
  BY <1>2, NeededDoes, Typed DEF Decides
<1> QED BY <1>1, <1>2

LEMMA TypeAdvance ==
  ASSUME TypeInv, NEW r \in Ticks, TickAdvance(r)
  PROVE  TypeInv'
<1> DEFINE x == Weighed(tick[r])
<1>1. x \in Tick /\ Books(FALSE) /\ UNCHANGED <<rv, pr, changes, pods, op, moves>>
  BY AdvanceStep
<1>2. PICK pc \in PCs : Decides(r, x, pc)
  BY AdvanceStep
<1> HIDE DEF x
<1>3. PICK t \in Tick : TickMoves(r, t)
  BY <1>1, <1>2, DecidesTypes
<1>4. lease' \in Ticks \cup {NoOne, 0}
  BY <1>1, <1>2, DecidesTypes
<1>5. rv' \in Review /\ Apart(rv'.merge) /\ pr' \in PullRequest /\ pods' \subseteq 1 .. MaxRounds
  BY <1>1, Typed
<1> QED BY <1>1, <1>3, <1>4, <1>5, TickTypes

LEMMA TypeObserve ==
  ASSUME TypeInv, NEW r \in Ticks, TickObserve(r)
  PROVE  TypeInv'
<1> DEFINE w == tick[r]
           new == Observe(rv, w, Same(w.head))
<1>1. /\ rv' = new /\ Same(w.head) \in SUBSET Heads
      /\ w \in Tick /\ Books(FALSE) /\ UNCHANGED <<pr, changes, pods, lease, op, moves>>
  BY ObserveStep
<1>2. PICK t \in Tick : TickMoves(r, t)
  BY ObserveStep
<1>3. new \in Review /\ new.merge.held = rv.merge.held /\ new.merge.on = rv.merge.on
      /\ new.merge.withdrawing = rv.merge.withdrawing /\ Apart(rv.merge)
  BY <1>1, Typed, ObserveDoes
<1> HIDE DEF new
<1>4. rv' \in Review /\ Apart(rv'.merge) /\ pr' \in PullRequest /\ pods' \subseteq 1 .. MaxRounds
      /\ lease' \in Ticks \cup {NoOne, 0}
  BY <1>1, <1>3, Typed DEF Apart
<1> QED BY <1>1, <1>2, <1>4, TickTypes

LEMMA TypeOver ==
  ASSUME TypeInv, NEW r \in Ticks, TickOver(r)
  PROVE  TypeInv'
<1>1. /\ rv' = CloseReview /\ Books(FALSE) /\ TickEnds(r) /\ UNCHANGED <<pr, changes, pods, op, moves>>
  BY OverStep
<1>2. Apart(CloseReview.merge)
  BY OpenedTypes, MergeTypes DEF Apart
<1>3. rv' \in Review /\ Apart(rv'.merge) /\ pr' \in PullRequest /\ pods' \subseteq 1 .. MaxRounds
      /\ lease' \in Ticks \cup {NoOne, 0}
  BY <1>1, <1>2, OpenedTypes, Typed DEF TickEnds
<1> QED BY <1>1, <1>3, TickTypes DEF TickEnds

\* A tick writes what concerns auto-merge, or nothing, and ends or goes on.
MergeTurn(r) ==
  /\ MergeWrite(rv, rv') /\ Books(FALSE) /\ UNCHANGED <<changes, pods, op, moves>>

LEMMA TypeTurn ==
  ASSUME TypeInv, NEW r \in Ticks, rv' \in Review, Apart(rv'.merge), Books(FALSE),
         UNCHANGED <<changes, op, moves>>, pr' \in PullRequest, pods' \subseteq 1 .. MaxRounds,
         TickEnds(r) \/ \E pc \in PCs : TickGoes(r, pc)
  PROVE  TypeInv'
<1>1. CASE TickEnds(r)
  <2>1. lease' \in Ticks \cup {NoOne, 0}
    BY <1>1, Typed DEF TickEnds
  <2> QED BY <1>1, <2>1, TickTypes DEF TickEnds
<1>2. CASE \E pc \in PCs : TickGoes(r, pc)
  <2>1. PICK pc \in PCs : TickGoes(r, pc)
    BY <1>2
  <2>2. PICK t \in Tick : TickMoves(r, t) /\ lease' = lease
    BY <2>1 DEF TickGoes
  <2>3. lease' \in Ticks \cup {NoOne, 0}
    BY <2>2, Typed
  <2> QED BY <2>2, <2>3, TickTypes
<1> QED BY <1>1, <1>2

LEMMA WithdrawStep ==
  ASSUME TypeInv, NEW r \in Ticks, TickWithdraw(r)
  PROVE  /\ At(r, "withdraw") /\ rv' = WithdrawMerge(rv) /\ Fine /\ Books(FALSE)
         /\ TickGoes(r, "disable") /\ UNCHANGED <<pr, changes, pods, op, moves>>
BY BooksAre, ThenMoves DEF TickWithdraw, Wrote, PCs

LEMMA TypeWithdraw ==
  ASSUME TypeInv, NEW r \in Ticks, TickWithdraw(r)
  PROVE  TypeInv'
<1>1. /\ rv' = WithdrawMerge(rv) /\ Books(FALSE) /\ TickGoes(r, "disable")
      /\ UNCHANGED <<pr, changes, pods, op, moves>>
  BY WithdrawStep
<1>2. rv' \in Review /\ Apart(rv'.merge)
  BY <1>1, Typed, WithdrawMergeDoes DEF MergeWrite
<1> QED BY <1>1, <1>2, Typed, TypeTurn DEF PCs

LEMMA DisabledDoes ==
  ASSUME TypeInv
  PROVE  /\ Disabled \in PullRequest /\ Disabled.auto = "off" /\ Disabled.open = pr.open
         /\ Disabled.head = pr.head /\ Disabled.talk = pr.talk /\ Disabled.still = pr.still
         /\ Disabled.approved = pr.approved /\ Disabled.ci = pr.ci
         /\ Disabled.by = IF pr.auto = "off" THEN pr.by ELSE "nobody"
BY Typed DEF Disabled, PullRequest

LEMMA DisableStep ==
  ASSUME TypeInv, NEW r \in Ticks, TickDisable(r)
  PROVE  /\ At(r, "disable") /\ pr' = Disabled /\ Fine /\ Books(FALSE)
         /\ TickGoes(r, "cleared") /\ UNCHANGED <<rv, changes, pods, op, moves>>
BY BooksAre, ThenMoves DEF TickDisable, PCs

LEMMA TypeDisable ==
  ASSUME TypeInv, NEW r \in Ticks, TickDisable(r)
  PROVE  TypeInv'
<1>1. /\ pr' = Disabled /\ Books(FALSE) /\ TickGoes(r, "cleared")
      /\ UNCHANGED <<rv, changes, pods, op, moves>>
  BY DisableStep
<1> QED BY <1>1, Typed, DisabledDoes, TypeTurn DEF PCs

\* What followAutoMerge writes for a watch at w.
FollowWrite(w) ==
  IF w.pc = "cleared" THEN MergeOff(rv, FALSE)
  ELSE IF w.pc = "turned" THEN MergeOff(rv, pr.by = "person")
  ELSE IF w.pc = "on" THEN MergeOn(rv, w.content, w.head, FALSE)
  ELSE DisarmMerge(rv)

LEMMA FollowWriteDoes ==
  ASSUME TypeInv, NEW w \in Tick
  PROVE  LET n == FollowWrite(w)
         IN  /\ MergeWrite(rv, n)
             /\ n.merge = rv.merge \/ (n.merge.armed = "no" /\ n.merge.snapshot \in {Unarmed, rv.merge.snapshot})
<1> DEFINE n == FollowWrite(w)
           p == (pr.by = "person")
<1>1. /\ rv \in Review /\ Apart(rv.merge) /\ w.content \in Epochs /\ w.head \in Epochs
      /\ p \in BOOLEAN
  BY Typed DEF Tick
<1>2. n \in {MergeOff(rv, FALSE), MergeOff(rv, p), MergeOn(rv, w.content, w.head, FALSE), DisarmMerge(rv)}
  BY DEF FollowWrite
<1> HIDE DEF n, p
<1>3. CASE n \in {MergeOff(rv, FALSE), MergeOff(rv, p)}
  <2>1. PICK q \in BOOLEAN : n = MergeOff(rv, q)
    BY <1>1, <1>3
  <2>2. MergeWrite(rv, n) /\ (n.merge = rv.merge \/ (n.merge.armed = "no" /\ n.merge.snapshot = Unarmed))
    <3> DEFINE u == MergeOff(rv, q)
    <3>1. /\ MergeWrite(rv, u)
          /\ u.merge = rv.merge \/ (u.merge.armed = "no" /\ u.merge.snapshot = Unarmed)
      BY <1>1, MergeOffDoes
    <3> HIDE DEF u
    <3>2. n = u
      BY <2>1 DEF u
    <3> QED BY <3>1, <3>2
  <2> QED BY <2>2 DEF n
<1>4. CASE n = MergeOn(rv, w.content, w.head, FALSE)
  <2>1. /\ MergeWrite(rv, n)
        /\ n.merge = rv.merge \/ (n.merge.armed = "no" /\ n.merge.snapshot = rv.merge.snapshot)
    <3>1. FALSE \in BOOLEAN
      OBVIOUS
    <3> QED BY <1>1, <1>4, <3>1, MergeOnDoes
  <2> QED BY <2>1 DEF n
<1>5. CASE n = DisarmMerge(rv)
  <2>1. MergeWrite(rv, n) /\ (n.merge = rv.merge \/ (n.merge.armed = "no" /\ n.merge.snapshot = Unarmed))
    BY <1>1, <1>5, DisarmMergeDoes
  <2> QED BY <2>1 DEF n
<1> QED BY <1>2, <1>3, <1>4, <1>5

LEMMA RecordStep ==
  ASSUME TypeInv, NEW r \in Ticks, TickRecord(r)
  PROVE  LET w == tick[r]
         IN  /\ w \in Tick /\ w.pc \in {"cleared", "turned", "on", "disarm"}
             /\ Books(FALSE) /\ UNCHANGED <<pr, changes, pods, op, moves>>
             /\ \E pc \in PCs, read \in {rv, FollowWrite(w)} :
                  /\ pc = Acts(read, w) /\ Decides(r, w, pc)
                  /\ \/ rv' = read /\ read = FollowWrite(w) /\ Fine
                     \/ rv' \in {rv, FollowWrite(w)} /\ faults' # 0 /\ read = rv
<1> DEFINE w == tick[r]
           new == FollowWrite(w)
<1>1. w \in Tick
  BY Typed
<1>2. /\ w.pc \in {"cleared", "turned", "on", "disarm"} /\ UNCHANGED <<pr, changes, pods, op, moves>>
      /\ \/ rv' = new /\ Fine /\ Decide(r, w, Acts(new, w))
         \/ rv' \in {rv, new} /\ Fault(FALSE) /\ Decide(r, w, Acts(rv, w))
  BY DEF TickRecord, FollowWrite, Wrote, WriteFails
<1> HIDE DEF new
<1>3. Acts(new, w) \in PCs /\ Acts(rv, w) \in PCs
  BY ActsIn DEF PCs
<1>4. Books(FALSE)
  BY <1>2, BooksAre
<1>5. CASE rv' = new /\ Fine /\ Decide(r, w, Acts(new, w))
  <2>1. Decides(r, w, Acts(new, w))
    BY <1>1, <1>3, <1>5, DecideMoves
  <2> QED BY <1>1, <1>2, <1>3, <1>4, <1>5, <2>1 DEF new
<1>6. CASE rv' \in {rv, new} /\ Fault(FALSE) /\ Decide(r, w, Acts(rv, w))
  <2>1. Decides(r, w, Acts(rv, w)) /\ faults' # 0
    BY <1>1, <1>3, <1>6, DecideMoves, FaultBooks
  <2> QED BY <1>1, <1>2, <1>3, <1>4, <1>6, <2>1 DEF new
<1> QED BY <1>2, <1>5, <1>6

LEMMA TypeRecord ==
  ASSUME TypeInv, NEW r \in Ticks, TickRecord(r)
  PROVE  TypeInv'
<1> DEFINE w == tick[r]
<1>1. w \in Tick /\ Books(FALSE) /\ UNCHANGED <<pr, changes, pods, op, moves>>
  BY RecordStep
<1>2. PICK pc \in PCs : Decides(r, w, pc)
  BY RecordStep
<1>3. rv' \in {rv, FollowWrite(w)}
  BY RecordStep
<1>4. PICK t \in Tick : TickMoves(r, t)
  BY <1>1, <1>2, DecidesTypes
<1>5. lease' \in Ticks \cup {NoOne, 0}
  BY <1>1, <1>2, DecidesTypes
<1>6. rv' \in Review /\ Apart(rv'.merge) /\ pr' \in PullRequest /\ pods' \subseteq 1 .. MaxRounds
  BY <1>1, <1>3, FollowWriteDoes, Typed DEF MergeWrite
<1> QED BY <1>1, <1>4, <1>5, <1>6, TickTypes

LEMMA StopStep ==
  ASSUME TypeInv, NEW r \in Ticks, TickStop(r)
  PROVE  /\ At(r, "stop") /\ rv' = Exhaust(rv) /\ Fine /\ Books(FALSE) /\ TickEnds(r)
         /\ UNCHANGED <<pr, changes, pods, op, moves>>
BY BooksAre, FinishMoves DEF TickStop, Wrote

LEMMA TypeStop ==
  ASSUME TypeInv, NEW r \in Ticks, TickStop(r)
  PROVE  TypeInv'
<1>1. /\ rv' = Exhaust(rv) /\ Books(FALSE) /\ TickEnds(r) /\ UNCHANGED <<pr, changes, pods, op, moves>>
  BY StopStep
<1>2. rv' \in Review /\ rv'.merge = rv.merge
  BY <1>1, Typed, ExhaustDoes
<1>3. Apart(rv'.merge)
  BY <1>2, Typed
<1> QED BY <1>1, <1>2, <1>3, Typed, TypeTurn

LEMMA DoneStep ==
  ASSUME TypeInv, NEW r \in Ticks, TickDone(r)
  PROVE  LET w == tick[r]
         IN  /\ \/ At(r, "done") /\ rv' = MarkDone(rv, w.head, w.content)
                \/ At(r, "arm") /\ rv' = ArmMerge(rv, Snapshot(w))
             /\ Fine /\ Books(FALSE) /\ TickEnds(r) /\ UNCHANGED <<pr, changes, pods, op, moves>>
             /\ w \in Tick /\ w.head \in Epochs /\ w.content \in Epochs /\ Snapshot(w) \in Snapshots
<1>1. tick[r] \in Tick
  BY Typed
<1>2. tick[r].head \in Epochs /\ tick[r].content \in Epochs /\ Snapshot(tick[r]) \in Snapshots
  BY <1>1 DEF Tick, Snapshot, Snapshots
<1> QED BY <1>1, <1>2, BooksAre, FinishMoves DEF TickDone, Wrote

LEMMA TypeDone ==
  ASSUME TypeInv, NEW r \in Ticks, TickDone(r)
  PROVE  TypeInv'
<1> DEFINE w == tick[r]
<1>1. /\ \/ rv' = MarkDone(rv, w.head, w.content)
         \/ rv' = ArmMerge(rv, Snapshot(w))
      /\ Books(FALSE) /\ TickEnds(r) /\ UNCHANGED <<pr, changes, pods, op, moves>>
      /\ w.head \in Epochs /\ w.content \in Epochs /\ Snapshot(w) \in Snapshots
  BY DoneStep
<1>2. rv \in Review /\ Apart(rv.merge)
  BY Typed
<1> HIDE DEF w
<1>3. rv' \in Review /\ Apart(rv'.merge)
  <2>1. CASE rv' = MarkDone(rv, w.head, w.content)
    <3>1. rv' \in Review /\ rv'.merge = rv.merge
      BY <1>1, <1>2, <2>1, MarkDoneDoes
    <3> QED BY <1>2, <3>1
  <2>2. CASE rv' = ArmMerge(rv, Snapshot(w))
    BY <1>1, <1>2, <2>2, ArmMergeDoes DEF MergeWrite
  <2> QED BY <1>1, <2>1, <2>2
<1> QED BY <1>1, <1>3, Typed, TypeTurn

LEMMA ClaimStep ==
  ASSUME TypeInv, NEW r \in Ticks, TickClaim(r)
  PROVE  LET w == tick[r]
             new == ClaimMerge(rv, w.head, Snapshot(w))
         IN  /\ At(r, "claim") /\ rv' = new /\ Fine /\ Books(FALSE)
             /\ UNCHANGED <<pr, changes, pods, op, moves>>
             /\ \/ new = rv /\ TickEnds(r)
                \/ new # rv /\ TickGoes(r, "merge")
BY BooksAre, FinishMoves, ThenMoves DEF TickClaim, Wrote, PCs

LEMMA TypeClaim ==
  ASSUME TypeInv, NEW r \in Ticks, TickClaim(r)
  PROVE  TypeInv'
<1> DEFINE w == tick[r]
<1>1. /\ rv' = ClaimMerge(rv, w.head, Snapshot(w)) /\ Books(FALSE)
      /\ UNCHANGED <<pr, changes, pods, op, moves>>
      /\ TickEnds(r) \/ TickGoes(r, "merge")
  BY ClaimStep
<1>2. rv' \in Review /\ Apart(rv'.merge)
  BY <1>1, Typed, ClaimMergeDoes DEF MergeWrite
<1> QED BY <1>1, <1>2, Typed, TypeTurn DEF PCs

LEMMA ClosedDoes ==
  ASSUME TypeInv
  PROVE  /\ ClosedPR \in PullRequest /\ ~ClosedPR.open /\ ClosedPR.head = pr.head
         /\ ClosedPR.auto = "off" /\ ClosedPR.approved = NoHead
<1>1. pr.head \in Heads
  BY Typed DEF PullRequest
<1> QED BY <1>1, Ranges DEF ClosedPR, OpenedPR, PullRequest

AutoOn == [pr EXCEPT !.auto = "ours"]

LEMMA AutoOnDoes ==
  ASSUME TypeInv
  PROVE  /\ AutoOn \in PullRequest /\ AutoOn.auto = "ours" /\ AutoOn.open = pr.open
         /\ AutoOn.head = pr.head /\ AutoOn.talk = pr.talk /\ AutoOn.still = pr.still
         /\ AutoOn.approved = pr.approved /\ AutoOn.by = pr.by
BY Typed DEF AutoOn, PullRequest

\* What GitHub answers to the call that merges.
MergeCalled(w, pc) ==
  /\ pr.open /\ pr.head = w.head
  /\ \/ pc = "merged" /\ pr' = ClosedPR /\ w.approved # NoHead
     \/ pc = "enabled" /\ pr' = AutoOn /\ pr.auto = "off"

LEMMA MergeStep ==
  ASSUME TypeInv, NEW r \in Ticks, TickMerge(r)
  PROVE  LET w == tick[r]
         IN  /\ At(r, "merge") /\ Books(FALSE) /\ UNCHANGED <<changes, pods, op, moves>>
             /\ pr' = pr \/ \E pc \in {"merged", "enabled"} : MergeCalled(w, pc)
             /\ \/ /\ rv' = rv /\ Fine
                   /\ \E pc \in {"merged", "enabled"} : TickGoes(r, pc) /\ MergeCalled(w, pc)
                \/ /\ TickEnds(r) /\ (Fine => pr' = pr)
                   /\ \/ rv' = MergeWaits(rv, Snapshot(w), "new")
                      \/ rv' = MergeWaits(rv, Snapshot(w), "due") /\ pr' = pr
<1> DEFINE w == tick[r]
           Waits(since) == rv' = MergeWaits(rv, Snapshot(w), since) /\ Finish(r)
           Called == \E pc \in {"merged", "enabled"} :
                       /\ MergeCalled(w, pc)
                       /\ \/ Then(r, pc) /\ UNCHANGED rv /\ Fine
                          \/ Waits("new") /\ Fault(FALSE)
<1>1. /\ At(r, "merge") /\ UNCHANGED <<changes, pods, op, moves>>
      /\ Called \/ (Waits("new") /\ UNCHANGED pr /\ Fine) \/ (Waits("due") /\ UNCHANGED pr /\ Fault(FALSE))
  BY DEF TickMerge, MergeCalled, AutoOn
<1>2. Books(FALSE)
  BY <1>1, BooksAre
<1>3. ASSUME NEW since, Waits(since)
      PROVE  TickEnds(r) /\ rv' = MergeWaits(rv, Snapshot(w), since)
  BY <1>3, FinishMoves
<1>4. CASE Called
  <2>1. PICK pc \in {"merged", "enabled"} :
          /\ MergeCalled(w, pc)
          /\ \/ Then(r, pc) /\ UNCHANGED rv /\ Fine
             \/ Waits("new") /\ Fault(FALSE)
    BY <1>4
  <2>2. CASE Then(r, pc) /\ UNCHANGED rv /\ Fine
    <3>1. TickGoes(r, pc)
      BY <2>2, ThenMoves DEF PCs
    <3> QED BY <1>1, <1>2, <2>1, <2>2, <3>1
  <2>3. CASE Waits("new") /\ Fault(FALSE)
    <3>1. TickEnds(r) /\ rv' = MergeWaits(rv, Snapshot(w), "new")
      BY <1>3, <2>3
    <3>2. ~Fine
      <4>1. faults' = faults + 1
        BY <2>3 DEF Fault
      <4>2. faults \in 0 .. MaxFaults /\ MaxFaults \in Nat
        BY Typed, Numbers
      <4> QED BY <4>1, <4>2 DEF Fine
    <3> QED BY <1>1, <1>2, <2>1, <3>1, <3>2
  <2> QED BY <2>1, <2>2, <2>3
<1>5. CASE Waits("new") /\ UNCHANGED pr /\ Fine
  BY <1>1, <1>2, <1>3, <1>5
<1>6. CASE Waits("due") /\ UNCHANGED pr /\ Fault(FALSE)
  BY <1>1, <1>2, <1>3, <1>6
<1> QED BY <1>1, <1>4, <1>5, <1>6

LEMMA MergeCalledDoes ==
  ASSUME TypeInv, NEW w, NEW pc \in {"merged", "enabled"}, MergeCalled(w, pc)
  PROVE  pr' \in PullRequest /\ pr'.head = pr.head
BY ClosedDoes, AutoOnDoes DEF MergeCalled

LEMMA TypeMerge ==
  ASSUME TypeInv, NEW r \in Ticks, TickMerge(r)
  PROVE  TypeInv'
<1> DEFINE w == tick[r]
<1>1. /\ Books(FALSE) /\ UNCHANGED <<changes, pods, op, moves>>
      /\ pr' = pr \/ \E pc \in {"merged", "enabled"} : MergeCalled(w, pc)
      /\ TickEnds(r) \/ \E pc \in {"merged", "enabled"} : TickGoes(r, pc)
      /\ rv' \in {rv, MergeWaits(rv, Snapshot(w), "new"), MergeWaits(rv, Snapshot(w), "due")}
  BY MergeStep
<1>2. pr' \in PullRequest
  BY <1>1, Typed, MergeCalledDoes
<1>3. rv' \in Review /\ Apart(rv'.merge)
  <2>1. CASE rv' = rv
    BY <2>1, Typed
  <2>2. CASE rv' = MergeWaits(rv, Snapshot(w), "new")
    BY <2>2, Typed, MergeWaitsDoes DEF MergeWrite
  <2>3. CASE rv' = MergeWaits(rv, Snapshot(w), "due")
    BY <2>3, Typed, MergeWaitsDoes DEF MergeWrite
  <2> QED BY <1>1, <2>1, <2>2, <2>3
<1> QED BY <1>1, <1>2, <1>3, Typed, TypeTurn DEF PCs

LEMMA MergedStep ==
  ASSUME TypeInv, NEW r \in Ticks, TickMerged(r)
  PROVE  LET w == tick[r]
         IN  /\ \/ At(r, "merged") /\ rv' = MergedByArbetern(rv)
                \/ At(r, "enabled") /\ rv' = MergeOn(rv, w.content, w.head, TRUE)
             /\ Fine /\ Books(FALSE) /\ TickEnds(r) /\ UNCHANGED <<pr, changes, pods, op, moves>>
             /\ MergeWrite(rv, rv')
<1> DEFINE w == tick[r]
<1>1. /\ \/ At(r, "merged") /\ rv' = MergedByArbetern(rv)
         \/ At(r, "enabled") /\ rv' = MergeOn(rv, w.content, w.head, TRUE)
      /\ Fine /\ Books(FALSE) /\ TickEnds(r) /\ UNCHANGED <<pr, changes, pods, op, moves>>
  BY BooksAre, FinishMoves DEF TickMerged, Wrote
<1>2. w.head \in Epochs /\ w.content \in Epochs /\ TRUE \in BOOLEAN
  BY Typed DEF Tick
<1>3. CASE rv' = MergedByArbetern(rv)
  BY <1>1, <1>3, Typed, MergedDoes
<1>4. CASE rv' = MergeOn(rv, w.content, w.head, TRUE)
  BY <1>1, <1>2, <1>4, Typed, MergeOnDoes
<1> QED BY <1>1, <1>3, <1>4

LEMMA TypeMerged ==
  ASSUME TypeInv, NEW r \in Ticks, TickMerged(r)
  PROVE  TypeInv'
<1>1. /\ Books(FALSE) /\ TickEnds(r) /\ UNCHANGED <<pr, changes, pods, op, moves>>
      /\ MergeWrite(rv, rv')
  BY MergedStep
<1> QED BY <1>1, Typed, TypeTurn DEF MergeWrite

LEMMA RoundTaken ==
  ASSUME TypeInv, NEW r \in Ticks, TickRound(r)
  PROVE  LET w == tick[r]
         IN  /\ At(r, "round") /\ Fine /\ Books(FALSE) /\ UNCHANGED <<pr, changes, pods, op, moves>>
             /\ \/ rv' = rv /\ TickEnds(r)
                \/ RoundBegins(rv, rv', w.items) /\ TickGoes(r, "launch")
<1> DEFINE w == tick[r]
           new == AddRound(rv, w.need, w.items, w.head)
<1>1. /\ At(r, "round") /\ rv' = new /\ Fine /\ UNCHANGED <<pr, changes, pods, op, moves>>
      /\ IF new # rv THEN Then(r, "launch") ELSE Finish(r)
  BY DEF TickRound, Wrote
<1>2. /\ w.need \in SUBSET {"feedback", "checks"} /\ w.items \in SUBSET Comments
      /\ w.head \in Epochs /\ rv \in Review
  BY Typed DEF Tick
<1>3. new = rv \/ RoundBegins(rv, new, w.items)
  BY <1>2, AddRoundDoes
<1> HIDE DEF new
<1>4. CASE new = rv
  BY <1>1, <1>4, BooksAre, FinishMoves
<1>5. CASE new # rv
  BY <1>1, <1>3, <1>5, BooksAre, ThenMoves DEF PCs
<1> QED BY <1>4, <1>5

LEMMA TypeRound ==
  ASSUME TypeInv, NEW r \in Ticks, TickRound(r)
  PROVE  TypeInv'
<1>1. /\ Books(FALSE) /\ UNCHANGED <<pr, changes, pods, op, moves>>
      /\ \/ rv' = rv /\ TickEnds(r)
         \/ RoundBegins(rv, rv', tick[r].items) /\ TickGoes(r, "launch")
  BY RoundTaken
<1>2. rv' \in Review /\ Apart(rv'.merge)
  BY <1>1, Typed DEF RoundBegins, RoundWrite, Apart
<1> QED BY <1>1, <1>2, Typed, TypeTurn DEF PCs

\* The session starts, names its round, or fails it: no round begins.
LEMMA SessionStep ==
  ASSUME TypeInv, NEW r \in Ticks, TickLaunch(r) \/ TickRunning(r) \/ TickRan(r)
  PROVE  /\ At(r, "launch") \/ At(r, "running")
         /\ Books(FALSE) /\ UNCHANGED <<pr, changes, op, moves>>
         /\ RoundStep(rv, rv') /\ pods' \subseteq 1 .. MaxRounds
         /\ TickEnds(r) \/ (At(r, "launch") /\ TickGoes(r, "running"))
<1>1. rv \in Review /\ pods \subseteq 1 .. MaxRounds
  BY Typed
<1>2. CASE TickLaunch(r)
  <2>1. At(r, "launch") /\ UNCHANGED <<pr, changes, op, moves>>
    BY <1>2 DEF TickLaunch
  <2>2. PICK n \in 1 .. MaxRounds :
          \/ pods' = pods \cup {n} /\ Then(r, "running") /\ UNCHANGED rv /\ Fine
          \/ rv' = FailDispatching(rv, n) /\ Finish(r) /\ UNCHANGED pods /\ Fault(FALSE)
    BY <1>2 DEF TickLaunch
  <2>3. CASE pods' = pods \cup {n} /\ Then(r, "running") /\ UNCHANGED rv /\ Fine
    <3>1. TickGoes(r, "running") /\ Books(FALSE)
      BY <2>3, ThenMoves, BooksAre DEF PCs
    <3> QED BY <1>1, <2>1, <2>3, <3>1, RoundStepSame
  <2>4. CASE rv' = FailDispatching(rv, n) /\ Finish(r) /\ UNCHANGED pods /\ Fault(FALSE)
    BY <1>1, <2>1, <2>4, FailDispatchingDoes, FinishMoves, BooksAre
  <2> QED BY <2>2, <2>3, <2>4
<1>3. CASE TickRunning(r)
  <2>1. At(r, "running") /\ TickEnds(r) /\ UNCHANGED <<pr, changes, op, moves>>
    BY <1>3, FinishMoves DEF TickRunning
  <2>2. PICK n \in 1 .. MaxRounds :
          \/ Wrote(RoundRunning(rv, n)) /\ UNCHANGED pods
          \/ WriteFails(RoundRunning(rv, n)) /\ pods' = pods \ {n}
    BY <1>3 DEF TickRunning
  <2>3. /\ rv' \in {rv, RoundRunning(rv, n)} /\ pods' \subseteq pods /\ (Fine \/ Fault(FALSE))
    BY <2>2 DEF Wrote, WriteFails
  <2>4. RoundStep(rv, rv')
    BY <1>1, <2>3, RoundRunningDoes, RoundStepSame
  <2>5. Books(FALSE) /\ pods' \subseteq 1 .. MaxRounds
    BY <1>1, <2>3, BooksAre
  <2> QED BY <2>1, <2>4, <2>5
<1>4. CASE TickRan(r)
  BY <1>1, <1>4, RoundStepSame, FinishMoves, BooksAre DEF TickRan, Fine
<1> QED BY <1>2, <1>3, <1>4

LEMMA TypeSession ==
  ASSUME TypeInv, NEW r \in Ticks, TickLaunch(r) \/ TickRunning(r) \/ TickRan(r)
  PROVE  TypeInv'
<1>1. /\ Books(FALSE) /\ UNCHANGED <<pr, changes, op, moves>> /\ RoundStep(rv, rv')
      /\ pods' \subseteq 1 .. MaxRounds
      /\ TickEnds(r) \/ TickGoes(r, "running")
  BY SessionStep
<1>2. rv' \in Review /\ Apart(rv'.merge)
  BY <1>1, Typed DEF RoundStep, RoundWrite
<1> QED BY <1>1, <1>2, Typed, TypeTurn DEF PCs

LEMMA FailStep ==
  ASSUME TypeInv, NEW r \in Ticks, TickFails(r)
  PROVE  /\ TickMoves(r, NoTick) /\ Books(FALSE) /\ faults' # 0
         /\ lease' \in IF lease = r THEN {NoOne, 0} ELSE {lease}
         /\ UNCHANGED <<rv, pr, changes, pods, op, moves>>
BY NoneTypes, MovesTo, FaultBooks, BooksAre DEF TickFails

LEMMA TypeFails ==
  ASSUME TypeInv, NEW r \in Ticks, TickFails(r)
  PROVE  TypeInv'
<1>1. /\ TickMoves(r, NoTick) /\ Books(FALSE)
      /\ lease' \in IF lease = r THEN {NoOne, 0} ELSE {lease}
      /\ UNCHANGED <<rv, pr, changes, pods, op, moves>>
  BY FailStep
<1>2. lease' \in Ticks \cup {NoOne, 0}
  BY <1>1, Typed
<1> QED BY <1>1, <1>2, Typed, TickTypes

\* What heads are known by: the changes of a head first appeared at it or at an earlier one,
\* and changes that moved do not come back.
HeadsKnown ==
  /\ \A h \in Heads : IF h <= pr.head THEN changes[h] \in 1 .. h ELSE changes[h] = NoHead
  /\ \A g, h \in 1 .. pr.head : g <= h => changes[g] <= changes[h]
  /\ \A h \in 1 .. pr.head : changes[changes[h]] = changes[h]
  /\ pr.approved <= pr.head

Idle == {"off", "over", "stop"}

\* What a tick read is what a head had.
TickKnown(w) ==
  /\ w.pc \notin Idle => w.head \in 1 .. pr.head
  /\ w.approved <= w.head
  /\ w.pc = "observe" /\ w.changes # NoHead => w.changes = changes[w.head]
  /\ w.content # NoHead => w.head \in 1 .. pr.head /\ w.content = changes[w.head]
TicksKnown == \A r \in Ticks : TickKnown(tick[r])

\* What the ledger has is what a head had.
ReviewKnown ==
  /\ rv.contentHead <= pr.head /\ rv.doneHead <= pr.head /\ rv.merge.snapshot.content <= pr.head
  /\ rv.contentHead # NoHead => rv.content = changes[rv.contentHead]

KnownInv == HeadsKnown /\ TicksKnown /\ ReviewKnown

LEMMA NoteStep ==
  ASSUME TypeInv, KnownInv, NEW r \in Ticks, TickNote(r)
  PROVE  LET w == tick[r]
             c == changes[w.head]
         IN  /\ At(r, "note") /\ TickGoes(r, "done") /\ faults' = faults
             /\ c \in Heads /\ w.head \in 1 .. pr.head
             /\ UNCHANGED <<rv, pr, changes, pods, op, moves>> /\ past' \in Past
             /\ past'.reanswered = past.reanswered /\ past'.declined = past.declined
             /\ past'.overlap = past.overlap /\ past'.answered = past.answered
             /\ \/ past' = past /\ (Repeated(w) \/ faults > 0)
                \/ /\ ~Repeated(w) /\ faults = 0 /\ past'.noted = past.noted \cup {c}
                   /\ past'.renoted = (past.renoted \/ c \in past.noted)
<1> DEFINE w == tick[r]
           c == changes[w.head]
<1>1. /\ At(r, "note") /\ TickGoes(r, "done") /\ faults' = faults
      /\ UNCHANGED <<rv, pr, changes, pods, op, moves>>
  BY ThenMoves DEF TickNote, PCs
<1>2. w.head \in 1 .. pr.head
  BY <1>1 DEF KnownInv, TicksKnown, TickKnown, Idle, At
<1>3. pr.head \in Heads /\ pr.head \in Nat /\ pr.head <= MaxHeads
  BY Typed, Ranges DEF PullRequest
<1>4. w.head \in Heads /\ w.head <= pr.head
  BY <1>2, <1>3, Numbers DEF Heads
<1>5. c \in 1 .. w.head
  BY <1>4 DEF KnownInv, HeadsKnown
<1>6. c \in Heads
  BY <1>4, <1>5, Numbers DEF Heads
<1>7. past \in Past /\ past.renoted \in BOOLEAN /\ past.noted \subseteq Heads
  BY Typed DEF Past
<1>8. past' = IF Repeated(w) \/ faults > 0 THEN past
                 ELSE [past EXCEPT !.noted = past.noted \cup {c}, !.renoted = past.renoted \/ c \in past.noted]
  BY DEF TickNote
<1>9. CASE Repeated(w) \/ faults > 0
  BY <1>1, <1>2, <1>6, <1>7, <1>8, <1>9
<1>10. CASE ~(Repeated(w) \/ faults > 0)
  <2> DEFINE again == (past.renoted \/ c \in past.noted)
             noted == past.noted \cup {c}
  <2>1. again \in BOOLEAN /\ noted \subseteq Heads
    BY <1>6, <1>7
  <2>2. past' = [past EXCEPT !.noted = noted, !.renoted = again]
    BY <1>8, <1>10
  <2>3. faults = 0
    BY <1>10, Typed
  <2> HIDE DEF again, noted
  <2>4. past' \in Past
    BY <1>7, <2>1, <2>2 DEF Past
  <2>5. /\ past'.noted = noted /\ past'.renoted = again
        /\ past'.reanswered = past.reanswered /\ past'.declined = past.declined
        /\ past'.overlap = past.overlap /\ past'.answered = past.answered
    BY <1>7, <2>2 DEF Past
  <2> QED BY <1>1, <1>2, <1>6, <1>10, <2>3, <2>4, <2>5 DEF again, noted
<1> QED BY <1>9, <1>10

LEMMA TypeNote ==
  ASSUME TypeInv, KnownInv, NEW r \in Ticks, TickNote(r)
  PROVE  TypeInv'
<1>1. /\ TickGoes(r, "done") /\ faults' = faults /\ past' \in Past
      /\ UNCHANGED <<rv, pr, changes, pods, op, moves>>
  BY NoteStep
<1>2. PICK t \in Tick : TickMoves(r, t) /\ lease' = lease
  BY <1>1 DEF TickGoes
<1>3. OpKnown'
  BY <1>1 DEF TypeInv, OpKnown
<1> QED BY <1>1, <1>2, <1>3, Typed, TypeNext DEF TickMoves

-----------------------------------------------------------------------------
(* Reports and sessions: their steps, and the shape they keep. *)

\* Report g becomes o.
OpMoves(g, o) ==
  /\ op' \in [Guards -> Op] /\ o \in Op /\ op'[g] = o
  /\ \A h \in Guards : h # g => op'[h] = op[h]

LEMMA OpMovesTo ==
  ASSUME TypeInv, NEW g \in Guards, NEW o \in Op, op' = [op EXCEPT ![g] = o]
  PROVE  OpMoves(g, o)
BY Typed DEF OpMoves

\* A report leaves the ticks and GitHub alone.
OpTypes ==
  /\ rv' \in Review /\ Apart(rv'.merge) /\ faults' \in 0 .. MaxFaults /\ past' \in Past
  /\ UNCHANGED <<pr, changes, pods, lease, tick, moves>>

LEMMA OpTyped ==
  ASSUME TypeInv, NEW g \in Guards, NEW o, OpMoves(g, o), o.pc # "off" => o.n \in 1 .. MaxRounds,
         OpTypes
  PROVE  TypeInv'
<1>1. OpKnown'
  <2>1. ASSUME NEW h \in Guards, op'[h].pc # "off"
        PROVE  op'[h].n \in 1 .. MaxRounds
    <3>1. CASE h = g
      BY <2>1, <3>1 DEF OpMoves
    <3>2. CASE h # g
      BY <2>1, <3>2 DEF OpMoves, TypeInv, OpKnown
    <3> QED BY <3>1, <3>2
  <2> QED BY <2>1 DEF OpKnown
<1>2. op' \in [Guards -> Op]
  BY DEF OpMoves
<1> HIDE DEF OpKnown
<1> QED BY <1>1, <1>2, Typed, TypeNext DEF OpTypes

\* A report begins: the round is its own.
ReportBegins(g, n) ==
  /\ rv.open /\ rv.rounds[n].status = "running" /\ rv.rounds[n].reporting = NoOne
  /\ RoundWrite(rv, rv') /\ rv'.merge = rv.merge /\ rv'.head = rv.head /\ rv'.quiet = rv.quiet
  /\ rv'.handled = rv.handled /\ rv'.rounds[n].reporting = g
  /\ rv'.rounds[n].status = "running" /\ rv'.rounds[n].items = rv.rounds[n].items
  /\ \A j \in 1 .. MaxRounds : j # n => rv'.rounds[j] = rv.rounds[j]

LEMMA ReportStep ==
  ASSUME TypeInv, NEW g \in Guards, NEW n \in 1 .. MaxRounds, Report(g, n)
  PROVE  /\ OpAt(g, "off") /\ ReportBegins(g, n) /\ Fine /\ Books(FALSE)
         /\ UNCHANGED <<pr, changes, pods, lease, tick, moves>>
         /\ \E o \in Op : /\ OpMoves(g, o) /\ o.pc = "post" /\ o.n = n
                          /\ o.items = rv.rounds[n].items
<1> DEFINE o == [NoOp EXCEPT !.pc = "post", !.n = n, !.head = rv.rounds[n].before,
                             !.items = rv.rounds[n].items]
           new == BeginRoundReport(rv, n, g)
           set == [rv EXCEPT !.rounds[n].reporting = g]
<1>1. /\ OpAt(g, "off") /\ rv' = new /\ new # rv /\ Fine /\ op' = [op EXCEPT ![g] = o]
      /\ UNCHANGED <<pr, changes, pods, lease, tick, moves>>
  BY DEF Report, Wrote
<1>2. new = set /\ rv.open /\ rv.rounds[n].status = "running" /\ rv.rounds[n].reporting = NoOne
  BY <1>1 DEF BeginRoundReport, ReportFresh
<1>3. rv.rounds[n] \in Round
  BY Typed DEF Review
<1>4. rv.rounds[n].before \in Epochs /\ rv.rounds[n].items \in SUBSET Comments /\ n \in 0 .. MaxRounds
  BY <1>3, Numbers DEF Round
<1>5. o \in Op /\ o.pc = "post" /\ o.n = n /\ o.items = rv.rounds[n].items
  BY <1>4, NoneTypes DEF Op, NoOp
<1> HIDE DEF o, new
<1>6. OpMoves(g, o)
  BY <1>1, <1>5, OpMovesTo
<1>7. g \in Guards \cup {NoOne} /\ rv \in Review
  BY Typed
<1>8. /\ RoundWrite(rv, set) /\ set.merge = rv.merge /\ set.head = rv.head /\ set.quiet = rv.quiet
      /\ set.handled = rv.handled /\ set.rounds[n].reporting = g
      /\ set.rounds[n].status = rv.rounds[n].status /\ set.rounds[n].items = rv.rounds[n].items
      /\ \A j \in 1 .. MaxRounds : j # n => set.rounds[j] = rv.rounds[j]
  BY <1>7, ReportingWrites
<1> HIDE DEF set
<1>9. ReportBegins(g, n)
  BY <1>1, <1>2, <1>8 DEF ReportBegins
<1> QED BY <1>1, <1>5, <1>6, <1>9, BooksAre

LEMMA TypeReport ==
  ASSUME TypeInv, NEW g \in Guards, NEW n \in 1 .. MaxRounds, Report(g, n)
  PROVE  TypeInv'
<1>1. /\ ReportBegins(g, n) /\ Books(FALSE) /\ UNCHANGED <<pr, changes, pods, lease, tick, moves>>
  BY ReportStep
<1>2. PICK o \in Op : OpMoves(g, o) /\ o.n = n
  BY ReportStep
<1>3. OpTypes
  BY <1>1, Typed DEF ReportBegins, RoundWrite, Books, OpTypes
<1> QED BY <1>2, <1>3, OpTyped

LEMMA PostStep ==
  ASSUME TypeInv, NEW g \in Guards, OpPost(g)
  PROVE  /\ OpAt(g, "post") /\ UNCHANGED <<rv, pr, changes, pods, lease, tick, moves, faults>>
         /\ op[g].n \in 1 .. MaxRounds /\ past' \in Past
         /\ past'.noted = past.noted /\ past'.renoted = past.renoted
         /\ past'.overlap = past.overlap /\ past'.declined = past.declined
         /\ \E o \in Op :
              /\ OpMoves(g, o) /\ o.n = op[g].n /\ o.items = op[g].items
              /\ \/ /\ o.pc = "record"
                    /\ \/ faults > 0 /\ past' = past
                       \/ /\ faults = 0 /\ past'.answered = past.answered \cup op[g].items
                          /\ past'.reanswered = (past.reanswered \/ op[g].items \cap past.answered # {})
                 \/ o.pc = "release" /\ past' = past
<1> DEFINE w == op[g]
           after == IF faults > 0 THEN past
                    ELSE [past EXCEPT !.answered = past.answered \cup w.items,
                                      !.reanswered = past.reanswered \/ w.items \cap past.answered # {}]
<1>1. /\ OpAt(g, "post") /\ UNCHANGED <<rv, pr, changes, pods, lease, tick, moves, faults>>
  BY DEF OpPost
<1>2. w \in Op /\ w.n \in 1 .. MaxRounds /\ w.head \in Epochs /\ w.items \subseteq Comments
  BY <1>1, Typed DEF TypeInv, OpKnown, OpAt, Op
<1>3. past \in Past /\ past.answered \subseteq Comments /\ past.reanswered \in BOOLEAN /\ faults \in Nat
  BY Typed, Numbers DEF Past
<1>4. pr.head \in Epochs
  BY Typed, Ranges DEF PullRequest
<1>5. \/ \E h \in Epochs, q \in BOOLEAN :
           /\ op' = [op EXCEPT ![g] = [w EXCEPT !.pc = "record", !.head = h, !.question = q]]
           /\ past' = after
      \/ op' = [op EXCEPT ![g] = [w EXCEPT !.pc = "release"]] /\ past' = past
  BY <1>2, <1>4, Typed DEF OpPost, OpGoto
<1> HIDE DEF after
<1>6. CASE op' = [op EXCEPT ![g] = [w EXCEPT !.pc = "release"]] /\ past' = past
  <2> DEFINE o == [w EXCEPT !.pc = "release"]
  <2>1. o \in Op /\ o.pc = "release" /\ o.n = w.n /\ o.items = w.items
    BY <1>2 DEF Op
  <2> HIDE DEF o
  <2>2. OpMoves(g, o)
    BY <1>6, <2>1, OpMovesTo DEF o
  <2> QED BY <1>1, <1>2, <1>3, <1>6, <2>1, <2>2
<1>7. CASE \E h \in Epochs, q \in BOOLEAN :
             /\ op' = [op EXCEPT ![g] = [w EXCEPT !.pc = "record", !.head = h, !.question = q]]
             /\ past' = after
  <2>1. PICK h \in Epochs, q \in BOOLEAN :
          /\ op' = [op EXCEPT ![g] = [w EXCEPT !.pc = "record", !.head = h, !.question = q]]
          /\ past' = after
    BY <1>7
  <2> DEFINE o == [w EXCEPT !.pc = "record", !.head = h, !.question = q]
  <2>2. o \in Op /\ o.pc = "record" /\ o.n = w.n /\ o.items = w.items
    BY <1>2 DEF Op
  <2> HIDE DEF o
  <2>3. OpMoves(g, o)
    BY <2>1, <2>2, OpMovesTo DEF o
  <2>4. CASE faults > 0
    <3>1. past' = past
      BY <2>1, <2>4 DEF after
    <3> QED BY <1>1, <1>2, <1>3, <2>2, <2>3, <2>4, <3>1
  <2>5. CASE faults = 0
    <3> DEFINE again == (past.reanswered \/ w.items \cap past.answered # {})
               answered == past.answered \cup w.items
    <3>1. again \in BOOLEAN /\ answered \subseteq Comments
      BY <1>2, <1>3
    <3>2. past' = [past EXCEPT !.answered = answered, !.reanswered = again]
      BY <2>1, <2>5 DEF after
    <3> HIDE DEF again, answered
    <3>3. past' \in Past
      BY <1>3, <3>1, <3>2 DEF Past
    <3>4. /\ past'.answered = answered /\ past'.reanswered = again
          /\ past'.noted = past.noted /\ past'.renoted = past.renoted
          /\ past'.overlap = past.overlap /\ past'.declined = past.declined
      BY <1>3, <3>2 DEF Past
    <3> QED BY <1>1, <1>2, <2>2, <2>3, <2>5, <3>3, <3>4 DEF again, answered
  <2> QED BY <1>3, <2>4, <2>5
<1> QED BY <1>5, <1>6, <1>7

LEMMA TypePost ==
  ASSUME TypeInv, NEW g \in Guards, OpPost(g)
  PROVE  TypeInv'
<1>1. /\ UNCHANGED <<rv, pr, changes, pods, lease, tick, moves, faults>>
      /\ op[g].n \in 1 .. MaxRounds /\ past' \in Past
  BY PostStep
<1>2. PICK o \in Op : OpMoves(g, o) /\ o.n = op[g].n
  BY PostStep
<1>3. OpTypes
  BY <1>1, Typed DEF OpTypes
<1> QED BY <1>1, <1>2, <1>3, OpTyped

\* The outcome of a round is recorded, what a round posted that was ended before is entered,
\* or the round is over already.
LEMMA OutcomeStep ==
  ASSUME TypeInv, NEW g \in Guards, OpRecord(g)
  PROVE  LET n == op[g].n
             res == [head |-> op[g].head, question |-> op[g].question]
         IN  /\ OpAt(g, "record") /\ OpMoves(g, NoOp) /\ Fine /\ Books(FALSE)
             /\ UNCHANGED <<pr, changes, pods, lease, tick, moves>> /\ n \in 1 .. MaxRounds
             /\ \/ rv' = rv /\ ~(rv.open /\ rv.rounds[n].status = "running")
                \/ /\ rv.open /\ rv.rounds[n].status \in {"running", "failed"}
                   /\ RoundRecord(rv, rv', n, res)
<1> DEFINE n == op[g].n
           res == [head |-> op[g].head, question |-> op[g].question]
           fin == FinishRound(rv, n, res)
           late == RecordRoundReplies(rv, n, res)
<1>1. /\ OpAt(g, "record") /\ rv' = (IF fin # rv THEN fin ELSE late) /\ Fine
      /\ op' = [op EXCEPT ![g] = NoOp] /\ UNCHANGED <<pr, changes, pods, lease, tick, moves>>
  BY DEF OpRecord, Wrote, OpGoto
<1>2. n \in 1 .. MaxRounds /\ res \in [head: Epochs, question: BOOLEAN]
  BY <1>1, Typed DEF TypeInv, OpKnown, OpAt, Op
<1> HIDE DEF n, res
<1>3. \/ fin = rv /\ ~(rv.open /\ rv.rounds[n].status = "running")
      \/ rv.open /\ rv.rounds[n].status = "running" /\ RoundRecord(rv, fin, n, res)
  BY <1>2, Typed, FinishRoundDoes
<1>4. late = rv \/ (rv.open /\ rv.rounds[n].status = "failed" /\ RoundRecord(rv, late, n, res))
  BY <1>2, Typed, RecordRepliesDoes
<1> HIDE DEF fin, late
<1>5. \/ rv' = rv /\ ~(rv.open /\ rv.rounds[n].status = "running")
      \/ rv.open /\ rv.rounds[n].status \in {"running", "failed"} /\ RoundRecord(rv, rv', n, res)
  <2>1. CASE fin = rv /\ ~(rv.open /\ rv.rounds[n].status = "running")
    BY <1>1, <1>4, <2>1
  <2>2. CASE rv.open /\ rv.rounds[n].status = "running" /\ RoundRecord(rv, fin, n, res)
    <3>1. fin # rv
      BY <2>2 DEF RoundRecord, ActiveRound
    <3> QED BY <1>1, <2>2, <3>1
  <2> QED BY <1>3, <2>1, <2>2
<1>6. OpMoves(g, NoOp) /\ Books(FALSE)
  BY <1>1, NoneTypes, OpMovesTo, BooksAre
<1> QED BY <1>1, <1>2, <1>5, <1>6 DEF n, res

LEMMA TypeOutcome ==
  ASSUME TypeInv, NEW g \in Guards, OpRecord(g)
  PROVE  TypeInv'
<1> DEFINE n == op[g].n
           res == [head |-> op[g].head, question |-> op[g].question]
<1>1. /\ OpMoves(g, NoOp) /\ Books(FALSE) /\ UNCHANGED <<pr, changes, pods, lease, tick, moves>>
      /\ rv' = rv \/ RoundRecord(rv, rv', n, res)
  BY OutcomeStep
<1> HIDE DEF n, res
<1>2. rv' \in Review /\ rv'.merge = rv.merge
  BY <1>1, Typed DEF RoundRecord, RoundWrite
<1>3. OpTypes
  BY <1>1, <1>2, Typed DEF Books, OpTypes
<1> QED BY <1>1, <1>3, NoneTypes, OpTyped

\* The guard of a report is cleared, or nothing changes.
LEMMA ReleaseStep ==
  ASSUME TypeInv, NEW g \in Guards, OpRelease(g)
  PROVE  LET n == op[g].n
         IN  /\ OpAt(g, "release") /\ OpMoves(g, NoOp) /\ Fine /\ Books(FALSE)
             /\ UNCHANGED <<pr, changes, pods, lease, tick, moves>> /\ n \in 1 .. MaxRounds
             /\ \/ rv' = rv
                \/ /\ RoundWrite(rv, rv') /\ rv'.merge = rv.merge /\ rv'.head = rv.head
                   /\ rv'.quiet = rv.quiet /\ rv'.handled = rv.handled
                   /\ rv'.rounds[n].status = rv.rounds[n].status
                   /\ rv'.rounds[n].items = rv.rounds[n].items
                   /\ \A j \in 1 .. MaxRounds : j # n => rv'.rounds[j] = rv.rounds[j]
<1> DEFINE n == op[g].n
           set == [rv EXCEPT !.rounds[n].reporting = NoOne]
<1>1. /\ OpAt(g, "release") /\ rv' \in {rv, set} /\ Fine /\ op' = [op EXCEPT ![g] = NoOp]
      /\ UNCHANGED <<pr, changes, pods, lease, tick, moves>>
  BY DEF OpRelease, ClearRoundReport, Wrote, OpGoto
<1>2. n \in 1 .. MaxRounds /\ NoOne \in Guards \cup {NoOne}
  BY <1>1, Typed DEF TypeInv, OpKnown, OpAt
<1> HIDE DEF n
<1>3. /\ RoundWrite(rv, set) /\ set.merge = rv.merge /\ set.head = rv.head /\ set.quiet = rv.quiet
      /\ set.handled = rv.handled
      /\ set.rounds[n].status = rv.rounds[n].status /\ set.rounds[n].items = rv.rounds[n].items
      /\ \A j \in 1 .. MaxRounds : j # n => set.rounds[j] = rv.rounds[j]
  BY <1>2, Typed, ReportingWrites
<1> HIDE DEF set
<1>4. OpMoves(g, NoOp) /\ Books(FALSE)
  BY <1>1, NoneTypes, OpMovesTo, BooksAre
<1> QED BY <1>1, <1>2, <1>3, <1>4 DEF n

LEMMA TypeRelease ==
  ASSUME TypeInv, NEW g \in Guards, OpRelease(g)
  PROVE  TypeInv'
<1>1. /\ OpMoves(g, NoOp) /\ Books(FALSE) /\ UNCHANGED <<pr, changes, pods, lease, tick, moves>>
      /\ rv' = rv \/ (RoundWrite(rv, rv') /\ rv'.merge = rv.merge)
  BY ReleaseStep
<1>2. rv' \in Review /\ rv'.merge = rv.merge
  BY <1>1, Typed DEF RoundWrite
<1>3. OpTypes
  BY <1>1, <1>2, Typed DEF Books, OpTypes
<1> QED BY <1>1, <1>3, NoneTypes, OpTyped

LEMMA OpFailStep ==
  ASSUME TypeInv, NEW g \in Guards, OpFails(g)
  PROVE  /\ OpMoves(g, NoOp) /\ Books(FALSE) /\ faults' # 0
         /\ UNCHANGED <<rv, pr, changes, pods, lease, tick, moves>>
BY NoneTypes, OpMovesTo, FaultBooks, BooksAre DEF OpFails, OpGoto

LEMMA TypeOpFails ==
  ASSUME TypeInv, NEW g \in Guards, OpFails(g)
  PROVE  TypeInv'
<1>1. /\ OpMoves(g, NoOp) /\ Books(FALSE) /\ UNCHANGED <<rv, pr, changes, pods, lease, tick, moves>>
  BY OpFailStep
<1>2. OpTypes
  BY <1>1, Typed DEF Books, OpTypes
<1> QED BY <1>1, <1>2, NoneTypes, OpTyped

LEMMA SessionTypes ==
  ASSUME TypeInv, rv' \in Review, Apart(rv'.merge), pods' \subseteq 1 .. MaxRounds,
         UNCHANGED <<pr, changes, lease, tick, op, moves, faults, past>>
  PROVE  TypeInv'
<1>1. OpKnown'
  BY DEF TypeInv, OpKnown
<1> QED BY <1>1, Typed, TypeNext

\* A session checks in, or ends.
LEMMA PodStep ==
  ASSUME TypeInv, NEW n \in 1 .. MaxRounds, CheckIn(n) \/ PodEnds(n)
  PROVE  /\ RoundStep(rv, rv') /\ pods' \subseteq pods
         /\ UNCHANGED <<pr, changes, lease, tick, op, moves, faults, past>>
<1>1. CASE CheckIn(n)
  BY <1>1, Typed, RoundRunningDoes DEF CheckIn
<1>2. CASE PodEnds(n)
  <2>1. rv' \in {rv, RoundEnded(rv, n)}
    BY <1>2 DEF PodEnds
  <2>2. RoundStep(rv, rv')
    BY <2>1, Typed, RoundEndedDoes, RoundStepSame
  <2> QED BY <1>2, <2>2 DEF PodEnds
<1> QED BY <1>1, <1>2

LEMMA TypePod ==
  ASSUME TypeInv, NEW n \in 1 .. MaxRounds, CheckIn(n) \/ PodEnds(n)
  PROVE  TypeInv'
<1>1. /\ RoundStep(rv, rv') /\ pods' \subseteq pods
      /\ UNCHANGED <<pr, changes, lease, tick, op, moves, faults, past>>
  BY PodStep
<1>2. rv' \in Review /\ Apart(rv'.merge)
  BY <1>1, Typed DEF RoundStep, RoundWrite
<1> QED BY <1>1, <1>2, Typed, SessionTypes

LEMMA HeadBounds ==
  ASSUME TypeInv
  PROVE  /\ pr.head \in Heads /\ pr.head \in Nat /\ pr.head >= 1 /\ pr.head <= MaxHeads
         /\ changes[pr.head] \in Epochs
BY Typed, Ranges DEF PullRequest

\* A head is added, with the changes epoch.
HeadAdded(epoch) ==
  /\ pr' \in PullRequest /\ pr'.head = pr.head + 1 /\ pr.open /\ pr'.open
  /\ pr'.talk = pr.talk /\ pr'.approved = pr.approved /\ pr'.auto = pr.auto /\ pr'.by = pr.by
  /\ (pr'.still <=> pr.still /\ epoch # pr.head + 1)
  /\ changes' \in [Heads -> Epochs] /\ pr.head + 1 \in Heads /\ changes'[pr.head + 1] = epoch
  /\ \A h \in Heads : h # pr.head + 1 => changes'[h] = changes[h]

LEMMA NewHeadAdds ==
  ASSUME TypeInv, NEW epoch \in Epochs, NewHead(epoch)
  PROVE  HeadAdded(epoch)
<1> DEFINE still == pr.still /\ epoch # pr.head + 1
<1>1. /\ pr.open /\ pr.head < MaxHeads /\ changes' = [changes EXCEPT ![pr.head + 1] = epoch]
      /\ pr' = [pr EXCEPT !.head = pr.head + 1, !.ci = "pending", !.still = still]
  BY DEF NewHead
<1>2. pr.head + 1 \in Heads
  BY <1>1, HeadBounds, Numbers DEF Heads
<1>3. pr \in PullRequest /\ still \in BOOLEAN
  BY Typed DEF PullRequest
<1> HIDE DEF still
<1>4. /\ pr' \in PullRequest /\ pr'.head = pr.head + 1 /\ pr'.open = pr.open /\ pr'.talk = pr.talk
      /\ pr'.approved = pr.approved /\ pr'.auto = pr.auto /\ pr'.by = pr.by /\ pr'.still = still
  BY <1>1, <1>2, <1>3 DEF PullRequest
<1>5. /\ changes' \in [Heads -> Epochs] /\ changes'[pr.head + 1] = epoch
      /\ \A h \in Heads : h # pr.head + 1 => changes'[h] = changes[h]
  BY <1>1, <1>2, Typed
<1> QED BY <1>1, <1>2, <1>4, <1>5 DEF HeadAdded, still

LEMMA PeopleTypes ==
  ASSUME TypeInv, pr' \in PullRequest, changes' \in [Heads -> Epochs], moves' \in 0 .. MaxMoves,
         past' \in Past, UNCHANGED <<rv, pods, lease, tick, op, faults>>
  PROVE  TypeInv'
<1>1. OpKnown'
  BY DEF TypeInv, OpKnown
<1> QED BY <1>1, Typed, TypeNext

LEMMA MovedDoes ==
  ASSUME TypeInv, Moved
  PROVE  moves' \in 0 .. MaxMoves /\ UNCHANGED <<rv, pods, lease, tick, op, faults>>
<1>1. moves \in 0 .. MaxMoves /\ MaxMoves \in Nat
  BY Typed, Numbers
<1> QED BY <1>1 DEF Moved, Elsewhere

\* A session or a person pushes, or the base branch is merged in.
LEMMA PushStep ==
  ASSUME TypeInv, Push \/ MergeBase \/ \E n \in 1 .. MaxRounds : SessionPush(n)
  PROVE  /\ UNCHANGED <<rv, pods, lease, tick, op, faults, past>> /\ moves' \in 0 .. MaxMoves
         /\ HeadAdded(pr.head + 1) \/ HeadAdded(changes[pr.head])
<1>1. CASE MergeBase
  BY <1>1, HeadBounds, NewHeadAdds, MovedDoes DEF MergeBase
<1>2. CASE Push \/ \E n \in 1 .. MaxRounds : SessionPush(n)
  <2>1. /\ UNCHANGED <<rv, pods, lease, tick, op, faults, past>> /\ moves' \in 0 .. MaxMoves
        /\ NewHead(pr.head + 1)
    BY <1>2, MovedDoes, Typed DEF Push, SessionPush
  <2>2. pr.head + 1 \in Epochs
    BY <2>1, HeadBounds, Numbers DEF NewHead, Heads, Epochs
  <2> QED BY <2>1, <2>2, NewHeadAdds
<1> QED BY <1>1, <1>2

LEMMA TypePush ==
  ASSUME TypeInv, Push \/ MergeBase \/ \E n \in 1 .. MaxRounds : SessionPush(n)
  PROVE  TypeInv'
BY PushStep, PeopleTypes, Typed DEF HeadAdded

\* What else people, checks and GitHub do to the pull request: heads and changes stay.
LEMMA PeopleStep ==
  ASSUME TypeInv,
         ChecksEnd \/ (\E c \in Comments : Comment(c)) \/ Approve \/ TurnOn \/ TurnOff
           \/ GitHubMerges \/ Close
  PROVE  /\ UNCHANGED <<rv, changes, pods, lease, tick, op, faults>> /\ moves' \in 0 .. MaxMoves
         /\ pr' \in PullRequest /\ pr'.head = pr.head /\ pr.open
         /\ pr'.approved \in {pr.approved, pr.head, NoHead}
         /\ past' \in Past /\ past'.noted = past.noted /\ past'.renoted = past.renoted
         /\ past'.answered = past.answered /\ past'.reanswered = past.reanswered
         /\ past'.overlap = past.overlap
         /\ \/ pr' = ClosedPR /\ past' = past
            \/ /\ pr'.open /\ past' = past /\ pr'.auto = pr.auto /\ pr'.by = pr.by
               /\ \/ pr'.talk = pr.talk /\ pr'.still = pr.still
                  \/ ~pr'.still /\ \E c \in Comments \ pr.talk : pr'.talk = pr.talk \cup {c}
            \/ /\ pr'.open /\ pr'.talk = pr.talk /\ pr'.still = pr.still
               /\ \/ pr.auto = "off" /\ pr'.auto = "theirs" /\ ~past'.declined
                  \/ /\ pr.auto # "off" /\ pr'.auto = "off" /\ pr'.by = "person"
                     /\ past'.declined => /\ rv.merge.on /\ ~rv.merge.withdrawing
                                          /\ \A r \in Ticks : At(r, "off")
<1>1. pr \in PullRequest /\ past \in Past /\ pr.head \in Epochs /\ NoHead \in Epochs
      /\ pr.head \in Heads
  BY Typed, HeadBounds, Ranges
<1>2. moves \in 0 .. MaxMoves
  BY Typed
<1>3. CASE ChecksEnd
  <2>1. PICK x \in {"passed", "failed"} : pr' = [pr EXCEPT !.ci = x]
    BY <1>3 DEF ChecksEnd
  <2>2. pr.open /\ UNCHANGED <<rv, changes, past, pods, lease, tick, op, faults>> /\ moves' \in 0 .. MaxMoves
    BY <1>2, <1>3, MovedDoes DEF ChecksEnd, Elsewhere
  <2>3. /\ pr' \in PullRequest /\ pr'.head = pr.head /\ pr'.open = pr.open /\ pr'.approved = pr.approved
        /\ pr'.auto = pr.auto /\ pr'.by = pr.by /\ pr'.talk = pr.talk /\ pr'.still = pr.still
    BY <1>1, <2>1 DEF PullRequest
  <2> QED BY <1>1, <2>2, <2>3
<1>4. CASE \E c \in Comments : Comment(c)
  <2>1. PICK c \in Comments : Comment(c)
    BY <1>4
  <2>2. PICK a \in {pr.approved, NoHead} :
          pr' = [pr EXCEPT !.talk = pr.talk \cup {c}, !.approved = a, !.still = FALSE]
    BY <2>1 DEF Comment
  <2>3. /\ pr.open /\ c \notin pr.talk /\ UNCHANGED <<rv, changes, past, pods, lease, tick, op, faults>>
        /\ moves' \in 0 .. MaxMoves
    BY <2>1, MovedDoes DEF Comment
  <2>4. a \in Epochs /\ pr.talk \cup {c} \in SUBSET Comments
    BY <1>1 DEF PullRequest
  <2>5. /\ pr' \in PullRequest /\ pr'.head = pr.head /\ pr'.open = pr.open /\ pr'.approved = a
        /\ pr'.auto = pr.auto /\ pr'.by = pr.by /\ pr'.talk = pr.talk \cup {c} /\ pr'.still = FALSE
    BY <1>1, <2>2, <2>4 DEF PullRequest
  <2> QED BY <1>1, <2>3, <2>5
<1>5. CASE Approve
  <2>1. /\ pr.open /\ pr' = [pr EXCEPT !.approved = pr.head]
        /\ UNCHANGED <<rv, changes, past, pods, lease, tick, op, faults>> /\ moves' \in 0 .. MaxMoves
    BY <1>5, MovedDoes DEF Approve
  <2>2. /\ pr' \in PullRequest /\ pr'.head = pr.head /\ pr'.open = pr.open /\ pr'.approved = pr.head
        /\ pr'.auto = pr.auto /\ pr'.by = pr.by /\ pr'.talk = pr.talk /\ pr'.still = pr.still
    BY <1>1, <2>1 DEF PullRequest
  <2> QED BY <1>1, <2>1, <2>2
<1>6. CASE TurnOn
  <2>1. /\ pr.open /\ pr.auto = "off" /\ pr' = [pr EXCEPT !.auto = "theirs"]
        /\ past' = [past EXCEPT !.declined = FALSE]
        /\ UNCHANGED <<rv, changes, pods, lease, tick, op, faults>> /\ moves' \in 0 .. MaxMoves
    BY <1>6, MovedDoes DEF TurnOn
  <2>2. /\ pr' \in PullRequest /\ pr'.head = pr.head /\ pr'.open = pr.open /\ pr'.approved = pr.approved
        /\ pr'.auto = "theirs" /\ pr'.talk = pr.talk /\ pr'.still = pr.still
    BY <1>1, <2>1 DEF PullRequest
  <2>3. /\ past' \in Past /\ past'.noted = past.noted /\ past'.renoted = past.renoted
        /\ past'.answered = past.answered /\ past'.reanswered = past.reanswered
        /\ past'.overlap = past.overlap /\ past'.declined = FALSE
    BY <1>1, <2>1 DEF Past
  <2> QED BY <2>1, <2>2, <2>3
<1>7. CASE TurnOff
  <2> DEFINE d == rv.merge.on /\ ~rv.merge.withdrawing /\ \A r \in Ticks : At(r, "off")
  <2>1. /\ pr.open /\ pr.auto # "off" /\ pr' = [pr EXCEPT !.auto = "off", !.by = "person"]
        /\ past' = [past EXCEPT !.declined = d]
        /\ UNCHANGED <<rv, changes, pods, lease, tick, op, faults>> /\ moves' \in 0 .. MaxMoves
    BY <1>7, MovedDoes DEF TurnOff
  <2>2. /\ pr' \in PullRequest /\ pr'.head = pr.head /\ pr'.open = pr.open /\ pr'.approved = pr.approved
        /\ pr'.auto = "off" /\ pr'.by = "person" /\ pr'.talk = pr.talk /\ pr'.still = pr.still
    BY <1>1, <2>1 DEF PullRequest
  <2>3. d \in BOOLEAN
    BY Typed DEF Review, MergeState
  <2> HIDE DEF d
  <2>4. /\ past' \in Past /\ past'.noted = past.noted /\ past'.renoted = past.renoted
        /\ past'.answered = past.answered /\ past'.reanswered = past.reanswered
        /\ past'.overlap = past.overlap /\ past'.declined = d
    BY <1>1, <2>1, <2>3 DEF Past
  <2> QED BY <2>1, <2>2, <2>4 DEF d
<1>8. CASE GitHubMerges \/ Close
  <2>1. /\ pr.open /\ pr' = ClosedPR /\ UNCHANGED <<rv, changes, past, pods, lease, tick, op, faults>>
        /\ moves' \in 0 .. MaxMoves
    BY <1>2, <1>8, MovedDoes DEF GitHubMerges, Close, Elsewhere
  <2> QED BY <1>1, <2>1, ClosedDoes
<1> QED BY <1>3, <1>4, <1>5, <1>6, <1>7, <1>8

LEMMA TypePeople ==
  ASSUME TypeInv,
         ChecksEnd \/ (\E c \in Comments : Comment(c)) \/ Approve \/ TurnOn \/ TurnOff
           \/ GitHubMerges \/ Close
  PROVE  TypeInv'
<1>1. /\ UNCHANGED <<rv, changes, pods, lease, tick, op, faults>> /\ moves' \in 0 .. MaxMoves
      /\ pr' \in PullRequest /\ past' \in Past
  BY PeopleStep
<1> QED BY <1>1, Typed, PeopleTypes

\* The pull request has not moved since the last unit of time.
Settled == [pr EXCEPT !.still = pr.open]

LEMMA PassStep ==
  ASSUME TypeInv, Pass
  PROVE  /\ \A r \in Ticks : tick[r] = NoTick
         /\ \A g \in Guards : op[g] = NoOp
         /\ rv' = Older(rv) /\ pr' = Settled /\ pods' \subseteq pods
         /\ lease' \in {lease, NoOne} /\ UNCHANGED <<changes, tick, op, moves, faults, past>>
         /\ pr' \in PullRequest /\ pr'.open = pr.open /\ pr'.head = pr.head /\ pr'.talk = pr.talk
         /\ pr'.approved = pr.approved /\ pr'.auto = pr.auto /\ pr'.by = pr.by /\ pr'.still = pr.open
<1>1. /\ \A r \in Ticks : tick[r] = NoTick
      /\ \A g \in Guards : op[g] = NoOp
      /\ rv' = Older(rv) /\ pr' = Settled /\ pods' \subseteq pods
      /\ lease' \in {lease, NoOne} /\ UNCHANGED <<changes, tick, op, moves, faults, past>>
  BY DEF Pass, Settled
<1>2. /\ Settled \in PullRequest /\ Settled.open = pr.open /\ Settled.head = pr.head
      /\ Settled.talk = pr.talk /\ Settled.approved = pr.approved /\ Settled.auto = pr.auto
      /\ Settled.by = pr.by /\ Settled.still = pr.open
  BY Typed DEF Settled, PullRequest
<1> QED BY <1>1, <1>2

LEMMA TypePass ==
  ASSUME TypeInv, Pass
  PROVE  TypeInv'
<1>1. /\ rv' = Older(rv) /\ pods' \subseteq pods /\ lease' \in {lease, NoOne}
      /\ UNCHANGED <<changes, tick, op, moves, faults, past>> /\ pr' \in PullRequest
  BY PassStep
<1>2. rv' \in Review /\ rv'.merge.held = rv.merge.held /\ rv'.merge.on = rv.merge.on
      /\ rv'.merge.withdrawing = rv.merge.withdrawing
  BY <1>1, Typed, OlderDoes DEF RoundWrite
<1>3. Apart(rv'.merge)
  BY <1>2, Typed DEF Apart
<1>4. OpKnown'
  BY <1>1 DEF TypeInv, OpKnown
<1>5. lease' \in Ticks \cup {NoOne, 0}
  BY <1>1, Typed
<1> QED BY <1>1, <1>2, <1>3, <1>4, <1>5, Typed, TypeNext

LEMMA TypeStep ==
  ASSUME TypeInv, KnownInv, [Next]_vars
  PROVE  TypeInv'
<1>1. CASE UNCHANGED vars
  BY <1>1 DEF vars, TypeInv, TypeOK, OpKnown
<1>2. ASSUME NEW r \in Ticks, TickStart(r) \/ TickStep(r) \/ TickFails(r)
      PROVE  TypeInv'
  BY <1>2, TypeStart, TypeOver, TypeObserve, TypeAdvance, TypeWithdraw, TypeDisable, TypeRecord,
     TypeStop, TypeNote, TypeDone, TypeClaim, TypeMerge, TypeMerged, TypeRound, TypeSession,
     TypeFails DEF TickStep
<1>3. ASSUME NEW n \in 1 .. MaxRounds, CheckIn(n) \/ SessionPush(n) \/ PodEnds(n)
      PROVE  TypeInv'
  BY <1>3, TypePod, TypePush
<1>4. ASSUME NEW g \in Guards, (\E n \in 1 .. MaxRounds : Report(g, n)) \/ OpStep(g) \/ OpFails(g)
      PROVE  TypeInv'
  BY <1>4, TypeReport, TypePost, TypeOutcome, TypeRelease, TypeOpFails DEF OpStep
<1>5. CASE Push \/ MergeBase \/ ChecksEnd \/ (\E c \in Comments : Comment(c)) \/ Approve
             \/ TurnOn \/ TurnOff \/ GitHubMerges \/ Close \/ Pass
  BY <1>5, TypePush, TypePeople, TypePass
<1> QED BY <1>1, <1>2, <1>3, <1>4, <1>5 DEF Next

LEMMA TypeInit ==
  ASSUME Init
  PROVE  TypeInv
<1>1. /\ rv = Opened /\ pr = OpenedPR /\ pods = {} /\ lease = NoOne /\ moves = 0 /\ faults = 0
      /\ changes = [h \in Heads |-> IF h = 1 THEN 1 ELSE NoHead]
      /\ tick = [r \in Ticks |-> NoTick] /\ op = [g \in Guards |-> NoOp]
      /\ past = [noted |-> {}, answered |-> {}, renoted |-> FALSE, reanswered |-> FALSE,
                 overlap |-> FALSE, declined |-> FALSE]
  BY DEF Init
<1>2. rv \in Review /\ pr \in PullRequest /\ tick \in [Ticks -> Tick] /\ op \in [Guards -> Op]
  BY <1>1, OpenedTypes, NoneTypes
<1>3. changes \in [Heads -> Epochs]
  BY <1>1, Ranges
<1>4. past \in Past
  BY <1>1 DEF Past
<1>5. moves \in 0 .. MaxMoves /\ faults \in 0 .. MaxFaults
  BY <1>1, Numbers
<1>6. Apart(rv.merge)
  <2>1. rv.merge = NoMerge
    BY <1>1 DEF Opened
  <2> QED BY <2>1, MergeTypes DEF Apart
<1>7. OpKnown
  BY <1>1, NoneTypes DEF OpKnown
<1> QED BY <1>1, <1>2, <1>3, <1>4, <1>5, <1>6, <1>7 DEF TypeInv, TypeOK, Apart

-----------------------------------------------------------------------------
(* What is known of heads stays true. *)

HeadsStay ==
  /\ pr'.head = pr.head /\ changes' = changes /\ pr'.approved \in {pr.approved, pr.head, NoHead}

LEMMA HeadsKept ==
  ASSUME TypeInv, HeadsKnown, HeadsStay
  PROVE  HeadsKnown'
<1>1. pr.head \in Nat /\ NoHead = 0
  BY HeadBounds, Ranges
<1>2. pr'.approved <= pr'.head
  BY <1>1 DEF HeadsStay, HeadsKnown
<1> QED BY <1>2 DEF HeadsStay, HeadsKnown

LEMMA TicksKept ==
  ASSUME TypeInv, TicksKnown, HeadsStay, NEW r \in Ticks, NEW t, TickMoves(r, t), TickKnown(t)
  PROVE  TicksKnown'
<1>1. ASSUME NEW q \in Ticks
      PROVE  TickKnown(tick'[q])
  BY <1>1 DEF TickMoves, TicksKnown
<1>2. ASSUME NEW q \in Ticks
      PROVE  TickKnown(tick[q])'
  BY <1>1 DEF TickKnown, HeadsStay
<1> QED BY <1>2 DEF TicksKnown

\* A watch that is on a head and its changes.
OnHead(w) ==
  /\ w.head \in 1 .. pr.head /\ w.approved <= w.head
  /\ w.content # NoHead => w.content = changes[w.head]

LEMMA OnHeadIs ==
  ASSUME TicksKnown, NEW r \in Ticks, tick[r].pc \notin Idle
  PROVE  OnHead(tick[r])
BY DEF TicksKnown, TickKnown, OnHead

LEMMA EndsKnown ==
  ASSUME TypeInv, TicksKnown, HeadsStay, NEW r \in Ticks, TickEnds(r) \/ TickMoves(r, NoTick)
  PROVE  TicksKnown'
<1>1. TickKnown(NoTick)
  BY Ranges DEF TickKnown, NoTick, Idle
<1> QED BY <1>1, TicksKept DEF TickEnds

LEMMA GoesKnown ==
  ASSUME TypeInv, TicksKnown, HeadsStay, NEW r \in Ticks, tick[r].pc \notin Idle,
         NEW pc, pc # "observe", TickGoes(r, pc)
  PROVE  TicksKnown'
<1>1. PICK t \in Tick : TickMoves(r, t) /\ t.pc = pc /\ Keeps(tick[r], t)
  BY DEF TickGoes
<1>2. TickKnown(t)
  BY <1>1, OnHeadIs DEF TickKnown, OnHead, Keeps
<1> QED BY <1>1, <1>2, TicksKept

LEMMA DecidesKnown ==
  ASSUME TypeInv, TicksKnown, HeadsStay, NEW r \in Ticks, NEW x \in Tick, OnHead(x),
         NEW pc \in PCs, Decides(r, x, pc),
         pc \in {"off", "withdraw", "cleared", "turned", "on", "disarm", "stop", "round", "note",
                 "arm", "claim"}
  PROVE  TicksKnown'
<1>1. CASE pc = "off"
  BY <1>1, EndsKnown DEF Decides
<1>2. CASE pc # "off"
  <2> DEFINE t == Needed(x, pc)
  <2>1. TickMoves(r, t)
    BY <1>2 DEF Decides
  <2>2. /\ t.pc = pc /\ t.head \in {x.head, NoHead} /\ t.content \in {x.content, NoHead}
        /\ t.approved \in {x.approved, NoHead}
        /\ pc \in {"withdraw", "cleared", "turned", "on", "disarm"} => Keeps(x, t)
        /\ pc \in {"note", "round", "arm", "claim"} => t.head = x.head
        /\ pc \in {"note", "arm", "claim"} => t.content = x.content
    BY NeededDoes
  <2>3. pc \in {"stop", "round"} => t.content = NoHead /\ t.approved = NoHead
    BY DEF Needed, NoTick
  <2>4. pc = "stop" => t.head = NoHead
    BY NeededDoes
  <2> HIDE DEF t
  <2>5. x.head \in Nat /\ NoHead = 0
    BY Ranges DEF Tick
  <2>6. TickKnown(t)
    <3>1. CASE pc \in {"withdraw", "cleared", "turned", "on", "disarm"}
      BY <2>2, <3>1 DEF TickKnown, OnHead, Keeps
    <3>2. CASE pc \in {"round", "note", "arm", "claim"}
      BY <2>2, <2>5, <3>2 DEF TickKnown, OnHead
    <3>3. CASE pc = "stop"
      BY <2>2, <2>3, <2>4, <2>5, <3>3 DEF TickKnown, Idle
    <3> QED BY <1>2, <3>1, <3>2, <3>3
  <2> QED BY <2>1, <2>6, TicksKept
<1> QED BY <1>1, <1>2

\* The ledger still has what it had of heads.
LEMMA ReviewKept ==
  ASSUME TypeInv, ReviewKnown, pr'.head = pr.head, changes' = changes,
         rv'.contentHead = rv.contentHead, rv'.content = rv.content, rv'.doneHead <= pr.head,
         rv'.merge.snapshot.content <= pr.head
  PROVE  ReviewKnown'
BY DEF ReviewKnown

LEMMA MergeKnown ==
  ASSUME TypeInv, ReviewKnown, pr'.head = pr.head, changes' = changes, MergeWrite(rv, rv'),
         rv'.merge.snapshot \in {rv.merge.snapshot, Unarmed}
  PROVE  ReviewKnown'
<1>1. rv'.merge.snapshot.content <= pr.head
  BY HeadBounds, Ranges DEF ReviewKnown, Unarmed
<1>2. rv'.contentHead = rv.contentHead /\ rv'.content = rv.content /\ rv'.doneHead = rv.doneHead
  BY DEF MergeWrite, ReadKept, DoneKept
<1> QED BY <1>1, <1>2, ReviewKept DEF ReviewKnown

LEMMA RoundsKnown ==
  ASSUME TypeInv, ReviewKnown, pr'.head = pr.head, changes' = changes, RoundWrite(rv, rv'),
         rv'.merge.snapshot \in {rv.merge.snapshot, Unarmed}
  PROVE  ReviewKnown'
<1>1. rv'.merge.snapshot.content <= pr.head
  BY HeadBounds, Ranges DEF ReviewKnown, Unarmed
<1>2. rv'.contentHead = rv.contentHead /\ rv'.content = rv.content /\ rv'.doneHead = rv.doneHead
  BY DEF RoundWrite, DoneKept
<1> QED BY <1>1, <1>2, ReviewKept DEF ReviewKnown

LEMMA KnownStart ==
  ASSUME TypeInv, KnownInv, NEW r \in Ticks, TickStart(r)
  PROVE  KnownInv'
<1>1. RoundStep(rv, rv') /\ UNCHANGED <<pr, changes>>
  BY StartStep
<1>2. PICK known \in BOOLEAN, t \in Tick :
        /\ TickMoves(r, t) /\ (pr.open => t = ReadPR(rv', known))
        /\ ~pr.open => t = [NoTick EXCEPT !.pc = "over"]
  BY StartStep
<1>3. HeadsStay
  BY <1>1 DEF HeadsStay
<1>4. rv' \in Review /\ RoundWrite(rv, rv') /\ rv'.merge = rv.merge
  BY <1>1 DEF RoundStep, RoundWrite
<1>5. ReviewKnown'
  BY <1>1, <1>4, RoundsKnown DEF KnownInv
<1>6. TickKnown(t)
  <2>1. CASE pr.open
    <3>1. /\ t.pc = "observe" /\ t.head = pr.head /\ t.content = NoHead /\ t.approved = pr.approved
          /\ t.changes \in {changes[pr.head], NoHead}
      BY <1>2, <1>4, <2>1, ReadDoes
    <3> QED BY <3>1, HeadBounds DEF TickKnown, KnownInv, HeadsKnown
  <2>2. CASE ~pr.open
    <3>1. t.pc = "over" /\ t.approved = NoHead /\ t.head = NoHead /\ t.content = NoHead
      BY <1>2, <2>2 DEF NoTick
    <3> QED BY <3>1, Ranges DEF TickKnown, Idle
  <2> QED BY <2>1, <2>2
<1> QED BY <1>2, <1>3, <1>5, <1>6, HeadsKept, TicksKept DEF KnownInv

LEMMA ChangesBound ==
  ASSUME TypeInv, HeadsKnown, NEW h \in 1 .. pr.head
  PROVE  h \in Heads /\ h \in Nat /\ changes[h] \in 1 .. h /\ changes[h] \in 1 .. pr.head
<1>1. h \in Heads /\ h \in Nat /\ h <= pr.head /\ pr.head \in Nat
  BY HeadBounds, Numbers DEF Heads
<1>2. changes[h] \in 1 .. h
  BY <1>1 DEF HeadsKnown
<1> QED BY <1>1, <1>2

LEMMA KnownObserve ==
  ASSUME TypeInv, KnownInv, NEW r \in Ticks, TickObserve(r)
  PROVE  KnownInv'
<1> DEFINE w == tick[r]
           same == Same(w.head)
           new == Observe(rv, w, same)
<1>1. /\ At(r, "observe") /\ rv' = new /\ same \in SUBSET Heads
      /\ w \in Tick /\ UNCHANGED <<pr, changes, pods, lease, op, moves>>
  BY ObserveStep
<1>2. PICK t \in Tick :
        /\ TickMoves(r, t) /\ t.pc = "advance" /\ Looks(w, t)
        /\ t.content = IF rv'.contentHead = w.head THEN rv'.content ELSE NoHead
        /\ t.approved = Approval(rv', w, t.content)
  BY ObserveStep
<1>3. HeadsStay
  BY <1>1 DEF HeadsStay
<1>4. /\ w.head \in 1 .. pr.head /\ w.approved <= w.head
      /\ w.changes # NoHead => w.changes = changes[w.head]
  BY <1>1 DEF KnownInv, TicksKnown, TickKnown, Idle, At
<1>5. rv \in Review /\ Apart(rv.merge)
  BY Typed
<1> HIDE DEF w, same
<1>6. /\ new.doneHead = rv.doneHead
      /\ new.merge = rv.merge \/ new.merge.snapshot = Unarmed
      /\ \/ new.content = rv.content /\ new.contentHead = rv.contentHead
         \/ new.content = w.changes /\ new.contentHead = w.head /\ w.changes # NoHead
  <2>1. CASE rv.open
    BY <1>1, <1>5, <2>1, ObserveDoes DEF Enters
  <2>2. CASE ~rv.open
    BY <1>1, <1>5, <2>2, ObserveDoes
  <2> QED BY <2>1, <2>2
<1> HIDE DEF new
<1>7. ReviewKnown'
  <2>1. rv'.merge.snapshot.content <= pr.head
    BY <1>1, <1>6, HeadBounds, Ranges DEF KnownInv, ReviewKnown, Unarmed
  <2>2. CASE new.content = rv.content /\ new.contentHead = rv.contentHead
    BY <1>1, <1>6, <2>1, <2>2 DEF KnownInv, ReviewKnown
  <2>3. CASE new.content = w.changes /\ new.contentHead = w.head /\ w.changes # NoHead
    BY <1>1, <1>4, <1>6, <2>1, <2>3, HeadBounds DEF KnownInv, ReviewKnown
  <2> QED BY <1>6, <2>2, <2>3
<1>8. TickKnown(t)
  <2>1. t.head = w.head /\ t.approved \in {w.approved, NoHead} /\ NoHead = 0 /\ w.head \in Nat
    BY <1>1, <1>2, <1>4, HeadBounds, Ranges DEF Looks, Approval
  <2>2. t.content # NoHead => t.content = changes[t.head]
    BY <1>1, <1>2, <1>4, <1>7, <2>1, HeadBounds, Ranges DEF ReviewKnown
  <2> QED BY <1>2, <1>4, <2>1, <2>2 DEF TickKnown
<1> QED BY <1>2, <1>3, <1>7, <1>8, HeadsKept, TicksKept DEF KnownInv

LEMMA KnownDecides ==
  ASSUME TypeInv, KnownInv, NEW r \in Ticks, TickAdvance(r) \/ TickRecord(r)
  PROVE  KnownInv'
<1>1. CASE TickAdvance(r)
  <2> DEFINE x == Weighed(tick[r])
  <2>1. /\ At(r, "advance") /\ x \in Tick /\ tick[r] \in Tick
        /\ UNCHANGED <<rv, pr, changes, pods, op, moves>>
    BY <1>1, AdvanceStep
  <2>2. PICK pc \in PCs :
          /\ Decides(r, x, pc)
          /\ pc \in {"off", "withdraw", "cleared", "turned", "on", "disarm"} \/ pc = Acts(rv, x)
    BY <1>1, AdvanceStep
  <2>3. x.head = tick[r].head /\ x.approved = tick[r].approved /\ x.content = tick[r].content
    BY <2>1, WeighedDoes
  <2> HIDE DEF x
  <2>4. OnHead(x)
    BY <2>1, <2>3, OnHeadIs DEF KnownInv, OnHead, At, Idle
  <2>5. HeadsStay /\ ReviewKnown'
    BY <2>1 DEF HeadsStay, KnownInv, ReviewKnown
  <2>6. TicksKnown'
    BY <2>1, <2>2, <2>4, <2>5, ActsIn, DecidesKnown DEF KnownInv
  <2> QED BY <2>5, <2>6, HeadsKept DEF KnownInv
<1>2. CASE TickRecord(r)
  <2> DEFINE w == tick[r]
  <2>1. /\ w \in Tick /\ w.pc \in {"cleared", "turned", "on", "disarm"}
        /\ UNCHANGED <<pr, changes, pods, op, moves>>
    BY <1>2, RecordStep
  <2>2. PICK pc \in PCs, read \in {rv, FollowWrite(w)} :
          pc = Acts(read, w) /\ Decides(r, w, pc) /\ rv' \in {rv, FollowWrite(w)}
    BY <1>2, RecordStep
  <2>3. MergeWrite(rv, rv') /\ rv'.merge.snapshot \in {rv.merge.snapshot, Unarmed}
    <3>1. CASE rv' = rv
      BY <3>1, Typed, MergeSame
    <3>2. CASE rv' = FollowWrite(w)
      BY <2>1, <3>2, FollowWriteDoes
    <3> QED BY <2>2, <3>1, <3>2
  <2>4. OnHead(w)
    BY <2>1, OnHeadIs DEF KnownInv, Idle
  <2>5. HeadsStay
    BY <2>1 DEF HeadsStay
  <2>6. ReviewKnown'
    BY <2>1, <2>3, MergeKnown DEF KnownInv
  <2>7. TicksKnown'
    BY <2>1, <2>2, <2>4, <2>5, ActsIn, DecidesKnown DEF KnownInv
  <2> QED BY <2>5, <2>6, <2>7, HeadsKept DEF KnownInv
<1> QED BY <1>1, <1>2

\* A tick that ends or goes on with what it read, and writes what concerns auto-merge.
LEMMA KnownTurn ==
  ASSUME TypeInv, KnownInv, NEW r \in Ticks, HeadsStay, ReviewKnown', tick[r].pc # "off",
         \/ TickEnds(r)
         \/ tick[r].pc \notin Idle /\ \E pc \in PCs : pc # "observe" /\ TickGoes(r, pc)
  PROVE  KnownInv'
BY HeadsKept, EndsKnown, GoesKnown DEF KnownInv

LEMMA KnownTick ==
  ASSUME TypeInv, KnownInv, NEW r \in Ticks, TickStep(r) \/ TickFails(r)
  PROVE  KnownInv'
<1>1. CASE TickObserve(r)
  BY <1>1, KnownObserve
<1>2. CASE TickAdvance(r) \/ TickRecord(r)
  BY <1>2, KnownDecides
<1>3. CASE TickOver(r)
  <2>1. At(r, "over") /\ rv' = CloseReview /\ TickEnds(r) /\ UNCHANGED <<pr, changes>>
    BY <1>3, OverStep
  <2>2. ReviewKnown'
    BY <2>1, OpenedTypes, MergeTypes, HeadBounds, Ranges DEF ReviewKnown, NoMerge, Unarmed
  <2> QED BY <2>1, <2>2, KnownTurn DEF HeadsStay, At
<1>4. CASE TickWithdraw(r)
  <2>1. At(r, "withdraw") /\ rv' = WithdrawMerge(rv) /\ TickGoes(r, "disable") /\ UNCHANGED <<pr, changes>>
    BY <1>4, WithdrawStep
  <2>2. MergeWrite(rv, rv') /\ rv'.merge.snapshot = rv.merge.snapshot
    BY <2>1, Typed, WithdrawMergeDoes
  <2>3. ReviewKnown'
    BY <2>1, <2>2, MergeKnown DEF KnownInv
  <2> QED BY <2>1, <2>3, KnownTurn DEF HeadsStay, At, Idle, PCs
<1>5. CASE TickDisable(r)
  <2>1. At(r, "disable") /\ pr' = Disabled /\ TickGoes(r, "cleared") /\ UNCHANGED <<rv, changes>>
    BY <1>5, DisableStep
  <2>2. HeadsStay
    BY <2>1, DisabledDoes DEF HeadsStay
  <2>3. ReviewKnown'
    BY <2>1, <2>2 DEF HeadsStay, KnownInv, ReviewKnown
  <2> QED BY <2>1, <2>2, <2>3, KnownTurn DEF At, Idle, PCs
<1>6. CASE TickStop(r)
  <2>1. At(r, "stop") /\ rv' = Exhaust(rv) /\ TickEnds(r) /\ UNCHANGED <<pr, changes>>
    BY <1>6, StopStep
  <2>2. ReadKept(rv, rv') /\ DoneKept(rv, rv') /\ rv'.merge = rv.merge
    BY <2>1, Typed, ExhaustDoes
  <2>3. ReviewKnown'
    BY <2>1, <2>2 DEF KnownInv, ReviewKnown, ReadKept, DoneKept
  <2> QED BY <2>1, <2>3, KnownTurn DEF HeadsStay, At
<1>7. CASE TickNote(r)
  <2>1. At(r, "note") /\ TickGoes(r, "done") /\ UNCHANGED <<rv, pr, changes>>
    BY <1>7, NoteStep
  <2>2. ReviewKnown'
    BY <2>1 DEF KnownInv, ReviewKnown
  <2> QED BY <2>1, <2>2, KnownTurn DEF HeadsStay, At, Idle, PCs
<1>8. CASE TickDone(r)
  <2> DEFINE w == tick[r]
  <2>1. /\ \/ At(r, "done") /\ rv' = MarkDone(rv, w.head, w.content)
           \/ At(r, "arm") /\ rv' = ArmMerge(rv, Snapshot(w))
        /\ TickEnds(r) /\ UNCHANGED <<pr, changes>>
        /\ w.head \in Epochs /\ w.content \in Epochs /\ Snapshot(w) \in Snapshots
    BY <1>8, DoneStep
  <2>2. w.head \in 1 .. pr.head /\ (w.content # NoHead => w.content = changes[w.head])
    BY <2>1, OnHeadIs DEF KnownInv, OnHead, At, Idle
  <2>3. w.head <= pr.head /\ w.content <= pr.head
    <3>1. changes[w.head] \in 1 .. pr.head
      BY <2>2, ChangesBound DEF KnownInv
    <3> QED BY <2>2, <3>1, HeadBounds, Ranges
  <2> HIDE DEF w
  <2>4. ReviewKnown'
    <3>1. CASE rv' = MarkDone(rv, w.head, w.content)
      <4>1. ReadKept(rv, rv') /\ rv'.merge = rv.merge /\ rv'.doneHead \in {w.head, rv.doneHead}
        BY <2>1, <3>1, Typed, MarkDoneDoes
      <4> QED BY <2>1, <2>3, <4>1, ReviewKept DEF KnownInv, ReviewKnown, ReadKept
    <3>2. CASE rv' = ArmMerge(rv, Snapshot(w))
      <4>1. MergeWrite(rv, rv') /\ rv'.merge.snapshot \in {Snapshot(w), rv.merge.snapshot}
        BY <2>1, <3>2, Typed, ArmMergeDoes
      <4>2. rv'.merge.snapshot.content <= pr.head
        BY <2>3, <4>1 DEF Snapshot, KnownInv, ReviewKnown
      <4> QED BY <2>1, <4>1, <4>2, ReviewKept DEF KnownInv, ReviewKnown, MergeWrite, ReadKept, DoneKept
    <3> QED BY <2>1, <3>1, <3>2
  <2> QED BY <2>1, <2>4, KnownTurn DEF HeadsStay, At
<1>9. CASE TickClaim(r)
  <2> DEFINE w == tick[r]
  <2>1. /\ At(r, "claim") /\ rv' = ClaimMerge(rv, w.head, Snapshot(w)) /\ UNCHANGED <<pr, changes>>
        /\ TickEnds(r) \/ TickGoes(r, "merge")
    BY <1>9, ClaimStep
  <2>2. MergeWrite(rv, rv') /\ rv'.merge.snapshot = rv.merge.snapshot
    BY <2>1, Typed, ClaimMergeDoes
  <2>3. ReviewKnown'
    BY <2>1, <2>2, MergeKnown DEF KnownInv
  <2> QED BY <2>1, <2>3, KnownTurn DEF HeadsStay, At, Idle, PCs
<1>10. CASE TickMerge(r)
  <2> DEFINE w == tick[r]
  <2>1. /\ At(r, "merge") /\ UNCHANGED changes
        /\ pr' = pr \/ \E pc \in {"merged", "enabled"} : MergeCalled(w, pc)
        /\ TickEnds(r) \/ \E pc \in {"merged", "enabled"} : TickGoes(r, pc)
        /\ rv' \in {rv, MergeWaits(rv, Snapshot(w), "new"), MergeWaits(rv, Snapshot(w), "due")}
    BY <1>10, MergeStep
  <2>2. HeadsStay
    BY <2>1, ClosedDoes, AutoOnDoes DEF HeadsStay, MergeCalled
  <2>3. MergeWrite(rv, rv') /\ rv'.merge.snapshot = rv.merge.snapshot
    <3>1. CASE rv' = rv
      BY <3>1, Typed, MergeSame
    <3>2. CASE rv' = MergeWaits(rv, Snapshot(w), "new")
      BY <3>2, Typed, MergeWaitsDoes
    <3>3. CASE rv' = MergeWaits(rv, Snapshot(w), "due")
      BY <3>3, Typed, MergeWaitsDoes
    <3> QED BY <2>1, <3>1, <3>2, <3>3
  <2>4. ReviewKnown'
    BY <2>2, <2>3, MergeKnown DEF KnownInv, HeadsStay
  <2> QED BY <2>1, <2>2, <2>4, KnownTurn DEF At, Idle, PCs
<1>11. CASE TickMerged(r)
  <2>1. /\ At(r, "merged") \/ At(r, "enabled")
        /\ TickEnds(r) /\ UNCHANGED <<pr, changes>> /\ MergeWrite(rv, rv')
    BY <1>11, MergedStep
  <2>2. rv'.merge.snapshot = rv.merge.snapshot
    <3> DEFINE w == tick[r]
    <3>1. w.head \in Epochs /\ w.content \in Epochs /\ TRUE \in BOOLEAN
      BY Typed DEF Tick
    <3>2. rv' = MergedByArbetern(rv) \/ rv' = MergeOn(rv, w.content, w.head, TRUE)
      BY <1>11, MergedStep
    <3> HIDE DEF w
    <3>3. CASE rv' = MergedByArbetern(rv)
      BY <3>3, Typed, MergedDoes
    <3>4. CASE rv' = MergeOn(rv, w.content, w.head, TRUE)
      BY <3>1, <3>4, Typed, MergeOnDoes
    <3> QED BY <3>2, <3>3, <3>4
  <2>3. ReviewKnown'
    BY <2>1, <2>2, MergeKnown DEF KnownInv
  <2> QED BY <2>1, <2>3, KnownTurn DEF HeadsStay, At
<1>12. CASE TickRound(r)
  <2>1. /\ At(r, "round") /\ UNCHANGED <<pr, changes>>
        /\ \/ rv' = rv /\ TickEnds(r)
           \/ RoundBegins(rv, rv', tick[r].items) /\ TickGoes(r, "launch")
    BY <1>12, RoundTaken
  <2>2. ReviewKnown'
    <3>1. CASE rv' = rv
      BY <2>1, <3>1 DEF KnownInv, ReviewKnown
    <3>2. CASE RoundBegins(rv, rv', tick[r].items)
      BY <2>1, <3>2, RoundsKnown DEF KnownInv, RoundBegins
    <3> QED BY <2>1, <3>1, <3>2
  <2> QED BY <2>1, <2>2, KnownTurn DEF HeadsStay, At, Idle, PCs
<1>13. CASE TickLaunch(r) \/ TickRunning(r) \/ TickRan(r)
  <2>1. /\ At(r, "launch") \/ At(r, "running")
        /\ UNCHANGED <<pr, changes>> /\ RoundStep(rv, rv')
        /\ TickEnds(r) \/ TickGoes(r, "running")
    BY <1>13, SessionStep
  <2>2. ReviewKnown'
    BY <2>1, RoundsKnown DEF KnownInv, RoundStep
  <2> QED BY <2>1, <2>2, KnownTurn DEF HeadsStay, At, Idle, PCs
<1>14. CASE TickFails(r)
  <2>1. TickMoves(r, NoTick) /\ UNCHANGED <<rv, pr, changes>>
    BY <1>14, FailStep
  <2>2. HeadsStay /\ ReviewKnown'
    BY <2>1 DEF HeadsStay, KnownInv, ReviewKnown
  <2> QED BY <2>1, <2>2, HeadsKept, EndsKnown DEF KnownInv
<1> QED BY <1>1, <1>2, <1>3, <1>4, <1>5, <1>6, <1>7, <1>8, <1>9, <1>10, <1>11, <1>12, <1>13, <1>14
        DEF TickStep

LEMMA KnownReports ==
  ASSUME TypeInv, KnownInv, NEW g \in Guards,
         (\E n \in 1 .. MaxRounds : Report(g, n)) \/ OpStep(g) \/ OpFails(g)
  PROVE  KnownInv'
<1>1. /\ UNCHANGED <<pr, changes, tick>>
      /\ rv' = rv \/ (RoundWrite(rv, rv') /\ rv'.merge = rv.merge)
  <2>1. CASE \E n \in 1 .. MaxRounds : Report(g, n)
    BY <2>1, ReportStep DEF ReportBegins
  <2>2. CASE OpPost(g)
    BY <2>2, PostStep
  <2>3. CASE OpRecord(g)
    BY <2>3, OutcomeStep DEF RoundRecord
  <2>4. CASE OpRelease(g)
    BY <2>4, ReleaseStep
  <2>5. CASE OpFails(g)
    BY <2>5, OpFailStep
  <2> QED BY <2>1, <2>2, <2>3, <2>4, <2>5 DEF OpStep
<1>2. HeadsKnown' /\ TicksKnown'
  BY <1>1 DEF KnownInv, HeadsKnown, TicksKnown, TickKnown
<1>3. ReviewKnown'
  <2>1. CASE rv' = rv
    BY <1>1, <2>1 DEF KnownInv, ReviewKnown
  <2>2. CASE RoundWrite(rv, rv') /\ rv'.merge = rv.merge
    BY <1>1, <2>2, RoundsKnown DEF KnownInv
  <2> QED BY <1>1, <2>1, <2>2
<1> QED BY <1>2, <1>3 DEF KnownInv

\* A new head is known by itself, or by the changes of the head before it.
LEMMA KnownPush ==
  ASSUME TypeInv, KnownInv, Push \/ MergeBase \/ \E n \in 1 .. MaxRounds : SessionPush(n)
  PROVE  KnownInv'
<1> DEFINE top == pr.head + 1
<1>1. UNCHANGED <<rv, tick>> /\ (HeadAdded(top) \/ HeadAdded(changes[pr.head]))
  BY PushStep
<1>2. /\ pr.head \in Nat /\ pr.head >= 1 /\ pr.head \in Heads /\ pr.head \in 1 .. pr.head
      /\ NoHead = 0 /\ \A h \in Heads : h \in Nat /\ h >= 1
  BY HeadBounds, Ranges
<1>3. changes[pr.head] \in 1 .. pr.head
  BY <1>2, ChangesBound DEF KnownInv
<1>4. PICK epoch \in {top, changes[pr.head]} : HeadAdded(epoch)
  BY <1>1
<1>5. /\ pr'.head = top /\ pr'.approved = pr.approved /\ changes'[top] = epoch /\ top \in Heads
      /\ \A h \in Heads : h # top => changes'[h] = changes[h]
  BY <1>4 DEF HeadAdded
<1>6. ASSUME NEW h \in 1 .. pr.head
      PROVE  /\ h \in Heads /\ changes'[h] = changes[h] /\ changes[h] \in 1 .. h
             /\ changes[h] \in 1 .. pr.head /\ h # top
  <2>1. h \in Heads /\ changes[h] \in 1 .. h /\ changes[h] \in 1 .. pr.head
    BY ChangesBound DEF KnownInv
  <2> QED BY <1>2, <1>5, <2>1
<1>7. epoch \in 1 .. top /\ (epoch = top \/ epoch = changes[pr.head])
  BY <1>2, <1>3, <1>4
<1>8. HeadsKnown'
  <2>1. ASSUME NEW h \in Heads
        PROVE  IF h <= top THEN changes'[h] \in 1 .. h ELSE changes'[h] = NoHead
    <3>1. CASE h = top
      BY <1>2, <1>5, <1>7, <3>1
    <3>2. CASE h # top
      <4>1. changes'[h] = changes[h] /\ (h <= top => h <= pr.head)
        BY <1>2, <1>5, <3>2
      <4> QED BY <1>2, <3>2, <4>1 DEF KnownInv, HeadsKnown
    <3> QED BY <3>1, <3>2
  <2>2. ASSUME NEW g \in 1 .. top, NEW h \in 1 .. top, g <= h
        PROVE  changes'[g] <= changes'[h]
    <3>1. CASE h # top
      <4>1. g \in 1 .. pr.head /\ h \in 1 .. pr.head
        BY <1>2, <2>2, <3>1
      <4>2. changes[g] <= changes[h]
        BY <2>2, <4>1 DEF KnownInv, HeadsKnown
      <4> QED BY <1>6, <4>1, <4>2
    <3>2. CASE h = top /\ g = top
      BY <1>2, <1>5, <1>7, <3>2
    <3>3. CASE h = top /\ g # top
      <4>1. g \in 1 .. pr.head
        BY <1>2, <3>3
      <4>2. changes[g] <= changes[pr.head]
        BY <1>2, <4>1 DEF KnownInv, HeadsKnown
      <4>3. changes'[g] = changes[g] /\ changes'[h] = epoch /\ changes[g] \in 1 .. pr.head
        BY <1>5, <1>6, <3>3, <4>1
      <4> QED BY <1>2, <1>3, <1>7, <4>2, <4>3
    <3> QED BY <3>1, <3>2, <3>3
  <2>3. ASSUME NEW h \in 1 .. top
        PROVE  changes'[changes'[h]] = changes'[h]
    <3>1. ASSUME NEW g \in 1 .. pr.head
          PROVE  changes'[changes'[g]] = changes'[g]
      <4>1. changes'[g] = changes[g] /\ changes[g] \in 1 .. pr.head
        BY <1>6
      <4>2. changes'[changes[g]] = changes[changes[g]]
        BY <1>6, <4>1
      <4> QED BY <4>1, <4>2 DEF KnownInv, HeadsKnown
    <3>2. CASE h # top
      <4>1. h \in 1 .. pr.head
        BY <1>2, <3>2
      <4> QED BY <3>1, <4>1
    <3>3. CASE h = top /\ epoch = top
      BY <1>5, <3>3
    <3>4. CASE h = top /\ epoch = changes[pr.head]
      <4>1. changes'[pr.head] = changes[pr.head]
        BY <1>2, <1>6
      <4> QED BY <1>2, <1>5, <3>1, <3>4, <4>1
    <3> QED BY <1>7, <3>2, <3>3, <3>4
  <2>4. pr.approved <= top
    <3>1. pr.approved \in Nat
      BY Typed, Ranges DEF PullRequest
    <3> QED BY <1>2, <3>1 DEF KnownInv, HeadsKnown
  <2> HIDE DEF top
  <2> QED BY <1>5, <2>1, <2>2, <2>3, <2>4 DEF HeadsKnown
<1>9. TicksKnown'
  <2>1. ASSUME NEW r \in Ticks
        PROVE  TickKnown(tick[r])'
    <3> DEFINE w == tick[r]
    <3>1. TickKnown(w) /\ w.head \in Nat
      BY Typed, Ranges DEF KnownInv, TicksKnown, Tick
    <3>2. \A h \in 1 .. pr.head : h \in 1 .. top
      BY <1>2
    <3>3. w.pc = "observe" => w.head \in 1 .. pr.head
      BY <3>1 DEF TickKnown, Idle
    <3> HIDE DEF w, top
    <3>4. TickKnown(w)'
      BY <1>1, <1>5, <1>6, <3>1, <3>2, <3>3 DEF TickKnown, w
    <3> QED BY <3>4 DEF w
  <2> QED BY <2>1 DEF TicksKnown
<1>10. ReviewKnown'
  <2>1. rv.contentHead \in Epochs /\ rv.doneHead \in Epochs /\ rv.merge.snapshot.content \in Epochs
    BY Typed DEF Review, MergeState, Snapshots
  <2>2. /\ rv.contentHead <= top /\ rv.doneHead <= top /\ rv.merge.snapshot.content <= top
        /\ rv.contentHead # NoHead => rv.contentHead \in 1 .. pr.head
    <3>1. rv.contentHead \in Nat /\ rv.doneHead \in Nat /\ rv.merge.snapshot.content \in Nat
      BY <2>1, Ranges
    <3>2. /\ rv.contentHead <= pr.head /\ rv.doneHead <= pr.head
          /\ rv.merge.snapshot.content <= pr.head
      BY DEF KnownInv, ReviewKnown
    <3> QED BY <1>2, <3>1, <3>2
  <2>3. rv.contentHead # NoHead => rv.content = changes'[rv.contentHead]
    BY <1>6, <2>2 DEF KnownInv, ReviewKnown
  <2> HIDE DEF top
  <2> QED BY <1>1, <1>5, <2>2, <2>3 DEF ReviewKnown
<1> QED BY <1>8, <1>9, <1>10 DEF KnownInv

LEMMA KnownOthers ==
  ASSUME TypeInv, KnownInv,
         \/ ChecksEnd \/ (\E c \in Comments : Comment(c)) \/ Approve \/ TurnOn \/ TurnOff
              \/ GitHubMerges \/ Close
         \/ \E n \in 1 .. MaxRounds : CheckIn(n) \/ PodEnds(n)
         \/ Pass
  PROVE  KnownInv'
<1>1. CASE ChecksEnd \/ (\E c \in Comments : Comment(c)) \/ Approve \/ TurnOn \/ TurnOff
             \/ GitHubMerges \/ Close
  <2>1. /\ UNCHANGED <<rv, changes, tick>> /\ HeadsStay
    BY <1>1, PeopleStep DEF HeadsStay
  <2>2. TicksKnown' /\ ReviewKnown'
    BY <2>1 DEF HeadsStay, KnownInv, TicksKnown, TickKnown, ReviewKnown
  <2> QED BY <2>1, <2>2, HeadsKept DEF KnownInv
<1>2. CASE \E n \in 1 .. MaxRounds : CheckIn(n) \/ PodEnds(n)
  <2>1. RoundStep(rv, rv') /\ UNCHANGED <<pr, changes, tick>>
    BY <1>2, PodStep
  <2>2. ReviewKnown'
    BY <2>1, RoundsKnown DEF RoundStep, KnownInv
  <2>3. HeadsKnown' /\ TicksKnown'
    BY <2>1 DEF KnownInv, HeadsKnown, TicksKnown, TickKnown
  <2> QED BY <2>2, <2>3 DEF KnownInv
<1>3. CASE Pass
  <2>1. /\ rv' = Older(rv) /\ UNCHANGED <<changes, tick>>
        /\ pr'.head = pr.head /\ pr'.approved = pr.approved
    BY <1>3, PassStep
  <2>2. RoundWrite(rv, rv') /\ rv'.merge.snapshot = rv.merge.snapshot
    BY <2>1, Typed, OlderDoes
  <2>3. ReviewKnown'
    BY <2>1, <2>2, RoundsKnown DEF KnownInv
  <2>4. HeadsKnown' /\ TicksKnown'
    BY <2>1 DEF KnownInv, HeadsKnown, TicksKnown, TickKnown
  <2> QED BY <2>3, <2>4 DEF KnownInv
<1> QED BY <1>1, <1>2, <1>3

LEMMA KnownStep ==
  ASSUME TypeInv, KnownInv, [Next]_vars
  PROVE  KnownInv'
<1>1. CASE UNCHANGED vars
  BY <1>1 DEF vars, KnownInv, HeadsKnown, TicksKnown, TickKnown, ReviewKnown
<1>2. ASSUME NEW r \in Ticks, TickStart(r) \/ TickStep(r) \/ TickFails(r)
      PROVE  KnownInv'
  BY <1>2, KnownStart, KnownTick
<1>3. ASSUME NEW n \in 1 .. MaxRounds, CheckIn(n) \/ SessionPush(n) \/ PodEnds(n)
      PROVE  KnownInv'
  BY <1>3, KnownOthers, KnownPush
<1>4. ASSUME NEW g \in Guards, (\E n \in 1 .. MaxRounds : Report(g, n)) \/ OpStep(g) \/ OpFails(g)
      PROVE  KnownInv'
  BY <1>4, KnownReports
<1>5. CASE Push \/ MergeBase \/ ChecksEnd \/ (\E c \in Comments : Comment(c)) \/ Approve
             \/ TurnOn \/ TurnOff \/ GitHubMerges \/ Close \/ Pass
  BY <1>5, KnownPush, KnownOthers
<1> QED BY <1>1, <1>2, <1>3, <1>4, <1>5 DEF Next

LEMMA KnownInit ==
  ASSUME Init
  PROVE  KnownInv
<1>1. /\ pr.head = 1 /\ pr.approved = NoHead
      /\ changes = [h \in Heads |-> IF h = 1 THEN 1 ELSE NoHead]
      /\ \A r \in Ticks : tick[r] = NoTick
      /\ rv = Opened
  BY DEF Init, OpenedPR
<1>2. HeadsKnown
  <2>1. ASSUME NEW h \in Heads
        PROVE  IF h <= pr.head THEN changes[h] \in 1 .. h ELSE changes[h] = NoHead
    BY <1>1, Ranges
  <2>2. \A h \in 1 .. pr.head : h = 1 /\ changes[h] = 1
    BY <1>1, Ranges
  <2> QED BY <1>1, <2>1, <2>2, Ranges DEF HeadsKnown
<1>3. TicksKnown
  BY <1>1, Ranges DEF TicksKnown, TickKnown, NoTick, Idle
<1>4. ReviewKnown
  BY <1>1, Ranges DEF ReviewKnown, Opened, NoMerge, Unarmed
<1> QED BY <1>2, <1>3, <1>4 DEF KnownInv

Shape == TypeInv /\ KnownInv

LEMMA ShapeHolds ==
  Spec => []Shape
<1>1. Init => Shape
  BY TypeInit, KnownInit DEF Shape
<1>2. Shape /\ [Next]_vars => Shape'
  BY TypeStep, KnownStep DEF Shape
<1> QED BY <1>1, <1>2, PTL DEF Spec

\* The state keeps its shape, whatever people, checks, ticks and reports do: the ledger never
\* records both that a person turned auto-merge off and that it is on or going off (rounds.go,
\* automerge.go), and a note is only kept of a head that exists.
THEOREM TypeCorrect == Spec => []TypeOK
<1>1. Shape => TypeOK
  BY DEF Shape, TypeInv
<1> QED BY <1>1, ShapeHolds, PTL

-----------------------------------------------------------------------------
(* Comments are answered once. *)

OneRound == \A m, n \in 1 .. MaxRounds : ActiveRound(rv, m) /\ ActiveRound(rv, n) => m = n

\* A report under way holds the guard of its round.
OpOwns ==
  \A g \in Guards : op[g].pc # "off" /\ rv.open =>
    /\ rv.rounds[op[g].n].status = "running" /\ rv.rounds[op[g].n].reporting = g
    /\ rv.rounds[op[g].n].items = op[g].items
OneOp == \A g, h \in Guards : op[g].pc # "off" /\ op[h].pc # "off" => g = h

\* A round is about comments nobody handled, and those answered are handled or about to be.
RoundItems == \A n \in 1 .. MaxRounds : ActiveRound(rv, n) => rv.rounds[n].items \cap rv.handled = {}
Answers ==
  /\ ~past.reanswered
  /\ faults = 0 =>
       /\ \A c \in past.answered :
            c \in rv.handled \/ ~rv.open \/ \E g \in Guards : op[g].pc = "record" /\ c \in op[g].items
       /\ \A g \in Guards : op[g].pc = "post" => op[g].items \cap past.answered = {}

RoundsInv == OneRound /\ OpOwns /\ OneOp /\ RoundItems /\ Answers

AnswersStay ==
  /\ past'.reanswered = past.reanswered
  /\ faults' = 0 => faults = 0 /\ past'.answered = past.answered

LEMMA BooksStay ==
  ASSUME NEW b, Books(b)
  PROVE  AnswersStay
BY DEF Books, AnswersStay

LEMMA RoundsStay ==
  ASSUME TypeInv, RoundsInv, RoundsKept(rv, rv'), op' = op, AnswersStay
  PROVE  RoundsInv'
<1>1. OneRound'
  BY DEF RoundsInv, OneRound, RoundsKept
<1>2. OpOwns'
  <2>1. ASSUME NEW g \in Guards, op[g].pc # "off", rv'.open
        PROVE  /\ rv'.rounds[op[g].n].status = "running" /\ rv'.rounds[op[g].n].reporting = g
               /\ rv'.rounds[op[g].n].items = op[g].items
    <3>1. g # NoOne /\ op[g].n \in 1 .. MaxRounds /\ rv.open
      BY <2>1, Numbers DEF TypeInv, OpKnown, RoundsKept
    <3>2. /\ rv.rounds[op[g].n].status = "running" /\ rv.rounds[op[g].n].reporting = g
          /\ rv.rounds[op[g].n].items = op[g].items
      BY <2>1, <3>1 DEF RoundsInv, OpOwns
    <3> QED BY <3>1, <3>2 DEF RoundsKept
  <2> QED BY <2>1 DEF OpOwns
<1>3. OneOp'
  BY DEF RoundsInv, OneOp
<1>4. RoundItems'
  BY DEF RoundsInv, RoundItems, RoundsKept
<1>5. Answers'
  BY DEF RoundsInv, Answers, AnswersStay, RoundsKept
<1> QED BY <1>1, <1>2, <1>3, <1>4, <1>5 DEF RoundsInv

LEMMA RoundsSame ==
  ASSUME TypeInv, RoundsInv, UNCHANGED <<rv, op>>, AnswersStay
  PROVE  RoundsInv'
<1>1. RoundsKept(rv, rv')
  BY DEF RoundsKept, ActiveRound
<1> QED BY <1>1, RoundsStay

LEMMA MergeKeeps ==
  ASSUME NEW v, NEW n, MergeWrite(v, n)
  PROVE  RoundsKept(v, n)
BY WorkKeeps DEF MergeWrite, ReadKept

LEMMA WriteStays ==
  ASSUME TypeInv, RoundsInv, MergeWrite(rv, rv'), op' = op, AnswersStay
  PROVE  RoundsInv'
BY MergeKeeps, RoundsStay

LEMMA RoundsTick ==
  ASSUME TypeInv, KnownInv, RoundsInv, NEW r \in Ticks, TickStart(r) \/ TickStep(r) \/ TickFails(r)
  PROVE  RoundsInv'
<1> DEFINE w == tick[r]
<1>0. rv \in Review /\ Apart(rv.merge) /\ w \in Tick /\ w.head \in Epochs /\ w.content \in Epochs
  BY Typed DEF Tick
<1>1. CASE TickStart(r)
  BY <1>1, StartStep, BooksStay, RoundsStay DEF RoundStep
<1>2. CASE TickFails(r)
  BY <1>2, FailStep, BooksStay, RoundsSame
<1>3. CASE TickOver(r)
  <2>1. rv' = CloseReview /\ AnswersStay /\ op' = op
    BY <1>3, OverStep, BooksStay
  <2>2. /\ rv'.open = FALSE /\ \A n \in 1 .. MaxRounds : ~ActiveRound(rv', n)
    BY <2>1, OpenedTypes DEF HasActive
  <2>3. OneRound' /\ OpOwns' /\ RoundItems'
    BY <2>2 DEF OneRound, OpOwns, RoundItems
  <2>4. OneOp' /\ Answers'
    BY <2>1, <2>2 DEF RoundsInv, OneOp, Answers, AnswersStay
  <2> QED BY <2>3, <2>4 DEF RoundsInv
<1>4. CASE TickObserve(r)
  <2> DEFINE same == Same(w.head)
  <2>1. rv' = Observe(rv, w, same) /\ same \in SUBSET Heads /\ AnswersStay /\ op' = op
    BY <1>4, ObserveStep, BooksStay
  <2> HIDE DEF w, same
  <2>2. WorkKept(rv, rv') /\ rv'.open = rv.open
    BY <1>0, <2>1, ObserveDoes
  <2> QED BY <2>1, <2>2, WorkKeeps, RoundsStay
<1>5. CASE TickAdvance(r)
  BY <1>5, AdvanceStep, BooksStay, RoundsSame
<1>6. CASE TickWithdraw(r)
  BY <1>6, WithdrawStep, BooksStay, Typed, WithdrawMergeDoes, WriteStays
<1>7. CASE TickDisable(r)
  BY <1>7, DisableStep, BooksStay, RoundsSame
<1>8. CASE TickRecord(r)
  <2>1. rv' \in {rv, FollowWrite(w)} /\ AnswersStay /\ op' = op
    BY <1>8, RecordStep, BooksStay
  <2> HIDE DEF w
  <2>2. MergeWrite(rv, rv')
    BY <1>0, <2>1, FollowWriteDoes, MergeSame
  <2> QED BY <2>1, <2>2, WriteStays
<1>9. CASE TickStop(r)
  <2>1. rv' = Exhaust(rv) /\ AnswersStay /\ op' = op
    BY <1>9, StopStep, BooksStay
  <2>2. WorkKept(rv, rv') /\ rv'.open = rv.open
    BY <2>1, Typed, ExhaustDoes DEF ReadKept
  <2> QED BY <2>1, <2>2, WorkKeeps, RoundsStay
<1>10. CASE TickNote(r)
  BY <1>10, NoteStep, RoundsSame DEF AnswersStay
<1>11. CASE TickDone(r)
  <2>1. /\ rv' = MarkDone(rv, w.head, w.content) \/ rv' = ArmMerge(rv, Snapshot(w))
        /\ Snapshot(w) \in Snapshots /\ AnswersStay /\ op' = op
    BY <1>11, DoneStep, BooksStay
  <2> HIDE DEF w
  <2>2. CASE rv' = MarkDone(rv, w.head, w.content)
    <3>1. WorkKept(rv, rv') /\ rv'.open = rv.open
      BY <1>0, <2>2, MarkDoneDoes DEF ReadKept
    <3> QED BY <2>1, <3>1, WorkKeeps, RoundsStay
  <2>3. CASE rv' = ArmMerge(rv, Snapshot(w))
    BY <1>0, <2>1, <2>3, ArmMergeDoes, WriteStays
  <2> QED BY <2>1, <2>2, <2>3
<1>12. CASE TickClaim(r)
  <2>1. rv' = ClaimMerge(rv, w.head, Snapshot(w)) /\ AnswersStay /\ op' = op
    BY <1>12, ClaimStep, BooksStay
  <2> HIDE DEF w
  <2>2. MergeWrite(rv, rv')
    BY <1>0, <2>1, ClaimMergeDoes
  <2> QED BY <2>1, <2>2, WriteStays
<1>13. CASE TickMerge(r)
  <2>1. /\ AnswersStay /\ op' = op
        /\ rv' \in {rv, MergeWaits(rv, Snapshot(w), "new"), MergeWaits(rv, Snapshot(w), "due")}
    BY <1>13, MergeStep, BooksStay
  <2> HIDE DEF w
  <2>2. MergeWrite(rv, rv')
    <3>1. CASE rv' = rv
      BY <1>0, <3>1, MergeSame
    <3>2. CASE rv' = MergeWaits(rv, Snapshot(w), "new")
      BY <1>0, <3>2, MergeWaitsDoes
    <3>3. CASE rv' = MergeWaits(rv, Snapshot(w), "due")
      BY <1>0, <3>3, MergeWaitsDoes
    <3> QED BY <2>1, <3>1, <3>2, <3>3
  <2> QED BY <2>1, <2>2, WriteStays
<1>14. CASE TickMerged(r)
  BY <1>14, MergedStep, BooksStay, WriteStays
<1>15. CASE TickRound(r)
  <2>1. AnswersStay /\ op' = op /\ (rv' = rv \/ RoundBegins(rv, rv', w.items))
    BY <1>15, RoundTaken, BooksStay
  <2>2. CASE rv' = rv
    BY <2>1, <2>2, RoundsSame
  <2>3. CASE RoundBegins(rv, rv', w.items)
    <3>1. /\ rv.open /\ rv'.open /\ ~HasActive(rv) /\ rv'.handled = rv.handled
      BY <2>3 DEF RoundBegins, RoundWrite
    <3>2. PICK k \in 1 .. MaxRounds :
            /\ rv'.rounds[k].status = "dispatching" /\ rv'.rounds[k].items = w.items \ rv.handled
            /\ \A j \in 1 .. MaxRounds : j # k => ~ActiveRound(rv', j)
      BY <2>3 DEF RoundBegins
    <3>3. \A g \in Guards : op[g].pc = "off"
      <4>1. ASSUME NEW g \in Guards, op[g].pc # "off"
            PROVE  FALSE
        <5>1. op[g].n \in 1 .. MaxRounds /\ rv.rounds[op[g].n].status = "running"
          BY <3>1, <4>1 DEF TypeInv, OpKnown, RoundsInv, OpOwns
        <5> QED BY <3>1, <5>1 DEF HasActive, ActiveRound
      <4> QED BY <4>1
    <3>4. OneRound' /\ RoundItems'
      BY <3>1, <3>2 DEF OneRound, RoundItems
    <3>5. OpOwns' /\ OneOp'
      BY <2>1, <3>3 DEF OpOwns, OneOp
    <3>6. Answers'
      BY <2>1, <3>1, <3>3 DEF RoundsInv, Answers, AnswersStay
    <3> QED BY <3>4, <3>5, <3>6 DEF RoundsInv
  <2> QED BY <2>1, <2>2, <2>3
<1>16. CASE TickLaunch(r) \/ TickRunning(r) \/ TickRan(r)
  BY <1>16, SessionStep, BooksStay, RoundsStay DEF RoundStep
<1> QED BY <1>1, <1>2, <1>3, <1>4, <1>5, <1>6, <1>7, <1>8, <1>9, <1>10, <1>11, <1>12, <1>13, <1>14,
        <1>15, <1>16 DEF TickStep

\* While a report is under way for an open task, no other report and no other round is.
LEMMA OwnedRound ==
  ASSUME TypeInv, RoundsInv, rv.open, NEW g \in Guards, op[g].pc # "off"
  PROVE  /\ op[g].n \in 1 .. MaxRounds /\ ActiveRound(rv, op[g].n)
         /\ rv.rounds[op[g].n].status = "running" /\ rv.rounds[op[g].n].reporting = g
         /\ rv.rounds[op[g].n].items = op[g].items
         /\ \A h \in Guards : op[h].pc # "off" => h = g
         /\ \A j \in 1 .. MaxRounds : ActiveRound(rv, j) => j = op[g].n
<1>1. op[g].n \in 1 .. MaxRounds
  BY DEF TypeInv, OpKnown
<1>2. /\ rv.rounds[op[g].n].status = "running" /\ rv.rounds[op[g].n].reporting = g
      /\ rv.rounds[op[g].n].items = op[g].items
  BY DEF RoundsInv, OpOwns
<1>3. ActiveRound(rv, op[g].n)
  BY <1>2 DEF ActiveRound
<1> QED BY <1>1, <1>2, <1>3 DEF RoundsInv, OneOp, OneRound

\* A report is over, and no round is active that was not.
LEMMA RoundsReleased ==
  ASSUME TypeInv, RoundsInv, NEW g \in Guards, op[g].pc # "off", OpMoves(g, NoOp), AnswersStay,
         rv'.open = rv.open,
         \A j \in 1 .. MaxRounds : ActiveRound(rv', j) =>
           ActiveRound(rv, j) /\ rv'.rounds[j].items \cap rv'.handled = {},
         rv.handled \subseteq rv'.handled,
         faults' = 0 /\ rv.open /\ op[g].pc = "record" => op[g].items \subseteq rv'.handled
  PROVE  RoundsInv'
<1>1. \A h \in Guards : op'[h].pc = "off"
  BY NoneTypes DEF RoundsInv, OneOp, OpMoves
<1>2. OneRound' /\ RoundItems'
  BY DEF RoundsInv, OneRound, RoundItems
<1>3. OpOwns' /\ OneOp'
  BY <1>1 DEF OpOwns, OneOp
<1>4. Answers'
  <2>1. SUFFICES ASSUME faults' = 0
                 PROVE  \A c \in past'.answered : c \in rv'.handled \/ ~rv'.open
    BY <1>1 DEF RoundsInv, Answers, AnswersStay
  <2>2. faults = 0 /\ past'.answered = past.answered
    BY <2>1 DEF AnswersStay
  <2>3. ASSUME NEW c \in past'.answered, rv'.open
        PROVE  c \in rv'.handled
    <3>1. c \in rv.handled \/ \E h \in Guards : op[h].pc = "record" /\ c \in op[h].items
      BY <2>2, <2>3 DEF RoundsInv, Answers
    <3>2. CASE \E h \in Guards : op[h].pc = "record" /\ c \in op[h].items
      <4>1. op[g].pc = "record" /\ c \in op[g].items
        BY <3>2 DEF RoundsInv, OneOp
      <4> QED BY <2>1, <2>3, <4>1
    <3> QED BY <3>1, <3>2
  <2> QED BY <2>3
<1> QED BY <1>2, <1>3, <1>4 DEF RoundsInv

LEMMA RoundsReports ==
  ASSUME TypeInv, RoundsInv, NEW g \in Guards,
         (\E n \in 1 .. MaxRounds : Report(g, n)) \/ OpStep(g) \/ OpFails(g)
  PROVE  RoundsInv'
<1>1. CASE \E n \in 1 .. MaxRounds : Report(g, n)
  <2>1. PICK n \in 1 .. MaxRounds : Report(g, n)
    BY <1>1
  <2>2. /\ OpAt(g, "off") /\ ReportBegins(g, n) /\ AnswersStay
    BY <2>1, ReportStep, BooksStay
  <2>3. PICK o \in Op : /\ OpMoves(g, o) /\ o.pc = "post" /\ o.n = n
                        /\ o.items = rv.rounds[n].items
    BY <2>1, ReportStep
  <2>4. /\ rv.open /\ rv'.open /\ rv.rounds[n].status = "running" /\ rv.rounds[n].reporting = NoOne
        /\ rv'.rounds[n].status = "running" /\ rv'.rounds[n].reporting = g
        /\ rv'.rounds[n].items = rv.rounds[n].items /\ rv'.handled = rv.handled
        /\ \A j \in 1 .. MaxRounds : j # n => rv'.rounds[j] = rv.rounds[j]
    BY <2>2 DEF ReportBegins, RoundWrite
  <2>5. \A h \in Guards : op[h].pc = "off"
    <3>1. ASSUME NEW h \in Guards, op[h].pc # "off"
          PROVE  FALSE
      <4>1. ActiveRound(rv, n)
        BY <2>4 DEF ActiveRound
      <4>2. op[h].n = n /\ rv.rounds[n].reporting = h
        BY <2>4, <3>1, <4>1, OwnedRound
      <4> QED BY <2>4, <4>2, Numbers
    <3> QED BY <3>1
  <2>6. OneRound' /\ RoundItems'
    BY <2>4 DEF RoundsInv, OneRound, RoundItems, ActiveRound
  <2>7. OpOwns' /\ OneOp'
    BY <2>3, <2>4, <2>5 DEF OpOwns, OneOp, OpMoves
  <2>8. Answers'
    <3>1. SUFFICES ASSUME faults' = 0
                   PROVE  /\ \A c \in past'.answered : c \in rv'.handled
                          /\ \A h \in Guards : op'[h].pc = "post" => op'[h].items \cap past'.answered = {}
      BY <2>2 DEF RoundsInv, Answers, AnswersStay
    <3>2. faults = 0 /\ past'.answered = past.answered
      BY <2>2, <3>1 DEF AnswersStay
    <3>3. \A c \in past.answered : c \in rv.handled
      BY <2>4, <2>5, <3>2 DEF RoundsInv, Answers
    <3>4. o.items \cap past.answered = {}
      BY <2>3, <2>4, <3>3 DEF RoundsInv, RoundItems, ActiveRound
    <3> QED BY <2>3, <2>4, <2>5, <3>2, <3>3, <3>4 DEF RoundsInv, Answers, OpMoves
  <2> QED BY <2>6, <2>7, <2>8 DEF RoundsInv
<1>2. CASE OpPost(g)
  <2>1. OpAt(g, "post") /\ UNCHANGED <<rv, faults>>
    BY <1>2, PostStep
  <2>2. PICK o \in Op :
          /\ OpMoves(g, o) /\ o.n = op[g].n /\ o.items = op[g].items
          /\ \/ /\ o.pc = "record"
                /\ \/ faults > 0 /\ past' = past
                   \/ /\ faults = 0 /\ past'.answered = past.answered \cup op[g].items
                      /\ past'.reanswered = (past.reanswered \/ op[g].items \cap past.answered # {})
             \/ o.pc = "release" /\ past' = past
    BY <1>2, PostStep
  <2>3. op[g].pc = "post" /\ \A h \in Guards : h # g => op[h].pc = "off"
    BY <2>1 DEF OpAt, RoundsInv, OneOp
  <2>4. OneRound' /\ RoundItems'
    BY <2>1 DEF RoundsInv, OneRound, RoundItems
  <2>5. OpOwns' /\ OneOp'
    BY <2>1, <2>2, <2>3 DEF RoundsInv, OpOwns, OneOp, OpMoves
  <2>6. Answers'
    <3>1. CASE faults # 0
      <4>1. past' = past /\ faults' # 0
        BY <2>1, <2>2, <3>1
      <4> QED BY <4>1 DEF RoundsInv, Answers
    <3>2. CASE faults = 0 /\ o.pc = "release" /\ past' = past
      <4>1. \A h \in Guards : op'[h].pc # "post"
        BY <2>2, <2>3, <3>2 DEF OpMoves
      <4>2. ASSUME NEW c \in past.answered, rv.open
            PROVE  c \in rv.handled
        BY <2>3, <3>2, <4>2 DEF RoundsInv, Answers
      <4> QED BY <2>1, <3>2, <4>1, <4>2 DEF RoundsInv, Answers
    <3>3. CASE /\ faults = 0 /\ o.pc = "record" /\ past'.answered = past.answered \cup op[g].items
               /\ past'.reanswered = (past.reanswered \/ op[g].items \cap past.answered # {})
      <4>1. \A h \in Guards : op'[h].pc # "post"
        BY <2>2, <2>3, <3>3 DEF OpMoves
      <4>2. ~past'.reanswered
        BY <2>3, <3>3 DEF RoundsInv, Answers
      <4>3. ASSUME NEW c \in past.answered, rv.open
            PROVE  c \in rv.handled
        BY <2>3, <3>3, <4>3 DEF RoundsInv, Answers
      <4>4. op'[g].pc = "record" /\ op'[g].items = op[g].items
        BY <2>2, <3>3 DEF OpMoves
      <4> QED BY <2>1, <3>3, <4>1, <4>2, <4>3, <4>4 DEF Answers
    <3>4. faults \in Nat
      BY Typed, Numbers
    <3> QED BY <2>2, <3>1, <3>2, <3>3, <3>4
  <2> QED BY <2>4, <2>5, <2>6 DEF RoundsInv
<1>3. CASE OpRecord(g)
  <2> DEFINE n == op[g].n
             res == [head |-> op[g].head, question |-> op[g].question]
  <2>1. /\ OpAt(g, "record") /\ OpMoves(g, NoOp) /\ AnswersStay /\ n \in 1 .. MaxRounds
        /\ \/ rv' = rv /\ ~(rv.open /\ rv.rounds[n].status = "running")
           \/ rv.open /\ RoundRecord(rv, rv', n, res)
    BY <1>3, OutcomeStep, BooksStay
  <2> HIDE DEF res
  <2>2. op[g].pc # "off"
    BY <2>1 DEF OpAt
  <2>3. CASE rv' = rv /\ ~(rv.open /\ rv.rounds[n].status = "running")
    <3>1. ~rv.open
      BY <2>2, <2>3, OwnedRound
    <3> QED BY <2>1, <2>2, <2>3, <3>1, RoundsReleased DEF RoundsInv, RoundItems
  <2>4. CASE rv.open /\ RoundRecord(rv, rv', n, res)
    <3>1. /\ rv'.open = rv.open /\ ~ActiveRound(rv', n) /\ rv'.handled = rv.handled \cup rv.rounds[n].items
          /\ \A j \in 1 .. MaxRounds : j # n => rv'.rounds[j] = rv.rounds[j]
      BY <2>4 DEF RoundRecord, RoundWrite
    <3>2. rv.rounds[n].items = op[g].items /\ \A j \in 1 .. MaxRounds : ActiveRound(rv, j) => j = n
      BY <2>2, <2>4, OwnedRound
    <3>3. \A j \in 1 .. MaxRounds : ~ActiveRound(rv', j)
      BY <3>1, <3>2 DEF ActiveRound
    <3> QED BY <2>1, <2>2, <3>1, <3>2, <3>3, RoundsReleased
  <2> QED BY <2>1, <2>3, <2>4
<1>4. CASE OpRelease(g)
  <2> DEFINE n == op[g].n
  <2>1. /\ OpAt(g, "release") /\ OpMoves(g, NoOp) /\ AnswersStay /\ n \in 1 .. MaxRounds
        /\ \/ rv' = rv
           \/ /\ rv'.open = rv.open /\ rv'.handled = rv.handled
              /\ rv'.rounds[n].status = rv.rounds[n].status
              /\ rv'.rounds[n].items = rv.rounds[n].items
              /\ \A j \in 1 .. MaxRounds : j # n => rv'.rounds[j] = rv.rounds[j]
    BY <1>4, ReleaseStep, BooksStay DEF RoundWrite
  <2>2. /\ rv'.open = rv.open /\ rv'.handled = rv.handled
        /\ \A j \in 1 .. MaxRounds : rv'.rounds[j].status = rv.rounds[j].status
                                     /\ rv'.rounds[j].items = rv.rounds[j].items
    BY <2>1
  <2>3. \A j \in 1 .. MaxRounds : ActiveRound(rv', j) =>
          ActiveRound(rv, j) /\ rv'.rounds[j].items \cap rv'.handled = {}
    BY <2>2 DEF RoundsInv, RoundItems, ActiveRound
  <2> QED BY <2>1, <2>2, <2>3, RoundsReleased DEF OpAt
<1>5. CASE OpFails(g)
  <2>1. OpMoves(g, NoOp) /\ AnswersStay /\ faults' # 0 /\ rv' = rv /\ op[g].pc # "off"
    BY <1>5, OpFailStep, BooksStay DEF OpFails, OpAt
  <2> QED BY <2>1, RoundsReleased DEF RoundsInv, RoundItems
<1> QED BY <1>1, <1>2, <1>3, <1>4, <1>5 DEF OpStep

LEMMA RoundsNext ==
  ASSUME TypeInv, KnownInv, RoundsInv, [Next]_vars
  PROVE  RoundsInv'
<1>1. CASE UNCHANGED vars
  BY <1>1, RoundsSame DEF vars, AnswersStay
<1>2. ASSUME NEW r \in Ticks, TickStart(r) \/ TickStep(r) \/ TickFails(r)
      PROVE  RoundsInv'
  BY <1>2, RoundsTick
<1>3. ASSUME NEW n \in 1 .. MaxRounds, CheckIn(n) \/ SessionPush(n) \/ PodEnds(n)
      PROVE  RoundsInv'
  <2>1. CASE SessionPush(n)
    BY <2>1, PushStep, RoundsSame DEF AnswersStay
  <2>2. CASE CheckIn(n) \/ PodEnds(n)
    BY <2>2, PodStep, RoundsStay DEF RoundStep, AnswersStay
  <2> QED BY <1>3, <2>1, <2>2
<1>4. ASSUME NEW g \in Guards, (\E n \in 1 .. MaxRounds : Report(g, n)) \/ OpStep(g) \/ OpFails(g)
      PROVE  RoundsInv'
  BY <1>4, RoundsReports
<1>5. CASE Push \/ MergeBase
  BY <1>5, PushStep, RoundsSame DEF AnswersStay
<1>6. CASE ChecksEnd \/ (\E c \in Comments : Comment(c)) \/ Approve \/ TurnOn \/ TurnOff
             \/ GitHubMerges \/ Close
  BY <1>6, PeopleStep, RoundsSame DEF AnswersStay
<1>7. CASE Pass
  <2>1. /\ \A g \in Guards : op[g] = NoOp
        /\ rv' = Older(rv) /\ UNCHANGED <<op, faults, past>>
    BY <1>7, PassStep
  <2>2. /\ rv'.open = rv.open /\ rv'.handled = rv.handled
        /\ \A k \in 1 .. MaxRounds : /\ rv'.rounds[k].status = rv.rounds[k].status
                                     /\ rv'.rounds[k].items = rv.rounds[k].items
    BY <2>1, Typed, OlderDoes DEF RoundWrite
  <2>3. OneRound' /\ RoundItems'
    BY <2>2 DEF RoundsInv, OneRound, RoundItems, ActiveRound
  <2>4. OpOwns' /\ OneOp'
    BY <2>1, NoneTypes DEF OpOwns, OneOp
  <2>5. Answers'
    BY <2>1, <2>2 DEF RoundsInv, Answers
  <2> QED BY <2>3, <2>4, <2>5 DEF RoundsInv
<1> QED BY <1>1, <1>2, <1>3, <1>4, <1>5, <1>6, <1>7 DEF Next

LEMMA RoundsInit ==
  ASSUME Init
  PROVE  RoundsInv
<1>1. /\ rv = Opened /\ \A g \in Guards : op[g] = NoOp
      /\ past.reanswered = FALSE /\ past.answered = {}
  BY DEF Init
<1>2. \A n \in 1 .. MaxRounds : ~ActiveRound(rv, n)
  BY <1>1, OpenedTypes DEF HasActive
<1> QED BY <1>1, <1>2, NoneTypes
        DEF RoundsInv, OneRound, OpOwns, OneOp, RoundItems, Answers

\* A comment is answered by one report only unless a call failed, however reports, ticks that
\* end rounds and sessions that check in interleave: the guard of a report (BeginRoundReport,
\* rounds.go) keeps a second report, the reconciliation and the session's end out of the round,
\* and the next round starts from what is not handled.
THEOREM AnsweredOnceHolds == Spec => []AnsweredOnce
<1>1. Init => RoundsInv
  BY RoundsInit
<1>2. Shape /\ RoundsInv /\ [Next]_vars => RoundsInv'
  BY RoundsNext DEF Shape
<1>3. RoundsInv => AnsweredOnce
  BY DEF RoundsInv, Answers, AnsweredOnce
<1> QED BY <1>1, <1>2, <1>3, ShapeHolds, PTL DEF Spec

-----------------------------------------------------------------------------
(* What goes on around the ticks, and what a tick may do. *)

Around ==
  \/ \E n \in 1 .. MaxRounds : CheckIn(n) \/ SessionPush(n) \/ PodEnds(n)
  \/ \E g \in Guards : (\E n \in 1 .. MaxRounds : Report(g, n)) \/ OpStep(g) \/ OpFails(g)
  \/ Push \/ MergeBase \/ ChecksEnd \/ (\E c \in Comments : Comment(c)) \/ Approve
  \/ TurnOn \/ TurnOff \/ GitHubMerges \/ Close
  \/ Pass

\* Reports, sessions and time leave of the review what ticks go by; a report moves the head
\* only of a round that is active.
ReviewStays ==
  /\ rv'.open = rv.open /\ (HasActive(rv') => HasActive(rv))
  /\ rv'.content = rv.content /\ rv'.contentHead = rv.contentHead /\ rv'.lineage = rv.lineage
  /\ DoneKept(rv, rv')
  /\ rv'.merge.held = rv.merge.held /\ rv'.merge.on = rv.merge.on
  /\ rv'.merge.withdrawing = rv.merge.withdrawing /\ rv'.merge.snapshot = rv.merge.snapshot
  /\ rv.open /\ ~HasActive(rv) => rv'.head = rv.head

LEMMA SameReview ==
  ASSUME rv' = rv
  PROVE  ReviewStays /\ (rv'.quiet => rv.quiet /\ rv'.head = rv.head)
BY DEF ReviewStays, DoneKept

LEMMA KeptActive ==
  ASSUME NEW v, NEW n, RoundsKept(v, n)
  PROVE  HasActive(n) => HasActive(v)
BY DEF RoundsKept, HasActive

LEMMA StepStays ==
  ASSUME RoundStep(rv, rv')
  PROVE  /\ ReviewStays /\ (rv'.quiet => rv.quiet /\ rv'.head = rv.head) /\ rv'.merge = rv.merge
         /\ rv' \in Review
<1>1. HasActive(rv') => HasActive(rv)
  BY KeptActive DEF RoundStep
<1> QED BY <1>1 DEF RoundStep, RoundWrite, ReviewStays

LEMMA ReportStays ==
  ASSUME TypeInv, RoundsInv, NEW g \in Guards,
         (\E n \in 1 .. MaxRounds : Report(g, n)) \/ OpStep(g) \/ OpFails(g)
  PROVE  /\ ReviewStays /\ (rv'.quiet => rv.quiet /\ rv'.head = rv.head) /\ rv'.merge = rv.merge
         /\ UNCHANGED <<pr, changes, pods, lease, tick, moves>> /\ past'.overlap = past.overlap
         /\ past'.declined = past.declined /\ past'.renoted = past.renoted
         /\ faults' = 0 => faults = 0 /\ past'.noted = past.noted
<1>1. CASE \E n \in 1 .. MaxRounds : Report(g, n)
  <2>1. PICK n \in 1 .. MaxRounds : Report(g, n)
    BY <1>1
  <2>2. ReportBegins(g, n) /\ Books(FALSE) /\ UNCHANGED <<pr, changes, pods, lease, tick, moves>>
    BY <2>1, ReportStep
  <2>3. \A k \in 1 .. MaxRounds : rv'.rounds[k].status = rv.rounds[k].status
    BY <2>2 DEF ReportBegins
  <2>4. HasActive(rv') => HasActive(rv)
    BY <2>3 DEF HasActive, ActiveRound
  <2>5. past.overlap \in BOOLEAN
    BY Typed DEF Past
  <2>6. ReviewStays /\ (rv'.quiet => rv.quiet /\ rv'.head = rv.head) /\ rv'.merge = rv.merge
    BY <2>2, <2>4 DEF ReportBegins, RoundWrite, ReviewStays
  <2> QED BY <2>2, <2>5, <2>6 DEF Books
<1>2. CASE OpPost(g)
  BY <1>2, PostStep, SameReview
<1>3. CASE OpRecord(g)
  <2> DEFINE n == op[g].n
             res == [head |-> op[g].head, question |-> op[g].question]
  <2>1. /\ OpAt(g, "record") /\ Books(FALSE)
        /\ UNCHANGED <<pr, changes, pods, lease, tick, moves>> /\ n \in 1 .. MaxRounds
        /\ \/ rv' = rv
           \/ rv.open /\ RoundRecord(rv, rv', n, res)
    BY <1>3, OutcomeStep
  <2> HIDE DEF res
  <2>2. past.overlap \in BOOLEAN
    BY Typed DEF Past
  <2>3. ASSUME rv.open, RoundRecord(rv, rv', n, res)
        PROVE  ReviewStays /\ (rv'.quiet => rv.quiet /\ rv'.head = rv.head) /\ rv'.merge = rv.merge
    <3>1. HasActive(rv)
      BY <2>1, <2>3, OwnedRound DEF OpAt, HasActive
    <3> QED BY <2>3, <3>1 DEF RoundRecord, RoundWrite, ReviewStays
  <2> QED BY <2>1, <2>2, <2>3, SameReview DEF Books
<1>4. CASE OpRelease(g)
  <2> DEFINE n == op[g].n
  <2>1. /\ Books(FALSE) /\ UNCHANGED <<pr, changes, pods, lease, tick, moves>> /\ n \in 1 .. MaxRounds
        /\ \/ rv' = rv
           \/ /\ RoundWrite(rv, rv') /\ rv'.merge = rv.merge /\ rv'.head = rv.head
              /\ rv'.quiet = rv.quiet /\ rv'.rounds[n].status = rv.rounds[n].status
              /\ \A j \in 1 .. MaxRounds : j # n => rv'.rounds[j] = rv.rounds[j]
    BY <1>4, ReleaseStep
  <2>2. past.overlap \in BOOLEAN
    BY Typed DEF Past
  <2>3. ASSUME RoundWrite(rv, rv'), rv'.merge = rv.merge, rv'.head = rv.head, rv'.quiet = rv.quiet,
               rv'.rounds[n].status = rv.rounds[n].status,
               \A j \in 1 .. MaxRounds : j # n => rv'.rounds[j] = rv.rounds[j]
        PROVE  ReviewStays /\ (rv'.quiet => rv.quiet /\ rv'.head = rv.head)
    <3>1. \A k \in 1 .. MaxRounds : rv'.rounds[k].status = rv.rounds[k].status
      BY <2>3
    <3>2. HasActive(rv') => HasActive(rv)
      BY <3>1 DEF HasActive, ActiveRound
    <3> QED BY <2>3, <3>2 DEF RoundWrite, ReviewStays
  <2> QED BY <2>1, <2>2, <2>3, SameReview DEF Books
<1>5. CASE OpFails(g)
  <2>1. Books(FALSE) /\ UNCHANGED <<rv, pr, changes, pods, lease, tick, moves>>
    BY <1>5, OpFailStep
  <2>2. past.overlap \in BOOLEAN
    BY Typed DEF Past
  <2> QED BY <2>1, <2>2, SameReview DEF Books
<1> QED BY <1>1, <1>2, <1>3, <1>4, <1>5 DEF OpStep

LEMMA AroundDoes ==
  ASSUME TypeInv, KnownInv, RoundsInv, Around
  PROVE  /\ tick' = tick /\ ReviewStays
         /\ lease' = lease \/ \A r \in Ticks : tick[r].pc = "off"
         /\ (rv'.quiet => rv.quiet /\ rv'.head = rv.head) \/ \A r \in Ticks : tick[r].pc = "off"
         /\ past'.overlap = past.overlap /\ past'.renoted = past.renoted
         /\ faults' = 0 => faults = 0 /\ past'.noted = past.noted
         /\ pr'.auto = "ours" => pr.auto = "ours"
         /\ pr'.head >= pr.head /\ \A h \in 1 .. pr.head : changes'[h] = changes[h]
         /\ (~pr.open => ~pr'.open /\ pr'.head = pr.head)
<1>0. pr.head \in Nat /\ pr.head \in Heads
  BY HeadBounds
<1>1. CASE \E n \in 1 .. MaxRounds : CheckIn(n) \/ PodEnds(n)
  <2>1. RoundStep(rv, rv') /\ UNCHANGED <<pr, changes, lease, tick, op, moves, faults, past>>
    BY <1>1, PodStep
  <2> QED BY <1>0, <2>1, StepStays
<1>2. CASE \E g \in Guards : (\E n \in 1 .. MaxRounds : Report(g, n)) \/ OpStep(g) \/ OpFails(g)
  <2>1. PICK g \in Guards : (\E n \in 1 .. MaxRounds : Report(g, n)) \/ OpStep(g) \/ OpFails(g)
    BY <1>2
  <2> QED BY <1>0, <2>1, ReportStays
<1>3. CASE Push \/ MergeBase \/ \E n \in 1 .. MaxRounds : SessionPush(n)
  <2>1. /\ UNCHANGED <<rv, pods, lease, tick, op, faults, past>>
        /\ HeadAdded(pr.head + 1) \/ HeadAdded(changes[pr.head])
    BY <1>3, PushStep
  <2>2. PICK epoch \in {pr.head + 1, changes[pr.head]} : HeadAdded(epoch)
    BY <2>1
  <2>3. \A h \in 1 .. pr.head : h \in Heads /\ h # pr.head + 1
    BY <1>0, ChangesBound DEF KnownInv
  <2>4. /\ pr'.auto = pr.auto /\ pr'.head = pr.head + 1 /\ pr.open
        /\ \A h \in 1 .. pr.head : changes'[h] = changes[h]
    BY <2>2, <2>3 DEF HeadAdded
  <2> QED BY <1>0, <2>1, <2>4, SameReview
<1>4. CASE ChecksEnd \/ (\E c \in Comments : Comment(c)) \/ Approve \/ TurnOn \/ TurnOff
             \/ GitHubMerges \/ Close
  <2>1. /\ UNCHANGED <<rv, changes, pods, lease, tick, op, faults>> /\ pr'.head = pr.head /\ pr.open
        /\ past'.overlap = past.overlap /\ past'.renoted = past.renoted /\ past'.noted = past.noted
        /\ pr' = ClosedPR \/ pr'.auto = pr.auto \/ pr'.auto = "theirs" \/ pr'.auto = "off"
    BY <1>4, PeopleStep
  <2> QED BY <1>0, <2>1, ClosedDoes, SameReview
<1>5. CASE Pass
  <2>1. /\ \A r \in Ticks : tick[r] = NoTick
        /\ rv' = Older(rv) /\ UNCHANGED <<changes, tick, op, moves, faults, past>>
        /\ pr'.open = pr.open /\ pr'.head = pr.head /\ pr'.auto = pr.auto
    BY <1>5, PassStep
  <2>2. /\ RoundWrite(rv, rv') /\ rv'.head = rv.head
        /\ rv'.merge.snapshot = rv.merge.snapshot /\ rv'.merge.held = rv.merge.held
        /\ rv'.merge.on = rv.merge.on /\ rv'.merge.withdrawing = rv.merge.withdrawing
        /\ \A k \in 1 .. MaxRounds : rv'.rounds[k].status = rv.rounds[k].status
    BY <2>1, Typed, OlderDoes
  <2>3. HasActive(rv') => HasActive(rv)
    BY <2>2 DEF HasActive, ActiveRound
  <2>4. ReviewStays
    BY <2>2, <2>3 DEF RoundWrite, ReviewStays
  <2> QED BY <1>0, <2>1, <2>4, NoneTypes
<1> QED BY <1>1, <1>2, <1>3, <1>4, <1>5 DEF Around

LEMMA NextSplits ==
  ASSUME [Next]_vars
  PROVE  \/ UNCHANGED vars
         \/ \E r \in Ticks : TickStart(r) \/ TickStep(r) \/ TickFails(r)
         \/ Around
BY DEF Next, Around

\* While no tick overlapped another, the tick under way has the lease and is the only one.
Solo == ~past.overlap => \A r \in Ticks : tick[r].pc # "off" => lease = r
Lone(r) == \A q \in Ticks : q # r => tick[q].pc = "off"

LEMMA LoneIs ==
  ASSUME Solo, ~past.overlap, NEW r \in Ticks, tick[r].pc # "off"
  PROVE  Lone(r) /\ lease = r
BY DEF Solo, Lone

LEMMA BooksOverlap ==
  ASSUME TypeInv, Books(FALSE)
  PROVE  past'.overlap = past.overlap /\ past'.declined = past.declined
<1>1. past.overlap \in BOOLEAN
  BY Typed DEF Past
<1> QED BY <1>1 DEF Books

LEMMA GoesFrame ==
  ASSUME NEW r \in Ticks, TickEnds(r) \/ \E pc \in PCs : TickGoes(r, pc)
  PROVE  \E t \in Tick : TickMoves(r, t) /\ (lease' = lease \/ t.pc = "off")
BY NoneTypes DEF TickEnds, TickGoes

LEMMA DecidesFrame ==
  ASSUME NEW r \in Ticks, NEW w \in Tick, NEW pc \in PCs, Decides(r, w, pc)
  PROVE  \E t \in Tick : TickMoves(r, t) /\ (lease' = lease \/ t.pc = "off")
BY NoneTypes, NeededDoes DEF Decides, TickEnds

\* A step of a tick is that of one that is under way; it keeps the lease or ends.
LEMMA TickFrame ==
  ASSUME TypeInv, KnownInv, NEW r \in Ticks, TickStep(r) \/ TickFails(r)
  PROVE  /\ tick[r].pc # "off" /\ past'.overlap = past.overlap /\ past'.declined = past.declined
         /\ \E t \in Tick : TickMoves(r, t) /\ (lease' = lease \/ t.pc = "off")
<1>1. CASE TickFails(r)
  <2>1. TickMoves(r, NoTick) /\ Books(FALSE)
    BY <1>1, FailStep
  <2> QED BY <1>1, <2>1, BooksOverlap, NoneTypes DEF TickFails, At
<1>2. CASE TickOver(r)
  BY <1>2, OverStep, BooksOverlap, GoesFrame DEF At
<1>3. CASE TickObserve(r)
  <2>1. At(r, "observe") /\ Books(FALSE) /\ lease' = lease
    BY <1>3, ObserveStep
  <2>2. \E t \in Tick : TickMoves(r, t)
    BY <1>3, ObserveStep
  <2> QED BY <2>1, <2>2, BooksOverlap DEF At
<1>4. CASE TickAdvance(r)
  <2> DEFINE x == Weighed(tick[r])
  <2>1. At(r, "advance") /\ Books(FALSE) /\ x \in Tick
    BY <1>4, AdvanceStep
  <2>2. \E pc \in PCs : Decides(r, x, pc)
    BY <1>4, AdvanceStep
  <2> HIDE DEF x
  <2>3. \E t \in Tick : TickMoves(r, t) /\ (lease' = lease \/ t.pc = "off")
    BY <2>1, <2>2, DecidesFrame
  <2> QED BY <2>1, <2>3, BooksOverlap DEF At
<1>5. CASE TickWithdraw(r)
  BY <1>5, WithdrawStep, BooksOverlap, GoesFrame DEF At, PCs
<1>6. CASE TickDisable(r)
  BY <1>6, DisableStep, BooksOverlap, GoesFrame DEF At, PCs
<1>7. CASE TickRecord(r)
  <2> DEFINE w == tick[r]
  <2>1. w \in Tick /\ w.pc # "off" /\ Books(FALSE)
    BY <1>7, RecordStep
  <2>2. \E pc \in PCs : Decides(r, w, pc)
    BY <1>7, RecordStep
  <2>3. \E t \in Tick : TickMoves(r, t) /\ (lease' = lease \/ t.pc = "off")
    BY <2>1, <2>2, DecidesFrame
  <2> QED BY <2>1, <2>3, BooksOverlap
<1>8. CASE TickStop(r)
  BY <1>8, StopStep, BooksOverlap, GoesFrame DEF At
<1>9. CASE TickNote(r)
  BY <1>9, NoteStep, GoesFrame DEF At, PCs
<1>10. CASE TickDone(r)
  BY <1>10, DoneStep, BooksOverlap, GoesFrame DEF At
<1>11. CASE TickClaim(r)
  BY <1>11, ClaimStep, BooksOverlap, GoesFrame DEF At, PCs
<1>12. CASE TickMerge(r)
  <2>1. /\ At(r, "merge") /\ Books(FALSE)
        /\ TickEnds(r) \/ \E pc \in {"merged", "enabled"} : TickGoes(r, pc)
    BY <1>12, MergeStep
  <2> QED BY <2>1, BooksOverlap, GoesFrame DEF At, PCs
<1>13. CASE TickMerged(r)
  BY <1>13, MergedStep, BooksOverlap, GoesFrame DEF At
<1>14. CASE TickRound(r)
  BY <1>14, RoundTaken, BooksOverlap, GoesFrame DEF At, PCs
<1>15. CASE TickLaunch(r) \/ TickRunning(r) \/ TickRan(r)
  BY <1>15, SessionStep, BooksOverlap, GoesFrame DEF At, PCs
<1> QED BY <1>1, <1>2, <1>3, <1>4, <1>5, <1>6, <1>7, <1>8, <1>9, <1>10, <1>11, <1>12, <1>13, <1>14,
        <1>15 DEF TickStep

\* A tick that starts without overlapping another has the pull request to itself.
LEMMA StartsAlone ==
  ASSUME TypeInv, Solo, NEW r \in Ticks, TickStart(r), ~past'.overlap
  PROVE  /\ ~past.overlap /\ lease' = r /\ \A q \in Ticks : tick[q].pc = "off"
<1>1. /\ lease' = IF lease = NoOne THEN r ELSE lease
      /\ Books(lease # NoOne) /\ At(r, "off")
  BY StartStep
<1>2. ~past.overlap /\ lease = NoOne
  BY <1>1 DEF Books
<1> QED BY <1>1, <1>2, Numbers DEF Solo

LEMMA SoloStep ==
  ASSUME TypeInv, KnownInv, RoundsInv, Solo, [Next]_vars
  PROVE  Solo'
<1>1. CASE UNCHANGED vars
  BY <1>1 DEF vars, Solo
<1>2. ASSUME NEW r \in Ticks, TickStart(r)
      PROVE  Solo'
  <2>1. PICK t \in Tick : TickMoves(r, t)
    BY <1>2, StartStep
  <2>2. ASSUME ~past'.overlap, NEW q \in Ticks, tick'[q].pc # "off"
        PROVE  lease' = q
    BY <1>2, <2>1, <2>2, StartsAlone DEF TickMoves
  <2> QED BY <2>2 DEF Solo
<1>3. ASSUME NEW r \in Ticks, TickStep(r) \/ TickFails(r)
      PROVE  Solo'
  <2>1. tick[r].pc # "off" /\ past'.overlap = past.overlap
    BY <1>3, TickFrame
  <2>2. PICK t \in Tick : TickMoves(r, t) /\ (lease' = lease \/ t.pc = "off")
    BY <1>3, TickFrame
  <2>3. ASSUME ~past'.overlap, NEW q \in Ticks, tick'[q].pc # "off"
        PROVE  lease' = q
    <3>1. Lone(r) /\ lease = r
      BY <2>1, <2>3, LoneIs
    <3>2. q = r
      BY <2>2, <2>3, <3>1 DEF Lone, TickMoves
    <3> QED BY <2>2, <2>3, <3>1, <3>2 DEF TickMoves
  <2> QED BY <2>3 DEF Solo
<1>4. CASE Around
  BY <1>4, AroundDoes DEF Solo
<1> QED BY <1>1, <1>2, <1>3, <1>4, NextSplits

-----------------------------------------------------------------------------
(* No round works under an auto-merge of arbetern's. *)

\* What a tick goes by when it decides.
LEMMA ActsDoes ==
  ASSUME NEW n, NEW w
  PROVE  LET pc == Acts(n, w)
         IN  /\ pc # "off" => n.open
             /\ pc = "round" => w.need # {}
             /\ pc = "note" => ReadyFor(n, w)
             /\ pc \in {"arm", "claim"} => w.content # NoHead /\ MayMerge(n.merge) /\ w.auto = "off"
             /\ pc = "claim" => n.merge.armed = "due" /\ n.merge.snapshot = Snapshot(w)
BY DEF Acts, AutoMerges

LEMMA FollowsDoes ==
  ASSUME NEW x
  PROVE  LET pc == Follows(x)
         IN  /\ pc = "withdraw" => x.auto = "ours"
             /\ pc = "cleared" => rv.merge.withdrawing
             /\ pc = "turned" => rv.merge.on /\ x.auto = "off"
             /\ pc = "on" => x.auto # "off" /\ ~rv.merge.on
             /\ pc # "withdraw" /\ x.auto = "ours" => x.need = {} /\ ~rv.merge.withdrawing
<1>1. Acts(rv, x) \notin {"withdraw", "cleared", "turned", "on"}
  BY ActsIn
<1> QED BY <1>1 DEF Follows, MergeHold

\* What auto-merge is while a tick is under way that read it.
AutoTick(w) ==
  /\ w.pc \in {"observe", "advance", "withdraw", "turned", "on", "disarm"} /\ pr.auto = "ours" =>
       w.auto = "ours"
  /\ w.pc = "turned" => w.auto = "off"
  /\ w.pc \in {"cleared", "round", "launch", "running"} => pr.auto # "ours"
  /\ w.pc \in {"on", "disarm"} /\ w.auto = "ours" => w.need = {}
  /\ w.pc = "merge" => ~HasActive(rv)
AutoKnown ==
  ~past.overlap => /\ HasActive(rv) => pr.auto # "ours"
                   /\ \A r \in Ticks : AutoTick(tick[r])

LEMMA AutoIs ==
  ASSUME NEW r \in Ticks, NEW t, TickMoves(r, t), Lone(r),
         HasActive(rv') => pr'.auto # "ours", AutoTick(t)'
  PROVE  AutoKnown'
<1>1. ASSUME NEW q \in Ticks
      PROVE  AutoTick(tick[q])'
  BY <1>1 DEF Lone, TickMoves, AutoTick
<1> QED BY <1>1 DEF AutoKnown

\* A tick ends, or goes on to a step that says nothing about auto-merge.
LEMMA AutoEnds ==
  ASSUME NEW r \in Ticks, NEW t, TickMoves(r, t), Lone(r),
         HasActive(rv') => pr'.auto # "ours",
         t.pc \in {"off", "disable", "stop", "note", "done", "arm", "claim", "enabled", "merged"}
  PROVE  AutoKnown'
<1>1. AutoTick(t)'
  BY DEF AutoTick
<1> QED BY <1>1, AutoIs

LEMMA AutoFinish ==
  ASSUME NEW r \in Ticks, TickEnds(r), Lone(r), HasActive(rv') => pr'.auto # "ours"
  PROVE  AutoKnown'
BY AutoEnds, NoneTypes DEF TickEnds

LEMMA WritesActive ==
  ASSUME NEW v, NEW n, WorkKept(v, n)
  PROVE  HasActive(n) = HasActive(v)
BY DEF WorkKept, HasActive, ActiveRound

\* A tick decides with what it read when no round was due under an auto-merge that was on.
LEMMA AutoDecides ==
  ASSUME TypeInv, NEW r \in Ticks, Lone(r), NEW x \in Tick, NEW pc \in PCs, Decides(r, x, pc),
         pc \in {"off", "withdraw", "cleared", "turned", "on", "disarm", "stop", "round", "note",
                 "arm", "claim"},
         HasActive(rv') => pr'.auto # "ours",
         pr'.auto = "ours" => x.auto = "ours",
         pc = "turned" => x.auto = "off",
         pc \in {"cleared", "round"} => pr'.auto # "ours",
         pc \in {"on", "disarm"} /\ x.auto = "ours" => x.need = {}
  PROVE  AutoKnown'
<1> DEFINE t == Needed(x, pc)
<1>1. CASE pc = "off"
  BY <1>1, AutoFinish DEF Decides
<1>2. CASE pc # "off"
  <2>1. TickMoves(r, t)
    BY <1>2 DEF Decides
  <2>2. /\ t.pc = pc
        /\ pc \in {"withdraw", "cleared", "turned", "on", "disarm"} => Keeps(x, t)
    BY NeededDoes
  <2> HIDE DEF t
  <2>3. AutoTick(t)'
    BY <2>2 DEF AutoTick, Keeps
  <2> QED BY <2>1, <2>3, AutoIs
<1> QED BY <1>1, <1>2

LEMMA AutoStart ==
  ASSUME TypeInv, Solo, AutoKnown, NEW r \in Ticks, TickStart(r)
  PROVE  AutoKnown'
<1>1. RoundStep(rv, rv') /\ pr' = pr
  BY StartStep
<1>2. PICK known \in BOOLEAN, t \in Tick :
        /\ TickMoves(r, t)
        /\ pr.open => t = ReadPR(rv', known)
        /\ ~pr.open => t = [NoTick EXCEPT !.pc = "over"]
  BY StartStep
<1>3. CASE past'.overlap
  BY <1>3 DEF AutoKnown
<1>4. CASE ~past'.overlap
  <2>1. ~past.overlap /\ Lone(r)
    BY <1>4, StartsAlone DEF Lone
  <2>2. HasActive(rv') => pr'.auto # "ours"
    BY <1>1, <2>1, StepStays DEF AutoKnown, ReviewStays
  <2>3. t.pc = "over" \/ (t.pc = "observe" /\ t.auto = pr.auto)
    <3>1. rv' \in Review
      BY <1>1, StepStays
    <3>2. CASE pr.open
      BY <1>2, <3>1, <3>2, ReadDoes
    <3>3. CASE ~pr.open
      BY <1>2, <3>3 DEF NoTick
    <3> QED BY <3>2, <3>3
  <2>4. AutoTick(t)'
    BY <1>1, <2>3 DEF AutoTick
  <2> QED BY <1>2, <2>1, <2>2, <2>4, AutoIs
<1> QED BY <1>3, <1>4

LEMMA AutoStep ==
  ASSUME TypeInv, KnownInv, Solo, AutoKnown, NEW r \in Ticks, TickStep(r) \/ TickFails(r), ~past.overlap
  PROVE  AutoKnown'
<1> DEFINE w == tick[r]
<1>0. /\ rv \in Review /\ Apart(rv.merge) /\ w \in Tick /\ w.head \in Epochs
      /\ w.content \in Epochs /\ Snapshot(w) \in Snapshots
  BY Typed DEF Tick, Snapshot, Snapshots
<1>a. Lone(r)
  BY TickFrame, LoneIs
<1>b. (HasActive(rv) => pr.auto # "ours") /\ AutoTick(w)
  BY DEF AutoKnown
<1> HIDE DEF w
<1>1. CASE TickFails(r)
  <2>1. TickMoves(r, NoTick) /\ UNCHANGED <<rv, pr>>
    BY <1>1, FailStep
  <2> QED BY <1>a, <1>b, <2>1, NoneTypes, AutoEnds
<1>2. CASE TickOver(r)
  <2>1. rv' = CloseReview /\ pr' = pr /\ TickEnds(r)
    BY <1>2, OverStep
  <2> QED BY <1>a, <2>1, OpenedTypes, AutoFinish
<1>3. CASE TickObserve(r)
  <2> DEFINE new == Observe(rv, w, Same(w.head))
  <2>1. rv' = new /\ Same(w.head) \in SUBSET Heads /\ pr' = pr /\ w.pc = "observe"
    BY <1>3, ObserveStep DEF w, At
  <2>2. PICK t \in Tick : TickMoves(r, t) /\ t.pc = "advance" /\ Looks(w, t)
    BY <1>3, ObserveStep DEF w
  <2>3. WorkKept(rv, new)
    BY <1>0, <2>1, ObserveDoes
  <2> HIDE DEF new
  <2>4. HasActive(rv') => pr'.auto # "ours"
    BY <1>b, <2>1, <2>3, WritesActive
  <2>5. AutoTick(t)'
    BY <1>b, <2>1, <2>2 DEF AutoTick, Looks
  <2> QED BY <1>a, <2>2, <2>4, <2>5, AutoIs
<1>4. CASE TickAdvance(r)
  <2> DEFINE x == Weighed(w)
  <2>1. w.pc = "advance" /\ x \in Tick /\ UNCHANGED <<rv, pr>>
    BY <1>4, AdvanceStep DEF w, At
  <2>2. PICK pc \in PCs :
          /\ Decides(r, x, pc)
          /\ pc # "off" => pc = Follows(x)
          /\ pc \in {"off", "withdraw", "cleared", "turned", "on", "disarm"} \/ pc = Acts(rv, x)
    BY <1>4, AdvanceStep DEF w
  <2>3. x.auto = w.auto
    BY <1>0, WeighedDoes
  <2> HIDE DEF x
  <2>4. pr.auto = "ours" => x.auto = "ours"
    BY <1>b, <2>1, <2>3 DEF AutoTick
  <2>5. pc \in {"off", "withdraw", "cleared", "turned", "on", "disarm", "stop", "round", "note", "arm", "claim"}
    BY <2>2, ActsIn
  <2>6. /\ pc = "turned" => x.auto = "off"
        /\ pc \in {"on", "disarm"} /\ x.auto = "ours" => x.need = {}
        /\ pc = "cleared" => x.auto # "ours"
    BY <2>2, FollowsDoes
  <2>7. pc = "round" => x.need # {} /\ x.auto # "ours"
    BY <2>2, FollowsDoes, ActsDoes
  <2> QED BY <1>a, <1>b, <2>1, <2>2, <2>4, <2>5, <2>6, <2>7, AutoDecides
<1>5. CASE TickWithdraw(r)
  <2>1. rv' = WithdrawMerge(rv) /\ pr' = pr /\ TickGoes(r, "disable")
    BY <1>5, WithdrawStep
  <2>2. WorkKept(rv, rv')
    BY <1>0, <2>1, WithdrawMergeDoes DEF MergeWrite
  <2>3. PICK t \in Tick : TickMoves(r, t) /\ t.pc = "disable"
    BY <2>1 DEF TickGoes
  <2> QED BY <1>a, <1>b, <2>1, <2>2, <2>3, WritesActive, AutoEnds
<1>6. CASE TickDisable(r)
  <2>1. pr' = Disabled /\ rv' = rv /\ TickGoes(r, "cleared")
    BY <1>6, DisableStep
  <2>2. PICK t \in Tick : TickMoves(r, t) /\ t.pc = "cleared"
    BY <2>1 DEF TickGoes
  <2>3. pr'.auto = "off"
    BY <2>1, DisabledDoes
  <2>4. AutoTick(t)'
    BY <2>2, <2>3 DEF AutoTick
  <2> QED BY <1>a, <2>2, <2>3, <2>4, AutoIs
<1>7. CASE TickRecord(r)
  <2>1. w.pc \in {"cleared", "turned", "on", "disarm"} /\ pr' = pr
    BY <1>7, RecordStep DEF w
  <2>2. PICK pc \in PCs, read \in {rv, FollowWrite(w)} :
          /\ pc = Acts(read, w) /\ Decides(r, w, pc) /\ rv' \in {rv, FollowWrite(w)}
    BY <1>7, RecordStep DEF w
  <2>3. HasActive(rv') = HasActive(rv)
    BY <1>0, <2>2, FollowWriteDoes, WritesActive DEF MergeWrite
  <2>4. pc \in {"off", "stop", "round", "note", "arm", "claim"} /\ (pc = "round" => w.need # {})
    BY <2>2, ActsIn, ActsDoes
  <2>5. pc = "round" => pr.auto # "ours"
    BY <1>b, <2>1, <2>4 DEF AutoTick
  <2>6. CASE pc = "off"
    BY <1>a, <1>b, <2>1, <2>2, <2>3, <2>6, AutoFinish DEF Decides
  <2>7. CASE pc # "off"
    <3>1. PICK t \in Tick : TickMoves(r, t) /\ t.pc = pc
      BY <1>0, <2>2, <2>7, NeededDoes DEF Decides
    <3>2. AutoTick(t)'
      BY <2>1, <2>4, <2>5, <3>1 DEF AutoTick
    <3> QED BY <1>a, <1>b, <2>1, <2>3, <3>1, <3>2, AutoIs
  <2> QED BY <2>6, <2>7
<1>8. CASE TickStop(r)
  <2>1. rv' = Exhaust(rv) /\ pr' = pr /\ TickEnds(r)
    BY <1>8, StopStep
  <2>2. WorkKept(rv, rv')
    BY <1>0, <2>1, ExhaustDoes
  <2> QED BY <1>a, <1>b, <2>1, <2>2, WritesActive, AutoFinish
<1>9. CASE TickNote(r)
  <2>1. UNCHANGED <<rv, pr>> /\ TickGoes(r, "done")
    BY <1>9, NoteStep
  <2>2. PICK t \in Tick : TickMoves(r, t) /\ t.pc = "done"
    BY <2>1 DEF TickGoes
  <2> QED BY <1>a, <1>b, <2>1, <2>2, AutoEnds
<1>10. CASE TickDone(r)
  <2>1. /\ rv' = MarkDone(rv, w.head, w.content) \/ rv' = ArmMerge(rv, Snapshot(w))
        /\ pr' = pr /\ TickEnds(r)
    BY <1>10, DoneStep DEF w
  <2>2. CASE rv' = MarkDone(rv, w.head, w.content)
    <3>1. WorkKept(rv, rv')
      BY <1>0, <2>2, MarkDoneDoes
    <3> QED BY <1>a, <1>b, <2>1, <3>1, WritesActive, AutoFinish
  <2>3. CASE rv' = ArmMerge(rv, Snapshot(w))
    <3>1. WorkKept(rv, rv')
      BY <1>0, <2>3, ArmMergeDoes DEF MergeWrite
    <3> QED BY <1>a, <1>b, <2>1, <3>1, WritesActive, AutoFinish
  <2> QED BY <2>1, <2>2, <2>3
<1>11. CASE TickClaim(r)
  <2> DEFINE new == ClaimMerge(rv, w.head, Snapshot(w))
  <2>1. /\ rv' = new /\ pr' = pr
        /\ (new = rv /\ TickEnds(r)) \/ (new # rv /\ TickGoes(r, "merge"))
    BY <1>11, ClaimStep DEF w
  <2>2. WorkKept(rv, new) /\ (new = rv \/ ~HasActive(rv))
    BY <1>0, ClaimMergeDoes DEF MergeWrite
  <2> HIDE DEF new
  <2>3. HasActive(rv') = HasActive(rv)
    BY <2>1, <2>2, WritesActive
  <2>4. CASE TickEnds(r)
    BY <1>a, <1>b, <2>1, <2>3, <2>4, AutoFinish
  <2>5. CASE new # rv /\ TickGoes(r, "merge")
    <3>1. PICK t \in Tick : TickMoves(r, t) /\ t.pc = "merge"
      BY <2>5 DEF TickGoes
    <3>2. AutoTick(t)'
      BY <2>2, <2>3, <2>5, <3>1 DEF AutoTick
    <3> QED BY <1>a, <1>b, <2>1, <2>3, <3>1, <3>2, AutoIs
  <2> QED BY <2>1, <2>4, <2>5
<1>12. CASE TickMerge(r)
  <2>1. /\ w.pc = "merge"
        /\ TickEnds(r) \/ \E pc \in {"merged", "enabled"} : TickGoes(r, pc)
        /\ rv' \in {rv, MergeWaits(rv, Snapshot(w), "new"), MergeWaits(rv, Snapshot(w), "due")}
    BY <1>12, MergeStep DEF w, At
  <2>2. WorkKept(rv, rv')
    <3>1. CASE rv' = rv
      BY <3>1 DEF WorkKept
    <3>2. CASE rv' = MergeWaits(rv, Snapshot(w), "new")
      BY <1>0, <3>2, MergeWaitsDoes DEF MergeWrite
    <3>3. CASE rv' = MergeWaits(rv, Snapshot(w), "due")
      BY <1>0, <3>3, MergeWaitsDoes DEF MergeWrite
    <3> QED BY <2>1, <3>1, <3>2, <3>3
  <2>3. ~HasActive(rv')
    BY <1>b, <2>1, <2>2, WritesActive DEF AutoTick
  <2>4. CASE TickEnds(r)
    BY <1>a, <2>3, <2>4, AutoFinish
  <2>5. CASE \E pc \in {"merged", "enabled"} : TickGoes(r, pc)
    <3>1. PICK t \in Tick : TickMoves(r, t) /\ t.pc \in {"merged", "enabled"}
      BY <2>5 DEF TickGoes
    <3> QED BY <1>a, <2>3, <3>1, AutoEnds
  <2> QED BY <2>1, <2>4, <2>5
<1>13. CASE TickMerged(r)
  <2>1. MergeWrite(rv, rv') /\ pr' = pr /\ TickEnds(r)
    BY <1>13, MergedStep
  <2> QED BY <1>a, <1>b, <2>1, WritesActive, AutoFinish DEF MergeWrite
<1>14. CASE TickRound(r)
  <2>1. /\ w.pc = "round" /\ pr' = pr
        /\ (rv' = rv /\ TickEnds(r)) \/ TickGoes(r, "launch")
    BY <1>14, RoundTaken DEF w, At
  <2>2. pr'.auto # "ours"
    BY <1>b, <2>1 DEF AutoTick
  <2>3. CASE TickEnds(r)
    BY <1>a, <2>2, <2>3, AutoFinish
  <2>4. CASE TickGoes(r, "launch")
    <3>1. PICK t \in Tick : TickMoves(r, t) /\ t.pc = "launch"
      BY <2>4 DEF TickGoes
    <3>2. AutoTick(t)'
      BY <2>2, <3>1 DEF AutoTick
    <3> QED BY <1>a, <2>2, <3>1, <3>2, AutoIs
  <2> QED BY <2>1, <2>3, <2>4
<1>15. CASE TickLaunch(r) \/ TickRunning(r) \/ TickRan(r)
  <2>1. /\ w.pc \in {"launch", "running"} /\ pr' = pr
        /\ TickEnds(r) \/ TickGoes(r, "running")
    BY <1>15, SessionStep DEF w, At
  <2>2. pr'.auto # "ours"
    BY <1>b, <2>1 DEF AutoTick
  <2>3. CASE TickEnds(r)
    BY <1>a, <2>2, <2>3, AutoFinish
  <2>4. CASE TickGoes(r, "running")
    <3>1. PICK t \in Tick : TickMoves(r, t) /\ t.pc = "running"
      BY <2>4 DEF TickGoes
    <3>2. AutoTick(t)'
      BY <2>2, <3>1 DEF AutoTick
    <3> QED BY <1>a, <2>2, <3>1, <3>2, AutoIs
  <2> QED BY <2>1, <2>3, <2>4
<1> QED BY <1>1, <1>2, <1>3, <1>4, <1>5, <1>6, <1>7, <1>8, <1>9, <1>10, <1>11, <1>12, <1>13, <1>14,
        <1>15 DEF TickStep

LEMMA AutoNext ==
  ASSUME TypeInv, KnownInv, RoundsInv, Solo, AutoKnown, [Next]_vars
  PROVE  AutoKnown'
<1>1. CASE UNCHANGED vars
  BY <1>1 DEF vars, AutoKnown, AutoTick
<1>2. ASSUME NEW r \in Ticks, TickStart(r)
      PROVE  AutoKnown'
  BY <1>2, AutoStart
<1>3. ASSUME NEW r \in Ticks, TickStep(r) \/ TickFails(r)
      PROVE  AutoKnown'
  <2>1. CASE past.overlap
    BY <1>3, <2>1, TickFrame DEF AutoKnown
  <2>2. CASE ~past.overlap
    BY <1>3, <2>2, AutoStep
  <2> QED BY <2>1, <2>2
<1>4. CASE Around
  <2>1. /\ tick' = tick /\ past'.overlap = past.overlap /\ (HasActive(rv') => HasActive(rv))
        /\ pr'.auto = "ours" => pr.auto = "ours"
    BY <1>4, AroundDoes DEF ReviewStays
  <2>2. ASSUME NEW r \in Ticks, AutoTick(tick[r])
        PROVE  AutoTick(tick[r])'
    BY <2>1, <2>2 DEF AutoTick
  <2> QED BY <2>1, <2>2 DEF AutoKnown
<1> QED BY <1>1, <1>2, <1>3, <1>4, NextSplits

\* Reports never meet, and ticks meet only when one ran without the lease.
Apartness == Shape /\ RoundsInv /\ Solo

LEMMA ApartHolds == Spec => []Apartness
<1>1. Init => RoundsInv /\ Solo
  BY RoundsInit, NoneTypes DEF Init, Solo
<1>2. Shape /\ RoundsInv /\ Solo /\ [Next]_vars => RoundsInv' /\ Solo'
  BY RoundsNext, SoloStep DEF Shape
<1> QED BY <1>1, <1>2, ShapeHolds, PTL DEF Spec, Apartness

\* No follow-up round works on a pull request whose auto-merge arbetern turned on, unless
\* ticks overlapped: a tick that finds a round due turns it off and records that first
\* (followAutoMerge, withdrawAutoMerge), the claim of a merge refuses while a round is active
\* (ClaimMerge), and only then is a round recorded (dispatchRounds).
THEOREM NoRoundUnderAutoMergeHolds == Spec => []NoRoundUnderAutoMerge
<1>1. Init => AutoKnown
  <2>1. ASSUME Init
        PROVE  AutoKnown
    <3>1. /\ rv = Opened /\ \A r \in Ticks : tick[r] = NoTick
      BY <2>1 DEF Init
    <3> QED BY <3>1, OpenedTypes, NoneTypes DEF AutoKnown, AutoTick
  <2> QED BY <2>1
<1>2. Apartness /\ AutoKnown /\ [Next]_vars => AutoKnown'
  BY AutoNext DEF Apartness, Shape
<1>3. AutoKnown => NoRoundUnderAutoMerge
  BY DEF AutoKnown, NoRoundUnderAutoMerge
<1> QED BY <1>1, <1>2, <1>3, ApartHolds, PTL DEF Spec

-----------------------------------------------------------------------------
(* What a step of a tick keeps of what the tick read. *)

Watch == {"observe", "advance", "withdraw", "disable", "cleared", "turned", "on", "disarm",
          "arm", "claim", "merge", "enabled", "merged"}

\* Watch w goes on as t: what t still needs is what w has.
Onward(w, t) ==
  /\ t.pc # "observe" /\ t.approved \in {w.approved, NoHead}
  /\ t.approved # NoHead => t.head = w.head
  /\ t.pc \notin Idle => w.pc \notin Idle /\ t.head = w.head
  /\ t.pc \in Watch => w.pc \in Watch /\ t.talk = w.talk /\ t.still = w.still
                       /\ t.auto \in {w.auto, "off"}
  /\ t.pc \in Watch \cup {"note", "done"} => t.content = w.content

LEMMA KeepsOnward ==
  ASSUME NEW w \in Tick, NEW t, Keeps(w, t), t.pc # "observe",
         t.pc \notin Idle => w.pc \notin Idle, t.pc \in Watch => w.pc \in Watch
  PROVE  Onward(w, t)
BY DEF Keeps, Onward

LEMMA NoneOnward ==
  ASSUME NEW w
  PROVE  Onward(w, NoTick)
BY DEF Onward, NoTick, Idle, Watch

LEMMA GoesOnward ==
  ASSUME TypeInv, NEW r \in Ticks, NEW pc \in PCs \ Idle, pc # "observe", TickGoes(r, pc),
         tick[r].pc \notin Idle, pc \in Watch => tick[r].pc \in Watch
  PROVE  \E t \in Tick : TickMoves(r, t) /\ t.pc = pc /\ Onward(tick[r], t)
<1>1. PICK t \in Tick : TickMoves(r, t) /\ t.pc = pc /\ Keeps(tick[r], t)
  BY DEF TickGoes
<1>2. tick[r] \in Tick
  BY Typed
<1>3. Onward(tick[r], t)
  BY <1>1, <1>2, KeepsOnward
<1> QED BY <1>1, <1>3

LEMMA EndsOnward ==
  ASSUME NEW r \in Ticks, TickEnds(r) \/ TickMoves(r, NoTick)
  PROVE  \E t \in Tick : TickMoves(r, t) /\ t.pc = "off" /\ Onward(tick[r], t)
<1>1. NoTick \in Tick /\ NoTick.pc = "off" /\ Onward(tick[r], NoTick) /\ TickMoves(r, NoTick)
  BY NoneTypes, NoneOnward DEF TickEnds
<1> QED BY <1>1

LEMMA DecidesOnward ==
  ASSUME NEW r \in Ticks, NEW w \in Tick, NEW x \in Tick, NEW pc \in PCs, Decides(r, x, pc),
         w.pc \in Watch, x.head = w.head, x.talk = w.talk, x.still = w.still,
         x.approved = w.approved, x.content = w.content, x.auto = w.auto,
         pc \in {"off", "withdraw", "cleared", "turned", "on", "disarm", "stop", "round", "note",
                 "arm", "claim"}
  PROVE  \E t \in Tick : TickMoves(r, t) /\ t.pc = pc /\ Onward(w, t)
<1>1. CASE pc = "off"
  <2>1. NoTick \in Tick /\ NoTick.pc = "off" /\ Onward(w, NoTick) /\ TickMoves(r, NoTick)
    BY <1>1, NoneTypes, NoneOnward DEF Decides, TickEnds
  <2> QED BY <1>1, <2>1
<1>2. CASE pc # "off"
  <2> DEFINE t == Needed(x, pc)
  <2>1. TickMoves(r, t)
    BY <1>2 DEF Decides
  <2>2. /\ t \in Tick /\ t.pc = pc
        /\ pc \in {"withdraw", "cleared", "turned", "on", "disarm"} => Keeps(x, t)
        /\ t.auto \in {x.auto, "off"}
        /\ t.approved \in {x.approved, NoHead}
        /\ pc \in {"note", "round", "arm", "claim"} => t.head = x.head
        /\ pc \in {"note", "arm", "claim"} => t.content = x.content
        /\ pc \in {"arm", "claim"} => t.talk = x.talk /\ t.still = x.still
    BY NeededDoes
  <2>3. pc = "stop" => t.approved = NoHead
    BY DEF Needed, NoTick
  <2> HIDE DEF t
  <2>4. w.pc \notin Idle
    BY DEF Watch, Idle
  <2>5. Onward(w, t)
    <3>1. CASE pc \in {"withdraw", "cleared", "turned", "on", "disarm"}
      BY <2>2, <2>4, <3>1 DEF Onward, Keeps
    <3>2. CASE pc \in {"note", "round", "arm", "claim"}
      BY <2>2, <2>4, <3>2 DEF Onward, Watch
    <3>3. CASE pc = "stop"
      BY <2>2, <2>3, <3>3 DEF Onward, Watch, Idle
    <3> QED BY <1>2, <3>1, <3>2, <3>3
  <2> QED BY <2>1, <2>2, <2>5
<1> QED BY <1>1, <1>2

\* The review stays as far as what was read of the pull request goes.
ReadStays ==
  /\ rv'.open = rv.open /\ rv'.head = rv.head /\ rv'.content = rv.content
  /\ rv'.contentHead = rv.contentHead /\ rv'.lineage = rv.lineage /\ (rv'.quiet => rv.quiet)

\* The heads of the pull request stay, and while it is open its discussion does.
TalkStays ==
  /\ changes' = changes /\ pr'.head = pr.head
  /\ pr'.open => pr.open /\ pr'.talk = pr.talk /\ pr'.still = pr.still

LEMMA SameTalk ==
  ASSUME changes' = changes, pr' = pr
  PROVE  TalkStays
BY DEF TalkStays

LEMMA MergeReads ==
  ASSUME MergeWrite(rv, rv')
  PROVE  ReadStays
BY DEF MergeWrite, ReadKept, ReadStays

LEMMA OnwardStep ==
  ASSUME TypeInv, KnownInv, NEW r \in Ticks, TickStep(r) \/ TickFails(r), ~TickObserve(r)
  PROVE  /\ tick[r].pc \notin {"off", "observe"} \/ TickFails(r)
         /\ TickOver(r) \/ ReadStays
         /\ TalkStays
         /\ \E t \in Tick : TickMoves(r, t) /\ Onward(tick[r], t)
                            /\ (t.pc = "merged" => tick[r].pc = "merge")
<1> DEFINE w == tick[r]
<1>0. /\ rv \in Review /\ Apart(rv.merge) /\ w \in Tick /\ w.head \in Epochs
      /\ w.content \in Epochs /\ Snapshot(w) \in Snapshots
  BY Typed DEF Tick, Snapshot, Snapshots
<1> DEFINE On == \E t \in Tick : TickMoves(r, t) /\ Onward(w, t) /\ (t.pc = "merged" => w.pc = "merge")
<1>a. ASSUME TickEnds(r) \/ TickMoves(r, NoTick)
      PROVE  On
  <2>1. PICK t \in Tick : TickMoves(r, t) /\ t.pc = "off" /\ Onward(w, t)
    BY <1>a, EndsOnward
  <2> QED BY <2>1
<1>b. ASSUME NEW pc \in PCs \ Idle, pc # "observe", TickGoes(r, pc),
             w.pc \notin Idle, pc \in Watch => w.pc \in Watch, pc = "merged" => w.pc = "merge"
      PROVE  On
  <2>1. PICK t \in Tick : TickMoves(r, t) /\ t.pc = pc /\ Onward(w, t)
    BY <1>b, GoesOnward
  <2> QED BY <1>b, <2>1
<1> HIDE DEF w, On
<1>1. CASE TickFails(r)
  <2>1. TickMoves(r, NoTick) /\ UNCHANGED <<rv, pr, changes>>
    BY <1>1, FailStep
  <2> QED BY <1>1, <1>a, <2>1, SameTalk DEF ReadStays, On, w
<1>2. CASE TickOver(r)
  <2>1. w.pc = "over" /\ UNCHANGED <<pr, changes>> /\ TickEnds(r)
    BY <1>2, OverStep DEF At, w
  <2> QED BY <1>2, <1>a, <2>1, SameTalk DEF On, w
<1>4. CASE TickAdvance(r)
  <2> DEFINE x == Weighed(w)
  <2>1. w.pc = "advance" /\ x \in Tick /\ UNCHANGED <<rv, pr, changes>>
    BY <1>4, AdvanceStep DEF w, At
  <2>2. PICK pc \in PCs :
          /\ Decides(r, x, pc)
          /\ pc \in {"off", "withdraw", "cleared", "turned", "on", "disarm"} \/ pc = Acts(rv, x)
    BY <1>4, AdvanceStep DEF w
  <2>3. /\ x.head = w.head /\ x.talk = w.talk /\ x.still = w.still /\ x.auto = w.auto
        /\ x.approved = w.approved /\ x.content = w.content
    BY <1>0, WeighedDoes
  <2> HIDE DEF x
  <2>4. pc \in {"off", "withdraw", "cleared", "turned", "on", "disarm", "stop", "round", "note", "arm", "claim"}
    BY <2>2, ActsIn
  <2>5. PICK t \in Tick : TickMoves(r, t) /\ t.pc = pc /\ Onward(w, t)
    BY <1>0, <2>1, <2>2, <2>3, <2>4, DecidesOnward DEF Watch
  <2>6. On
    BY <2>4, <2>5 DEF On
  <2> QED BY <2>1, <2>6, SameTalk DEF ReadStays, On, w
<1>5. CASE TickWithdraw(r)
  <2>1. /\ w.pc = "withdraw" /\ rv' = WithdrawMerge(rv) /\ UNCHANGED <<pr, changes>>
        /\ TickGoes(r, "disable")
    BY <1>5, WithdrawStep DEF w, At
  <2>2. ReadStays
    BY <1>0, <2>1, WithdrawMergeDoes, MergeReads
  <2>3. On
    BY <1>b, <2>1 DEF PCs, Idle, Watch
  <2> QED BY <2>1, <2>2, <2>3, SameTalk DEF On, w
<1>6. CASE TickDisable(r)
  <2>1. w.pc = "disable" /\ pr' = Disabled /\ UNCHANGED <<rv, changes>> /\ TickGoes(r, "cleared")
    BY <1>6, DisableStep DEF w, At
  <2>2. TalkStays
    BY <2>1, DisabledDoes DEF TalkStays
  <2>3. On
    BY <1>b, <2>1 DEF PCs, Idle, Watch
  <2> QED BY <2>1, <2>2, <2>3 DEF ReadStays, On, w
<1>7. CASE TickRecord(r)
  <2>1. w.pc \in {"cleared", "turned", "on", "disarm"} /\ UNCHANGED <<pr, changes>>
    BY <1>7, RecordStep DEF w
  <2>2. PICK pc \in PCs, read \in {rv, FollowWrite(w)} :
          /\ pc = Acts(read, w) /\ Decides(r, w, pc) /\ rv' \in {rv, FollowWrite(w)}
    BY <1>7, RecordStep DEF w
  <2>3. ReadStays
    BY <1>0, <2>2, FollowWriteDoes, MergeReads DEF ReadStays
  <2>4. pc \in {"off", "stop", "round", "note", "arm", "claim"}
    BY <2>2, ActsIn
  <2>5. PICK t \in Tick : TickMoves(r, t) /\ t.pc = pc /\ Onward(w, t)
    BY <1>0, <2>1, <2>2, <2>4, DecidesOnward DEF Watch
  <2>6. On
    BY <2>4, <2>5 DEF On
  <2> QED BY <2>1, <2>3, <2>6, SameTalk DEF On, w
<1>8. CASE TickStop(r)
  <2>1. w.pc = "stop" /\ rv' = Exhaust(rv) /\ UNCHANGED <<pr, changes>> /\ TickEnds(r)
    BY <1>8, StopStep DEF w, At
  <2>2. ReadStays
    BY <1>0, <2>1, ExhaustDoes DEF ReadKept, ReadStays
  <2> QED BY <1>a, <2>1, <2>2, SameTalk DEF On, w
<1>9. CASE TickNote(r)
  <2>1. w.pc = "note" /\ UNCHANGED <<rv, pr, changes>> /\ TickGoes(r, "done")
    BY <1>9, NoteStep DEF w, At
  <2>2. On
    BY <1>b, <2>1 DEF PCs, Idle, Watch
  <2> QED BY <2>1, <2>2, SameTalk DEF ReadStays, On, w
<1>10. CASE TickDone(r)
  <2>1. /\ w.pc \in {"done", "arm"}
        /\ rv' = MarkDone(rv, w.head, w.content) \/ rv' = ArmMerge(rv, Snapshot(w))
        /\ UNCHANGED <<pr, changes>> /\ TickEnds(r)
    BY <1>10, DoneStep DEF w, At
  <2>2. CASE rv' = MarkDone(rv, w.head, w.content)
    <3>1. ReadStays
      BY <1>0, <2>2, MarkDoneDoes DEF ReadKept, ReadStays
    <3> QED BY <1>a, <2>1, <3>1, SameTalk DEF On, w
  <2>3. CASE rv' = ArmMerge(rv, Snapshot(w))
    <3>1. ReadStays
      BY <1>0, <2>3, ArmMergeDoes, MergeReads
    <3> QED BY <1>a, <2>1, <3>1, SameTalk DEF On, w
  <2> QED BY <2>1, <2>2, <2>3
<1>11. CASE TickClaim(r)
  <2> DEFINE new == ClaimMerge(rv, w.head, Snapshot(w))
  <2>1. /\ w.pc = "claim" /\ rv' = new /\ UNCHANGED <<pr, changes>>
        /\ TickEnds(r) \/ TickGoes(r, "merge")
    BY <1>11, ClaimStep DEF w, At
  <2>2. MergeWrite(rv, new)
    BY <1>0, ClaimMergeDoes
  <2> HIDE DEF new
  <2>3. ReadStays
    BY <2>1, <2>2, MergeReads
  <2>4. On
    BY <1>a, <1>b, <2>1 DEF PCs, Idle, Watch
  <2> QED BY <2>1, <2>3, <2>4, SameTalk DEF On, w
<1>12. CASE TickMerge(r)
  <2>1. /\ w.pc = "merge" /\ changes' = changes
        /\ pr' = pr \/ \E pc \in {"merged", "enabled"} : MergeCalled(w, pc)
        /\ TickEnds(r) \/ \E pc \in {"merged", "enabled"} : TickGoes(r, pc)
        /\ rv' \in {rv, MergeWaits(rv, Snapshot(w), "new"), MergeWaits(rv, Snapshot(w), "due")}
    BY <1>12, MergeStep DEF w, At
  <2>2. ReadStays
    <3>1. CASE rv' = rv
      BY <3>1 DEF ReadStays
    <3>2. CASE rv' = MergeWaits(rv, Snapshot(w), "new")
      BY <1>0, <3>2, MergeWaitsDoes, MergeReads
    <3>3. CASE rv' = MergeWaits(rv, Snapshot(w), "due")
      BY <1>0, <3>3, MergeWaitsDoes, MergeReads
    <3> QED BY <2>1, <3>1, <3>2, <3>3
  <2>3. TalkStays
    BY <2>1, ClosedDoes, AutoOnDoes DEF TalkStays, MergeCalled
  <2>4. On
    BY <1>a, <1>b, <2>1 DEF PCs, Idle, Watch
  <2> QED BY <2>1, <2>2, <2>3, <2>4 DEF On, w
<1>13. CASE TickMerged(r)
  <2>1. w.pc \in {"merged", "enabled"} /\ MergeWrite(rv, rv') /\ UNCHANGED <<pr, changes>> /\ TickEnds(r)
    BY <1>13, MergedStep DEF w, At
  <2> QED BY <1>a, <2>1, MergeReads, SameTalk DEF On, w
<1>14. CASE TickRound(r)
  <2>1. /\ w.pc = "round" /\ UNCHANGED <<pr, changes>>
        /\ \/ rv' = rv /\ TickEnds(r)
           \/ RoundBegins(rv, rv', w.items) /\ TickGoes(r, "launch")
    BY <1>14, RoundTaken DEF w, At
  <2>2. ReadStays
    BY <2>1 DEF RoundBegins, RoundWrite, ReadStays
  <2>3. On
    BY <1>a, <1>b, <2>1 DEF PCs, Idle, Watch
  <2> QED BY <2>1, <2>2, <2>3, SameTalk DEF On, w
<1>15. CASE TickLaunch(r) \/ TickRunning(r) \/ TickRan(r)
  <2>1. /\ w.pc \in {"launch", "running"} /\ UNCHANGED <<pr, changes>> /\ RoundStep(rv, rv')
        /\ TickEnds(r) \/ TickGoes(r, "running")
    BY <1>15, SessionStep DEF w, At
  <2>2. ReadStays
    BY <2>1 DEF RoundStep, RoundWrite, ReadStays
  <2>3. On
    BY <1>a, <1>b, <2>1 DEF PCs, Idle, Watch
  <2> QED BY <2>1, <2>2, <2>3, SameTalk DEF On, w
<1> QED BY <1>1, <1>2, <1>4, <1>5, <1>6, <1>7, <1>8, <1>9, <1>10, <1>11, <1>12, <1>13, <1>14,
        <1>15 DEF TickStep

-----------------------------------------------------------------------------
(* What arbetern merges was approved. *)

\* The lineage are heads that have the changes on record.
Lineage ==
  rv.contentHead # NoHead => \A x \in rv.lineage : x \in 1 .. pr.head /\ changes[x] = rv.content
ApproveTick(w) ==
  /\ w.pc = "observe" => (w.fresh <=> w.changes # NoHead /\ w.changes # rv.content)
  /\ w.pc \notin Idle \cup {"observe"} /\ w.approved # NoHead => changes[w.approved] = changes[w.head]
  /\ w.pc = "merged" => ~pr.open /\ pr.head = w.head /\ w.approved # NoHead
Approves ==
  ~past.overlap => /\ Lineage
                   /\ \A r \in Ticks : ApproveTick(tick[r])

LEMMA ApprovesIs ==
  ASSUME NEW r \in Ticks, NEW t, TickMoves(r, t), Lone(r), Lineage', ApproveTick(t)'
  PROVE  Approves'
<1>1. ASSUME NEW q \in Ticks
      PROVE  ApproveTick(tick[q])'
  <2>1. q = r \/ tick'[q].pc = "off"
    BY <1>1 DEF Lone, TickMoves
  <2>2. CASE q = r
    BY <2>2 DEF TickMoves
  <2>3. CASE tick'[q].pc = "off"
    BY <2>3 DEF ApproveTick, Idle
  <2> QED BY <2>1, <2>2, <2>3
<1> QED BY <1>1 DEF Approves

LEMMA LineageStays ==
  ASSUME Lineage, rv'.content = rv.content, rv'.contentHead = rv.contentHead,
         rv'.lineage = rv.lineage, pr.head \in Nat, pr'.head \in Nat, pr'.head >= pr.head,
         \A h \in 1 .. pr.head : changes'[h] = changes[h]
  PROVE  Lineage'
BY DEF Lineage

LEMMA ApproveStart ==
  ASSUME TypeInv, KnownInv, Solo, Approves, NEW r \in Ticks, TickStart(r)
  PROVE  Approves'
<1>1. RoundStep(rv, rv') /\ pr' = pr /\ changes' = changes
  BY StartStep
<1>2. PICK known \in BOOLEAN, t \in Tick :
        /\ TickMoves(r, t)
        /\ pr.open => t = ReadPR(rv', known)
        /\ ~pr.open => t = [NoTick EXCEPT !.pc = "over"]
  BY StartStep
<1>3. CASE past'.overlap
  BY <1>3 DEF Approves
<1>4. CASE ~past'.overlap
  <2>1. ~past.overlap /\ Lone(r)
    BY <1>4, StartsAlone DEF Lone
  <2>2. Lineage'
    BY <1>1, <2>1, HeadBounds, LineageStays DEF Approves, RoundStep, RoundWrite
  <2>3. ApproveTick(t)'
    <3>1. rv' \in Review
      BY <1>1, StepStays
    <3>2. CASE pr.open
      <4>1. t = ReadPR(rv', known)
        BY <1>2, <3>2
      <4>2. t.pc = "observe" /\ (t.fresh <=> t.changes # NoHead /\ t.changes # rv'.content)
        BY <3>1, <4>1, ReadDoes
      <4> HIDE DEF ReadPR
      <4> QED BY <4>2 DEF ApproveTick
    <3>3. CASE ~pr.open
      BY <1>2, <3>3 DEF NoTick, ApproveTick, Idle
    <3> QED BY <3>2, <3>3
  <2> QED BY <1>2, <2>1, <2>2, <2>3, ApprovesIs
<1> QED BY <1>3, <1>4

LEMMA ApproveObserve ==
  ASSUME TypeInv, KnownInv, Solo, Approves, NEW r \in Ticks, TickObserve(r), ~past.overlap
  PROVE  Approves'
<1> DEFINE w == tick[r]
           same == Same(w.head)
           new == Observe(rv, w, same)
<1>1. /\ w.pc = "observe" /\ w \in Tick /\ same \in SUBSET Heads /\ rv' = new
      /\ pr' = pr /\ changes' = changes
  BY ObserveStep DEF At
<1>2. PICK t \in Tick : /\ TickMoves(r, t) /\ t.pc = "advance" /\ Looks(w, t)
                        /\ t.content = IF rv'.contentHead = w.head THEN rv'.content ELSE NoHead
                        /\ t.approved = Approval(rv', w, t.content)
  BY ObserveStep
<1>3. Lone(r)
  BY <1>1, LoneIs
<1>4. /\ rv \in Review /\ Apart(rv.merge) /\ w.head \in Nat /\ w.head \in 1 .. pr.head
      /\ w.approved <= w.head /\ w.approved \in Nat /\ NoHead = 0
  <2>1. w.head \in Epochs /\ w.approved \in Epochs
    BY <1>1 DEF Tick
  <2>2. w.head \in 1 .. pr.head /\ w.approved <= w.head
    BY <1>1 DEF KnownInv, TicksKnown, TickKnown, Idle
  <2> QED BY <2>1, <2>2, Typed, Ranges
<1>5. w.changes # NoHead => w.changes = changes[w.head]
  BY <1>1 DEF KnownInv, TicksKnown, TickKnown
<1>6. Lineage /\ (w.fresh <=> w.changes # NoHead /\ w.changes # rv.content)
  BY <1>1 DEF Approves, ApproveTick
<1>7. \A x \in same : x \in 1 .. pr.head /\ changes[x] = changes[w.head]
  BY <1>4, HeadBounds DEF Same
<1>8. /\ changes[w.head] \in 1 .. pr.head /\ changes[changes[w.head]] = changes[w.head]
  BY <1>4, ChangesBound DEF KnownInv, HeadsKnown
<1> HIDE DEF w, same, new
<1>9. /\ ~rv.open => new = rv
      /\ rv.open => IF Enters(rv, w)
                      THEN new.content = w.changes /\ new.contentHead = w.head /\ new.lineage = NewLineage(rv, w, same)
                      ELSE new.content = rv.content /\ new.contentHead = rv.contentHead /\ new.lineage = rv.lineage
  BY <1>1, <1>4, ObserveDoes DEF new
<1>10. Lineage'
  <2>1. CASE ~rv.open \/ ~Enters(rv, w)
    <3>1. new.content = rv.content /\ new.contentHead = rv.contentHead /\ new.lineage = rv.lineage
      BY <1>9, <2>1
    <3> QED BY <1>1, <1>6, <3>1 DEF Lineage
  <2>2. CASE rv.open /\ Enters(rv, w)
    <3>1. /\ rv'.content = changes[w.head] /\ rv'.lineage = NewLineage(rv, w, same)
          /\ w.changes # NoHead
      BY <1>1, <1>5, <1>9, <2>2 DEF Enters
    <3>2. CASE rv.contentHead = NoHead \/ w.fresh
      BY <1>1, <1>7, <3>1, <3>2 DEF Lineage, NewLineage
    <3>3. CASE rv.contentHead # NoHead /\ ~w.fresh
      <4>1. rv.content = changes[w.head]
        BY <1>5, <1>6, <3>1, <3>3
      <4>2. \A x \in rv.lineage \cup same : x \in 1 .. pr.head /\ changes[x] = changes[w.head]
        BY <1>6, <1>7, <3>3, <4>1 DEF Lineage
      <4> QED BY <1>1, <3>1, <3>3, <4>2 DEF Lineage, NewLineage
    <3> QED BY <3>2, <3>3
  <2> QED BY <2>1, <2>2
<1>11. t.approved # NoHead => changes[t.approved] = changes[w.head]
  <2>1. SUFFICES ASSUME t.approved # NoHead
                 PROVE  changes[t.approved] = changes[w.head]
    OBVIOUS
  <2>2. /\ t.approved = w.approved
        /\ \/ w.approved = w.head
           \/ t.content # NoHead /\ w.approved \in rv'.lineage \cup {t.content}
    BY <1>2, <2>1 DEF Approval
  <2>3. CASE w.approved = w.head
    BY <2>2, <2>3
  <2>4. CASE t.content # NoHead /\ w.approved \in rv'.lineage \cup {t.content}
    <3>1. rv'.contentHead = w.head /\ t.content = rv'.content /\ rv'.contentHead # NoHead
      BY <1>2, <1>4, <2>4
    <3>2. rv'.content = changes[w.head]
      <4>1. KnownInv'
        BY KnownObserve
      <4> QED BY <1>1, <3>1, <4>1 DEF KnownInv, ReviewKnown
    <3>3. CASE w.approved \in rv'.lineage
      BY <1>1, <1>10, <2>2, <3>1, <3>2, <3>3 DEF Lineage
    <3>4. CASE w.approved = t.content
      BY <1>8, <2>2, <3>1, <3>2, <3>4
    <3> QED BY <2>4, <3>3, <3>4
  <2> QED BY <2>2, <2>3, <2>4
<1>12. ApproveTick(t)'
  BY <1>1, <1>2, <1>11 DEF ApproveTick, Looks
<1> QED BY <1>2, <1>3, <1>10, <1>12, ApprovesIs

LEMMA ApproveStep ==
  ASSUME TypeInv, KnownInv, Solo, Approves, NEW r \in Ticks, TickStep(r) \/ TickFails(r), ~past.overlap,
         ~TickObserve(r)
  PROVE  Approves'
<1> DEFINE w == tick[r]
<1>1. /\ w.pc \notin {"off", "observe"} \/ TickFails(r)
      /\ TickOver(r) \/ ReadStays
      /\ changes' = changes /\ pr'.head = pr.head
  BY OnwardStep DEF TalkStays
<1>2. PICK t \in Tick : TickMoves(r, t) /\ Onward(w, t) /\ (t.pc = "merged" => w.pc = "merge")
  BY OnwardStep
<1>3. Lone(r) /\ Lineage /\ ApproveTick(w)
  BY TickFrame, LoneIs DEF Approves
<1>4. Lineage'
  <2>1. CASE TickOver(r)
    BY <2>1, OverStep, OpenedTypes DEF Lineage
  <2>2. CASE ReadStays
    BY <1>1, <1>3, <2>2, HeadBounds, LineageStays DEF ReadStays
  <2> QED BY <1>1, <2>1, <2>2
<1>5. CASE TickFails(r)
  <2>1. TickMoves(r, NoTick)
    BY <1>5, FailStep
  <2>2. ApproveTick(NoTick)'
    BY DEF ApproveTick, NoTick, Idle
  <2> QED BY <1>3, <1>4, <2>1, <2>2, ApprovesIs
<1>6. CASE ~TickFails(r)
  <2>1. ASSUME t.pc \notin Idle, t.approved # NoHead
        PROVE  changes'[t.approved] = changes'[t.head]
    <3>1. w.pc \notin Idle /\ t.approved = w.approved /\ t.head = w.head
      BY <1>2, <2>1 DEF Onward
    <3> QED BY <1>1, <1>3, <1>6, <2>1, <3>1 DEF ApproveTick
  <2>2. ASSUME t.pc = "merged"
        PROVE  ~pr'.open /\ pr'.head = t.head /\ t.approved # NoHead
    <3>1. w.pc = "merge" /\ t.head = w.head
      BY <1>2, <2>2 DEF Onward, Idle
    <3>2. TickMerge(r)
      BY <1>6, <3>1 DEF TickStep, At, TickOver, TickObserve, TickAdvance, TickWithdraw, TickDisable, TickRecord,
         TickStop, TickNote, TickDone, TickClaim, TickMerged, TickRound, TickLaunch, TickRunning, TickRan
    <3>3. \/ TickEnds(r)
          \/ \E pc \in {"merged", "enabled"} : TickGoes(r, pc) /\ MergeCalled(w, pc)
      BY <3>2, MergeStep
    <3>4. PICK pc \in {"merged", "enabled"} : TickGoes(r, pc) /\ MergeCalled(w, pc)
      BY <1>2, <2>2, <3>3, NoneTypes DEF TickEnds, TickMoves
    <3>5. pc = "merged" /\ t.approved = w.approved
      BY <1>2, <2>2, <3>4 DEF TickGoes, TickMoves, Keeps
    <3> QED BY <3>1, <3>4, <3>5, ClosedDoes DEF MergeCalled
  <2>3. ApproveTick(t)'
    BY <1>2, <2>1, <2>2 DEF ApproveTick, Onward
  <2> QED BY <1>2, <1>3, <1>4, <2>3, ApprovesIs
<1> QED BY <1>5, <1>6

LEMMA ApproveNext ==
  ASSUME TypeInv, KnownInv, RoundsInv, Solo, Approves, [Next]_vars
  PROVE  Approves'
<1>1. CASE UNCHANGED vars
  <2>1. rv' = rv /\ pr' = pr /\ changes' = changes /\ tick' = tick /\ past' = past
    BY <1>1 DEF vars
  <2>2. Lineage => Lineage'
    BY <2>1 DEF Lineage
  <2>3. ASSUME NEW r \in Ticks, ApproveTick(tick[r])
        PROVE  ApproveTick(tick[r])'
    BY <2>1, <2>3 DEF ApproveTick
  <2> QED BY <2>1, <2>2, <2>3 DEF Approves
<1>2. ASSUME NEW r \in Ticks, TickStart(r)
      PROVE  Approves'
  BY <1>2, ApproveStart
<1>3. ASSUME NEW r \in Ticks, TickStep(r) \/ TickFails(r)
      PROVE  Approves'
  <2>1. CASE past.overlap
    BY <1>3, <2>1, TickFrame DEF Approves
  <2>2. CASE ~past.overlap
    BY <1>3, <2>2, ApproveStep, ApproveObserve
  <2> QED BY <2>1, <2>2
<1>4. CASE Around
  <2>1. /\ tick' = tick /\ past'.overlap = past.overlap
        /\ rv'.content = rv.content /\ rv'.contentHead = rv.contentHead /\ rv'.lineage = rv.lineage
        /\ pr'.head >= pr.head /\ \A h \in 1 .. pr.head : changes'[h] = changes[h]
        /\ ~pr.open => ~pr'.open /\ pr'.head = pr.head
    BY <1>4, AroundDoes DEF ReviewStays
  <2>2. TypeInv'
    BY TypeStep
  <2>3. pr.head \in Nat /\ pr'.head \in Nat
    <3>1. pr' \in PullRequest
      BY <2>2 DEF TypeInv, TypeOK
    <3> QED BY <3>1, HeadBounds, Ranges DEF PullRequest
  <2>4. Lineage => Lineage'
    BY <2>1, <2>3, LineageStays
  <2>5. ASSUME NEW r \in Ticks, ApproveTick(tick[r])
        PROVE  ApproveTick(tick[r])'
    <3>1. PICK w \in Tick : w = tick[r] /\ w = tick'[r]
      BY <2>1, Typed
    <3>2. /\ w.pc \notin Idle => w.head \in 1 .. pr.head
          /\ w.approved <= w.head /\ w.approved \in Epochs
      BY <3>1, Typed DEF KnownInv, TicksKnown, TickKnown, Tick
    <3>3. ASSUME w.pc \notin Idle, w.approved # NoHead
          PROVE  changes'[w.approved] = changes[w.approved] /\ changes'[w.head] = changes[w.head]
      <4>1. w.head \in 1 .. pr.head /\ w.approved \in Nat /\ w.approved # 0 /\ NoHead = 0
        BY <3>2, <3>3, Ranges
      <4>2. w.approved \in 1 .. pr.head
        BY <2>3, <3>2, <4>1
      <4> QED BY <2>1, <4>1, <4>2
    <3>4. ApproveTick(w)
      BY <2>5, <3>1
    <3>5. ApproveTick(w)'
      BY <2>1, <3>3, <3>4 DEF ApproveTick
    <3> QED BY <3>1, <3>5 DEF ApproveTick
  <2> QED BY <2>1, <2>4, <2>5 DEF Approves
<1> QED BY <1>1, <1>2, <1>3, <1>4, NextSplits

\* What arbetern merges itself was approved by a person: the head, or an earlier one with the
\* same changes (MergedIsApproved).
THEOREM MergedIsApprovedHolds == Spec => []MergedIsApproved
<1>1. Init => Approves
  BY DEF Init, Approves, Lineage, ApproveTick, Opened, NoTick, Idle
<1>2. Apartness /\ Approves /\ [Next]_vars => Approves'
  BY ApproveNext DEF Apartness, Shape
<1>3. Approves => MergedIsApproved
  BY DEF Approves, ApproveTick, MergedIsApproved, At, Idle
<1> QED BY <1>1, <1>2, <1>3, ApartHolds, PTL DEF Spec

-----------------------------------------------------------------------------
(* Auto-merge waits for the quiet. *)

\* The changes and the discussion of a watch, and those of the pull request.
SnapOf(w) == [content |-> changes[w.head], talk |-> w.talk]
PRSnap == [content |-> changes[pr.head], talk |-> pr.talk]

Timed == {"claim", "merge", "enabled", "merged"}

\* A delay that has passed for what the pull request has was a quiet one.
QuietPR ==
  pr.open => /\ rv.merge.armed = "due" /\ rv.merge.snapshot = PRSnap => pr.still
             /\ rv.merge.snapshot.talk \subseteq pr.talk

\* The same for what a tick read.
QuietTick(w) ==
  /\ pr.open => w.talk \subseteq pr.talk /\ (SnapOf(w) = PRSnap => w.still = pr.still)
  /\ rv.merge.armed = "due" /\ rv.merge.snapshot = SnapOf(w) => w.still
  /\ w.pc \in {"arm"} \cup Timed => w.content # NoHead
  /\ w.pc \in Timed => w.still
QuietTwo(q, r) ==
  tick[q].pc \in Watch /\ tick[r].pc \in Watch /\ SnapOf(tick[q]) = SnapOf(tick[r]) =>
    tick[q].still = tick[r].still
QuietKnown ==
  /\ QuietPR
  /\ \A r \in Ticks : tick[r].pc \in Watch => QuietTick(tick[r])
  /\ \A q, r \in Ticks : QuietTwo(q, r)

\* Ticks go on with what they read.
WatchKept ==
  \A q \in Ticks : tick'[q].pc \in Watch =>
    /\ tick[q].pc \in Watch /\ tick'[q].head = tick[q].head /\ tick'[q].talk = tick[q].talk
    /\ tick'[q].still = tick[q].still
    /\ tick'[q].pc \in {"arm"} \cup Timed => tick'[q].content # NoHead
    /\ tick'[q].pc \in Timed => tick'[q].still

\* The pull request has what it had, or what none of those who watch it has seen.
TalkGrows ==
  /\ \A h \in 1 .. pr.head : changes'[h] = changes[h]
  /\ pr'.open => /\ pr.open /\ pr.talk \subseteq pr'.talk
                 /\ \/ PRSnap' = PRSnap /\ pr'.still = pr.still
                    \/ changes'[pr'.head] > pr.head
                    \/ ~(pr'.talk \subseteq pr.talk)

\* The delay is as it was, or not over, or over for a tick that found it quiet.
TimerKept ==
  \/ rv'.merge.armed = rv.merge.armed /\ rv'.merge.snapshot = rv.merge.snapshot
  \/ rv'.merge.armed # "due" /\ rv'.merge.snapshot \in {rv.merge.snapshot, Unarmed}
  \/ /\ rv'.merge.armed # "due"
     /\ \E r \in Ticks : tick[r].pc \in Watch /\ rv'.merge.snapshot = SnapOf(tick[r])
  \/ /\ rv'.merge.snapshot = rv.merge.snapshot
     /\ \E r \in Ticks : tick[r].pc \in Watch /\ tick[r].still /\ rv'.merge.snapshot = SnapOf(tick[r])

LEMMA SnapBounds ==
  ASSUME TypeInv, KnownInv, NEW r \in Ticks, tick[r].pc \in Watch
  PROVE  tick[r].head \in 1 .. pr.head /\ SnapOf(tick[r]).content <= pr.head
<1>1. tick[r].head \in 1 .. pr.head
  BY DEF KnownInv, TicksKnown, TickKnown, Watch, Idle
<1>2. changes[tick[r].head] \in 1 .. pr.head /\ pr.head \in Nat
  BY <1>1, ChangesBound, HeadBounds DEF KnownInv
<1> QED BY <1>1, <1>2 DEF SnapOf

LEMMA QuietKept ==
  ASSUME TypeInv, KnownInv, QuietKnown, WatchKept, TalkGrows, TimerKept
  PROVE  QuietKnown'
<1>1. ASSUME NEW q \in Ticks, tick'[q].pc \in Watch
      PROVE  /\ tick[q].pc \in Watch /\ SnapOf(tick[q])' = SnapOf(tick[q])
             /\ tick'[q].still = tick[q].still /\ tick'[q].talk = tick[q].talk
  <2>1. /\ tick[q].pc \in Watch /\ tick'[q].head = tick[q].head /\ tick'[q].talk = tick[q].talk
        /\ tick'[q].still = tick[q].still
    BY <1>1 DEF WatchKept
  <2>2. changes'[tick[q].head] = changes[tick[q].head]
    BY <2>1, SnapBounds DEF TalkGrows
  <2> QED BY <2>1, <2>2 DEF SnapOf
<1>2. ASSUME NEW s, pr'.open, s.content <= pr.head, s.content \in Nat, s.talk \subseteq pr.talk, s = PRSnap'
      PROVE  PRSnap' = PRSnap /\ pr'.still = pr.still
  <2>1. s.content = changes'[pr'.head] /\ s.talk = pr'.talk
    BY <1>2 DEF PRSnap
  <2>2. pr.head \in Nat
    BY HeadBounds
  <2> QED BY <1>2, <2>1, <2>2 DEF TalkGrows
<1>3. ASSUME NEW q \in Ticks, tick[q].pc \in Watch
      PROVE  /\ SnapOf(tick[q]).content <= pr.head /\ SnapOf(tick[q]).content \in Nat
             /\ QuietTick(tick[q]) /\ SnapOf(tick[q]).talk = tick[q].talk
  <2>1. tick[q].head \in 1 .. pr.head /\ SnapOf(tick[q]).content <= pr.head
    BY <1>3, SnapBounds
  <2>2. changes[tick[q].head] \in 1 .. pr.head
    BY <2>1, ChangesBound DEF KnownInv
  <2> QED BY <1>3, <2>1, <2>2 DEF SnapOf, QuietKnown
<1>4. rv.merge.snapshot.content \in Nat /\ rv.merge.snapshot.content <= pr.head
  <2>1. rv.merge.snapshot.content \in Epochs
    BY Typed DEF Review, MergeState, Snapshots
  <2> QED BY <2>1, Ranges DEF KnownInv, ReviewKnown
<1>5. QuietPR'
  <2>1. SUFFICES ASSUME pr'.open
                 PROVE  /\ rv'.merge.armed = "due" /\ rv'.merge.snapshot = PRSnap' => pr'.still
                        /\ rv'.merge.snapshot.talk \subseteq pr'.talk
    BY DEF QuietPR
  <2>2. pr.open /\ pr.talk \subseteq pr'.talk /\ QuietPR
    BY <2>1 DEF TalkGrows, QuietKnown
  <2>3. rv'.merge.snapshot.talk \subseteq pr'.talk
    <3>1. CASE rv'.merge.snapshot = rv.merge.snapshot
      BY <2>2, <3>1 DEF QuietPR
    <3>2. CASE rv'.merge.snapshot = Unarmed
      BY <3>2 DEF Unarmed
    <3>3. CASE \E q \in Ticks : tick[q].pc \in Watch /\ rv'.merge.snapshot = SnapOf(tick[q])
      BY <1>3, <2>2, <3>3 DEF QuietTick
    <3> QED BY <3>1, <3>2, <3>3 DEF TimerKept
  <2>4. ASSUME rv'.merge.armed = "due", rv'.merge.snapshot = PRSnap'
        PROVE  pr'.still
    <3>1. CASE rv'.merge.armed = rv.merge.armed /\ rv'.merge.snapshot = rv.merge.snapshot
      <4>1. PRSnap' = PRSnap /\ pr'.still = pr.still
        BY <1>2, <1>4, <2>1, <2>2, <2>4, <3>1 DEF QuietPR
      <4> QED BY <2>2, <2>4, <3>1, <4>1 DEF QuietPR
    <3>2. CASE \E q \in Ticks : tick[q].pc \in Watch /\ tick[q].still /\ rv'.merge.snapshot = SnapOf(tick[q])
      <4>1. PICK q \in Ticks : tick[q].pc \in Watch /\ tick[q].still /\ rv'.merge.snapshot = SnapOf(tick[q])
        BY <3>2
      <4>2. tick[q].talk \subseteq pr.talk /\ (SnapOf(tick[q]) = PRSnap => tick[q].still = pr.still)
        BY <1>3, <2>2, <4>1 DEF QuietTick
      <4>3. PRSnap' = PRSnap /\ pr'.still = pr.still
        BY <1>2, <1>3, <2>1, <2>4, <4>1, <4>2
      <4> QED BY <2>4, <4>1, <4>2, <4>3
    <3> QED BY <2>4, <3>1, <3>2 DEF TimerKept
  <2> QED BY <2>3, <2>4
<1>6. ASSUME NEW q \in Ticks, tick'[q].pc \in Watch
      PROVE  QuietTick(tick[q])'
  <2>1. /\ tick[q].pc \in Watch /\ SnapOf(tick[q])' = SnapOf(tick[q])
        /\ tick'[q].still = tick[q].still /\ tick'[q].talk = tick[q].talk
        /\ QuietTick(tick[q])
    BY <1>1, <1>3, <1>6
  <2>2. ASSUME pr'.open
        PROVE  tick'[q].talk \subseteq pr'.talk /\ (SnapOf(tick[q])' = PRSnap' => tick'[q].still = pr'.still)
    <3>1. pr.open /\ pr.talk \subseteq pr'.talk /\ tick[q].talk \subseteq pr.talk
      BY <2>1, <2>2 DEF TalkGrows, QuietTick
    <3>2. ASSUME SnapOf(tick[q]) = PRSnap'
          PROVE  tick'[q].still = pr'.still
      <4>1. PRSnap' = PRSnap /\ pr'.still = pr.still
        BY <1>2, <1>3, <2>1, <2>2, <3>1, <3>2
      <4> QED BY <2>1, <3>1, <3>2, <4>1 DEF QuietTick
    <3> QED BY <2>1, <3>1, <3>2
  <2>3. ASSUME rv'.merge.armed = "due", rv'.merge.snapshot = SnapOf(tick[q])
        PROVE  tick[q].still
    <3>1. CASE rv'.merge.armed = rv.merge.armed /\ rv'.merge.snapshot = rv.merge.snapshot
      BY <2>1, <2>3, <3>1 DEF QuietTick
    <3>2. CASE \E u \in Ticks : tick[u].pc \in Watch /\ tick[u].still /\ rv'.merge.snapshot = SnapOf(tick[u])
      BY <2>1, <2>3, <3>2 DEF QuietKnown, QuietTwo
    <3> QED BY <2>3, <3>1, <3>2 DEF TimerKept
  <2>4. /\ tick'[q].pc \in {"arm"} \cup Timed => tick'[q].content # NoHead
        /\ tick'[q].pc \in Timed => tick'[q].still
    BY <1>6 DEF WatchKept
  <2> QED BY <2>1, <2>2, <2>3, <2>4 DEF QuietTick
<1>7. ASSUME NEW q \in Ticks, NEW u \in Ticks
      PROVE  QuietTwo(q, u)'
  <2>1. QuietTwo(q, u)
    BY DEF QuietKnown
  <2> QED BY <1>1, <2>1 DEF QuietTwo
<1> QED BY <1>5, <1>6, <1>7 DEF QuietKnown

\* What a step of a tick watches, kept for the others.
LEMMA WatchIs ==
  ASSUME QuietKnown, NEW r \in Ticks, NEW t, TickMoves(r, t),
         t.pc \in Watch => /\ tick[r].pc \in Watch /\ t.head = tick[r].head /\ t.talk = tick[r].talk
                           /\ t.still = tick[r].still
                           /\ t.pc \in {"arm"} \cup Timed => t.content # NoHead
                           /\ t.pc \in Timed => t.still
  PROVE  WatchKept
<1>1. ASSUME NEW q \in Ticks, tick'[q].pc \in Watch
      PROVE  /\ tick[q].pc \in Watch /\ tick'[q].head = tick[q].head /\ tick'[q].talk = tick[q].talk
             /\ tick'[q].still = tick[q].still
             /\ tick'[q].pc \in {"arm"} \cup Timed => tick'[q].content # NoHead
             /\ tick'[q].pc \in Timed => tick'[q].still
  <2>1. CASE q = r
    BY <1>1, <2>1 DEF TickMoves
  <2>2. CASE q # r
    BY <1>1, <2>2 DEF TickMoves, QuietKnown, QuietTick
  <2> QED BY <2>1, <2>2
<1> QED BY <1>1 DEF WatchKept

LEMMA TalkKept ==
  ASSUME TalkStays
  PROVE  TalkGrows
<1>1. PRSnap' = [content |-> changes'[pr'.head], talk |-> pr'.talk]
  BY DEF PRSnap
<1> QED BY <1>1 DEF TalkStays, TalkGrows, PRSnap

LEMMA QuietAround ==
  ASSUME TypeInv, KnownInv, RoundsInv, QuietKnown, Around, ~Pass
  PROVE  QuietKnown'
<1>1. tick' = tick /\ \A h \in 1 .. pr.head : changes'[h] = changes[h]
  BY AroundDoes
<1>2. WatchKept
  BY <1>1 DEF WatchKept, QuietKnown, QuietTick
<1>3. CASE \E n \in 1 .. MaxRounds : CheckIn(n) \/ PodEnds(n)
  <2>1. RoundStep(rv, rv') /\ UNCHANGED <<pr, changes>>
    BY <1>3, PodStep
  <2>2. rv'.merge = rv.merge /\ TalkGrows
    BY <2>1, StepStays, SameTalk, TalkKept
  <2> QED BY <1>2, <2>2, QuietKept DEF TimerKept
<1>4. CASE \E g \in Guards : (\E n \in 1 .. MaxRounds : Report(g, n)) \/ OpStep(g) \/ OpFails(g)
  <2>1. rv'.merge = rv.merge /\ TalkGrows
    BY <1>4, ReportStays, SameTalk, TalkKept
  <2> QED BY <1>2, <2>1, QuietKept DEF TimerKept
<1>5. CASE Push \/ MergeBase \/ \E n \in 1 .. MaxRounds : SessionPush(n)
  <2>1. rv' = rv
    BY <1>5, PushStep
  <2>2. PICK epoch \in {pr.head + 1, changes[pr.head]} : HeadAdded(epoch)
    BY <1>5, PushStep
  <2>3. /\ pr.head \in Nat /\ pr.head \in 1 .. pr.head
        /\ changes[pr.head] \in 1 .. pr.head
    BY HeadBounds, ChangesBound DEF KnownInv
  <2>4. PRSnap' = [content |-> changes'[pr'.head], talk |-> pr'.talk]
    BY DEF PRSnap
  <2>5. pr.open /\ pr'.talk = pr.talk /\ changes'[pr'.head] = epoch
    BY <2>2 DEF HeadAdded
  <2>6. ASSUME epoch = pr.head + 1
        PROVE  TalkGrows
    BY <1>1, <2>3, <2>5, <2>6 DEF TalkGrows
  <2>7. ASSUME epoch = changes[pr.head]
        PROVE  TalkGrows
    <3>1. PRSnap' = PRSnap
      BY <2>4, <2>5, <2>7 DEF PRSnap
    <3>2. pr'.still = pr.still
      <4>1. pr.still \in BOOLEAN /\ pr'.still \in BOOLEAN
        BY <2>2, Typed DEF HeadAdded, PullRequest
      <4>2. epoch # pr.head + 1
        BY <2>3, <2>7
      <4> QED BY <2>2, <4>1, <4>2 DEF HeadAdded
    <3> QED BY <1>1, <2>5, <3>1, <3>2 DEF TalkGrows
  <2> QED BY <1>2, <2>1, <2>6, <2>7, QuietKept DEF TimerKept
<1>6. CASE ChecksEnd \/ (\E c \in Comments : Comment(c)) \/ Approve \/ TurnOn \/ TurnOff
             \/ GitHubMerges \/ Close
  <2>1. UNCHANGED <<rv, changes>> /\ pr'.head = pr.head /\ pr.open
    BY <1>6, PeopleStep
  <2>2. \/ pr' = ClosedPR
        \/ pr'.open /\ pr'.talk = pr.talk /\ pr'.still = pr.still
        \/ \E c \in Comments \ pr.talk : pr'.talk = pr.talk \cup {c}
    BY <1>6, PeopleStep
  <2>3. TalkGrows
    <3>1. CASE pr' = ClosedPR
      BY <1>1, <3>1, ClosedDoes DEF TalkGrows
    <3>2. CASE pr'.open /\ pr'.talk = pr.talk /\ pr'.still = pr.still
      BY <2>1, <3>2, TalkKept DEF TalkStays
    <3>3. CASE \E c \in Comments \ pr.talk : pr'.talk = pr.talk \cup {c}
      BY <1>1, <2>1, <3>3 DEF TalkGrows
    <3> QED BY <2>2, <3>1, <3>2, <3>3
  <2> QED BY <1>2, <2>1, <2>3, QuietKept DEF TimerKept
<1> QED BY <1>3, <1>4, <1>5, <1>6 DEF Around

\* Nobody watches while time passes, and what was as it is for that long is still.
LEMMA QuietPass ==
  ASSUME TypeInv, QuietKnown, Pass
  PROVE  QuietKnown'
<1>1. /\ \A r \in Ticks : tick'[r].pc = "off"
      /\ rv' = Older(rv) /\ pr'.open = pr.open /\ pr'.talk = pr.talk /\ pr'.still = pr.open
  BY PassStep DEF NoTick
<1>2. rv'.merge.snapshot = rv.merge.snapshot
  BY <1>1, Typed, OlderDoes
<1>3. QuietPR'
  BY <1>1, <1>2 DEF QuietPR, QuietKnown
<1> QED BY <1>1, <1>3 DEF QuietKnown, QuietTwo, Watch

LEMMA QuietStart ==
  ASSUME TypeInv, KnownInv, QuietKnown, NEW r \in Ticks, TickStart(r)
  PROVE  QuietKnown'
<1>1. RoundStep(rv, rv') /\ pr' = pr /\ changes' = changes
  BY StartStep
<1>2. PICK known \in BOOLEAN, t \in Tick :
        /\ TickMoves(r, t)
        /\ pr.open => t = ReadPR(rv', known)
        /\ ~pr.open => t = [NoTick EXCEPT !.pc = "over"]
  BY StartStep
<1>3. rv'.merge = rv.merge /\ rv' \in Review
  BY <1>1, StepStays
<1>4. CASE ~pr.open
  <2>1. t.pc \notin Watch
    BY <1>2, <1>4 DEF NoTick, Watch
  <2> QED BY <1>1, <1>2, <1>3, <2>1, WatchIs, SameTalk, TalkKept, QuietKept DEF TimerKept
<1>5. CASE pr.open
  <2>1. /\ t.pc = "observe" /\ t.head = pr.head /\ t.talk = pr.talk /\ t.still = pr.still
    <3>1. t = ReadPR(rv', known)
      BY <1>2, <1>5
    <3> QED BY <1>3, <3>1, ReadDoes
  <2>2. SnapOf(t) = PRSnap /\ SnapOf(t)' = PRSnap /\ PRSnap' = PRSnap
    BY <1>1, <2>1 DEF SnapOf, PRSnap
  <2>3. \A q \in Ticks : q # r => tick'[q] = tick[q] /\ SnapOf(tick[q])' = SnapOf(tick[q])
    BY <1>1, <1>2 DEF TickMoves, SnapOf
  <2>4. tick'[r] = t /\ SnapOf(tick[r])' = PRSnap
    BY <1>2, <2>2 DEF TickMoves, SnapOf
  <2>5. QuietPR'
    BY <1>1, <1>3, <2>2 DEF QuietPR, QuietKnown
  <2>6. ASSUME NEW q \in Ticks, tick'[q].pc \in Watch
        PROVE  QuietTick(tick[q])'
    <3>1. CASE q = r
      <4>1. rv.merge.armed = "due" /\ rv.merge.snapshot = PRSnap => pr.still
        BY <1>5 DEF QuietKnown, QuietPR
      <4> QED BY <1>1, <1>3, <2>1, <2>2, <2>4, <3>1, <4>1 DEF QuietTick, Timed
    <3>2. CASE q # r
      <4>1. QuietTick(tick[q]) /\ tick'[q] = tick[q] /\ SnapOf(tick[q])' = SnapOf(tick[q])
        BY <2>3, <2>6, <3>2 DEF QuietKnown
      <4> QED BY <1>1, <1>3, <2>2, <4>1 DEF QuietTick
    <3> QED BY <3>1, <3>2
  <2>7. ASSUME NEW q \in Ticks, NEW u \in Ticks
        PROVE  QuietTwo(q, u)'
    <3>1. ASSUME NEW v \in Ticks, v # r, tick'[v].pc \in Watch, SnapOf(tick[v])' = PRSnap
          PROVE  tick'[v].still = pr.still
      <4>1. QuietTick(tick[v]) /\ tick'[v] = tick[v] /\ SnapOf(tick[v]) = PRSnap
        BY <2>3, <3>1 DEF QuietKnown
      <4> QED BY <1>5, <4>1 DEF QuietTick
    <3>2. CASE q = r /\ u = r
      BY <3>2 DEF QuietTwo
    <3>3. CASE q = r /\ u # r
      BY <2>1, <2>4, <3>1, <3>3 DEF QuietTwo
    <3>4. CASE q # r /\ u = r
      BY <2>1, <2>4, <3>1, <3>4 DEF QuietTwo
    <3>5. CASE q # r /\ u # r
      BY <2>3, <3>5 DEF QuietTwo, QuietKnown
    <3> QED BY <3>2, <3>3, <3>4, <3>5
  <2> QED BY <2>5, <2>6, <2>7 DEF QuietKnown
<1> QED BY <1>4, <1>5

LEMMA QuietObserve ==
  ASSUME TypeInv, KnownInv, QuietKnown, NEW r \in Ticks, TickObserve(r)
  PROVE  QuietKnown'
<1> DEFINE w == tick[r]
           same == Same(w.head)
<1>1. /\ w.pc = "observe" /\ w \in Tick /\ same \in SUBSET Heads /\ rv' = Observe(rv, w, same)
      /\ pr' = pr /\ changes' = changes
  BY ObserveStep DEF At
<1>2. PICK t \in Tick : TickMoves(r, t) /\ t.pc = "advance" /\ Looks(w, t)
  BY ObserveStep
<1> HIDE DEF w, same
<1>3. rv'.merge = rv.merge \/ (rv'.merge.armed = "no" /\ rv'.merge.snapshot = Unarmed)
  BY <1>1, Typed, ObserveDoes
<1>4. WatchKept
  <2>1. w.pc \in Watch /\ t.head = w.head /\ t.talk = w.talk /\ t.still = w.still
        /\ t.pc \notin {"arm"} \cup Timed
    BY <1>1, <1>2 DEF Looks, Watch, Timed
  <2> QED BY <1>2, <2>1, WatchIs DEF w, Timed
<1>5. TalkGrows
  BY <1>1, SameTalk, TalkKept
<1> QED BY <1>3, <1>4, <1>5, QuietKept DEF TimerKept

\* What a step of a tick at w does to the delay, and what it takes to get to pc.
TimerStays(w) ==
  \/ rv'.merge.armed = rv.merge.armed /\ rv'.merge.snapshot = rv.merge.snapshot
  \/ rv'.merge.armed # "due" /\ rv'.merge.snapshot \in {rv.merge.snapshot, Unarmed}
  \/ rv'.merge.armed # "due" /\ rv'.merge.snapshot = Snapshot(w) /\ w.pc = "arm"
  \/ rv'.merge.snapshot = rv.merge.snapshot /\ rv.merge.snapshot = Snapshot(w) /\ w.pc = "merge"
Timely(w, pc) ==
  /\ pc \in {"arm", "claim"} => w.content # NoHead
  /\ pc = "claim" => rv.merge.armed = "due" /\ rv.merge.snapshot = Snapshot(w)
  /\ pc = "merge" => w.pc = "claim"
  /\ pc \in {"enabled", "merged"} => w.pc = "merge"

LEMMA DecidesTo ==
  ASSUME NEW r \in Ticks, NEW x \in Tick, NEW pc \in PCs, Decides(r, x, pc)
  PROVE  tick'[r].pc = pc
<1>1. CASE pc = "off"
  BY <1>1, NoneTypes DEF Decides, TickEnds, TickMoves
<1>2. CASE pc # "off"
  BY <1>2, NeededDoes DEF Decides, TickMoves
<1> QED BY <1>1, <1>2

LEMMA TimerStep ==
  ASSUME TypeInv, NEW r \in Ticks, TickStep(r) \/ TickFails(r), ~TickObserve(r)
  PROVE  TimerStays(tick[r]) /\ Timely(tick[r], tick'[r].pc)
<1> DEFINE w == tick[r]
<1>0. /\ rv \in Review /\ Apart(rv.merge) /\ w \in Tick /\ w.head \in Epochs
      /\ w.content \in Epochs /\ Snapshot(w) \in Snapshots /\ TRUE \in BOOLEAN
  BY Typed DEF Tick, Snapshot, Snapshots
<1>a. ASSUME TickEnds(r) \/ TickMoves(r, NoTick)
      PROVE  Timely(w, tick'[r].pc)
  <2>1. tick'[r].pc = "off"
    BY <1>a, NoneTypes DEF TickEnds, TickMoves
  <2> QED BY <2>1 DEF Timely
<1>b. ASSUME NEW pc, TickGoes(r, pc), Timely(w, pc)
      PROVE  Timely(w, tick'[r].pc)
  BY <1>b DEF TickGoes, TickMoves
<1>c. ASSUME rv'.merge = rv.merge
      PROVE  TimerStays(w)
  BY <1>c DEF TimerStays
<1> HIDE DEF w
<1>1. CASE TickFails(r)
  BY <1>1, <1>a, <1>c, FailStep DEF w
<1>2. CASE TickOver(r)
  <2>1. rv'.merge = NoMerge /\ TickEnds(r)
    BY <1>2, OverStep, OpenedTypes
  <2>2. NoMerge.armed = "no" /\ NoMerge.snapshot = Unarmed
    BY DEF NoMerge
  <2> QED BY <1>a, <2>1, <2>2 DEF TimerStays, w
<1>4. CASE TickAdvance(r)
  <2> DEFINE x == Weighed(w)
  <2>1. x \in Tick /\ UNCHANGED <<rv, pr, changes>>
    BY <1>4, AdvanceStep DEF w, At
  <2>2. PICK pc \in PCs :
          /\ Decides(r, x, pc)
          /\ pc \in {"off", "withdraw", "cleared", "turned", "on", "disarm"} \/ pc = Acts(rv, x)
    BY <1>4, AdvanceStep DEF w
  <2>3. x.talk = w.talk /\ x.content = w.content
    BY <1>0, WeighedDoes
  <2> HIDE DEF x
  <2>4. Snapshot(x) = Snapshot(w)
    BY <2>3 DEF Snapshot
  <2>5. tick'[r].pc = pc
    BY <2>1, <2>2, DecidesTo
  <2>6. Timely(w, pc)
    BY <2>2, <2>3, <2>4, ActsIn, ActsDoes DEF Timely
  <2> QED BY <1>c, <2>1, <2>5, <2>6 DEF w
<1>5. CASE TickWithdraw(r)
  <2>1. rv' = WithdrawMerge(rv) /\ TickGoes(r, "disable")
    BY <1>5, WithdrawStep
  <2>2. TimerStays(w)
    BY <1>0, <2>1, WithdrawMergeDoes DEF TimerStays
  <2> QED BY <1>b, <2>1, <2>2 DEF Timely, w
<1>6. CASE TickDisable(r)
  <2>1. rv' = rv /\ TickGoes(r, "cleared")
    BY <1>6, DisableStep
  <2> QED BY <1>b, <1>c, <2>1 DEF Timely, w
<1>7. CASE TickRecord(r)
  <2>1. PICK pc \in PCs, read \in {rv, FollowWrite(w)} :
          /\ pc = Acts(read, w) /\ Decides(r, w, pc) /\ rv' \in {rv, FollowWrite(w)}
    BY <1>7, RecordStep DEF w
  <2>2. \A n \in {rv, FollowWrite(w)} :
          n.merge = rv.merge \/ (n.merge.armed = "no" /\ n.merge.snapshot \in {Unarmed, rv.merge.snapshot})
    BY <1>0, FollowWriteDoes
  <2>3. TimerStays(w)
    BY <2>1, <2>2 DEF TimerStays
  <2>4. tick'[r].pc = pc
    BY <1>0, <2>1, DecidesTo
  <2>5. pc = "claim" => rv.merge.armed = "due" /\ rv.merge.snapshot = Snapshot(w)
    BY <2>1, <2>2, ActsDoes
  <2>6. Timely(w, pc)
    BY <2>1, <2>5, ActsIn, ActsDoes DEF Timely
  <2> QED BY <2>3, <2>4, <2>6 DEF w
<1>8. CASE TickStop(r)
  BY <1>0, <1>8, <1>a, <1>c, StopStep, ExhaustDoes DEF w
<1>9. CASE TickNote(r)
  <2>1. rv' = rv /\ TickGoes(r, "done")
    <3>1. UNCHANGED rv /\ Then(r, "done")
      BY <1>9 DEF TickNote
    <3> QED BY <3>1, ThenMoves DEF PCs
  <2> QED BY <1>b, <1>c, <2>1 DEF Timely, w
<1>10. CASE TickDone(r)
  <2>1. /\ \/ rv' = MarkDone(rv, w.head, w.content)
           \/ w.pc = "arm" /\ rv' = ArmMerge(rv, Snapshot(w))
        /\ TickEnds(r)
    BY <1>10, DoneStep DEF w, At
  <2>2. CASE rv' = MarkDone(rv, w.head, w.content)
    BY <1>0, <1>a, <1>c, <2>1, <2>2, MarkDoneDoes DEF w
  <2>3. CASE w.pc = "arm" /\ rv' = ArmMerge(rv, Snapshot(w))
    <3>1. TimerStays(w)
      BY <1>0, <2>3, ArmMergeDoes DEF TimerStays
    <3> QED BY <1>a, <2>1, <3>1 DEF w
  <2> QED BY <2>1, <2>2, <2>3
<1>11. CASE TickClaim(r)
  <2> DEFINE new == ClaimMerge(rv, w.head, Snapshot(w))
  <2>1. w.pc = "claim" /\ rv' = new /\ (TickEnds(r) \/ TickGoes(r, "merge"))
    BY <1>11, ClaimStep DEF w, At
  <2>2. new = rv \/ (new.merge.armed = "no" /\ new.merge.snapshot = rv.merge.snapshot)
    BY <1>0, ClaimMergeDoes
  <2> HIDE DEF new
  <2>3. TimerStays(w)
    BY <2>1, <2>2 DEF TimerStays
  <2>4. Timely(w, "merge")
    BY <2>1 DEF Timely
  <2> QED BY <1>a, <1>b, <2>1, <2>3, <2>4 DEF w
<1>12. CASE TickMerge(r)
  <2>1. /\ w.pc = "merge"
        /\ TickEnds(r) \/ \E pc \in {"merged", "enabled"} : TickGoes(r, pc)
        /\ rv' \in {rv, MergeWaits(rv, Snapshot(w), "new"), MergeWaits(rv, Snapshot(w), "due")}
    BY <1>12, MergeStep DEF w, At
  <2>2. TimerStays(w)
    <3>1. ASSUME NEW since \in {"new", "due"}, rv' = MergeWaits(rv, Snapshot(w), since)
          PROVE  TimerStays(w)
      <4>1. /\ rv'.merge.snapshot = rv.merge.snapshot
            /\ rv'.merge.armed = rv.merge.armed \/ rv.merge.snapshot = Snapshot(w)
        BY <1>0, <3>1, MergeWaitsDoes
      <4> QED BY <2>1, <4>1 DEF TimerStays
    <3> QED BY <1>c, <2>1, <3>1
  <2>3. Timely(w, "merged") /\ Timely(w, "enabled")
    BY <2>1 DEF Timely
  <2> QED BY <1>a, <1>b, <2>1, <2>2, <2>3 DEF w
<1>13. CASE TickMerged(r)
  <2>1. /\ rv' = MergedByArbetern(rv) \/ rv' = MergeOn(rv, w.content, w.head, TRUE)
        /\ TickEnds(r)
    BY <1>13, MergedStep DEF w
  <2>2. TimerStays(w)
    <3>1. CASE rv' = MergedByArbetern(rv)
      BY <1>0, <3>1, MergedDoes DEF TimerStays
    <3>2. CASE rv' = MergeOn(rv, w.content, w.head, TRUE)
      BY <1>0, <3>2, MergeOnDoes DEF TimerStays
    <3> QED BY <2>1, <3>1, <3>2
  <2> QED BY <1>a, <2>1, <2>2 DEF w
<1>14. CASE TickRound(r)
  <2>1. \/ rv' = rv /\ TickEnds(r)
        \/ RoundBegins(rv, rv', w.items) /\ TickGoes(r, "launch")
    BY <1>14, RoundTaken DEF w
  <2>2. TimerStays(w)
    BY <2>1 DEF RoundBegins, TimerStays
  <2>3. Timely(w, "launch")
    BY DEF Timely
  <2> QED BY <1>a, <1>b, <2>1, <2>2, <2>3 DEF w
<1>15. CASE TickLaunch(r) \/ TickRunning(r) \/ TickRan(r)
  <2>1. RoundStep(rv, rv') /\ (TickEnds(r) \/ TickGoes(r, "running"))
    BY <1>15, SessionStep
  <2>2. Timely(w, "running")
    BY DEF Timely
  <2> QED BY <1>a, <1>b, <1>c, <2>1, <2>2 DEF RoundStep, w
<1> QED BY <1>1, <1>2, <1>4, <1>5, <1>6, <1>7, <1>8, <1>9, <1>10, <1>11, <1>12, <1>13, <1>14,
        <1>15 DEF TickStep

LEMMA QuietTicks ==
  ASSUME TypeInv, KnownInv, QuietKnown, NEW r \in Ticks, TickStep(r) \/ TickFails(r), ~TickObserve(r)
  PROVE  QuietKnown'
<1> DEFINE w == tick[r]
<1>1. TalkStays /\ TimerStays(w) /\ Timely(w, tick'[r].pc)
  BY OnwardStep, TimerStep
<1>2. PICK t \in Tick : TickMoves(r, t) /\ Onward(w, t)
  BY OnwardStep
<1>3. Timely(w, t.pc)
  BY <1>1, <1>2 DEF TickMoves
<1>4. w.pc \in Watch => QuietTick(w)
  BY DEF QuietKnown
<1>5. w.content # NoHead => Snapshot(w) = SnapOf(w)
  BY DEF KnownInv, TicksKnown, TickKnown, Snapshot, SnapOf
<1> HIDE DEF w
<1>6. ASSUME t.pc \in Watch
      PROVE  /\ w.pc \in Watch /\ t.head = w.head /\ t.talk = w.talk /\ t.still = w.still
             /\ t.pc \in {"arm"} \cup Timed => t.content # NoHead
             /\ t.pc \in Timed => t.still
  <2>1. /\ w.pc \in Watch /\ t.head = w.head /\ t.talk = w.talk /\ t.still = w.still
        /\ t.content = w.content /\ QuietTick(w)
    BY <1>2, <1>4, <1>6 DEF Onward, Watch, Idle
  <2>2. CASE t.pc \in {"arm", "claim"}
    BY <1>3, <1>5, <2>1, <2>2 DEF Timely, QuietTick, Timed
  <2>3. CASE t.pc \in {"merge", "enabled", "merged"}
    BY <1>3, <2>1, <2>3 DEF Timely, QuietTick, Timed
  <2> QED BY <2>1, <2>2, <2>3 DEF Timed
<1>7. WatchKept
  BY <1>2, <1>6, WatchIs DEF w
<1>8. TimerKept
  <2>1. CASE w.pc = "arm" /\ rv'.merge.armed # "due" /\ rv'.merge.snapshot = Snapshot(w)
    <3>1. w.pc \in Watch /\ Snapshot(w) = SnapOf(w)
      BY <1>4, <1>5, <2>1 DEF QuietTick, Watch
    <3> QED BY <2>1, <3>1 DEF TimerKept, w
  <2>2. CASE w.pc = "merge" /\ rv'.merge.snapshot = rv.merge.snapshot /\ rv.merge.snapshot = Snapshot(w)
    <3>1. w.pc \in Watch /\ w.still /\ Snapshot(w) = SnapOf(w)
      BY <1>4, <1>5, <2>2 DEF QuietTick, Watch, Timed
    <3> QED BY <2>2, <3>1 DEF TimerKept, w
  <2> QED BY <1>1, <2>1, <2>2 DEF TimerStays, TimerKept
<1> QED BY <1>1, <1>7, <1>8, TalkKept, QuietKept

LEMMA QuietNext ==
  ASSUME TypeInv, KnownInv, RoundsInv, QuietKnown, [Next]_vars
  PROVE  QuietKnown'
<1>1. CASE UNCHANGED vars
  <2>1. rv' = rv /\ pr' = pr /\ changes' = changes /\ tick' = tick
    BY <1>1 DEF vars
  <2>2. WatchKept
    BY <2>1 DEF WatchKept, QuietKnown, QuietTick
  <2> QED BY <2>1, <2>2, SameTalk, TalkKept, QuietKept DEF TimerKept
<1> QED BY <1>1, NextSplits, QuietStart, QuietTicks, QuietObserve, QuietAround, QuietPass

\* Auto-merge goes on, and arbetern merges, only when neither the changes nor the discussion
\* moved for the delay before the tick's fresh read (DelayWasQuiet).
THEOREM DelayWasQuietHolds == Spec => []DelayWasQuiet
<1>1. Init => QuietKnown
  BY DEF Init, QuietKnown, QuietPR, QuietTwo, Opened, NoMerge, Unarmed, OpenedPR, NoTick, Watch
<1>2. Apartness /\ QuietKnown /\ [Next]_vars => QuietKnown'
  BY QuietNext DEF Apartness, Shape
<1>3. QuietKnown => DelayWasQuiet
  BY DEF QuietKnown, QuietTick, DelayWasQuiet, Watch, Timed
<1> QED BY <1>1, <1>2, <1>3, ApartHolds, PTL DEF Spec

-----------------------------------------------------------------------------
(* What a person turned off stays off. *)

\* What a tick does that turns auto-merge on or records it, or turns off its own.
Own == {"withdraw", "disable", "cleared", "on"} \cup Timed

DeclinedTick(w) == w.pc \notin Own /\ (w.pc \in Watch => w.auto = "off")
DeclinedHeld == rv.open => (rv.merge.on \/ rv.merge.held) /\ ~rv.merge.withdrawing

\* While what a person turned off was not turned on again, the ledger has it as on or as held.
DeclinedKnown ==
  past.declined =>
    /\ pr.auto = "off"
    /\ pr.open => /\ pr.by = "person" /\ DeclinedHeld
                  /\ \A r \in Ticks : DeclinedTick(tick[r])

\* What the ledger has of auto-merge being on stays.
HeldStays ==
  rv'.open => /\ rv.open /\ rv'.merge.on = rv.merge.on /\ rv'.merge.held = rv.merge.held
              /\ rv'.merge.withdrawing = rv.merge.withdrawing

LEMMA HeldKept ==
  ASSUME DeclinedHeld, HeldStays
  PROVE  DeclinedHeld'
BY DEF DeclinedHeld, HeldStays

LEMMA MergeOpens ==
  ASSUME NEW v, NEW n, MergeWrite(v, n)
  PROVE  n.open = v.open
BY DEF MergeWrite, ReadKept

LEMMA HeldIs ==
  ASSUME rv'.open = rv.open, rv'.merge = rv.merge
  PROVE  HeldStays
BY DEF HeldStays

\* Over a closed pull request a tick only takes notes.
LEMMA ClosedStays ==
  ASSUME TypeInv, KnownInv, ~pr.open, NEW r \in Ticks, TickStep(r) \/ TickFails(r)
  PROVE  pr' = pr \/ pr' = Disabled
<1>1. CASE TickFails(r)
  BY <1>1, FailStep
<1>2. CASE TickMerge(r)
  BY <1>2, MergeStep DEF MergeCalled
<1>3. CASE TickDisable(r)
  BY <1>3 DEF TickDisable
<1>4. CASE TickOver(r) \/ TickObserve(r) \/ TickAdvance(r) \/ TickWithdraw(r) \/ TickRecord(r)
           \/ TickStop(r) \/ TickNote(r) \/ TickDone(r)
  BY <1>4 DEF TickOver, TickObserve, TickAdvance, TickWithdraw, TickRecord, TickStop, TickNote, TickDone
<1>5. CASE TickClaim(r) \/ TickMerged(r) \/ TickRound(r) \/ TickLaunch(r) \/ TickRunning(r) \/ TickRan(r)
  BY <1>5 DEF TickClaim, TickMerged, TickRound, TickLaunch, TickRunning, TickRan
<1> QED BY <1>1, <1>2, <1>3, <1>4, <1>5 DEF TickStep

\* Held, a tick gets nowhere near an auto-merge of its own.
LEMMA DeclineActs ==
  ASSUME NEW n, NEW w, n.open => n.merge.on \/ n.merge.held
  PROVE  Acts(n, w) \in {"off", "stop", "round", "note"}
<1>1. Acts(n, w) # "off" => n.open
  BY ActsDoes
<1>2. Acts(n, w) \in {"arm", "claim"} => MayMerge(n.merge)
  BY ActsDoes
<1> QED BY <1>1, <1>2, ActsIn DEF MayMerge

LEMMA DeclineStep ==
  ASSUME TypeInv, KnownInv, DeclinedKnown, past.declined, pr.open, NEW r \in Ticks,
         TickStep(r) \/ TickFails(r), ~TickObserve(r)
  PROVE  pr' = pr /\ DeclinedHeld' /\ tick'[r].pc \notin Own
<1> DEFINE w == tick[r]
<1>0. /\ rv \in Review /\ Apart(rv.merge) /\ w \in Tick /\ w.head \in Epochs
      /\ w.content \in Epochs /\ Snapshot(w) \in Snapshots
  BY Typed DEF Tick, Snapshot, Snapshots
<1>00. DeclinedHeld /\ w.pc \notin Own /\ (w.pc \in Watch => w.auto = "off") /\ pr.by = "person"
  BY DEF DeclinedKnown, DeclinedTick
<1>a. ASSUME TickEnds(r) \/ TickMoves(r, NoTick)
      PROVE  tick'[r].pc \notin Own
  <2>1. tick'[r].pc = "off"
    BY <1>a, NoneTypes DEF TickEnds, TickMoves
  <2> QED BY <2>1 DEF Own, Timed
<1>b. ASSUME NEW pc, TickGoes(r, pc), pc \notin Own
      PROVE  tick'[r].pc \notin Own
  BY <1>b DEF TickGoes, TickMoves
<1>c. ASSUME NEW x \in Tick, NEW pc \in PCs, Decides(r, x, pc), pc \notin Own
      PROVE  tick'[r].pc \notin Own
  BY <1>c, DecidesTo
<1>d. \A pc \in {"off", "stop", "round", "note", "turned", "disarm", "done", "launch", "running"} : pc \notin Own
  BY DEF Own, Timed
<1> HIDE DEF w
<1>1. CASE TickFails(r)
  BY <1>00, <1>1, <1>a, FailStep, HeldIs, HeldKept
<1>2. CASE TickOver(r)
  <2>1. pr' = pr /\ rv'.open = FALSE /\ TickEnds(r)
    BY <1>2, OverStep, OpenedTypes
  <2> QED BY <1>a, <2>1 DEF DeclinedHeld
<1>4. CASE TickAdvance(r)
  <2> DEFINE x == Weighed(w)
  <2>1. x \in Tick /\ UNCHANGED <<rv, pr, changes>> /\ w.pc = "advance"
    BY <1>4, AdvanceStep DEF w, At
  <2>2. PICK pc \in PCs :
          /\ Decides(r, x, pc)
          /\ pc # "off" => rv.open /\ pc = Follows(x)
    BY <1>4, AdvanceStep DEF w
  <2>3. x.auto = "off"
    <3>1. x.auto = w.auto
      BY <1>0, WeighedDoes
    <3> QED BY <1>00, <2>1, <3>1 DEF Watch
  <2> HIDE DEF x
  <2>4. ASSUME pc # "off"
        PROVE  pc \in {"stop", "round", "note", "turned", "disarm"}
    <3>1. (rv.merge.on \/ rv.merge.held) /\ ~rv.merge.withdrawing /\ pc = Follows(x)
      BY <1>00, <2>2, <2>4 DEF DeclinedHeld
    <3>2. pc \notin {"withdraw", "cleared", "on"}
      BY <2>3, <3>1, FollowsDoes
    <3>3. pc \in {"turned", "disarm"} \/ pc = Acts(rv, x)
      BY <3>1, <3>2, FollowsIn
    <3> QED BY <2>4, <3>1, <3>3, DeclineActs
  <2>5. tick'[r].pc \notin Own
    BY <1>c, <1>d, <2>1, <2>2, <2>4
  <2> QED BY <1>00, <2>1, <2>5, HeldIs, HeldKept
<1>5. CASE TickWithdraw(r) \/ TickDisable(r) \/ TickClaim(r) \/ TickMerge(r) \/ TickMerged(r)
  <2>1. w.pc \in Own
    BY <1>5 DEF TickWithdraw, TickDisable, TickClaim, TickMerge, TickMerged, At, Own, Timed, w
  <2> QED BY <1>00, <2>1
<1>7. CASE TickRecord(r)
  <2>1. w.pc \in {"turned", "disarm"} /\ pr' = pr
    BY <1>00, <1>7, RecordStep DEF w, Own
  <2>2. PICK pc \in PCs, read \in {rv, FollowWrite(w)} :
          /\ pc = Acts(read, w) /\ Decides(r, w, pc) /\ rv' \in {rv, FollowWrite(w)}
    BY <1>7, RecordStep DEF w
  <2>3. LET n == FollowWrite(w) IN
        n.open = rv.open /\ (rv.open => (n.merge.on \/ n.merge.held) /\ ~n.merge.withdrawing)
    <3>1. CASE w.pc = "turned"
      <4>1. FollowWrite(w) = MergeOff(rv, TRUE)
        BY <1>00, <3>1 DEF FollowWrite
      <4>2. TRUE \in BOOLEAN
        OBVIOUS
      <4>3. /\ MergeWrite(rv, MergeOff(rv, TRUE))
            /\ rv.open => /\ MergeOff(rv, TRUE).merge.withdrawing = FALSE
                          /\ MergeOff(rv, TRUE).merge.held = (rv.merge.held \/ TRUE)
        BY <1>0, <4>2, MergeOffDoes
      <4> QED BY <4>1, <4>3, MergeOpens
    <3>2. CASE w.pc = "disarm"
      <4>1. FollowWrite(w) = DisarmMerge(rv)
        BY <3>2 DEF FollowWrite
      <4>2. /\ MergeWrite(rv, DisarmMerge(rv))
            /\ DisarmMerge(rv).merge.held = rv.merge.held /\ DisarmMerge(rv).merge.on = rv.merge.on
            /\ DisarmMerge(rv).merge.withdrawing = rv.merge.withdrawing
        BY <1>0, DisarmMergeDoes
      <4> QED BY <1>00, <4>1, <4>2, MergeOpens DEF DeclinedHeld
    <3> QED BY <2>1, <3>1, <3>2
  <2>4. DeclinedHeld'
    BY <1>00, <2>2, <2>3 DEF DeclinedHeld
  <2>5. read.open => read.merge.on \/ read.merge.held
    BY <1>00, <2>2, <2>3 DEF DeclinedHeld
  <2>6. pc \in {"off", "stop", "round", "note"}
    BY <2>2, <2>5, DeclineActs
  <2> QED BY <1>0, <1>c, <1>d, <2>1, <2>2, <2>4, <2>6
<1>8. CASE TickStop(r)
  <2>1. pr' = pr /\ rv' = Exhaust(rv) /\ TickEnds(r)
    BY <1>8, StopStep
  <2>2. HeldStays
    BY <1>0, <2>1, ExhaustDoes, HeldIs DEF ReadKept
  <2> QED BY <1>00, <1>a, <2>1, <2>2, HeldKept
<1>9. CASE TickNote(r)
  <2>1. UNCHANGED <<rv, pr>> /\ TickGoes(r, "done")
    BY <1>9, NoteStep
  <2> QED BY <1>00, <1>b, <1>d, <2>1, HeldIs, HeldKept
<1>10. CASE TickDone(r)
  <2>1. /\ rv' = MarkDone(rv, w.head, w.content) \/ rv' = ArmMerge(rv, Snapshot(w))
        /\ TickEnds(r) /\ pr' = pr
    BY <1>10, DoneStep DEF w, At
  <2>2. CASE rv' = MarkDone(rv, w.head, w.content)
    <3>1. HeldStays
      BY <1>0, <2>2, MarkDoneDoes, HeldIs DEF ReadKept
    <3> QED BY <1>00, <1>a, <2>1, <3>1, HeldKept
  <2>3. CASE rv' = ArmMerge(rv, Snapshot(w))
    <3>1. HeldStays
      BY <1>0, <2>3, ArmMergeDoes, MergeOpens DEF HeldStays
    <3> QED BY <1>00, <1>a, <2>1, <3>1, HeldKept
  <2> QED BY <2>1, <2>2, <2>3
<1>14. CASE TickRound(r)
  <2>1. /\ pr' = pr
        /\ \/ rv' = rv /\ TickEnds(r)
           \/ RoundBegins(rv, rv', w.items) /\ TickGoes(r, "launch")
    BY <1>14, RoundTaken DEF w
  <2>2. HeldStays
    BY <2>1 DEF RoundBegins, RoundWrite, HeldStays
  <2> QED BY <1>00, <1>a, <1>b, <1>d, <2>1, <2>2, HeldKept
<1>15. CASE TickLaunch(r) \/ TickRunning(r) \/ TickRan(r)
  <2>1. pr' = pr /\ RoundStep(rv, rv') /\ (TickEnds(r) \/ TickGoes(r, "running"))
    BY <1>15, SessionStep
  <2>2. HeldStays
    BY <2>1 DEF RoundStep, RoundWrite, HeldStays
  <2> QED BY <1>00, <1>a, <1>b, <1>d, <2>1, <2>2, HeldKept
<1> QED BY <1>1, <1>2, <1>4, <1>5, <1>7, <1>8, <1>9, <1>10, <1>14, <1>15 DEF TickStep

LEMMA DeclineIs ==
  ASSUME DeclinedKnown, past.declined, NEW r \in Ticks, NEW t, TickMoves(r, t),
         pr' = pr, pr.open => DeclinedHeld' /\ DeclinedTick(t)
  PROVE  DeclinedKnown'
<1>1. ASSUME pr.open, NEW q \in Ticks
      PROVE  DeclinedTick(tick'[q])
  BY <1>1 DEF TickMoves, DeclinedKnown
<1>2. ASSUME pr.open, NEW q \in Ticks
      PROVE  DeclinedTick(tick[q])'
  BY <1>1, <1>2 DEF DeclinedTick
<1> QED BY <1>2 DEF DeclinedKnown

LEMMA DeclineTicks ==
  ASSUME TypeInv, KnownInv, DeclinedKnown, NEW r \in Ticks, TickStep(r) \/ TickFails(r)
  PROVE  DeclinedKnown'
<1>1. past'.declined = past.declined
  BY TickFrame
<1>2. CASE ~past.declined
  BY <1>1, <1>2 DEF DeclinedKnown
<1>3. CASE past.declined /\ TickObserve(r)
  <2> DEFINE w == tick[r]
             same == Same(w.head)
  <2>1. /\ w.pc = "observe" /\ w \in Tick /\ same \in SUBSET Heads /\ rv' = Observe(rv, w, same)
        /\ pr' = pr
    BY <1>3, ObserveStep DEF At
  <2>2. PICK t \in Tick : TickMoves(r, t) /\ t.pc = "advance" /\ Looks(w, t)
    BY <1>3, ObserveStep
  <2> HIDE DEF same
  <2>3. HeldStays
    BY <2>1, Typed, ObserveDoes DEF HeldStays
  <2>4. ASSUME pr.open
        PROVE  DeclinedHeld' /\ DeclinedTick(t)
    <3>1. DeclinedHeld /\ w.auto = "off"
      BY <1>3, <2>1, <2>4 DEF DeclinedKnown, DeclinedTick, Watch
    <3> QED BY <2>2, <2>3, <3>1, HeldKept DEF DeclinedTick, Looks, Own, Timed
  <2> QED BY <1>3, <2>1, <2>2, <2>4, DeclineIs
<1>4. CASE past.declined /\ ~TickObserve(r) /\ ~pr.open
  <2>1. pr' = pr \/ pr' = Disabled
    BY <1>4, ClosedStays
  <2>2. pr'.open = pr.open /\ pr'.auto = "off"
    BY <1>4, <2>1, DisabledDoes DEF DeclinedKnown
  <2> QED BY <1>4, <2>2 DEF DeclinedKnown
<1>5. CASE past.declined /\ ~TickObserve(r) /\ pr.open
  <2>1. pr' = pr /\ DeclinedHeld' /\ tick'[r].pc \notin Own
    BY <1>5, DeclineStep
  <2>2. PICK t \in Tick : TickMoves(r, t) /\ Onward(tick[r], t)
    BY <1>5, OnwardStep
  <2>3. DeclinedTick(t)
    <3>1. t.pc \notin Own
      BY <2>1, <2>2 DEF TickMoves
    <3>2. tick[r].pc \in Watch => tick[r].auto = "off"
      BY <1>5 DEF DeclinedKnown, DeclinedTick
    <3> QED BY <2>2, <3>1, <3>2 DEF DeclinedTick, Onward
  <2> QED BY <1>5, <2>1, <2>2, <2>3, DeclineIs
<1> QED BY <1>2, <1>3, <1>4, <1>5

LEMMA DeclineStart ==
  ASSUME TypeInv, KnownInv, DeclinedKnown, NEW r \in Ticks, TickStart(r)
  PROVE  DeclinedKnown'
<1>1. RoundStep(rv, rv') /\ pr' = pr /\ past'.declined = past.declined
  BY StartStep DEF Books
<1>2. PICK known \in BOOLEAN, t \in Tick :
        /\ TickMoves(r, t)
        /\ pr.open => t = ReadPR(rv', known)
  BY StartStep
<1>3. CASE ~past.declined
  BY <1>1, <1>3 DEF DeclinedKnown
<1>4. CASE past.declined
  <2>1. ASSUME pr.open
        PROVE  DeclinedHeld' /\ DeclinedTick(t)
    <3>1. HeldStays
      BY <1>1 DEF RoundStep, RoundWrite, HeldStays
    <3>2. t.pc = "observe" /\ t.auto = pr.auto
      <4>1. rv' \in Review
        BY <1>1, StepStays
      <4> QED BY <1>2, <2>1, <4>1, ReadDoes
    <3> QED BY <1>4, <2>1, <3>1, <3>2, HeldKept DEF DeclinedKnown, DeclinedTick, Own, Timed
  <2> QED BY <1>1, <1>2, <1>4, <2>1, DeclineIs
<1> QED BY <1>3, <1>4

LEMMA DeclineAround ==
  ASSUME TypeInv, KnownInv, RoundsInv, DeclinedKnown, Around
  PROVE  DeclinedKnown'
<1>1. tick' = tick /\ HeldStays
  BY AroundDoes DEF ReviewStays, HeldStays
<1>a. ASSUME pr'.auto = pr.auto, pr'.by = pr.by, pr'.open = pr.open, past'.declined = past.declined
      PROVE  DeclinedKnown'
  <2>1. DeclinedHeld => DeclinedHeld'
    BY <1>1, HeldKept
  <2>2. \A r \in Ticks : DeclinedTick(tick[r]) => DeclinedTick(tick[r])'
    BY <1>1 DEF DeclinedTick
  <2> QED BY <1>a, <2>1, <2>2 DEF DeclinedKnown
<1>2. CASE \E n \in 1 .. MaxRounds : CheckIn(n) \/ PodEnds(n)
  BY <1>2, <1>a, PodStep
<1>3. CASE \E g \in Guards : (\E n \in 1 .. MaxRounds : Report(g, n)) \/ OpStep(g) \/ OpFails(g)
  BY <1>3, <1>a, ReportStays
<1>4. CASE Push \/ MergeBase \/ \E n \in 1 .. MaxRounds : SessionPush(n)
  <2>1. UNCHANGED past /\ (HeadAdded(pr.head + 1) \/ HeadAdded(changes[pr.head]))
    BY <1>4, PushStep
  <2>2. /\ pr'.auto = pr.auto /\ pr'.by = pr.by /\ pr.open /\ pr'.open
        /\ pr \in PullRequest /\ pr' \in PullRequest
    BY <2>1, Typed DEF HeadAdded
  <2>3. pr'.open = pr.open
    BY <2>2 DEF PullRequest
  <2> QED BY <1>a, <2>1, <2>2, <2>3
<1>5. CASE ChecksEnd \/ (\E c \in Comments : Comment(c)) \/ Approve \/ TurnOn \/ TurnOff
             \/ GitHubMerges \/ Close
  <2>1. /\ rv' = rv /\ pr.open
        /\ \/ pr' = ClosedPR /\ past' = past
           \/ pr'.open /\ past' = past /\ pr'.auto = pr.auto /\ pr'.by = pr.by
           \/ /\ pr'.open
              /\ \/ ~past'.declined
                 \/ /\ pr'.auto = "off" /\ pr'.by = "person"
                    /\ past'.declined => /\ rv.merge.on /\ ~rv.merge.withdrawing
                                         /\ \A r \in Ticks : At(r, "off")
    BY <1>5, PeopleStep
  <2>2. CASE pr' = ClosedPR /\ past' = past
    BY <2>2, ClosedDoes DEF DeclinedKnown
  <2>3. CASE pr'.open /\ past' = past /\ pr'.auto = pr.auto /\ pr'.by = pr.by
    <3>1. pr'.open = pr.open
      <4>1. pr.open \in BOOLEAN /\ pr'.open \in BOOLEAN
        <5>1. pr' \in PullRequest
          BY <1>5, PeopleStep
        <5> QED BY <5>1, Typed DEF PullRequest
      <4> QED BY <2>1, <2>3, <4>1
    <3> QED BY <1>a, <2>3, <3>1
  <2>4. CASE ~past'.declined
    BY <2>4 DEF DeclinedKnown
  <2>5. CASE /\ past'.declined /\ pr'.auto = "off" /\ pr'.by = "person"
             /\ rv.merge.on /\ ~rv.merge.withdrawing
             /\ \A r \in Ticks : At(r, "off")
    <3>1. DeclinedHeld'
      BY <2>1, <2>5 DEF DeclinedHeld
    <3>2. \A r \in Ticks : tick'[r].pc = "off"
      BY <1>1, <2>5 DEF At
    <3>3. \A r \in Ticks : DeclinedTick(tick[r])'
      BY <3>2 DEF DeclinedTick, Own, Timed, Watch
    <3> QED BY <2>5, <3>1, <3>3 DEF DeclinedKnown
  <2> QED BY <2>1, <2>2, <2>3, <2>4, <2>5
<1>6. CASE Pass
  BY <1>6, <1>a, PassStep
<1> QED BY <1>2, <1>3, <1>4, <1>5, <1>6 DEF Around

LEMMA DeclineNext ==
  ASSUME TypeInv, KnownInv, RoundsInv, DeclinedKnown, [Next]_vars
  PROVE  DeclinedKnown'
<1>1. CASE UNCHANGED vars
  BY <1>1 DEF vars, DeclinedKnown, DeclinedHeld, DeclinedTick
<1> QED BY <1>1, NextSplits, DeclineStart, DeclineTicks, DeclineAround

\* Once a person turned auto-merge off by hand, arbetern leaves it off until a person turns it
\* on again (DeclineIsKept).
THEOREM DeclineIsKeptHolds == Spec => []DeclineIsKept
<1>1. Init => DeclinedKnown
  BY DEF Init, DeclinedKnown
<1>2. Apartness /\ DeclinedKnown /\ [Next]_vars => DeclinedKnown'
  BY DeclineNext DEF Apartness, Shape
<1>3. DeclinedKnown => DeclineIsKept
  BY DEF DeclinedKnown, DeclineIsKept
<1> QED BY <1>1, <1>2, <1>3, ApartHolds, PTL DEF Spec

-----------------------------------------------------------------------------
(* The same changes are announced once. *)

Follow == {"withdraw", "disable", "cleared", "turned", "on", "disarm"}

\* The changes announced as done are those of the head they were announced at.
DoneIs == rv.doneHead = NoHead \/ rv.doneContent = changes[rv.doneHead]

\* What was announced is on record, or about to be.
NotedIs(c) ==
  rv.open => \/ rv.doneHead # NoHead /\ c <= rv.doneContent
             \/ \E r \in Ticks : tick[r].pc = "done" /\ c = changes[tick[r].head]

\* A tick is at least at the head announced last, and knows the changes it announces.
NoteTick(w) ==
  /\ w.pc # "off" => rv.open
  /\ w.pc \notin Idle => rv.doneHead <= w.head
  /\ w.pc = "observe" => /\ rv.quiet => rv.head = w.seen
                         /\ rv.contentHead = w.head \/ w.changes = changes[w.head]
  /\ w.pc \in {"advance"} \cup Follow /\ rv.quiet => w.content # NoHead
  /\ w.pc \in Follow \cup {"note", "done"} => ~HasActive(rv) /\ rv.head = w.head
  /\ w.pc \in {"note", "done"} => w.content # NoHead /\ rv.doneHead # w.head
NotesKnown ==
  /\ ~past.renoted
  /\ faults = 0 => /\ ~past.overlap /\ DoneIs
                   /\ \A c \in past.noted : NotedIs(c)
                   /\ \A r \in Ticks : NoteTick(tick[r])

\* Tick w may get to pc.
Noting(w, pc) ==
  /\ pc \notin {"advance", "observe"}
  /\ pc \in Follow => w.pc \in {"advance"} \cup Follow
  /\ pc \in Follow \cup {"note", "done"} => ~HasActive(rv') /\ rv.head = w.head
  /\ pc \in {"note", "done"} => w.content # NoHead /\ rv.doneHead # w.head

LEMMA WorkActive ==
  ASSUME NEW v, NEW n, WorkKept(v, n)
  PROVE  HasActive(n) <=> HasActive(v)
BY DEF WorkKept, HasActive, ActiveRound

LEMMA ActsNotes ==
  ASSUME NEW n, NEW w, n.doneHead = rv.doneHead, n.quiet = rv.quiet, rv.quiet => w.content # NoHead,
         NEW pc, pc = Acts(n, w), ~HasActive(rv'), rv.head = w.head
  PROVE  Noting(w, pc)
<1>1. pc \in {"off", "stop", "round", "note", "arm", "claim"}
  BY ActsIn
<1>2. pc = "note" => ReadyFor(n, w)
  BY ActsDoes
<1>3. pc = "note" => w.content # NoHead /\ rv.doneHead # w.head
  BY <1>2 DEF ReadyFor
<1> QED BY <1>1, <1>3 DEF Noting, Follow

LEMMA NoteTurns ==
  ASSUME TypeInv, KnownInv, NEW r \in Ticks, TickStep(r), NoteTick(tick[r]),
         ~(TickOver(r) \/ TickObserve(r) \/ TickNote(r) \/ TickDone(r))
  PROVE  Books(FALSE) /\ DoneKept(rv, rv') /\ tick[r].pc # "done" /\ Noting(tick[r], tick'[r].pc)
<1> DEFINE w == tick[r]
<1>0. /\ rv \in Review /\ Apart(rv.merge) /\ w \in Tick /\ w.head \in Epochs
      /\ w.content \in Epochs /\ Snapshot(w) \in Snapshots
  BY Typed DEF Tick, Snapshot, Snapshots
<1>a. ASSUME TickEnds(r)
      PROVE  Noting(w, tick'[r].pc)
  <2>1. tick'[r].pc = "off"
    BY <1>a, NoneTypes DEF TickEnds, TickMoves
  <2> QED BY <2>1 DEF Noting, Follow
<1>b. ASSUME NEW pc, TickGoes(r, pc), Noting(w, pc)
      PROVE  Noting(w, tick'[r].pc)
  BY <1>b DEF TickGoes, TickMoves
<1>c. ASSUME NEW pc, pc \in {"off", "launch", "running", "merge", "enabled", "merged"}
      PROVE  Noting(w, pc)
  BY <1>c DEF Noting, Follow
<1>d. ASSUME MergeWrite(rv, rv')
      PROVE  DoneKept(rv, rv') /\ (HasActive(rv') => HasActive(rv))
  BY <1>d, WorkActive DEF MergeWrite
<1>e. ASSUME w.pc \in Follow
      PROVE  ~HasActive(rv) /\ rv.head = w.head /\ (rv.quiet => w.content # NoHead)
  BY <1>e DEF NoteTick
<1>f. ASSUME rv' = rv
      PROVE  DoneKept(rv, rv')
  BY <1>f DEF DoneKept
<1> HIDE DEF w
<1>4. CASE TickAdvance(r)
  <2> DEFINE x == Weighed(w)
  <2>1. /\ x \in Tick /\ rv' = rv /\ w.pc = "advance" /\ Books(FALSE)
        /\ x.head = w.head /\ x.content = w.content
    BY <1>0, <1>4, AdvanceStep, WeighedDoes DEF w, At
  <2>2. PICK pc \in PCs :
          /\ Decides(r, x, pc)
          /\ pc # "off" => rv.open /\ ~HasActive(rv) /\ rv.head = w.head /\ pc = Follows(x)
    BY <1>4, AdvanceStep DEF w
  <2> HIDE DEF x
  <2>3. CASE pc = "off"
    BY <1>f, <2>1, <2>2, <2>3, DecidesTo DEF Noting, Follow, w
  <2>4. CASE pc # "off"
    <3>1. ~HasActive(rv') /\ rv.head = w.head /\ pc = Follows(x)
      BY <2>1, <2>2, <2>4
    <3>2. CASE pc \in Follow
      BY <1>f, <2>1, <2>2, <3>1, <3>2, DecidesTo DEF Noting, Follow, w
    <3>3. CASE pc \notin Follow
      <4>1. pc = Acts(rv, x)
        BY <3>1, <3>3, FollowsIn DEF Follow
      <4>2. rv.quiet => w.content # NoHead
        BY <2>1 DEF NoteTick, w
      <4>3. Noting(x, pc)
        BY <2>1, <3>1, <4>1, <4>2, ActsNotes
      <4>4. Noting(w, pc)
        BY <2>1, <3>3, <4>3 DEF Noting
      <4> QED BY <1>f, <2>1, <2>2, <4>4, DecidesTo DEF w
    <3> QED BY <3>2, <3>3
  <2> QED BY <2>3, <2>4
<1>5. CASE TickWithdraw(r)
  <2>1. w.pc = "withdraw" /\ rv' = WithdrawMerge(rv) /\ Books(FALSE) /\ TickGoes(r, "disable")
    BY <1>5, WithdrawStep DEF w, At
  <2>2. MergeWrite(rv, rv')
    BY <1>0, <2>1, WithdrawMergeDoes
  <2>3. Noting(w, "disable")
    BY <1>d, <1>e, <2>1, <2>2 DEF Noting, Follow
  <2> QED BY <1>b, <1>d, <2>1, <2>2, <2>3 DEF w
<1>6. CASE TickDisable(r)
  <2>1. w.pc = "disable" /\ rv' = rv /\ Books(FALSE) /\ TickGoes(r, "cleared")
    BY <1>6, DisableStep DEF w, At
  <2>2. Noting(w, "cleared")
    BY <1>e, <2>1 DEF Noting, Follow
  <2> QED BY <1>b, <1>f, <2>1, <2>2 DEF w
<1>7. CASE TickRecord(r)
  <2>1. w.pc \in Follow /\ w.pc # "done" /\ Books(FALSE)
    BY <1>7, RecordStep DEF w, Follow
  <2>2. PICK pc \in PCs, read \in {rv, FollowWrite(w)} :
          /\ pc = Acts(read, w) /\ Decides(r, w, pc) /\ rv' \in {rv, FollowWrite(w)}
    BY <1>7, RecordStep DEF w
  <2>3. \A n \in {rv, FollowWrite(w)} : MergeWrite(rv, n)
    BY <1>0, FollowWriteDoes, MergeSame
  <2>4. read.doneHead = rv.doneHead /\ read.quiet = rv.quiet
    BY <2>2, <2>3 DEF MergeWrite, DoneKept
  <2>5. ~HasActive(rv') /\ rv.head = w.head /\ (rv.quiet => w.content # NoHead) /\ DoneKept(rv, rv')
    BY <1>d, <1>e, <2>1, <2>2, <2>3
  <2>6. Noting(w, pc)
    BY <2>2, <2>4, <2>5, ActsNotes
  <2> QED BY <1>0, <2>1, <2>2, <2>5, <2>6, DecidesTo DEF w
<1>8. CASE TickStop(r)
  <2>1. w.pc = "stop" /\ rv' = Exhaust(rv) /\ Books(FALSE) /\ TickEnds(r)
    BY <1>8, StopStep DEF w, At
  <2> QED BY <1>0, <1>a, <2>1, ExhaustDoes DEF w
<1>11. CASE TickClaim(r)
  <2>1. /\ w.pc = "claim" /\ rv' = ClaimMerge(rv, w.head, Snapshot(w)) /\ Books(FALSE)
        /\ TickEnds(r) \/ TickGoes(r, "merge")
    BY <1>11, ClaimStep DEF w, At
  <2>2. MergeWrite(rv, rv')
    BY <1>0, <2>1, ClaimMergeDoes
  <2>3. Noting(w, "merge")
    BY <1>c
  <2> QED BY <1>a, <1>b, <1>d, <2>1, <2>2, <2>3 DEF w
<1>12. CASE TickMerge(r)
  <2>1. /\ w.pc = "merge" /\ Books(FALSE)
        /\ TickEnds(r) \/ \E pc \in {"merged", "enabled"} : TickGoes(r, pc)
        /\ rv' \in {rv, MergeWaits(rv, Snapshot(w), "new"), MergeWaits(rv, Snapshot(w), "due")}
    BY <1>12, MergeStep DEF w, At
  <2>2. MergeWrite(rv, rv')
    BY <1>0, <2>1, MergeWaitsDoes, MergeSame
  <2>3. Noting(w, "merged") /\ Noting(w, "enabled")
    BY <1>c
  <2> QED BY <1>a, <1>b, <1>d, <2>1, <2>2, <2>3 DEF w
<1>13. CASE TickMerged(r)
  <2>1. w.pc \in {"merged", "enabled"} /\ MergeWrite(rv, rv') /\ Books(FALSE) /\ TickEnds(r)
    BY <1>13, MergedStep DEF w, At
  <2> QED BY <1>a, <1>d, <2>1 DEF w
<1>14. CASE TickRound(r)
  <2>1. /\ w.pc = "round" /\ Books(FALSE)
        /\ \/ rv' = rv /\ TickEnds(r)
           \/ RoundBegins(rv, rv', w.items) /\ TickGoes(r, "launch")
    BY <1>14, RoundTaken DEF w, At
  <2>2. DoneKept(rv, rv')
    BY <1>f, <2>1 DEF RoundBegins, RoundWrite
  <2>3. Noting(w, "launch")
    BY <1>c
  <2> QED BY <1>a, <1>b, <2>1, <2>2, <2>3 DEF w
<1>15. CASE TickLaunch(r) \/ TickRunning(r) \/ TickRan(r)
  <2>1. /\ w.pc \in {"launch", "running"} /\ RoundStep(rv, rv') /\ Books(FALSE)
        /\ TickEnds(r) \/ TickGoes(r, "running")
    BY <1>15, SessionStep DEF w, At
  <2>2. Noting(w, "running")
    BY <1>c
  <2> QED BY <1>a, <1>b, <2>1, <2>2 DEF RoundStep, RoundWrite, w
<1> QED BY <1>4, <1>5, <1>6, <1>7, <1>8, <1>11, <1>12, <1>13, <1>14, <1>15 DEF TickStep

\* What was announced last is of a head of the pull request.
LEMMA DoneHeadIs ==
  ASSUME TypeInv, KnownInv, rv.doneHead # NoHead
  PROVE  /\ rv.doneHead \in 1 .. pr.head
         /\ changes[rv.doneHead] \in Nat /\ changes[rv.doneHead] # NoHead
<1>1. rv.doneHead \in Epochs /\ rv.doneHead <= pr.head
  BY Typed DEF Review, KnownInv, ReviewKnown
<1>2. rv.doneHead \in Nat /\ rv.doneHead >= 1 /\ pr.head \in Nat
  <2>1. rv.doneHead \in Heads
    BY <1>1, Ranges
  <2> QED BY <2>1, Ranges, HeadBounds
<1>3. rv.doneHead \in 1 .. pr.head
  BY <1>1, <1>2
<1>4. changes[rv.doneHead] \in 1 .. pr.head
  BY <1>3, ChangesBound DEF KnownInv
<1> QED BY <1>3, <1>4, Ranges

\* A step that leaves on record what was announced, or announces nothing.
LEMMA NotesTurn ==
  ASSUME TypeInv, NotesKnown, faults = 0, past' = past, changes' = changes,
         NEW r \in Ticks, NEW t, TickMoves(r, t), Lone(r), tick[r].pc # "done",
         DoneKept(rv, rv'), rv'.open = rv.open, NoteTick(t)'
  PROVE  NotesKnown'
<1>1. ~past.renoted /\ ~past.overlap /\ DoneIs /\ \A c \in past.noted : NotedIs(c)
  BY DEF NotesKnown
<1>2. DoneIs'
  BY <1>1 DEF DoneIs, DoneKept
<1>3. ASSUME NEW c \in past.noted
      PROVE  NotedIs(c)'
  <2>1. \A q \in Ticks : tick[q].pc # "done"
    BY DEF Lone
  <2> QED BY <1>1, <2>1 DEF NotedIs, DoneKept
<1>4. ASSUME NEW q \in Ticks
      PROVE  NoteTick(tick[q])'
  <2>1. CASE q = r
    BY <2>1 DEF TickMoves
  <2>2. CASE q # r
    <3>1. tick'[q].pc = "off"
      BY <2>2 DEF TickMoves, Lone
    <3> QED BY <3>1 DEF NoteTick, Follow, Idle
  <2> QED BY <2>1, <2>2
<1> QED BY <1>1, <1>2, <1>3, <1>4 DEF NotesKnown

LEMMA NotesStart ==
  ASSUME TypeInv, KnownInv, Solo, NotesKnown, NEW r \in Ticks, TickStart(r)
  PROVE  NotesKnown'
<1>1. RoundStep(rv, rv') /\ Books(lease # NoOne) /\ (lease # NoOne => faults' # 0)
      /\ rv.open /\ UNCHANGED <<pr, changes>>
  BY StartStep
<1>2. PICK known \in BOOLEAN, t \in Tick :
        /\ known \/ faults' # 0
        /\ TickMoves(r, t)
        /\ pr.open => t = ReadPR(rv', known)
        /\ ~pr.open => t = [NoTick EXCEPT !.pc = "over"]
  BY StartStep
<1>3. CASE faults' # 0
  BY <1>1, <1>3 DEF NotesKnown, Books
<1>4. CASE faults' = 0
  <2>1. faults = 0 /\ past' = past /\ lease = NoOne /\ known
    BY <1>1, <1>2, <1>4 DEF Books
  <2>2. Lone(r) /\ tick[r].pc # "done"
    <3>1. \A q \in Ticks : tick[q].pc = "off"
      BY <2>1, Numbers DEF Solo, NotesKnown
    <3> QED BY <3>1 DEF Lone
  <2>3. DoneKept(rv, rv') /\ rv'.open = rv.open /\ rv' \in Review
    BY <1>1 DEF RoundStep, RoundWrite
  <2>4. NoteTick(t)'
    <3>1. CASE pr.open
      <4>1. t = ReadPR(rv', known)
        BY <1>2, <3>1
      <4>2. /\ t.pc = "observe" /\ t.head = pr.head /\ t.seen = rv'.head
            /\ t.changes = IF known /\ rv'.contentHead # pr.head THEN changes[pr.head] ELSE NoHead
        BY <2>3, <4>1, ReadDoes
      <4>3. rv'.doneHead <= pr.head
        BY <2>3 DEF DoneKept, KnownInv, ReviewKnown
      <4> QED BY <1>1, <2>1, <2>3, <4>2, <4>3 DEF NoteTick, Follow
    <3>2. CASE ~pr.open
      <4>1. t.pc = "over"
        BY <1>2, <3>2 DEF NoTick
      <4> QED BY <1>1, <2>3, <4>1 DEF NoteTick, Follow, Idle
    <3> QED BY <3>1, <3>2
  <2> QED BY <1>1, <1>2, <2>1, <2>2, <2>3, <2>4, NotesTurn
<1> QED BY <1>3, <1>4

LEMMA NotesOver ==
  ASSUME TypeInv, NotesKnown, NEW r \in Ticks, faults = 0, Lone(r), TickOver(r)
  PROVE  NotesKnown'
<1>1. rv'.open = FALSE /\ rv'.doneHead = NoHead /\ past' = past /\ TickEnds(r)
  BY OverStep, OpenedTypes DEF Fine
<1>2. \A q \in Ticks : tick'[q].pc = "off"
  BY <1>1, NoneTypes DEF TickEnds, TickMoves, Lone
<1>3. \A q \in Ticks : NoteTick(tick[q])'
  BY <1>2 DEF NoteTick, Follow, Idle
<1>4. DoneIs' /\ \A c \in past.noted : NotedIs(c)'
  BY <1>1 DEF DoneIs, NotedIs
<1> QED BY <1>1, <1>3, <1>4 DEF NotesKnown

LEMMA NotesObserve ==
  ASSUME TypeInv, KnownInv, NotesKnown, NEW r \in Ticks, faults = 0, Lone(r), TickObserve(r)
  PROVE  NotesKnown'
<1> DEFINE w == tick[r]
           same == Same(w.head)
           new == Observe(rv, w, same)
<1>1. /\ w.pc = "observe" /\ w \in Tick /\ same \in SUBSET Heads /\ rv' = new
      /\ past' = past /\ pr' = pr /\ changes' = changes
  BY ObserveStep DEF At, Fine
<1>2. PICK t \in Tick : /\ TickMoves(r, t) /\ t.pc = "advance" /\ Looks(w, t)
                        /\ t.content = IF rv'.contentHead = w.head THEN rv'.content ELSE NoHead
  BY ObserveStep
<1>3. /\ rv.open /\ rv.doneHead <= w.head /\ (rv.quiet => rv.head = w.seen)
      /\ rv.contentHead = w.head \/ w.changes = changes[w.head]
      /\ DoneIs /\ \A c \in past.noted : NotedIs(c)
  BY <1>1 DEF NotesKnown, NoteTick, Idle
<1>4. /\ rv \in Review /\ Apart(rv.merge) /\ w.head \in 1 .. pr.head /\ w.head # NoHead
      /\ changes[w.head] # NoHead
  <2>1. w.head \in 1 .. pr.head
    BY <1>1 DEF KnownInv, TicksKnown, TickKnown, Idle
  <2>2. changes[w.head] \in 1 .. w.head /\ w.head \in Nat
    BY <2>1, ChangesBound DEF KnownInv
  <2> QED BY <2>1, <2>2, Typed, Ranges
<1> HIDE DEF w, same, new
<1>5. /\ WorkKept(rv, new) /\ new.open = rv.open /\ new.doneHead = rv.doneHead
      /\ new.head = HeadSeen(rv, w) /\ (new.quiet => rv.quiet /\ ~Moves(rv, w))
      /\ IF Enters(rv, w) THEN new.content = w.changes /\ new.contentHead = w.head
                          ELSE new.content = rv.content /\ new.contentHead = rv.contentHead
      /\ new.doneContent = rv.doneContent \/ rv.doneContent = NoHead
  BY <1>1, <1>3, <1>4, ObserveDoes DEF new
<1>6. ASSUME new.quiet
      PROVE  t.content # NoHead
  <2>1. rv.head = w.head
    BY <1>3, <1>5, <1>6 DEF Moves
  <2>2. HeadSeen(rv, w) = w.head
    BY <2>1 DEF HeadSeen
  <2>3. CASE rv.contentHead = w.head
    <3>1. new.content = rv.content /\ new.contentHead = w.head
      BY <1>5, <2>3 DEF Enters
    <3>2. rv.content = changes[w.head]
      BY <1>4, <2>3 DEF KnownInv, ReviewKnown
    <3> QED BY <1>1, <1>2, <1>4, <3>1, <3>2
  <2>4. CASE rv.contentHead # w.head
    <3>1. w.changes = changes[w.head] /\ Enters(rv, w)
      BY <1>3, <1>4, <2>2, <2>4 DEF Enters
    <3> QED BY <1>1, <1>2, <1>4, <1>5, <3>1
  <2> QED BY <2>3, <2>4
<1>7. rv.doneHead # NoHead => rv.doneContent # NoHead
  <2>1. SUFFICES ASSUME rv.doneHead # NoHead
                 PROVE  rv.doneContent # NoHead
    OBVIOUS
  <2> QED BY <1>3, <2>1, DoneHeadIs, Ranges DEF DoneIs
<1>8. DoneIs'
  BY <1>1, <1>3, <1>5, <1>7 DEF DoneIs
<1>9. ASSUME NEW c \in past.noted
      PROVE  NotedIs(c)'
  <2>1. \A q \in Ticks : tick[q].pc # "done"
    BY <1>1 DEF Lone, w
  <2>2. rv.doneHead # NoHead /\ c <= rv.doneContent
    BY <1>3, <2>1 DEF NotedIs
  <2> QED BY <1>1, <1>5, <1>7, <2>2 DEF NotedIs
<1>10. NoteTick(t)'
  <2>1. t.head = w.head /\ t.pc = "advance"
    BY <1>2 DEF Looks
  <2> QED BY <1>1, <1>3, <1>5, <1>6, <2>1 DEF NoteTick, Follow
<1>11. ASSUME NEW q \in Ticks
       PROVE  NoteTick(tick[q])'
  <2>1. CASE q = r
    BY <1>2, <1>10, <2>1 DEF TickMoves
  <2>2. CASE q # r
    <3>1. tick'[q].pc = "off"
      BY <1>2, <2>2 DEF TickMoves, Lone
    <3> QED BY <3>1 DEF NoteTick, Follow, Idle
  <2> QED BY <2>1, <2>2
<1> QED BY <1>1, <1>8, <1>9, <1>11 DEF NotesKnown

\* A note is of changes later than those announced.
LEMMA NoteIsNew ==
  ASSUME TypeInv, KnownInv, NotesKnown, NEW r \in Ticks, faults = 0, Lone(r), tick[r].pc = "note",
         ~Repeated(tick[r])
  PROVE  changes[tick[r].head] \notin past.noted
<1> DEFINE w == tick[r]
           c == changes[w.head]
<1>1. /\ rv.open /\ rv.doneHead <= w.head /\ w.content # NoHead /\ DoneIs
      /\ \A d \in past.noted : NotedIs(d)
  BY DEF NotesKnown, NoteTick, Idle
<1>2. w.head \in 1 .. pr.head /\ w.content = c
  BY <1>1 DEF KnownInv, TicksKnown, TickKnown, Idle
<1>3. SUFFICES ASSUME c \in past.noted
               PROVE  FALSE
  OBVIOUS
<1>4. \A q \in Ticks : tick[q].pc # "done"
  BY DEF Lone
<1>5. rv.doneHead # NoHead /\ c <= rv.doneContent
  BY <1>1, <1>3, <1>4 DEF NotedIs
<1>6. /\ rv.doneHead \in 1 .. pr.head /\ rv.doneContent = changes[rv.doneHead]
      /\ rv.doneContent \in Nat /\ rv.doneContent # NoHead
  BY <1>1, <1>5, DoneHeadIs DEF DoneIs
<1>7. changes[rv.doneHead] <= c
  BY <1>1, <1>2, <1>6 DEF KnownInv, HeadsKnown
<1>8. c \in Nat
  <2>1. c \in 1 .. pr.head
    BY <1>2, ChangesBound DEF KnownInv
  <2> QED BY <2>1
<1>9. rv.doneContent = w.content
  BY <1>2, <1>5, <1>6, <1>7, <1>8
<1> QED BY <1>1, <1>5, <1>6, <1>9 DEF Repeated

LEMMA NotesNote ==
  ASSUME TypeInv, KnownInv, NotesKnown, NEW r \in Ticks, TickNote(r), faults = 0, Lone(r)
  PROVE  NotesKnown'
<1> DEFINE w == tick[r]
           c == changes[w.head]
<1>1. /\ w.pc = "note" /\ TickGoes(r, "done") /\ UNCHANGED <<rv, pr, changes>>
      /\ past'.overlap = past.overlap
      /\ \/ past' = past
         \/ /\ ~Repeated(w) /\ past'.noted = past.noted \cup {c}
            /\ past'.renoted = (past.renoted \/ c \in past.noted)
  BY NoteStep DEF At
<1>2. PICK t \in Tick : TickMoves(r, t) /\ t.pc = "done" /\ Keeps(w, t)
  BY <1>1 DEF TickGoes
<1>3. ~past.renoted /\ ~past.overlap /\ DoneIs /\ (\A d \in past.noted : NotedIs(d)) /\ NoteTick(w)
  BY DEF NotesKnown
<1>4. ~Repeated(w) => c \notin past.noted
  BY <1>1, NoteIsNew
<1> HIDE DEF w
<1>5. ~past'.renoted /\ past'.noted \subseteq past.noted \cup {c}
  BY <1>1, <1>3, <1>4
<1>6. tick'[r] = t /\ t.head = w.head /\ t.content = w.content
  BY <1>2 DEF TickMoves, Keeps
<1>7. ASSUME NEW d \in past'.noted
      PROVE  NotedIs(d)'
  <2>1. CASE d = c
    <3>1. tick'[r].pc = "done" /\ d = changes'[tick'[r].head]
      BY <1>1, <1>2, <1>6, <2>1
    <3> QED BY <3>1 DEF NotedIs
  <2>2. CASE d \in past.noted
    <3>1. \A q \in Ticks : tick[q].pc # "done"
      BY <1>1 DEF Lone, w
    <3> QED BY <1>1, <1>3, <2>2, <3>1 DEF NotedIs
  <2> QED BY <1>5, <2>1, <2>2
<1>8. NoteTick(t)'
  BY <1>1, <1>2, <1>3, <1>6 DEF NoteTick, Follow, Idle
<1>9. ASSUME NEW q \in Ticks
      PROVE  NoteTick(tick[q])'
  <2>1. CASE q = r
    BY <1>6, <1>8, <2>1
  <2>2. CASE q # r
    <3>1. tick'[q].pc = "off"
      BY <1>2, <2>2 DEF TickMoves, Lone
    <3> QED BY <3>1 DEF NoteTick, Follow, Idle
  <2> QED BY <2>1, <2>2
<1>10. DoneIs'
  BY <1>1, <1>3 DEF DoneIs
<1> QED BY <1>1, <1>3, <1>5, <1>7, <1>9, <1>10 DEF NotesKnown

(* The record of the announcement, or the start of the delay. *)
LEMMA NotesDone ==
  ASSUME TypeInv, KnownInv, NotesKnown, NEW r \in Ticks, TickDone(r), faults = 0, Lone(r)
  PROVE  NotesKnown'
<1> DEFINE w == tick[r]
<1>1. /\ \/ w.pc = "done" /\ rv' = MarkDone(rv, w.head, w.content)
         \/ w.pc = "arm" /\ rv' = ArmMerge(rv, Snapshot(w))
      /\ past' = past /\ TickEnds(r) /\ UNCHANGED <<pr, changes>>
      /\ w \in Tick /\ w.head \in Epochs /\ w.content \in Epochs /\ Snapshot(w) \in Snapshots
  BY DoneStep DEF At, Fine
<1>2. /\ ~past.renoted /\ ~past.overlap /\ DoneIs /\ NoteTick(w)
      /\ \A c \in past.noted : NotedIs(c)
  BY DEF NotesKnown
<1>3. \A q \in Ticks : tick'[q].pc = "off"
  BY <1>1, NoneTypes DEF TickEnds, TickMoves, Lone
<1>4. \A q \in Ticks : NoteTick(tick[q])'
  BY <1>3 DEF NoteTick, Follow, Idle
<1>5. rv \in Review /\ Apart(rv.merge)
  BY Typed
<1>6. CASE w.pc = "arm"
  <2>1. DoneKept(rv, rv') /\ rv'.open = rv.open
    BY <1>1, <1>5, <1>6, ArmMergeDoes DEF MergeWrite, ReadKept
  <2>2. \A q \in Ticks : tick[q].pc # "done"
    BY <1>6 DEF Lone
  <2>3. DoneIs' /\ \A c \in past.noted : NotedIs(c)'
    BY <1>1, <1>2, <2>1, <2>2 DEF DoneIs, NotedIs, DoneKept
  <2> QED BY <1>1, <1>2, <1>4, <2>3 DEF NotesKnown
<1>7. CASE w.pc = "done"
  <2>1. /\ rv.open /\ rv.head = w.head /\ rv.doneHead # w.head /\ w.content # NoHead
        /\ rv.doneHead <= w.head
    BY <1>2, <1>7 DEF NoteTick, Idle
  <2>2. rv'.doneHead = w.head /\ rv'.doneContent = w.content
    BY <1>1, <1>5, <1>7, <2>1, MarkDoneDoes
  <2>3. w.head \in 1 .. pr.head /\ w.content = changes[w.head]
    BY <2>1 DEF KnownInv, TicksKnown, TickKnown
  <2>4. w.head # NoHead /\ w.content \in Nat
    BY <1>1, <2>3, Ranges
  <2>5. DoneIs'
    BY <1>1, <2>2, <2>3 DEF DoneIs
  <2>6. ASSUME NEW c \in past.noted
        PROVE  c <= w.content
    <3>1. CASE rv.doneHead # NoHead /\ c <= rv.doneContent
      <4>1. rv.doneHead \in 1 .. pr.head /\ rv.doneContent = changes[rv.doneHead] /\ rv.doneContent \in Nat
        BY <1>2, <3>1, DoneHeadIs DEF DoneIs
      <4>2. changes[rv.doneHead] <= changes[w.head]
        BY <2>1, <2>3, <4>1 DEF KnownInv, HeadsKnown
      <4>3. c \in Nat
        BY Typed, Ranges DEF Past
      <4> QED BY <2>3, <2>4, <3>1, <4>1, <4>2, <4>3
    <3>2. CASE \E q \in Ticks : tick[q].pc = "done" /\ c = changes[tick[q].head]
      <4>1. c = changes[w.head]
        BY <3>2 DEF Lone
      <4> QED BY <2>3, <2>4, <4>1
    <3> QED BY <1>2, <2>1, <3>1, <3>2 DEF NotedIs
  <2>7. \A c \in past.noted : NotedIs(c)'
    BY <2>2, <2>4, <2>6 DEF NotedIs
  <2> QED BY <1>1, <1>2, <1>4, <2>5, <2>7 DEF NotesKnown
<1> QED BY <1>1, <1>6, <1>7


(* The other steps of a tick. *)
LEMMA NotesOnward ==
  ASSUME TypeInv, KnownInv, NotesKnown, NEW r \in Ticks, TickStep(r), Lone(r), faults = 0, faults' = 0,
         ~(TickOver(r) \/ TickObserve(r) \/ TickNote(r) \/ TickDone(r))
  PROVE  NotesKnown'
<1> DEFINE w == tick[r]
<1>1. NoteTick(w)
  BY DEF NotesKnown
<1>2. Books(FALSE) /\ DoneKept(rv, rv') /\ w.pc # "done" /\ Noting(w, tick'[r].pc)
  BY <1>1, NoteTurns
<1>3. ReadStays /\ TalkStays /\ w.pc \notin {"off", "observe"}
  <2>1. ~TickFails(r)
    BY FailStep
  <2> QED BY <2>1, OnwardStep
<1>4. PICK t \in Tick : TickMoves(r, t) /\ Onward(w, t)
  BY OnwardStep
<1>5. Noting(w, t.pc)
  BY <1>2, <1>4 DEF TickMoves
<1>6. past' = past /\ changes' = changes /\ rv'.open = rv.open
  BY <1>2, <1>3 DEF Books, TalkStays, ReadStays
<1> HIDE DEF w
<1>7. rv'.doneHead = rv.doneHead /\ rv'.head = rv.head /\ (rv'.quiet => rv.quiet)
  BY <1>2, <1>3 DEF DoneKept, ReadStays
<1>8. t.pc \notin Idle => w.pc \notin Idle /\ t.head = w.head
  BY <1>4 DEF Onward
<1>9. t.pc \in Follow \cup {"note", "done"} => t.pc \notin Idle /\ t.content = w.content
  BY <1>4 DEF Onward, Follow, Idle, Watch
<1>10. NoteTick(t)'
  <2>1. t.pc # "off" => rv'.open
    BY <1>1, <1>3, <1>6 DEF NoteTick
  <2>2. t.pc \notin Idle => rv'.doneHead <= t.head
    BY <1>1, <1>7, <1>8 DEF NoteTick
  <2>3. t.pc \notin {"observe", "advance"}
    BY <1>5 DEF Noting
  <2>4. t.pc \in Follow /\ rv'.quiet => t.content # NoHead
    BY <1>1, <1>5, <1>7, <1>9 DEF NoteTick, Noting
  <2>5. t.pc \in Follow \cup {"note", "done"} => ~HasActive(rv') /\ rv'.head = t.head
    BY <1>5, <1>7, <1>8, <1>9 DEF Noting
  <2>6. t.pc \in {"note", "done"} => t.content # NoHead /\ rv'.doneHead # t.head
    BY <1>5, <1>7, <1>8, <1>9 DEF Noting
  <2> QED BY <2>1, <2>2, <2>3, <2>4, <2>5, <2>6 DEF NoteTick
<1> QED BY <1>2, <1>4, <1>6, <1>10, NotesTurn DEF w

LEMMA TicksBook ==
  ASSUME TypeInv, KnownInv, NEW r \in Ticks, TickStep(r), ~TickNote(r)
  PROVE  Books(FALSE)
<1>1. CASE TickOver(r) \/ TickObserve(r) \/ TickAdvance(r) \/ TickWithdraw(r) \/ TickDisable(r)
  BY <1>1, OverStep, ObserveStep, AdvanceStep, WithdrawStep, DisableStep
<1>2. CASE TickRecord(r) \/ TickStop(r) \/ TickDone(r) \/ TickClaim(r) \/ TickMerge(r)
  BY <1>2, RecordStep, StopStep, DoneStep, ClaimStep, MergeStep
<1>3. CASE TickMerged(r) \/ TickRound(r) \/ TickLaunch(r) \/ TickRunning(r) \/ TickRan(r)
  BY <1>3, MergedStep, RoundTaken, SessionStep
<1> QED BY <1>1, <1>2, <1>3 DEF TickStep

LEMMA NotesTicks ==
  ASSUME TypeInv, KnownInv, Solo, NotesKnown, NEW r \in Ticks, TickStep(r) \/ TickFails(r)
  PROVE  NotesKnown'
<1>1. tick[r].pc # "off" /\ past'.overlap = past.overlap
  BY TickFrame
<1>2. CASE faults' = 0 /\ faults = 0 /\ ~TickFails(r)
  <2>1. Lone(r)
    BY <1>1, <1>2, LoneIs DEF NotesKnown
  <2> QED BY <1>2, <2>1, NotesOver, NotesObserve, NotesNote, NotesDone, NotesOnward
<1>3. CASE TickFails(r)
  <2>1. Books(FALSE) /\ faults' # 0
    BY <1>3, FailStep
  <2> QED BY <2>1 DEF NotesKnown, Books
<1>4. CASE ~(faults' = 0 /\ faults = 0) /\ ~TickFails(r)
  <2>1. CASE TickNote(r)
    <3>1. faults' = faults
      BY <2>1, NoteStep
    <3>2. past' = past
      BY <1>4, <2>1, <3>1, Typed DEF TickNote
    <3> QED BY <1>4, <3>1, <3>2 DEF NotesKnown
  <2>2. CASE ~TickNote(r)
    <3>1. Books(FALSE)
      BY <1>4, <2>2, TicksBook
    <3> QED BY <1>4, <3>1 DEF NotesKnown, Books
  <2> QED BY <2>1, <2>2
<1> QED BY <1>2, <1>3, <1>4

LEMMA NotesAround ==
  ASSUME TypeInv, KnownInv, RoundsInv, NotesKnown, Around
  PROVE  NotesKnown'
<1>1. /\ tick' = tick /\ ReviewStays
      /\ (rv'.quiet => rv.quiet /\ rv'.head = rv.head) \/ \A r \in Ticks : tick[r].pc = "off"
      /\ past'.overlap = past.overlap /\ past'.renoted = past.renoted
      /\ faults' = 0 => faults = 0 /\ past'.noted = past.noted
      /\ \A h \in 1 .. pr.head : changes'[h] = changes[h]
  BY AroundDoes
<1>2. CASE faults' # 0
  BY <1>1, <1>2 DEF NotesKnown
<1>3. CASE faults' = 0
  <2>1. /\ faults = 0 /\ past'.noted = past.noted /\ ~past.renoted /\ ~past.overlap /\ DoneIs
        /\ (\A c \in past.noted : NotedIs(c)) /\ \A q \in Ticks : NoteTick(tick[q])
    BY <1>1, <1>3 DEF NotesKnown
  <2>2. DoneKept(rv, rv') /\ rv'.open = rv.open
    BY <1>1 DEF ReviewStays
  <2>3. DoneIs'
    BY <1>1, <2>1, <2>2, DoneHeadIs DEF DoneIs, DoneKept
  <2>4. \A q \in Ticks : tick[q].pc \notin Idle => /\ tick[q].head \in 1 .. pr.head
                                                   /\ changes'[tick[q].head] = changes[tick[q].head]
    BY <1>1 DEF KnownInv, TicksKnown, TickKnown
  <2>5. ASSUME NEW c \in past.noted
        PROVE  NotedIs(c)'
    BY <1>1, <2>1, <2>2, <2>4 DEF NotedIs, DoneKept, Idle
  <2>6. ASSUME NEW q \in Ticks
        PROVE  NoteTick(tick[q])'
    <3>1. PICK t : t = tick[q]
      OBVIOUS
    <3>2. CASE t.pc = "off"
      BY <1>1, <3>1, <3>2 DEF NoteTick, Idle, Follow
    <3>3. CASE t.pc # "off"
      <4>1. /\ rv.open /\ NoteTick(t) /\ (rv'.quiet => rv.quiet /\ rv'.head = rv.head)
            /\ t.pc \notin Idle => changes'[t.head] = changes[t.head]
        BY <1>1, <2>1, <2>4, <3>1, <3>3 DEF NoteTick
      <4>2. /\ rv'.contentHead = rv.contentHead /\ rv'.doneHead = rv.doneHead /\ rv'.open
            /\ ~HasActive(rv) => ~HasActive(rv') /\ rv'.head = rv.head
        BY <1>1, <4>1 DEF ReviewStays, DoneKept
      <4>3. NoteTick(t)'
        BY <4>1, <4>2 DEF NoteTick, Idle, Follow
      <4> QED BY <1>1, <3>1, <4>3
    <3> QED BY <3>2, <3>3
  <2> QED BY <1>1, <2>1, <2>3, <2>5, <2>6 DEF NotesKnown
<1> QED BY <1>2, <1>3

LEMMA NotesNext ==
  ASSUME TypeInv, KnownInv, RoundsInv, Solo, NotesKnown, [Next]_vars
  PROVE  NotesKnown'
<1>1. CASE UNCHANGED vars
  BY <1>1 DEF vars, NotesKnown, DoneIs, NotedIs, NoteTick, HasActive, ActiveRound
<1> QED BY <1>1, NextSplits, NotesStart, NotesTicks, NotesAround

\* A pull request that is ready again with the same changes gets no second note, unless a
\* call failed (OneNotePerChanges).
THEOREM OneNotePerChangesHolds == Spec => []OneNotePerChanges
<1>1. Init => NotesKnown
  BY DEF Init, NotesKnown, DoneIs, Opened, NoteTick, NoTick, Idle, Follow
<1>2. Apartness /\ NotesKnown /\ [Next]_vars => NotesKnown'
  BY NotesNext DEF Apartness, Shape
<1>3. NotesKnown => OneNotePerChanges
  BY DEF NotesKnown, OneNotePerChanges
<1> QED BY <1>1, <1>2, <1>3, ApartHolds, PTL DEF Spec
=============================================================================
