--------------------------- MODULE PrReviewProofs ---------------------------
(***************************************************************************)
(* Machine-checked proofs about PrReview, for any number of reviews,       *)
(* findings, rounds and commits and any faults and inputs.  A step does    *)
(* one of three things to the reviews (StoreMoves): each follows from what *)
(* it was, the reviewer's turn judges a commit, or the first of the line   *)
(* is inserted.  What every step does to the other variables is stated the *)
(* same way (Moves), group by group of Next, and the invariant follows     *)
(* from these facts.                                                       *)
(***************************************************************************)
EXTENDS PrReview, SequenceTheorems, FiniteSetTheorems, TLAPS

USE RulesAssumption

-----------------------------------------------------------------------------
(* The rules of ReviewRules, for any number of findings, rounds, commits:   *)
(* each takes a good review to a good one, and no rule but the insertion    *)
(* brings a review under way.                                               *)

ReviewType ==
  [phase : Phases, round : Nat, findings : Seq(Finding), reviewedSha : 0 .. MaxHead,
   prHeadSha : 0 .. MaxHead, lastSubmitRound : Nat, lastRespondRound : Nat, nudges : {0, 1},
   reason : Reasons, approvePending : BOOLEAN, autoMergeFailedRound : Nat]

\* What a person decided of a finding stands.
Stands(f) ==
  /\ f.decision = "drop" => f.status = "dropped"
  /\ f.decision = "accept_risk" => f.status = "accepted_risk"
  /\ f.decision \in {"block", "keep"} => f.status # "dropped"

GoodFindings(s) == Len(s) <= MaxFindings /\ \A i \in DOMAIN s : Stands(s[i])

\* Nothing keeps the review from being ready.
Clean(s) == \A i \in DOMAIN s : ~actionableForAuthor(s[i]) /\ ~pendingQuestion(s[i])

RoundsGood(v) ==
  /\ v.lastSubmitRound <= v.round /\ v.lastRespondRound <= v.round
  /\ v.autoMergeFailedRound <= v.round
  /\ v.phase # "absent" => v.round >= 1

GoodReview(v) ==
  /\ v \in ReviewType
  /\ GoodFindings(v.findings)
  /\ RoundsGood(v)
  /\ v.phase = "absent" => v = NoReview
  /\ v.phase = "ready" => Clean(v.findings)

\* w is v after something that neither inserts a review nor judges a commit.
Follows(v, w) ==
  /\ GoodReview(w)
  /\ Active(w) => Active(v)
  /\ w.phase = "absent" <=> v.phase = "absent"
  /\ w.reviewedSha = v.reviewedSha

-----------------------------------------------------------------------------
(* Findings.                                                               *)

\* Rewriting each finding where it is keeps their number and their types.
LEMMA RewrittenFindings ==
  ASSUME NEW s \in Seq(Finding), NEW t \in [DOMAIN s -> Finding]
  PROVE  t \in Seq(Finding) /\ Len(t) = Len(s) /\ DOMAIN t = DOMAIN s
<1>1. DOMAIN s = 1 .. Len(s) /\ Len(s) \in Nat
  OBVIOUS
<1> QED
  BY <1>1

\* The verdicts, the answers and the decisions keep the human word.
LEMMA FindingRules ==
  ASSUME NEW f \in Finding, Stands(f)
  PROVE  /\ \A verdict \in Verdicts : applyVerdict(f, verdict) \in Finding /\ Stands(applyVerdict(f, verdict))
         /\ \A d \in Decisions \ {"none"} : DecidedFinding(f, d) \in Finding /\ Stands(DecidedFinding(f, d))
<1> USE DEF Finding, Stands
<1>1. ASSUME NEW verdict \in Verdicts
      PROVE  applyVerdict(f, verdict) \in Finding /\ Stands(applyVerdict(f, verdict))
  BY DEF applyVerdict, overridesHuman, Verdicts, Statuses, Decisions
<1>2. ASSUME NEW d \in Decisions \ {"none"}
      PROVE  DecidedFinding(f, d) \in Finding /\ Stands(DecidedFinding(f, d))
  BY DEF DecidedFinding, Statuses, Decisions
<1> QED
  BY <1>1, <1>2

\* phaseAfterReviewerRound: a review it calls ready has nothing to wait for,
\* and it never closes a review.
LEMMA NextPhase ==
  ASSUME NEW v \in ReviewType, RoundsGood(v), GoodFindings(v.findings), Active(v)
  PROVE  /\ GoodReview(EntersNext(v)) /\ Active(EntersNext(v))
         /\ EntersNext(v).reviewedSha = v.reviewedSha
<1> DEFINE next == phaseAfterReviewerRound(v)
<1>1. /\ next[1] \in {"impasse", "fixing", "reviewing", "ready"} /\ next[2] \in Reasons
      /\ next[1] = "ready" => Clean(v.findings)
  BY DEF phaseAfterReviewerRound, Some, Clean, ReviewType, Reasons
<1>2. EntersNext(v) = [v EXCEPT !.phase = next[1], !.reason = next[2]]
  BY DEF EntersNext
<1> HIDE DEF next
<1> QED
  BY <1>1, <1>2 DEF GoodReview, RoundsGood, ReviewType, Phases, Active, CLOSED

-----------------------------------------------------------------------------
(* The rules of the two AIs.                                               *)

\* The findings of a round stand after those that were there.
LEMMA JoinedFindings ==
  ASSUME NEW old \in Seq(Finding), NEW new \in Seq(Finding)
  PROVE  /\ (old \o new) \in Seq(Finding) /\ Len(old \o new) = Len(old) + Len(new)
         /\ \A i \in 1 .. Len(old) + Len(new) :
              (old \o new)[i] = IF i <= Len(old) THEN old[i] ELSE new[i - Len(old)]
  BY ConcatProperties

\* A round of the reviewer leaves a good review, which judged that commit.
LEMMA SubmittedGood ==
  ASSUME NEW v, GoodReview(v), v.phase = "reviewing",
         NEW verdicts \in [DOMAIN v.findings -> Verdicts],
         NEW news \in Seq(Severities), Len(v.findings) + Len(news) <= MaxFindings,
         NEW sha \in Heads
  PROVE  LET w == Submitted(v, verdicts, news, sha)
         IN  GoodReview(w) /\ Active(w) /\ w.reviewedSha = sha
<1> DEFINE old == [i \in DOMAIN v.findings |-> applyVerdict(v.findings[i], verdicts[i])]
           new == [i \in DOMAIN news |-> NewFinding(news[i])]
           all == old \o new
           u == [v EXCEPT !.findings = all, !.reviewedSha = sha, !.prHeadSha = sha,
                          !.lastSubmitRound = v.round, !.nudges = 0]
<1>0. v \in ReviewType /\ v.findings \in Seq(Finding) /\ v.round \in Nat
      /\ GoodFindings(v.findings) /\ RoundsGood(v)
  BY DEF GoodReview, ReviewType
<1>1. ASSUME NEW i \in DOMAIN v.findings
      PROVE  old[i] \in Finding /\ Stands(old[i])
  <2>1. v.findings[i] \in Finding /\ Stands(v.findings[i]) /\ verdicts[i] \in Verdicts
    BY <1>0 DEF GoodFindings
  <2> QED
    BY <2>1, FindingRules
<1>2. old \in Seq(Finding) /\ Len(old) = Len(v.findings) /\ DOMAIN old = DOMAIN v.findings
  <2>1. old \in [DOMAIN v.findings -> Finding]
    BY <1>1
  <2> QED
    BY <2>1, <1>0, RewrittenFindings
<1>3. ASSUME NEW i \in DOMAIN news
      PROVE  new[i] \in Finding /\ Stands(new[i])
  <2>1. news[i] \in Severities
    OBVIOUS
  <2> QED
    BY <2>1 DEF NewFinding, Finding, Stands, Statuses, Decisions
<1>4. new \in Seq(Finding) /\ Len(new) = Len(news) /\ DOMAIN new = DOMAIN news
  <2>1. DOMAIN news = 1 .. Len(news) /\ Len(news) \in Nat
    OBVIOUS
  <2>2. new \in [1 .. Len(news) -> Finding]
    BY <2>1, <1>3
  <2> QED
    BY <2>1, <2>2
<1> HIDE DEF old, new
<1>5. all \in Seq(Finding) /\ Len(all) = Len(v.findings) + Len(news)
  <2>1. (old \o new) \in Seq(Finding) /\ Len(old \o new) = Len(old) + Len(new)
    BY <1>2, <1>4, JoinedFindings
  <2> QED
    BY <2>1, <1>2, <1>4
<1>6. \A i \in DOMAIN all : Stands(all[i])
  <2> SUFFICES ASSUME NEW i \in 1 .. Len(old) + Len(new)
               PROVE  Stands(all[i])
    BY <1>2, <1>4
  <2>0. Len(old) \in Nat /\ Len(new) \in Nat /\ DOMAIN old = 1 .. Len(old)
    BY <1>2, <1>4, LenProperties
  <2>1. CASE i <= Len(old)
    <3>1. i \in DOMAIN old
      BY <2>0, <2>1
    <3>2. (old \o new)[i] = old[i]
      BY <2>1, <1>2, <1>4, JoinedFindings
    <3> QED
      BY <3>1, <3>2, <1>1, <1>2
  <2>2. CASE i > Len(old)
    <3>1. Len(old) \in Nat /\ Len(new) \in Nat
      BY <2>0
    <3>2. i \in Int /\ i - Len(old) \in 1 .. Len(new)
      BY <2>2, <3>1
    <3>3. (old \o new)[i] = IF i <= Len(old) THEN old[i] ELSE new[i - Len(old)]
      BY <1>2, <1>4, JoinedFindings
    <3>4. (old \o new)[i] = new[i - Len(old)]
      BY <2>2, <3>1, <3>2, <3>3
    <3> QED
      BY <3>2, <3>4, <1>3, <1>4
  <2> QED
    BY <2>1, <2>2, <1>2
<1> HIDE DEF all
<1>7. u \in ReviewType
  <2>1. sha \in 0 .. MaxHead
    BY DEF Heads
  <2> QED
    BY <2>1, <1>0, <1>5 DEF ReviewType
<1>8. RoundsGood(u) /\ GoodFindings(u.findings) /\ Active(u) /\ u.reviewedSha = sha
  BY <1>0, <1>5, <1>6 DEF RoundsGood, GoodFindings, Active, CLOSED, ReviewType
<1> HIDE DEF u
<1>9. GoodReview(EntersNext(u)) /\ Active(EntersNext(u)) /\ EntersNext(u).reviewedSha = sha
  BY <1>7, <1>8, NextPhase
<1>10. Submitted(v, verdicts, news, sha) = EntersNext(u)
  BY DEF Submitted, u, all, old, new
<1> QED
  BY <1>9, <1>10

\* OneMoreRound: the reviewer looks again at a review that is in a round.
LEMMA OneMoreRoundType ==
  ASSUME NEW v \in ReviewType, RoundsGood(v), v.round >= 1, GoodFindings(v.findings),
         v.phase = "reviewing"
  PROVE  LET w == OneMoreRound(v)
         IN  GoodReview(w) /\ w.phase = "reviewing" /\ w.reviewedSha = v.reviewedSha
<1>1. CASE v.round < MAX_ROUNDS
  <2> DEFINE next == v.round + 1
             w    == [v EXCEPT !.round = next]
  <2>1. next \in Nat /\ next >= 1 /\ \A n \in Int : n <= v.round => n <= next
    BY DEF ReviewType
  <2> HIDE DEF next
  <2>2. /\ w \in ReviewType /\ w.round = next /\ w.phase = "reviewing"
        /\ w.findings = v.findings /\ w.reviewedSha = v.reviewedSha
    BY <2>1 DEF ReviewType
  <2>3. OneMoreRound(v) = w
    BY <1>1 DEF OneMoreRound, next
  <2>4. /\ w.lastSubmitRound = v.lastSubmitRound /\ w.lastRespondRound = v.lastRespondRound
        /\ w.autoMergeFailedRound = v.autoMergeFailedRound
        /\ {v.lastSubmitRound, v.lastRespondRound, v.autoMergeFailedRound} \subseteq Int
    BY DEF ReviewType
  <2> HIDE DEF w
  <2>5. RoundsGood(w)
    BY <2>1, <2>2, <2>4 DEF RoundsGood
  <2> QED
    BY <2>2, <2>3, <2>5 DEF GoodReview
<1>2. CASE ~(v.round < MAX_ROUNDS)
  <2>1. v.round - 1 \in Nat /\ v.round - 1 <= v.round
    BY DEF ReviewType
  <2> QED
    BY <1>2, <2>1 DEF OneMoreRound, GoodReview, RoundsGood, ReviewType
<1> QED
  BY <1>1, <1>2

\* The answers of the author move findings he may answer, no person's word.
LEMMA AnsweredFindings ==
  ASSUME NEW v, GoodReview(v), NEW n, NEW answers \in [DOMAIN v.findings -> Answers]
  PROVE  LET s == [i \in DOMAIN v.findings |->
                     IF i \in Takes(v, n, answers) THEN [v.findings[i] EXCEPT !.status = answers[i]]
                     ELSE v.findings[i]]
         IN  /\ s \in Seq(Finding) /\ GoodFindings(s)
             /\ v.phase = "ready" => Clean(s)
<1> DEFINE s == [i \in DOMAIN v.findings |->
                   IF i \in Takes(v, n, answers) THEN [v.findings[i] EXCEPT !.status = answers[i]]
                   ELSE v.findings[i]]
<1>0. /\ v \in ReviewType /\ v.findings \in Seq(Finding) /\ GoodFindings(v.findings)
      /\ \A i \in DOMAIN v.findings : v.findings[i] \in Finding /\ Stands(v.findings[i])
  BY DEF GoodReview, ReviewType, GoodFindings
<1>1. ASSUME NEW i \in DOMAIN v.findings
      PROVE  s[i] \in Finding /\ Stands(s[i])
  <2>1. CASE i \in Takes(v, n, answers)
    <3>1. answers[i] \in {"fixed", "contested", "wontfix"} /\ answerable(v, n, v.findings[i])
      BY <2>1 DEF Takes, Answers
    <3> HIDE <2>1
    <3>2. v.findings[i].status \notin {"dropped", "accepted_risk"}
      BY <3>1, <1>0 DEF answerable, pendingQuestion, actionableForAuthor, IsOpen
    <3>3. s[i] = [v.findings[i] EXCEPT !.status = answers[i]]
      BY <2>1
    <3> QED
      BY <3>1, <3>2, <3>3, <1>0 DEF Finding, Stands, Statuses
  <2>2. CASE i \notin Takes(v, n, answers)
    BY <2>2, <1>0
  <2> QED
    BY <2>1, <2>2
<1>2. s \in Seq(Finding) /\ Len(s) = Len(v.findings) /\ DOMAIN s = DOMAIN v.findings
  <2>1. s \in [DOMAIN v.findings -> Finding]
    BY <1>1
  <2> QED
    BY <2>1, <1>0, RewrittenFindings
<1>3. ASSUME v.phase = "ready" PROVE Clean(s)
  <2> SUFFICES ASSUME NEW i \in DOMAIN v.findings
               PROVE  ~actionableForAuthor(s[i]) /\ ~pendingQuestion(s[i])
    BY <1>2 DEF Clean
  <2>1. ~actionableForAuthor(v.findings[i]) /\ ~pendingQuestion(v.findings[i])
    BY <1>3 DEF GoodReview, Clean
  <2>2. CASE i \in Takes(v, n, answers)
    <3>1. v.findings[i].severity = "suggestion"
      BY <1>3, <2>1, <2>2 DEF Takes, answerable, freshResponse
    <3>2. s[i].severity = "suggestion"
      BY <2>2, <3>1, <1>0 DEF Finding
    <3> QED
      BY <3>2 DEF actionableForAuthor, pendingQuestion
  <2>3. CASE i \notin Takes(v, n, answers)
    BY <2>1, <2>3
  <2> QED
    BY <2>2, <2>3
<1> HIDE DEF s
<1>4. GoodFindings(s)
  BY <1>0, <1>1, <1>2 DEF GoodFindings
<1> QED
  BY <1>2, <1>3, <1>4 DEF s

\* So an answer leaves a good review, under way only if it was.
LEMMA RespondedFollows ==
  ASSUME NEW v, GoodReview(v), Active(v), NEW n,
         NEW answers \in [DOMAIN v.findings -> Answers], NEW sha \in Heads
  PROVE  Follows(v, Responded(v, n, answers, sha))
<1> DEFINE s == [i \in DOMAIN v.findings |->
                   IF i \in Takes(v, n, answers) THEN [v.findings[i] EXCEPT !.status = answers[i]]
                   ELSE v.findings[i]]
           head == IF Takes(v, n, answers) # {} \/ freshResponse(v, n) THEN sha ELSE v.prHeadSha
           said == [v EXCEPT !.findings = s, !.prHeadSha = head]
<1>0. v \in ReviewType /\ RoundsGood(v) /\ v.round \in Nat /\ v.round >= 1
  BY DEF GoodReview, ReviewType, RoundsGood, Active
<1>1. s \in Seq(Finding) /\ GoodFindings(s) /\ (v.phase = "ready" => Clean(s))
  BY AnsweredFindings
<1>2. head \in 0 .. MaxHead
  BY <1>0 DEF ReviewType, Heads
<1>3. Responded(v, n, answers, sha) =
        IF v.phase \in CLOSED THEN v
        ELSE IF answersDoubt(v, n, answers) THEN OneMoreRound(said)
        ELSE IF freshResponse(v, n)
             THEN [said EXCEPT !.lastRespondRound = v.round, !.nudges = 0,
                               !.round = @ + 1, !.phase = "reviewing"]
        ELSE said
  BY DEF Responded
<1> HIDE DEF s, head
<1>4. /\ said \in ReviewType /\ said.phase = v.phase /\ said.round = v.round
      /\ said.lastSubmitRound = v.lastSubmitRound /\ said.lastRespondRound = v.lastRespondRound
      /\ said.autoMergeFailedRound = v.autoMergeFailedRound
      /\ said.reviewedSha = v.reviewedSha /\ said.findings = s
  BY <1>0, <1>1, <1>2 DEF ReviewType
<1> HIDE DEF said
<1>5. CASE answersDoubt(v, n, answers)
  <2>1. v.phase = "reviewing"
    BY <1>5 DEF answersDoubt
  <2>2. RoundsGood(said) /\ GoodFindings(said.findings)
    BY <1>0, <1>1, <1>4 DEF RoundsGood
  <2> DEFINE w == OneMoreRound(said)
  <2>3. GoodReview(w) /\ w.phase = "reviewing" /\ w.reviewedSha = said.reviewedSha
    BY <2>1, <2>2, <1>0, <1>4, OneMoreRoundType
  <2>4. Responded(v, n, answers, sha) = w
    BY <1>3, <1>5, <2>1 DEF CLOSED
  <2> HIDE DEF w
  <2> QED
    BY <2>1, <2>3, <2>4, <1>4 DEF Follows, Active, CLOSED
<1>6. CASE ~answersDoubt(v, n, answers) /\ freshResponse(v, n)
  <2>1. v.phase = "fixing"
    BY <1>6 DEF freshResponse
  <2> DEFINE next == v.round + 1
             w == [said EXCEPT !.lastRespondRound = v.round, !.nudges = 0,
                               !.round = next, !.phase = "reviewing"]
  <2>2. Responded(v, n, answers, sha) = w
    BY <1>3, <1>4, <1>6, <2>1 DEF CLOSED
  <2>9. next \in Nat /\ v.round <= next
    BY <1>0
  <2> HIDE DEF next
  <2>3. w \in ReviewType
    BY <1>0, <1>4, <2>9 DEF ReviewType, Phases
  <2>4. RoundsGood(w) /\ w.findings = s /\ w.phase = "reviewing" /\ w.reviewedSha = v.reviewedSha
    BY <1>0, <1>4, <2>9 DEF RoundsGood, ReviewType
  <2> HIDE DEF w
  <2> QED
    BY <2>1, <2>2, <2>3, <2>4, <1>1 DEF Follows, GoodReview, Active, CLOSED
<1>7. CASE ~answersDoubt(v, n, answers) /\ ~freshResponse(v, n)
  <2>1. Responded(v, n, answers, sha) = said
    BY <1>3, <1>7 DEF Active
  <2>2. RoundsGood(said)
    BY <1>0, <1>4 DEF RoundsGood
  <2> QED
    BY <2>1, <2>2, <1>1, <1>4 DEF Follows, GoodReview, Active
<1> QED
  BY <1>5, <1>6, <1>7

-----------------------------------------------------------------------------
(* What people decide.                                                     *)

\* A decision about a finding: whatever it does to the phase, a person's word
\* about every finding stands, and a review it declares ready has nothing left.
LEMMA DecidedFollows ==
  ASSUME NEW v, GoodReview(v), NEW i, NEW d \in Decisions \ {"none"}, mayDecide(v, i, d)
  PROVE  Follows(v, Decided(v, i, d))
<1> DEFINE s == [v.findings EXCEPT ![i] = DecidedFinding(@, d)]
           said == [v EXCEPT !.findings = s]
           next == phaseAfterReviewerRound(said)
<1>0. /\ v \in ReviewType /\ RoundsGood(v) /\ v.findings \in Seq(Finding) /\ GoodFindings(v.findings)
      /\ \A k \in DOMAIN v.findings : v.findings[k] \in Finding /\ Stands(v.findings[k])
      /\ v.phase \in {"reviewing", "fixing", "impasse"} /\ i \in DOMAIN v.findings
  BY DEF GoodReview, ReviewType, GoodFindings, mayDecide
<1>1. DecidedFinding(v.findings[i], d) \in Finding /\ Stands(DecidedFinding(v.findings[i], d))
  BY <1>0, FindingRules
<1>2. s \in Seq(Finding) /\ GoodFindings(s)
  <2>1. s \in [DOMAIN v.findings -> Finding] /\ \A k \in DOMAIN v.findings : Stands(s[k])
    BY <1>0, <1>1
  <2>2. s \in Seq(Finding) /\ Len(s) = Len(v.findings) /\ DOMAIN s = DOMAIN v.findings
    BY <2>1, <1>0, RewrittenFindings
  <2> QED
    BY <2>1, <2>2, <1>0 DEF GoodFindings
<1>3. said = [v EXCEPT !.findings[i] = DecidedFinding(@, d)]
  OBVIOUS
<1>4. Decided(v, i, d) =
        IF v.lastSubmitRound # v.round THEN said
        ELSE IF v.phase = "reviewing" THEN EntersNext(said)
        ELSE IF v.phase = "impasse" /\ next[1] = "ready"
             THEN [said EXCEPT !.phase = "ready", !.reason = "none"]
        ELSE said
  BY <1>3 DEF Decided
<1> HIDE DEF s
<1>5. /\ said \in ReviewType /\ RoundsGood(said) /\ said.findings = s
      /\ said.phase = v.phase /\ said.reviewedSha = v.reviewedSha
  BY <1>0, <1>2 DEF ReviewType, RoundsGood
<1>6. Active(v) /\ Active(said) /\ v.phase # "absent" /\ v.phase # "ready"
  BY <1>0, <1>5 DEF Active, CLOSED
<1> HIDE DEF said
<1>7. CASE Decided(v, i, d) = said
  BY <1>7, <1>2, <1>5, <1>6 DEF Follows, GoodReview
<1>8. CASE Decided(v, i, d) = EntersNext(said)
  <2> DEFINE w == EntersNext(said)
  <2>1. GoodReview(w) /\ Active(w) /\ w.reviewedSha = v.reviewedSha
    BY <1>2, <1>5, <1>6, NextPhase
  <2> HIDE DEF w
  <2> QED
    BY <2>1, <1>6, <1>8 DEF Follows, Active, w
<1>9. ASSUME v.phase = "impasse", next[1] = "ready",
             Decided(v, i, d) = [said EXCEPT !.phase = "ready", !.reason = "none"]
      PROVE  Follows(v, Decided(v, i, d))
  <2> DEFINE w == [said EXCEPT !.phase = "ready", !.reason = "none"]
  <2>1. ~Some(said, actionableForAuthor) /\ ~Some(said, pendingQuestion)
    BY <1>9 DEF phaseAfterReviewerRound
  <2>2. Clean(s)
    BY <2>1, <1>5 DEF Some, Clean
  <2>3. w \in ReviewType /\ w.phase = "ready" /\ w.findings = s /\ w.reviewedSha = v.reviewedSha
    BY <1>5 DEF ReviewType, Phases, Reasons
  <2>4. RoundsGood(w)
    BY <1>5, <1>6 DEF ReviewType, RoundsGood
  <2> HIDE DEF w
  <2> QED
    BY <2>2, <2>3, <2>4, <1>2, <1>6, <1>9 DEF Follows, GoodReview, w
<1> QED
  BY <1>4, <1>7, <1>8, <1>9

\* Taking suggestions out never brings back something to wait for.
LEMMA SkippedFollows ==
  ASSUME NEW v, GoodReview(v), v.phase # "absent", NEW skip
  PROVE  Follows(v, Skipped(v, skip))
<1> DEFINE s == [i \in DOMAIN v.findings |->
                   IF i \in skip /\ v.findings[i].status = "open"
                   THEN [v.findings[i] EXCEPT !.status = "dropped", !.decision = "drop"]
                   ELSE v.findings[i]]
           w == [v EXCEPT !.findings = s]
<1>0. /\ v \in ReviewType /\ RoundsGood(v) /\ v.findings \in Seq(Finding) /\ GoodFindings(v.findings)
      /\ \A k \in DOMAIN v.findings : v.findings[k] \in Finding /\ Stands(v.findings[k])
  BY DEF GoodReview, ReviewType, GoodFindings
<1>1. ASSUME NEW i \in DOMAIN v.findings
      PROVE  s[i] \in Finding /\ Stands(s[i]) /\ (s[i] = v.findings[i] \/ s[i].status = "dropped")
  BY <1>0 DEF Finding, Stands, Statuses, Decisions
<1>2. s \in Seq(Finding) /\ Len(s) = Len(v.findings) /\ DOMAIN s = DOMAIN v.findings
  <2>1. s \in [DOMAIN v.findings -> Finding]
    BY <1>1
  <2> QED
    BY <2>1, <1>0, RewrittenFindings
<1>3. Skipped(v, skip) = w
  BY DEF Skipped
<1> HIDE DEF s
<1>4. GoodFindings(s)
  BY <1>0, <1>1, <1>2 DEF GoodFindings
<1>5. ASSUME v.phase = "ready" PROVE Clean(s)
  BY <1>5, <1>1, <1>2 DEF GoodReview, Clean, actionableForAuthor, pendingQuestion, IsOpen
<1>6. /\ w \in ReviewType /\ w.findings = s /\ w.phase = v.phase /\ w.reviewedSha = v.reviewedSha
      /\ RoundsGood(w)
  BY <1>0, <1>2 DEF ReviewType, RoundsGood
<1> HIDE DEF w
<1> QED
  BY <1>3, <1>4, <1>5, <1>6 DEF Follows, GoodReview, Active

\* A retry, a cancellation: the findings stay, and nothing closed comes back.
LEMMA RetriedFollows ==
  ASSUME NEW v, GoodReview(v), v.phase # "absent"
  PROVE  Follows(v, Retried(v)) /\ Follows(v, Cancelled(v))
<1>0. v \in ReviewType /\ RoundsGood(v)
  BY DEF GoodReview
<1>1. Follows(v, Retried(v))
  <2> DEFINE phase == IF v.phase = "impasse"
                      THEN IF v.lastSubmitRound # v.round THEN "reviewing" ELSE "fixing"
                      ELSE v.phase
             w == [v EXCEPT !.phase = phase, !.nudges = 0, !.reason = "none"]
  <2>1. phase \in Phases /\ (phase = v.phase \/ (v.phase = "impasse" /\ phase \in {"reviewing", "fixing"}))
    BY <1>0 DEF ReviewType, Phases
  <2>2. Retried(v) = w
    BY DEF Retried
  <2> HIDE DEF phase
  <2>3. /\ w \in ReviewType /\ w.phase = phase /\ w.findings = v.findings
        /\ w.reviewedSha = v.reviewedSha /\ RoundsGood(w)
    BY <1>0, <2>1 DEF ReviewType, RoundsGood, Reasons
  <2> HIDE DEF w
  <2> QED
    BY <2>1, <2>2, <2>3 DEF Follows, GoodReview, Active, CLOSED
<1>2. Follows(v, Cancelled(v))
  <2> DEFINE w == [v EXCEPT !.phase = "cancelled", !.approvePending = FALSE]
  <2>1. /\ w \in ReviewType /\ w.phase = "cancelled" /\ w.findings = v.findings
        /\ w.reviewedSha = v.reviewedSha /\ RoundsGood(w)
    BY <1>0 DEF ReviewType, RoundsGood, Phases
  <2>2. Cancelled(v) = w
    BY DEF Cancelled
  <2> HIDE DEF w
  <2> QED
    BY <2>1, <2>2 DEF Follows, GoodReview, Active, CLOSED
<1> QED
  BY <1>1, <1>2

-----------------------------------------------------------------------------
(* What the system writes.                                                 *)

\* A merge, a cancellation by the system, a text that was not delivered (w is
\* the review it was written for) and the end of a turn without its tool.
LEMMA SystemFollows ==
  ASSUME NEW v, GoodReview(v), v.phase # "absent"
  PROVE  /\ Follows(v, v) /\ Follows(v, Merged(v)) /\ Follows(v, CancelledBySystem(v))
         /\ \A w : Follows(v, Undelivered(v, w))
         /\ \A side : Follows(v, Judged(v, side))
<1>0. v \in ReviewType /\ RoundsGood(v)
  BY DEF GoodReview
<1>1. Follows(v, v)
  BY DEF Follows
<1>2. Follows(v, Merged(v))
  <2> DEFINE w == [v EXCEPT !.phase = "merged", !.approvePending = FALSE, !.reason = "none"]
  <2>1. /\ w \in ReviewType /\ w.phase = "merged" /\ w.findings = v.findings
        /\ w.reviewedSha = v.reviewedSha /\ RoundsGood(w)
    BY <1>0 DEF ReviewType, RoundsGood, Phases, Reasons
  <2>2. Merged(v) = v \/ Merged(v) = w
    BY DEF Merged
  <2> HIDE DEF w
  <2> QED
    BY <1>1, <2>1, <2>2 DEF Follows, GoodReview, Active, CLOSED
<1>3. Follows(v, CancelledBySystem(v))
  BY <1>1, RetriedFollows DEF CancelledBySystem
<1>4. ASSUME NEW w PROVE Follows(v, Undelivered(v, w))
  <2> DEFINE u == [v EXCEPT !.phase = "impasse", !.reason = "envio"]
  <2>1. /\ u \in ReviewType /\ u.phase = "impasse" /\ u.findings = v.findings
        /\ u.reviewedSha = v.reviewedSha /\ RoundsGood(u)
    BY <1>0 DEF ReviewType, RoundsGood, Phases, Reasons
  <2>2. Undelivered(v, w) = v \/ (Undelivered(v, w) = u /\ v.phase \notin CLOSED)
    BY DEF Undelivered
  <2> HIDE DEF u
  <2> QED
    BY <1>1, <2>1, <2>2 DEF Follows, GoodReview, Active, CLOSED
<1>5. ASSUME NEW side PROVE Follows(v, Judged(v, side))
  <2> DEFINE u == [v EXCEPT !.phase = "impasse", !.reason = "semResposta"]
             x == [v EXCEPT !.nudges = @ + 1]
  <2>1. /\ u \in ReviewType /\ u.phase = "impasse" /\ u.findings = v.findings
        /\ u.reviewedSha = v.reviewedSha /\ RoundsGood(u)
    BY <1>0 DEF ReviewType, RoundsGood, Phases, Reasons
  <2>2. CASE v.nudges = 0
    <3>1. x = [v EXCEPT !.nudges = 1]
      BY <2>2
    <3>2. /\ x \in ReviewType /\ x.phase = v.phase /\ x.findings = v.findings
          /\ x.reviewedSha = v.reviewedSha /\ RoundsGood(x)
      BY <3>1, <1>0 DEF ReviewType, RoundsGood
    <3>3. Judged(v, side) = v \/ Judged(v, side) = x
      BY <2>2 DEF Judged
    <3>4. v.phase \notin {"absent", "ready"} \/ Judged(v, side) = v
      BY DEF Judged, awaitingTool
    <3> HIDE DEF x
    <3> QED
      BY <1>1, <3>2, <3>3, <3>4 DEF Follows, GoodReview, Active, CLOSED
  <2>3. CASE v.nudges # 0
    <3>1. Judged(v, side) = v \/ (Judged(v, side) = u /\ v.phase \in {"reviewing", "fixing"})
      <4>1. v.nudges >= 1
        BY <2>3, <1>0 DEF ReviewType
      <4> QED
        BY <4>1 DEF Judged, awaitingTool
    <3> HIDE DEF u
    <3> QED
      BY <1>1, <2>1, <3>1 DEF Follows, GoodReview, Active, CLOSED
  <2> QED
    BY <2>2, <2>3
<1> QED
  BY <1>1, <1>2, <1>3, <1>4, <1>5

\* A review reopens only from ready, which it leaves for the reviewer.
LEMMA ReopenedFollows ==
  ASSUME NEW v, GoodReview(v), NEW head
  PROVE  Follows(v, Reopened(v, head))
<1>1. CASE ~Reopens(v, head)
  BY <1>1 DEF Reopened, Follows
<1>2. CASE Reopens(v, head)
  <2> DEFINE u == [v EXCEPT !.approvePending = FALSE, !.nudges = 0, !.phase = "reviewing"]
             w == OneMoreRound(u)
  <2>0. v \in ReviewType /\ RoundsGood(v) /\ GoodFindings(v.findings) /\ v.phase = "ready"
    BY <1>2 DEF GoodReview, Reopens
  <2>1. /\ u \in ReviewType /\ u.phase = "reviewing" /\ u.findings = v.findings
        /\ u.reviewedSha = v.reviewedSha /\ RoundsGood(u) /\ u.round >= 1
    BY <2>0 DEF ReviewType, RoundsGood, Phases
  <2>2. Reopened(v, head) = w
    BY <1>2 DEF Reopened
  <2> HIDE DEF u
  <2>3. GoodReview(w) /\ w.phase = "reviewing" /\ w.reviewedSha = u.reviewedSha
    BY <2>0, <2>1, OneMoreRoundType
  <2> HIDE DEF w
  <2> QED
    BY <2>0, <2>1, <2>2, <2>3 DEF Follows, Active, CLOSED
<1> QED
  BY <1>1, <1>2

\* The records the orchestrator writes by itself on a review.
LEMMA FieldsFollow ==
  ASSUME NEW v, GoodReview(v), v.phase # "absent"
  PROVE  /\ \A head \in 0 .. MaxHead : Follows(v, [v EXCEPT !.prHeadSha = head])
         /\ \A b \in BOOLEAN : Follows(v, [v EXCEPT !.approvePending = b])
         /\ Follows(v, [v EXCEPT !.autoMergeFailedRound = v.round])
<1>0. v \in ReviewType /\ RoundsGood(v)
  BY DEF GoodReview
<1>1. ASSUME NEW head \in 0 .. MaxHead PROVE Follows(v, [v EXCEPT !.prHeadSha = head])
  <2> DEFINE w == [v EXCEPT !.prHeadSha = head]
  <2>1. /\ w \in ReviewType /\ w.phase = v.phase /\ w.findings = v.findings
        /\ w.reviewedSha = v.reviewedSha /\ RoundsGood(w)
    BY <1>0 DEF ReviewType, RoundsGood
  <2> HIDE DEF w
  <2> QED
    BY <2>1 DEF Follows, GoodReview, Active, w
<1>2. ASSUME NEW b \in BOOLEAN PROVE Follows(v, [v EXCEPT !.approvePending = b])
  <2> DEFINE w == [v EXCEPT !.approvePending = b]
  <2>1. /\ w \in ReviewType /\ w.phase = v.phase /\ w.findings = v.findings
        /\ w.reviewedSha = v.reviewedSha /\ RoundsGood(w)
    BY <1>0 DEF ReviewType, RoundsGood
  <2> HIDE DEF w
  <2> QED
    BY <2>1 DEF Follows, GoodReview, Active, w
<1>3. Follows(v, [v EXCEPT !.autoMergeFailedRound = v.round])
  <2> DEFINE w == [v EXCEPT !.autoMergeFailedRound = v.round]
  <2>1. /\ w \in ReviewType /\ w.phase = v.phase /\ w.findings = v.findings
        /\ w.reviewedSha = v.reviewedSha /\ RoundsGood(w)
    BY <1>0 DEF ReviewType, RoundsGood
  <2> HIDE DEF w
  <2> QED
    BY <2>1 DEF Follows, GoodReview, Active, w
<1> QED
  BY <1>1, <1>2, <1>3

\* The review that is inserted, and the one that is not there.
LEMMA NewReviewGood == /\ GoodReview(FreshReview) /\ Active(FreshReview) /\ FreshReview.reviewedSha = 0
                       /\ GoodReview(NoReview) /\ ~Active(NoReview) /\ NoReview.reviewedSha = 0
<1>1. /\ <<>> \in Seq(Finding) /\ Len(<<>>) = 0 /\ DOMAIN <<>> = {}
      /\ 0 \in 0 .. MaxHead
  OBVIOUS
<1>2. NoReview \in ReviewType /\ FreshReview \in ReviewType
  BY <1>1 DEF NoReview, FreshReview, ReviewType, Phases, Reasons
<1>3. /\ NoReview.phase = "absent" /\ FreshReview.phase = "reviewing"
      /\ NoReview.findings = <<>> /\ FreshReview.findings = <<>>
      /\ NoReview.reviewedSha = 0 /\ FreshReview.reviewedSha = 0
      /\ RoundsGood(NoReview) /\ RoundsGood(FreshReview)
  BY DEF NoReview, FreshReview, RoundsGood
<1>4. GoodFindings(<<>>)
  BY <1>1 DEF GoodFindings
<1> QED
  BY <1>2, <1>3, <1>4 DEF GoodReview, Active, CLOSED

USE ReviewsAssumption

-----------------------------------------------------------------------------
(* The inductive invariant.                                                *)

MergeCalls ==
  [review : Reviews, auto : BOOLEAN, sha : 0 .. MaxHead, proven : 0 .. MaxHead,
   pc : {"approval", "claim", "pr", "gate", "script", "merged", "refused"}]

Readings ==
  [review : Reviews, was : [phase : Phases, reviewedSha : 0 .. MaxHead, prHeadSha : 0 .. MaxHead],
   state : {"open", "merged", "closed"}, head : Heads, pc : {"read", "write"}]

PullRequests ==
  [state : {"open", "merged", "closed"}, head : Heads, approved : SUBSET Heads,
   by : {"nobody", "panel", "deliver", "outside"}, of : SUBSET MergeCalls]

Exists(r) == r \in Reviews /\ review[r].phase # "absent"

StoreGood ==
  /\ review \in [Reviews -> ReviewType]
  /\ \A r \in Reviews : GoodReview(review[r]) /\ (r \notin astray => review[r].reviewedSha <= github.head)
  /\ \A q, r \in Reviews : Active(review[q]) /\ Active(review[r]) => q = r

\* Who is in line has no review, and was told it may start only while no
\* review is under way.
LineGood ==
  /\ starting \in Seq([review : Reviews, checked : BOOLEAN])
  /\ \A i \in DOMAIN starting :
       /\ review[starting[i].review] = NoReview
       /\ starting[i].checked => i = 1 /\ \A r \in Reviews : ~Active(review[r])
       /\ \A j \in DOMAIN starting : starting[i].review = starting[j].review => i = j

\* The reviewer of a review is in one turn, which sees no older commit than
\* the review has judged (unless it reported another than the one it saw).
TurnsGood ==
  /\ \A t \in turns :
       /\ t.review \in Reviews /\ t.at \in Heads /\ t.at <= github.head
       /\ t.side = "reviewer" /\ t.review \notin astray => review[t.review].reviewedSha <= t.at
  /\ \A t, u \in turns : t.side = "reviewer" /\ u.side = "reviewer" /\ t.review = u.review => t = u

MergeGood(m) ==
  /\ m \in MergeCalls /\ Exists(m.review)
  /\ m.review \notin astray => m.sha <= review[m.review].reviewedSha
  /\ m.auto /\ m.pc \notin {"approval", "refused"} => m.proven \in github.approved

WorkGood ==
  /\ \A m \in sends : Exists(m.review)
  /\ \A e \in ended : e.review \in Reviews
  /\ \A m \in merges : MergeGood(m)
  /\ \A t \in syncs : t \in Readings /\ Exists(t.review)
  /\ \A r \in merging : Exists(r)
  /\ \E pc : \E S \in SUBSET Reviews : delivery = [pc |-> pc, review |-> S]

BudgetGood ==
  /\ {"severities", "verdicts"} \subseteq DOMAIN budget
  /\ budget.severities \subseteq Severities /\ budget.verdicts \subseteq Verdicts

IInv ==
  /\ github \in PullRequests
  /\ StoreGood /\ LineGood /\ TurnsGood /\ WorkGood /\ BudgetGood

-----------------------------------------------------------------------------
(* What a step may do.                                                     *)

Followed == \A r \in Reviews : Follows(review[r], review'[r])

\* The round of the reviewer in turn t judged the commit the turn saw, or
\* the review is one whose reviewer went astray.
Judgement(t) ==
  /\ t \in turns /\ t.side = "reviewer"
  /\ \E v : /\ review' = [review EXCEPT ![t.review] = v]
            /\ GoodReview(v) /\ Active(v)
            /\ t.review \in astray' \/ v.reviewedSha = t.at
  /\ Active(review[t.review])
  /\ UNCHANGED <<turns, github, starting, merging, merges, syncs>>

\* startReview inserted the review it was asked for.
Insertion ==
  /\ 1 \in DOMAIN starting /\ starting[1].checked
  /\ review' = [review EXCEPT ![starting[1].review] = FreshReview]
  /\ starting' = Without(1)
  /\ UNCHANGED <<turns, github, merging, merges, syncs>>

AstrayGrows == astray \subseteq astray'

StoreMoves ==
  /\ review' \in [Reviews -> ReviewType]
  /\ Followed \/ (\E t \in turns : Judgement(t)) \/ Insertion

LineMoves ==
  \/ UNCHANGED starting
  \/ starting' = <<>>
  \/ 1 \in DOMAIN starting /\ starting' = Without(1)
  \/ /\ 1 \in DOMAIN starting /\ starting' = [starting EXCEPT ![1].checked = TRUE]
     /\ \A r \in Reviews : ~Active(review'[r])
  \/ \E r \in Reviews :
       /\ starting' = Append(starting, [review |-> r, checked |-> FALSE])
       /\ review'[r] = NoReview /\ \A i \in DOMAIN starting : starting[i].review # r

GithubMoves ==
  /\ github' \in PullRequests
  /\ github.head <= github'.head /\ github.approved \subseteq github'.approved

TurnsMove ==
  \/ turns' \subseteq turns
  \/ \E m : /\ m.review \in Reviews /\ UNCHANGED github
            /\ turns' = (turns \ OnTheCardOf(m)) \cup {Opens(m)}

MergeNew(m) ==
  /\ m \in MergeCalls /\ review'[m.review].phase # "absent"
  /\ m.review \notin astray' => m.sha <= review'[m.review].reviewedSha
  /\ m.auto /\ m.pc \notin {"approval", "refused"} => m.proven \in github'.approved

WorkMoves ==
  /\ \A m \in sends' \ sends : m.review \in Reviews /\ review'[m.review].phase # "absent"
  /\ \A e \in ended' \ ended : e.review \in Reviews
  /\ \A m \in merges' \ merges : MergeNew(m)
  /\ \A t \in syncs' \ syncs : t \in Readings /\ review'[t.review].phase # "absent"
  /\ \A r \in merging' \ merging : r \in Reviews /\ review'[r].phase # "absent"
  /\ \E pc : \E S \in SUBSET Reviews : delivery' = [pc |-> pc, review |-> S]

Moves ==
  /\ StoreMoves /\ LineMoves /\ GithubMoves /\ TurnsMove /\ WorkMoves /\ BudgetGood'

-----------------------------------------------------------------------------
(* Such a step keeps the invariant.                                        *)

\* Who is in line asked for a review that is not there.
LEMMA InLine ==
  ASSUME IInv, NEW i \in DOMAIN starting
  PROVE  /\ starting[i] \in [review : Reviews, checked : BOOLEAN]
         /\ starting[i].review \in Reviews /\ review[starting[i].review] = NoReview
         /\ starting[i].checked => i = 1 /\ \A r \in Reviews : ~Active(review[r])
<1>1. starting[i] \in [review : Reviews, checked : BOOLEAN]
  <2> DEFINE S == [review : Reviews, checked : BOOLEAN]
  <2>1. starting \in Seq(S)
    BY DEF IInv, LineGood
  <2> HIDE DEF S
  <2>2. starting[i] \in S
    BY <2>1
  <2> QED
    BY <2>2 DEF S
<1> QED
  BY <1>1 DEF IInv, LineGood

\* What a review has judged and its being there are never taken back.
LEMMA StoreGrows ==
  ASSUME IInv, StoreMoves, AstrayGrows
  PROVE  \A r \in Reviews : /\ r \notin astray' => review[r].reviewedSha <= review'[r].reviewedSha
                            /\ review[r].phase # "absent" => review'[r].phase # "absent"
<1>0. /\ review \in [Reviews -> ReviewType] /\ review' \in [Reviews -> ReviewType]
      /\ \A r \in Reviews : /\ review[r].reviewedSha \in Nat /\ review'[r].reviewedSha \in Nat
                            /\ GoodReview(review[r])
  BY DEF IInv, StoreGood, StoreMoves, ReviewType
<1>1. CASE Followed
  BY <1>0, <1>1 DEF Followed, Follows
<1>2. ASSUME NEW t \in turns, Judgement(t)
      PROVE  \A r \in Reviews : /\ r \notin astray' => review[r].reviewedSha <= review'[r].reviewedSha
                                /\ review[r].phase # "absent" => review'[r].phase # "absent"
  <2>1. t.review \in Reviews /\ (t.review \notin astray' => review[t.review].reviewedSha <= t.at)
    BY <1>2 DEF Judgement, IInv, TurnsGood, AstrayGrows
  <2>2. PICK v : review' = [review EXCEPT ![t.review] = v] /\ Active(v)
                 /\ (t.review \in astray' \/ v.reviewedSha = t.at)
    BY <1>2 DEF Judgement
  <2>3. v.phase # "absent"
    BY <2>2 DEF Active
  <2> QED
    BY <2>1, <2>2, <2>3, <1>0
<1>3. CASE Insertion
  <2> DEFINE x == starting[1].review
  <2>1. x \in Reviews /\ review[x] = NoReview
    BY <1>3, InLine DEF Insertion
  <2>2. review' = [review EXCEPT ![x] = FreshReview]
    BY <1>3 DEF Insertion
  <2>3. Active(FreshReview) /\ NoReview.reviewedSha = 0 /\ FreshReview.reviewedSha = 0
    BY NewReviewGood
  <2>4. FreshReview.phase # "absent"
    BY <2>3 DEF Active
  <2> HIDE DEF x
  <2> QED
    BY <2>1, <2>2, <2>3, <2>4, <1>0
<1> QED
  BY <1>1, <1>2, <1>3 DEF StoreMoves

\* The store stays good, with one review under way.
LEMMA StoreStep ==
  ASSUME IInv, StoreMoves, GithubMoves, AstrayGrows
  PROVE  StoreGood'
<1>0. /\ review \in [Reviews -> ReviewType] /\ review' \in [Reviews -> ReviewType]
      /\ github.head \in Heads /\ github'.head \in Heads /\ github.head <= github'.head
      /\ \A r \in Reviews : /\ GoodReview(review[r]) /\ (r \notin astray => review[r].reviewedSha <= github.head)
                            /\ review[r].reviewedSha \in Nat
      /\ \A q, r \in Reviews : Active(review[q]) /\ Active(review[r]) => q = r
  BY DEF IInv, StoreGood, StoreMoves, GithubMoves, ReviewType, PullRequests
<1>00. github.head \in Int /\ github'.head \in Int
  BY <1>0 DEF Heads
<1>1. CASE Followed
  BY <1>0, <1>00, <1>1 DEF Followed, Follows, StoreGood, AstrayGrows
<1>2. ASSUME NEW t \in turns, Judgement(t) PROVE StoreGood'
  <2>1. t.review \in Reviews /\ t.at <= github.head /\ github' = github /\ Active(review[t.review])
    BY <1>2 DEF Judgement, IInv, TurnsGood
  <2>2. PICK v : /\ review' = [review EXCEPT ![t.review] = v]
                 /\ GoodReview(v) /\ Active(v) /\ (t.review \in astray' \/ v.reviewedSha = t.at)
    BY <1>2 DEF Judgement
  <2> QED
    BY <2>1, <2>2, <1>0 DEF StoreGood, AstrayGrows
<1>3. CASE Insertion
  <2> DEFINE x == starting[1].review
  <2>1. x \in Reviews /\ \A r \in Reviews : ~Active(review[r])
    BY <1>3, InLine DEF Insertion
  <2>2. review' = [review EXCEPT ![x] = FreshReview] /\ github' = github
    BY <1>3 DEF Insertion
  <2>3. GoodReview(FreshReview) /\ FreshReview.reviewedSha <= github.head
    BY <1>0, NewReviewGood DEF Heads
  <2> HIDE DEF x
  <2> QED
    BY <2>1, <2>2, <2>3, <1>0 DEF StoreGood, AstrayGrows
<1> QED
  BY <1>1, <1>2, <1>3 DEF StoreMoves

\* Taking the first out of the line.
LEMMA WithoutFirst ==
  ASSUME NEW S, starting \in Seq(S), 1 \in DOMAIN starting
  PROVE  /\ Without(1) \in Seq(S)
         /\ \A i \in DOMAIN Without(1) : i + 1 \in DOMAIN starting /\ Without(1)[i] = starting[i + 1]
<1>1. DOMAIN starting = 1 .. Len(starting) /\ Len(starting) \in Nat
  OBVIOUS
<1>2. \A i \in 1 .. Len(starting) - 1 : i + 1 \in DOMAIN starting /\ Without(1)[i] = starting[i + 1]
  BY <1>1 DEF Without
<1>3. Without(1) \in [1 .. Len(starting) - 1 -> S]
  <2>1. \A i \in 1 .. Len(starting) - 1 : starting[i + 1] \in S
    BY <1>1, <1>2
  <2> QED
    BY <1>2, <2>1 DEF Without
<1>4. Len(starting) - 1 \in Nat
  BY <1>1
<1> QED
  BY <1>2, <1>3, <1>4

\* The line stays good: nobody is served while a review is under way.
LEMMA LineStep ==
  ASSUME IInv, StoreMoves, LineMoves
  PROVE  LineGood'
<1> DEFINE S == [review : Reviews, checked : BOOLEAN]
           absent(i) == review'[starting[i].review] = NoReview
           quiet == \A r \in Reviews : ~Active(review[r])
           quietNow == \A r \in Reviews : ~Active(review'[r])
<1>0. /\ starting \in Seq(S) /\ review' \in [Reviews -> ReviewType]
      /\ DOMAIN starting = 1 .. Len(starting) /\ Len(starting) \in Nat
      /\ \A i, j \in DOMAIN starting : starting[i].review = starting[j].review => i = j
  BY DEF IInv, LineGood, StoreMoves
<1>1. CASE Followed
  <2>1. \A i \in DOMAIN starting : absent(i)
    <3> SUFFICES ASSUME NEW i \in DOMAIN starting PROVE absent(i)
      OBVIOUS
    <3> DEFINE r == starting[i].review
    <3>1. r \in Reviews /\ review[r] = NoReview
      BY InLine
    <3> HIDE DEF r
    <3>2. review'[r].phase = "absent" /\ GoodReview(review'[r])
      BY <1>1, <3>1 DEF Followed, Follows, NoReview
    <3> QED
      BY <3>2 DEF GoodReview, r
  <2>2. quiet => quietNow
    BY <1>1 DEF Followed, Follows
  <2>3. \A i \in DOMAIN starting : starting[i].checked => i = 1 /\ quietNow
    BY <2>2, InLine
  <2> HIDE DEF quiet, quietNow
  <2>4. CASE UNCHANGED starting
    BY <2>1, <2>3, <2>4, <1>0 DEF LineGood, quietNow
  <2>5. CASE starting' = <<>>
    BY <2>5 DEF LineGood
  <2>6. CASE 1 \in DOMAIN starting /\ starting' = Without(1)
    <3>1. starting' \in Seq(S) /\ \A i \in DOMAIN starting' : i + 1 \in DOMAIN starting /\ starting'[i] = starting[i + 1]
      BY <2>6, <1>0, WithoutFirst
    <3>2. DOMAIN starting' \subseteq Int
      BY <3>1
    <3> QED
      BY <3>1, <3>2, <2>1, <2>3, <1>0 DEF LineGood, quietNow
  <2>7. CASE /\ 1 \in DOMAIN starting /\ starting' = [starting EXCEPT ![1].checked = TRUE]
             /\ quietNow
    <3>1. starting[1] \in S
      BY <2>7, InLine
    <3> DEFINE y == [starting[1] EXCEPT !.checked = TRUE]
    <3>4. y \in S /\ y.review = starting[1].review /\ starting' = [starting EXCEPT ![1] = y]
      BY <2>7, <3>1
    <3> HIDE DEF y, S
    <3>6. starting \in [DOMAIN starting -> S]
      BY <1>0
    <3>5. starting' \in [DOMAIN starting -> S]
      BY <3>4, <3>6
    <3>2. \A i \in DOMAIN starting : /\ starting'[i].review = starting[i].review
                                     /\ i # 1 => starting'[i] = starting[i]
      BY <2>7, <3>4
    <3>3. starting' \in Seq(S) /\ DOMAIN starting' = DOMAIN starting
      BY <3>5, <1>0
    <3> QED
      BY <2>7, <3>2, <3>3, <2>1, <2>3, <1>0 DEF LineGood, quietNow, S
  <2>8. ASSUME NEW r \in Reviews, starting' = Append(starting, [review |-> r, checked |-> FALSE]),
               review'[r] = NoReview, \A i \in DOMAIN starting : starting[i].review # r
        PROVE  LineGood'
    <3> DEFINE x == [review |-> r, checked |-> FALSE]
    <3>1. x \in S /\ x.review = r /\ x.checked = FALSE
      OBVIOUS
    <3> HIDE DEF x
    <3>2. /\ starting' \in Seq(S) /\ DOMAIN starting' = 1 .. Len(starting) + 1
          /\ \A i \in DOMAIN starting : starting'[i] = starting[i]
          /\ starting'[Len(starting) + 1] = x
      BY <2>8, <1>0, <3>1 DEF x
    <3>3. \A i \in DOMAIN starting' : i \in DOMAIN starting \/ i = Len(starting) + 1
      BY <3>2, <1>0
    <3> QED
      BY <2>8, <3>1, <3>2, <3>3, <2>1, <2>3, <1>0 DEF LineGood, quietNow
  <2> QED
    BY <2>4, <2>5, <2>6, <2>7, <2>8 DEF LineMoves, quietNow
<1>2. ASSUME NEW t \in turns, Judgement(t) PROVE LineGood'
  <2>1. t.review \in Reviews /\ Active(review[t.review])
    BY <1>2 DEF Judgement, IInv, TurnsGood
  <2>2. PICK v : review' = [review EXCEPT ![t.review] = v]
    BY <1>2 DEF Judgement
  <2>3. \A i \in DOMAIN starting : absent(i) /\ ~starting[i].checked
    <3> SUFFICES ASSUME NEW i \in DOMAIN starting PROVE absent(i) /\ ~starting[i].checked
      OBVIOUS
    <3> DEFINE r == starting[i].review
    <3>1. r \in Reviews /\ review[r] = NoReview /\ ~starting[i].checked
      BY InLine, <2>1
    <3> HIDE DEF r
    <3>2. r # t.review
      BY <3>1, <2>1, NewReviewGood
    <3> QED
      BY <3>1, <3>2, <2>2 DEF IInv, StoreGood, r
  <2> QED
    BY <1>2, <2>3, <1>0 DEF LineGood, Judgement
<1>3. CASE Insertion
  <2> DEFINE x == starting[1].review
  <2>1. /\ 1 \in DOMAIN starting /\ review' = [review EXCEPT ![x] = FreshReview]
        /\ starting' = Without(1)
    BY <1>3 DEF Insertion
  <2>2. starting' \in Seq(S) /\ \A i \in DOMAIN starting' : i + 1 \in DOMAIN starting /\ starting'[i] = starting[i + 1]
    BY <2>1, <1>0, WithoutFirst
  <2>3. DOMAIN starting' \subseteq Int /\ \A i \in DOMAIN starting' : i + 1 # 1
    BY <2>2
  <2>4. \A i \in DOMAIN starting' : /\ review'[starting'[i].review] = NoReview
                                    /\ ~starting'[i].checked
    <3> SUFFICES ASSUME NEW i \in DOMAIN starting'
                 PROVE  review'[starting'[i].review] = NoReview /\ ~starting'[i].checked
      OBVIOUS
    <3> DEFINE r == starting[i + 1].review
    <3>1. starting'[i] = starting[i + 1] /\ i + 1 \in DOMAIN starting /\ i + 1 # 1
      BY <2>2, <2>3
    <3>2. r # x
      BY <3>1, <2>1, <1>0
    <3>3. r \in Reviews /\ review[r] = NoReview /\ ~starting[i + 1].checked
      BY <3>1, InLine
    <3> HIDE DEF r, x
    <3> QED
      BY <3>1, <3>2, <3>3, <2>1 DEF IInv, StoreGood, r
  <2> QED
    BY <2>2, <2>3, <2>4, <1>0 DEF LineGood
<1> QED
  BY <1>1, <1>2, <1>3 DEF StoreMoves

\* The turns stay good: what a turn sees is no older than what was judged.
LEMMA TurnsStep ==
  ASSUME IInv, StoreMoves, GithubMoves, TurnsMove, AstrayGrows
  PROVE  TurnsGood'
<1>0. /\ \A r \in Reviews : /\ review[r].reviewedSha \in Nat /\ review'[r].reviewedSha \in Nat
                            /\ r \notin astray => review[r].reviewedSha <= github.head
      /\ github.head \in Heads /\ github'.head \in Heads /\ github.head <= github'.head
      /\ \A t \in turns : /\ t.review \in Reviews /\ t.at \in Heads /\ t.at <= github.head
                          /\ t.side = "reviewer" /\ t.review \notin astray => review[t.review].reviewedSha <= t.at
      /\ \A t, u \in turns : t.side = "reviewer" /\ u.side = "reviewer" /\ t.review = u.review => t = u
  BY DEF IInv, StoreGood, TurnsGood, StoreMoves, GithubMoves, ReviewType, PullRequests
<1>00. Heads \subseteq Int
  BY DEF Heads
<1>1. ASSUME \A r \in Reviews : (\E t \in turns' : t.side = "reviewer" /\ t.review = r)
                                  => review'[r].reviewedSha = review[r].reviewedSha
      PROVE  TurnsGood'
  <2>1. CASE turns' \subseteq turns
    <3>1. \A t \in turns' : /\ t.review \in Reviews /\ t.at \in Heads /\ t.at <= github'.head
                            /\ t.side = "reviewer" /\ t.review \notin astray' => review'[t.review].reviewedSha <= t.at
      <4> SUFFICES ASSUME NEW t \in turns'
                   PROVE  /\ t.review \in Reviews /\ t.at \in Heads /\ t.at <= github'.head
                          /\ t.side = "reviewer" /\ t.review \notin astray' => review'[t.review].reviewedSha <= t.at
        OBVIOUS
      <4>1. /\ t.review \in Reviews /\ t.at \in Heads /\ t.at <= github.head
            /\ t.side = "reviewer" /\ t.review \notin astray => review[t.review].reviewedSha <= t.at
        BY <2>1, <1>0
      <4>2. t.side = "reviewer" => review'[t.review].reviewedSha = review[t.review].reviewedSha
        BY <4>1, <1>1
      <4>3. github.head \in Int /\ github'.head \in Int /\ t.at \in Int /\ github.head <= github'.head
        BY <4>1, <1>0, <1>00
      <4> QED
        BY <4>1, <4>2, <4>3 DEF AstrayGrows
    <3>2. \A t, u \in turns' : t.side = "reviewer" /\ u.side = "reviewer" /\ t.review = u.review => t = u
      BY <2>1, <1>0
    <3> QED
      BY <3>1, <3>2 DEF TurnsGood
  <2>2. ASSUME NEW m, m.review \in Reviews, UNCHANGED github,
               turns' = (turns \ OnTheCardOf(m)) \cup {Opens(m)}
        PROVE  TurnsGood'
    <3> DEFINE x == Opens(m)
    <3>1. x.review = m.review /\ x.side = m.side /\ x.at = github.head
      BY DEF Opens
    <3>2. \A t \in turns' : t = x \/ (t \in turns /\ ~(t.side = m.side /\ t.side = "reviewer" /\ t.review = m.review))
      BY <2>2 DEF OnTheCardOf
    <3>3. x \in turns'
      BY <2>2
    <3> HIDE DEF x
    <3>4. \A t \in turns' : /\ t.review \in Reviews /\ t.at \in Heads /\ t.at <= github'.head
                            /\ t.side = "reviewer" /\ t.review \notin astray' => review'[t.review].reviewedSha <= t.at
      BY <3>1, <3>2, <2>2, <1>1, <1>0, <1>00 DEF AstrayGrows
    <3>5. \A t, u \in turns' : t.side = "reviewer" /\ u.side = "reviewer" /\ t.review = u.review => t = u
      BY <3>1, <3>2, <1>0
    <3> QED
      BY <3>4, <3>5 DEF TurnsGood
  <2> QED
    BY <2>1, <2>2 DEF TurnsMove
<1>2. CASE Followed
  <2>1. \A r \in Reviews : review'[r].reviewedSha = review[r].reviewedSha
    BY <1>2 DEF Followed, Follows
  <2> QED
    BY <2>1, <1>1
<1>3. ASSUME NEW t \in turns, Judgement(t) PROVE TurnsGood'
  <2>1. t.side = "reviewer" /\ turns' = turns /\ github' = github
    BY <1>3 DEF Judgement
  <2>2. PICK v : review' = [review EXCEPT ![t.review] = v] /\ (t.review \in astray' \/ v.reviewedSha = t.at)
    BY <1>3 DEF Judgement
  <2>3. \A u \in turns : u.side = "reviewer" /\ u.review \notin astray' => review'[u.review].reviewedSha <= u.at
    <3> SUFFICES ASSUME NEW u \in turns, u.side = "reviewer", u.review \notin astray'
                 PROVE  review'[u.review].reviewedSha <= u.at
      OBVIOUS
    <3>1. CASE u.review = t.review
      BY <3>1, <2>1, <2>2, <1>0, <1>00 DEF IInv, StoreGood
    <3>2. CASE u.review # t.review
      BY <3>2, <2>2, <1>0 DEF IInv, StoreGood, AstrayGrows
    <3> QED
      BY <3>1, <3>2
  <2> QED
    BY <2>1, <2>3, <1>0 DEF TurnsGood
<1>4. CASE Insertion
  <2>1. \A r \in Reviews : review'[r].reviewedSha = review[r].reviewedSha
    BY <1>4, InLine, NewReviewGood DEF Insertion, IInv, StoreGood
  <2> QED
    BY <2>1, <1>1
<1> QED
  BY <1>2, <1>3, <1>4 DEF StoreMoves

\* And so does the work under way.
LEMMA WorkStep ==
  ASSUME IInv, StoreMoves, GithubMoves, WorkMoves, AstrayGrows
  PROVE  WorkGood'
<1>0. \A r \in Reviews : /\ r \notin astray' => review[r].reviewedSha <= review'[r].reviewedSha
                         /\ review[r].phase # "absent" => review'[r].phase # "absent"
                         /\ review[r].reviewedSha \in Nat /\ review'[r].reviewedSha \in Nat
  <2> TAKE r \in Reviews
  <2>1. /\ r \notin astray' => review[r].reviewedSha <= review'[r].reviewedSha
        /\ review[r].phase # "absent" => review'[r].phase # "absent"
    BY StoreGrows
  <2>2. review[r] \in ReviewType /\ review'[r] \in ReviewType
    BY DEF IInv, StoreGood, StoreMoves
  <2>3. review[r].reviewedSha \in 0 .. MaxHead /\ review'[r].reviewedSha \in 0 .. MaxHead
    BY <2>2 DEF ReviewType
  <2>4. \A n \in 0 .. MaxHead : n \in Nat
    OBVIOUS
  <2> QED
    BY <2>1, <2>3, <2>4
<1>1. \A m \in merges' : MergeGood(m)'
  <2> SUFFICES ASSUME NEW m \in merges' PROVE MergeGood(m)'
    OBVIOUS
  <2>1. CASE m \in merges
    <3>1. m \in MergeCalls /\ Exists(m.review)
          /\ (m.review \notin astray => m.sha <= review[m.review].reviewedSha)
          /\ (m.auto /\ m.pc \notin {"approval", "refused"} => m.proven \in github.approved)
      BY <2>1 DEF IInv, WorkGood, MergeGood
    <3>2. m.review \in Reviews /\ m.sha \in Int
      BY <3>1 DEF MergeCalls
    <3>3. /\ m.review \notin astray' => m.sha <= review'[m.review].reviewedSha
          /\ review'[m.review].phase # "absent"
      BY <3>1, <3>2, <1>0 DEF Exists, AstrayGrows
    <3> QED
      BY <3>1, <3>2, <3>3 DEF MergeGood, Exists, GithubMoves
  <2>2. CASE m \notin merges
    <3>1. MergeNew(m)
      BY <2>2 DEF WorkMoves
    <3>2. m.review \in Reviews
      BY <3>1 DEF MergeNew, MergeCalls
    <3> QED
      BY <3>1, <3>2 DEF MergeNew, MergeGood, Exists
  <2> QED
    BY <2>1, <2>2
<1>2. \A t \in syncs' : t \in Readings /\ Exists(t.review)'
  BY <1>0 DEF IInv, WorkGood, WorkMoves, Exists, Readings
<1>3. \A m \in sends' : Exists(m.review)'
  BY <1>0 DEF IInv, WorkGood, WorkMoves, Exists
<1>4. \A r \in merging' : Exists(r)'
  BY <1>0 DEF IInv, WorkGood, WorkMoves, Exists
<1> QED
  BY <1>1, <1>2, <1>3, <1>4 DEF IInv, WorkGood, WorkMoves

\* A step that makes these moves keeps the invariant.
LEMMA MovesKeep == IInv /\ Moves /\ AstrayGrows => IInv'
  BY StoreStep, LineStep, TurnsStep, WorkStep DEF Moves, IInv, GithubMoves

-----------------------------------------------------------------------------
(* Every step makes these moves: group by group of Next.                   *)

\* Spending a count leaves alone what the AIs may say.
LEMMA Spent ==
  ASSUME BudgetGood, NEW what, what \notin {"severities", "verdicts"}, Spends(what)
  PROVE  BudgetGood'
  BY DEF BudgetGood, Spends

\* And so does spending several.
LEMMA SpentAll ==
  ASSUME BudgetGood, NEW S, S \cap {"severities", "verdicts"} = {}, SpendsAll(S)
  PROVE  BudgetGood'
  BY DEF BudgetGood, SpendsAll

\* What the other lemmas need of the reviews.
LEMMA ReviewsTyped ==
  ASSUME IInv
  PROVE  /\ review \in [Reviews -> ReviewType] /\ github \in PullRequests
         /\ \A r \in Reviews : GoodReview(review[r]) /\ Follows(review[r], review[r])
         /\ github.head \in Heads /\ github.head \in Nat
         /\ \A r \in Reviews : review[r].reviewedSha \in 0 .. MaxHead
                            /\ (r \notin astray => review[r].reviewedSha <= github.head)
         /\ \E pc : \E S \in SUBSET Reviews : delivery = [pc |-> pc, review |-> S]
<1>1. review \in [Reviews -> ReviewType] /\ github \in PullRequests
  BY DEF IInv, StoreGood
<1>2. \A r \in Reviews : GoodReview(review[r]) /\ Follows(review[r], review[r])
  BY DEF IInv, StoreGood, Follows
<1>3. github.head \in Heads /\ github.head \in Nat
  BY <1>1 DEF PullRequests, Heads
<1>4. \A r \in Reviews : review[r].reviewedSha \in 0 .. MaxHead
                            /\ (r \notin astray => review[r].reviewedSha <= github.head)
  BY <1>1 DEF IInv, StoreGood, ReviewType
<1> QED
  BY <1>1, <1>2, <1>3, <1>4 DEF IInv, WorkGood

\* A mutation of one review that follows from what it was.
LEMMA OneFollows ==
  ASSUME IInv, NEW r \in Reviews, NEW v, Follows(review[r], v), review' = [review EXCEPT ![r] = v]
  PROVE  /\ StoreMoves /\ Followed
         /\ \A q \in Reviews : review[q].phase # "absent" => review'[q].phase # "absent"
         /\ \A q \in Reviews : ~Active(review[q]) => ~Active(review'[q])
<1>1. v \in ReviewType
  BY DEF Follows, GoodReview
<1>2. review \in [Reviews -> ReviewType] /\ \A q \in Reviews : Follows(review[q], review[q])
  BY ReviewsTyped
<1>3. Followed
  BY <1>2 DEF Followed
<1>4. review' \in [Reviews -> ReviewType]
  BY <1>1, <1>2
<1> QED
  BY <1>3, <1>4 DEF StoreMoves, Followed, Follows

\* Steps that write no review.
LEMMA Unwritten ==
  ASSUME IInv, UNCHANGED review
  PROVE  StoreMoves /\ \A r \in Reviews : review'[r].phase = review[r].phase
  BY ReviewsTyped DEF StoreMoves, Followed

\* A text reaches its card, or does not.
LEMMA RelayMoves ==
  ASSUME IInv, NEW m \in sends, SendLands(m) \/ SendFails(m)
  PROVE  Moves
<1>0. m.review \in Reviews /\ review[m.review].phase # "absent" /\ BudgetGood
  BY DEF IInv, WorkGood, Exists
<1> DEFINE v == review[m.review]
<1>1. GoodReview(v) /\ Follows(v, v)
  BY <1>0, ReviewsTyped
<1>2. Follows(v, relayDelivered(m, v)) /\ Follows(v, relayFailed(m, v))
  <2>1. v.phase = "ready" => Follows(v, [v EXCEPT !.approvePending = TRUE]) /\ Follows(v, [v EXCEPT !.approvePending = FALSE])
    BY <1>0, <1>1, FieldsFollow
  <2>2. Follows(v, Skipped(v, m.skip)) /\ Follows(v, Undelivered(v, m))
    BY <1>0, <1>1, SkippedFollows, SystemFollows
  <2> HIDE DEF v
  <2> QED
    BY <1>1, <2>1, <2>2 DEF relayDelivered, relayFailed
<1>3. CASE SendLands(m)
  <2>1. StoreMoves
    BY <1>0, <1>2, <1>3, OneFollows DEF SendLands, Sets
  <2>2. TurnsMove
    BY <1>0, <1>3 DEF SendLands, TurnsMove, outside
  <2>3. LineMoves /\ GithubMoves /\ WorkMoves /\ BudgetGood'
    BY <1>0, <1>3, ReviewsTyped DEF SendLands, LineMoves, GithubMoves, WorkMoves, BudgetGood, outside
  <2> QED
    BY <2>1, <2>2, <2>3 DEF Moves
<1>4. CASE SendFails(m)
  <2>1. StoreMoves
    BY <1>0, <1>2, <1>4, OneFollows DEF SendFails, Sets
  <2>2. BudgetGood'
    BY <1>0, <1>4, Spent DEF SendFails
  <2>3. TurnsMove /\ LineMoves /\ GithubMoves /\ WorkMoves
    BY <1>4, ReviewsTyped DEF SendFails, TurnsMove, LineMoves, GithubMoves, WorkMoves, outside
  <2> QED
    BY <2>1, <2>2, <2>3 DEF Moves
<1> QED
  BY <1>3, <1>4

\* The line of startReview: the check, the insertion, a card that fails.
LEMMA StartMoves ==
  ASSUME IInv, NEW i \in DOMAIN starting, StartChecks(i) \/ StartInserts(i) \/ StartFails(i)
  PROVE  Moves
<1>0. i = 1 /\ 1 \in DOMAIN starting /\ BudgetGood /\ starting[1].review \in Reviews
  BY InLine DEF IInv, StartChecks, StartInserts, StartFails, Serves
<1>1. CASE StartChecks(i)
  <2>1. UNCHANGED review
    BY <1>1 DEF StartChecks
  <2>2. LineMoves
    <3>1. CASE mayStart
      BY <1>0, <1>1, <2>1, <3>1 DEF StartChecks, LineMoves, mayStart
    <3>2. CASE ~mayStart
      BY <1>0, <1>1, <3>2 DEF StartChecks, LineMoves
    <3> QED
      BY <3>1, <3>2
  <2>3. StoreMoves
    BY <2>1, Unwritten
  <2>4. TurnsMove /\ GithubMoves /\ WorkMoves /\ BudgetGood'
    BY <1>0, <1>1, ReviewsTyped DEF StartChecks, TurnsMove, GithubMoves, WorkMoves, BudgetGood, service, outside
  <2> QED
    BY <2>2, <2>3, <2>4 DEF Moves
<1>2. CASE StartInserts(i)
  <2> DEFINE r == starting[1].review
  <2>1. r \in Reviews /\ review' = [review EXCEPT ![r] = FreshReview]
    BY <1>0, <1>2 DEF StartInserts, Sets
  <2>2. FreshReview \in ReviewType /\ FreshReview.phase # "absent"
    BY NewReviewGood DEF GoodReview, Active
  <2>3. review' \in [Reviews -> ReviewType] /\ review'[r].phase # "absent"
    BY <2>1, <2>2, ReviewsTyped
  <2>4. Insertion
    BY <1>0, <1>2, <2>1 DEF StartInserts, Insertion, outside
  <2>5. StoreMoves /\ LineMoves /\ TurnsMove
    BY <2>3, <2>4 DEF StoreMoves, LineMoves, Insertion, TurnsMove
  <2>6. \A m \in sends' \ sends : m.review = r
    BY <1>0, <1>2 DEF StartInserts, Relay
  <2>7. GithubMoves /\ BudgetGood'
    BY <1>0, <1>2, ReviewsTyped DEF StartInserts, GithubMoves, BudgetGood, outside
  <2> HIDE DEF r
  <2>8. WorkMoves
    BY <2>1, <2>3, <2>6, <1>2, ReviewsTyped DEF StartInserts, WorkMoves
  <2> QED
    BY <2>5, <2>7, <2>8 DEF Moves
<1>3. CASE StartFails(i)
  <2>1. StoreMoves /\ LineMoves
    BY <1>0, <1>3, Unwritten DEF StartFails, LineMoves
  <2>2. BudgetGood'
    BY <1>0, <1>3, Spent DEF StartFails
  <2>3. TurnsMove /\ GithubMoves /\ WorkMoves
    BY <1>3, ReviewsTyped DEF StartFails, TurnsMove, GithubMoves, WorkMoves, service, outside
  <2> QED
    BY <2>1, <2>2, <2>3 DEF Moves
<1> QED
  BY <1>1, <1>2, <1>3

\* A reading remembers a review under way.
LEMMA ReadingTyped ==
  ASSUME IInv, NEW r \in Reviews
  PROVE  Reads(r) \in Readings /\ Reads(r).review = r
<1>1. review[r] \in ReviewType /\ github \in PullRequests
  BY ReviewsTyped
<1> QED
  BY <1>1 DEF Reads, Seen, Readings, ReviewType, PullRequests

\* A merge that is asked for takes the commit the review judged last.
LEMMA CallTyped ==
  ASSUME IInv, NEW r \in Reviews, review[r].phase # "absent"
  PROVE  /\ MergeAsked(r) \in MergeCalls /\ MergeAsked(r).review = r /\ ~MergeAsked(r).auto
         /\ AutoMerge(r) \in MergeCalls /\ AutoMerge(r).review = r /\ AutoMerge(r).pc = "approval"
         /\ MergeAsked(r).sha = review[r].reviewedSha /\ AutoMerge(r).sha = review[r].reviewedSha
<1>1. review[r].reviewedSha \in 0 .. MaxHead /\ 0 \in 0 .. MaxHead
  BY ReviewsTyped
<1> QED
  BY <1>1 DEF MergeAsked, AutoMerge, MergeCalls

\* Turns end, and what follows once the grace is over.
LEMMA EndingMoves ==
  ASSUME IInv, (\E t \in turns : TurnEnds(t)) \/ (\E e \in ended : JudgesTurn(e) \/ IgnoresTurn(e))
  PROVE  Moves
<1>0. /\ BudgetGood /\ \A t \in turns : t.review \in Reviews
      /\ \A e \in ended : e.review \in Reviews
  BY DEF IInv, TurnsGood, WorkGood
<1>1. ASSUME NEW t \in turns, TurnEnds(t) PROVE Moves
  <2>1. StoreMoves /\ LineMoves /\ TurnsMove
    BY <1>1, Unwritten DEF TurnEnds, LineMoves, TurnsMove
  <2>2. GithubMoves
    <3>1. github' = github \/ github' = [github EXCEPT !.approved = @ \cup {github.head}]
      BY <1>1 DEF TurnEnds
    <3> QED
      BY <3>1, ReviewsTyped DEF GithubMoves, PullRequests
  <2>3. BudgetGood'
    <3>1. SpendsAll({}) \/ SpendsAll({"silent"}) \/ SpendsAll({"together"}) \/ SpendsAll({"silent", "together"})
      BY <1>1 DEF TurnEnds
    <3> QED
      BY <3>1, <1>0, SpentAll
  <2>4. \A e \in ended' \ ended : e.review = t.review
    BY <1>1 DEF TurnEnds, Event
  <2>5. WorkMoves
    BY <1>0, <1>1, <2>4, ReviewsTyped DEF TurnEnds, WorkMoves
  <2> QED
    BY <2>1, <2>2, <2>3, <2>5 DEF Moves
<1>2. ASSUME NEW e \in ended, NEW S \in PushChecks(e), NEW t \in S
      PROVE  t \in Readings /\ t.review \in Reviews /\ review[t.review].phase # "absent"
  <2>1. \E r \in Reviews : Active(review[r]) /\ t = Reads(r)
    BY <1>2 DEF PushChecks
  <2> QED
    BY <2>1, ReadingTyped DEF Active
<1>3. ASSUME NEW e \in ended, JudgesTurn(e) PROVE Moves
  <2>0. e.review \in Reviews
    BY <1>0
  <2>1. \A r \in Waiting(e) : r \in Reviews /\ review[r].phase # "absent"
    BY DEF Waiting, awaitingTool
  <2>2. review' = [r \in Reviews |-> IF r \in Waiting(e) THEN Judged(review[r], e.side) ELSE review[r]]
    BY <1>3 DEF JudgesTurn
  <2>3. \A r \in Reviews : Follows(review[r], review'[r])
    <3> SUFFICES ASSUME NEW r \in Reviews PROVE Follows(review[r], review'[r])
      OBVIOUS
    <3>1. GoodReview(review[r]) /\ Follows(review[r], review[r])
      BY ReviewsTyped
    <3>2. r \in Waiting(e) => Follows(review[r], Judged(review[r], e.side))
      BY <2>1, <3>1, SystemFollows
    <3> QED
      BY <2>2, <3>1, <3>2
  <2>4. StoreMoves
    <3>1. \A r \in Reviews : review'[r] \in ReviewType
      BY <2>3 DEF Follows, GoodReview
    <3>2. review' \in [Reviews -> ReviewType]
      BY <2>2, <3>1
    <3> QED
      BY <2>3, <3>2 DEF StoreMoves, Followed
  <2>5. \A r \in Reviews : review[r].phase # "absent" =>
                             review'[r].phase # "absent" /\ review'[r].reviewedSha = review[r].reviewedSha
    BY <2>3 DEF Follows
  <2>6. \A m \in sends' \ sends : m.review \in Reviews /\ review'[m.review].phase # "absent"
    <3>1. \A m \in sends' \ sends : m.review \in Waiting(e)
      <4> TAKE m \in sends' \ sends
      <4>1. PICK r \in Waiting(e) : m = Relay(r, review'[r], e.side, "turn")
        BY <1>3 DEF JudgesTurn
      <4>2. m.review = r
        BY <4>1 DEF Relay
      <4> QED
        BY <4>1, <4>2
    <3> QED
      BY <3>1, <2>1, <2>5
  <2>7. \A m \in merges' \ merges : MergeNew(m)
    <3> SUFFICES ASSUME NEW m \in merges' \ merges PROVE MergeNew(m)
      OBVIOUS
    <3>1. EndsAutoMerge(e) /\ m = AutoMerge(e.review)
      BY <1>3 DEF JudgesTurn
    <3>2. review[e.review].phase # "absent"
      BY <3>1 DEF EndsAutoMerge, autoMergeEligible
    <3>3. /\ m \in MergeCalls /\ m.review = e.review /\ m.pc = "approval"
          /\ m.sha = review[e.review].reviewedSha
      BY <2>0, <3>1, <3>2, CallTyped
    <3>4. review'[e.review].phase # "absent" /\ review'[e.review].reviewedSha = m.sha /\ m.sha \in Int
      BY <2>0, <2>5, <3>2, <3>3, ReviewsTyped
    <3> QED
      BY <3>3, <3>4 DEF MergeNew
  <2>8. \A t \in syncs' \ syncs : t \in Readings /\ review'[t.review].phase # "absent"
    BY <1>2, <1>3, <2>5 DEF JudgesTurn
  <2>9. WorkMoves
    BY <1>3, <2>6, <2>7, <2>8, ReviewsTyped DEF JudgesTurn, WorkMoves
  <2>10. LineMoves /\ TurnsMove /\ GithubMoves /\ BudgetGood'
    BY <1>0, <1>3, ReviewsTyped DEF JudgesTurn, LineMoves, TurnsMove, GithubMoves, BudgetGood, outside
  <2> QED
    BY <2>4, <2>9, <2>10 DEF Moves
<1>4. ASSUME NEW e \in ended, IgnoresTurn(e) PROVE Moves
  <2>1. StoreMoves /\ LineMoves /\ TurnsMove /\ GithubMoves
    BY <1>4, Unwritten, ReviewsTyped DEF IgnoresTurn, LineMoves, TurnsMove, GithubMoves, outside
  <2>2. BudgetGood'
    BY <1>0, <1>4, Spent DEF IgnoresTurn
  <2>3. WorkMoves
    BY <1>2, <1>4, ReviewsTyped DEF IgnoresTurn, WorkMoves
  <2> QED
    BY <2>1, <2>2, <2>3 DEF Moves
<1> QED
  BY <1>1, <1>3, <1>4

\* A reading of GitHub: the check, the failure, and what it writes.
LEMMA SyncMoves ==
  ASSUME IInv, NEW t \in syncs, SyncChecks(t) \/ SyncFails(t) \/ SyncWrites(t)
  PROVE  Moves
<1>0. t \in Readings /\ t.review \in Reviews /\ review[t.review].phase # "absent" /\ BudgetGood
  BY DEF IInv, WorkGood, Exists
<1>1. CASE SyncChecks(t)
  <2>1. StoreMoves /\ LineMoves /\ TurnsMove /\ GithubMoves /\ BudgetGood'
    BY <1>0, <1>1, Unwritten, ReviewsTyped
       DEF SyncChecks, LineMoves, TurnsMove, GithubMoves, BudgetGood, service, outside
  <2>2. [t EXCEPT !.pc = "write"] \in Readings /\ [t EXCEPT !.pc = "write"].review = t.review
    BY <1>0 DEF Readings
  <2>3. WorkMoves
    BY <1>0, <1>1, <2>2, ReviewsTyped DEF SyncChecks, WorkMoves, service
  <2> QED
    BY <2>1, <2>3 DEF Moves
<1>2. CASE SyncFails(t)
  <2>1. StoreMoves /\ LineMoves /\ TurnsMove /\ GithubMoves /\ WorkMoves
    BY <1>2, Unwritten, ReviewsTyped
       DEF SyncFails, LineMoves, TurnsMove, GithubMoves, WorkMoves, service, outside
  <2>2. BudgetGood'
    BY <1>0, <1>2, Spent DEF SyncFails
  <2> QED
    BY <2>1, <2>2 DEF Moves
<1>3. CASE SyncWrites(t)
  <2> DEFINE r == t.review
             u == review[r]
             v == HeadSeen(t, u)
             reopens == t.state = "open" /\ FindsPush(t, u) /\ Reopens(v, t.head)
             w == CASE t.state = "merged" -> Merged(u)
                    [] t.state = "closed" -> CancelledBySystem(u)
                    [] OTHER -> IF reopens THEN Reopened(v, t.head) ELSE v
  <2>1. review' = [review EXCEPT ![r] = w]
    BY <1>3 DEF SyncWrites, Sets
  <2>2. sends' = sends \cup IF reopens THEN {Relay(r, w, "reviewer", "turn")} ELSE {}
    BY <1>3 DEF SyncWrites
  <2>3. Follows(u, v)
    <3>1. t.head \in 0 .. MaxHead
      BY <1>0 DEF Readings, Heads
    <3>2. Follows(u, u) /\ Follows(u, [u EXCEPT !.prHeadSha = t.head])
      BY <1>0, <3>1, ReviewsTyped, FieldsFollow
    <3> QED
      BY <3>2 DEF HeadSeen
  <2>4. Follows(u, Merged(u)) /\ Follows(u, CancelledBySystem(u))
    BY <1>0, ReviewsTyped, SystemFollows
  <2>5. Follows(v, Reopened(v, t.head))
    BY <2>3, ReopenedFollows DEF Follows
  <2> HIDE DEF reopens, v
  <2>6. Follows(u, w)
    BY <2>3, <2>4, <2>5 DEF Follows
  <2>7. \A m \in sends' \ sends : m.review = r
    BY <2>2 DEF Relay
  <2> HIDE DEF w
  <2>8. /\ StoreMoves
        /\ \A q \in Reviews : review[q].phase # "absent" => review'[q].phase # "absent"
    BY <1>0, <2>1, <2>6, OneFollows
  <2>9. \A m \in sends' \ sends : m.review \in Reviews /\ review'[m.review].phase # "absent"
    BY <1>0, <2>7, <2>8
  <2> HIDE DEF u, r
  <2>10. /\ UNCHANGED <<starting, turns, ended, github, merging, merges, delivery, budget>>
         /\ syncs' \subseteq syncs
    BY <1>3 DEF SyncWrites
  <2>11. LineMoves /\ TurnsMove /\ GithubMoves /\ BudgetGood'
    BY <1>0, <2>10, ReviewsTyped DEF LineMoves, TurnsMove, GithubMoves, BudgetGood
  <2>12. WorkMoves
    BY <2>9, <2>10, ReviewsTyped DEF WorkMoves
  <2> QED
    BY <2>8, <2>11, <2>12 DEF Moves
<1> QED
  BY <1>1, <1>2, <1>3

\* A merge goes on, or is refused: the commit and the proof stay.
LEMMA CallGoesOn ==
  ASSUME IInv, StoreMoves, GithubMoves, AstrayGrows, NEW m \in merges
  PROVE  /\ MergeNew([m EXCEPT !.pc = "refused"])
         /\ m.pc \notin {"approval", "refused"} =>
              \A pc \in {"pr", "gate", "script", "merged"} : MergeNew([m EXCEPT !.pc = pc])
<1>1. /\ m \in MergeCalls /\ m.review \in Reviews /\ review[m.review].phase # "absent"
      /\ m.review \notin astray => m.sha <= review[m.review].reviewedSha
      /\ m.auto /\ m.pc \notin {"approval", "refused"} => m.proven \in github.approved
  BY DEF IInv, WorkGood, MergeGood, Exists
<1>2. m.sha \in Int /\ review[m.review].reviewedSha \in Int /\ review'[m.review].reviewedSha \in Int
  BY <1>1 DEF IInv, StoreGood, StoreMoves, ReviewType, MergeCalls
<1>3. /\ review'[m.review].phase # "absent"
      /\ m.review \notin astray' => m.sha <= review'[m.review].reviewedSha
  BY <1>1, <1>2, StoreGrows DEF AstrayGrows
<1>4. ASSUME NEW pc \in {"refused", "pr", "gate", "script", "merged"}
      PROVE  /\ [m EXCEPT !.pc = pc] \in MergeCalls
             /\ [m EXCEPT !.pc = pc].review = m.review /\ [m EXCEPT !.pc = pc].sha = m.sha
             /\ [m EXCEPT !.pc = pc].auto = m.auto /\ [m EXCEPT !.pc = pc].proven = m.proven
             /\ [m EXCEPT !.pc = pc].pc = pc
  BY <1>1 DEF MergeCalls
<1> QED
  BY <1>1, <1>3, <1>4 DEF MergeNew, GithubMoves

\* What a refusal does to the calls and the claims.
LEMMA RefusalMoves ==
  ASSUME IInv, StoreMoves, GithubMoves, AstrayGrows, NEW m \in merges,
         \/ \E aRace \in BOOLEAN : Refused(m, aRace)
         \/ m.pc \notin {"approval", "refused"} /\ \E pc \in {"pr", "gate", "script", "merged"} : Goes(m, pc)
  PROVE  (\A x \in merges' \ merges : MergeNew(x)) /\ merging' \subseteq merging
<1>1. merging' \subseteq merging
  BY DEF Refused, Goes, releaseMerge
<1>2. ASSUME NEW x \in merges' \ merges PROVE MergeNew(x)
  <2>1. CASE \E aRace \in BOOLEAN : Refused(m, aRace)
    <3>1. x = [m EXCEPT !.pc = "refused"]
      BY <1>2, <2>1 DEF Refused
    <3> QED
      BY <3>1, CallGoesOn
  <2>2. CASE m.pc \notin {"approval", "refused"} /\ \E pc \in {"pr", "gate", "script", "merged"} : Goes(m, pc)
    <3>1. PICK pc \in {"pr", "gate", "script", "merged"} : x = [m EXCEPT !.pc = pc]
      BY <1>2, <2>2 DEF Goes
    <3>2. MergeNew([m EXCEPT !.pc = pc])
      BY <2>2, CallGoesOn
    <3> QED
      BY <3>1, <3>2
  <2> QED
    BY <2>1, <2>2
<1> QED
  BY <1>1, <1>2

\* GitHub takes the merge of a call.
LEMMA TakenMoves ==
  ASSUME IInv, NEW m \in merges, github' = MergedBy("panel", m)
  PROVE  GithubMoves
<1>1. {m} \in SUBSET MergeCalls
  BY DEF IInv, WorkGood, MergeGood
<1>2. github \in PullRequests
  BY ReviewsTyped
<1>3. /\ MergedBy("panel", m) \in PullRequests
      /\ MergedBy("panel", m).head = github.head /\ MergedBy("panel", m).approved = github.approved
  BY <1>1, <1>2 DEF MergedBy, PullRequests
<1> QED
  BY <1>2, <1>3, ReviewsTyped DEF GithubMoves

\* The steps of a merge.
LEMMA MergeMoves ==
  ASSUME IInv, NEW m \in merges, MergeStep(m)
  PROVE  Moves
<1>0. /\ m \in MergeCalls /\ m.review \in Reviews /\ review[m.review].phase # "absent" /\ BudgetGood
      /\ GoodReview(review[m.review]) /\ review[m.review].reviewedSha \in 0 .. MaxHead
  BY ReviewsTyped DEF IInv, WorkGood, MergeGood, Exists
<1>00. AstrayGrows
  BY DEF AstrayGrows, MergeStep, AutoMergeAsks, MergeClaims, MergeResolves, MergeGates, MergeScript,
         MergeCloses, refuseAutoMerge, history
<1> DEFINE r == m.review
           v == review[m.review]
<1>1. CASE AutoMergeAsks(m)
  <2>1. StoreMoves /\ LineMoves /\ TurnsMove /\ GithubMoves /\ BudgetGood'
    BY <1>0, <1>1, Unwritten, ReviewsTyped
       DEF AutoMergeAsks, LineMoves, TurnsMove, GithubMoves, BudgetGood, service, outside
  <2>2. CASE \E aRace \in BOOLEAN : Refused(m, aRace)
    <3>1. (\A x \in merges' \ merges : MergeNew(x)) /\ merging' \subseteq merging
      BY <1>00, <2>1, <2>2, RefusalMoves
    <3> QED
      BY <1>1, <2>1, <3>1, ReviewsTyped DEF AutoMergeAsks, WorkMoves, Moves, service
  <2>3. ASSUME m.sha \in github.approved, mayAsk(r), UNCHANGED merging,
               merges' = (merges \ {m}) \cup {[m EXCEPT !.pc = "claim", !.proven = m.sha,
                                                   !.sha = review[r].reviewedSha]}
        PROVE  Moves
    <3> DEFINE x == [m EXCEPT !.pc = "claim", !.proven = m.sha, !.sha = review[r].reviewedSha]
    <3>1. /\ x \in MergeCalls /\ x.review = r /\ x.pc = "claim" /\ x.proven = m.sha
          /\ x.sha = review[r].reviewedSha
      BY <1>0 DEF MergeCalls
    <3>2. x.proven \in github'.approved /\ review' = review
      BY <1>1, <2>3, <3>1 DEF AutoMergeAsks, outside
    <3>3. MergeNew(x)
      BY <1>0, <3>1, <3>2 DEF MergeNew
    <3> HIDE DEF x
    <3>4. \A y \in merges' \ merges : MergeNew(y)
      BY <2>3, <3>3 DEF x
    <3> QED
      BY <1>1, <2>1, <2>3, <3>4, ReviewsTyped DEF AutoMergeAsks, WorkMoves, Moves, service
  <2> QED
    BY <1>1, <2>2, <2>3 DEF AutoMergeAsks
<1>2. CASE MergeClaims(m)
  <2>1. StoreMoves /\ LineMoves /\ TurnsMove /\ GithubMoves /\ BudgetGood'
    BY <1>0, <1>2, Unwritten, ReviewsTyped
       DEF MergeClaims, LineMoves, TurnsMove, GithubMoves, BudgetGood, service, outside
  <2>2. (\A x \in merges' \ merges : MergeNew(x)) /\ merging' \subseteq merging \cup {r}
    <3>1. CASE Refused(m, TRUE)
      BY <1>00, <2>1, <3>1, RefusalMoves
    <3>2. CASE merges' = (merges \ {m}) \cup {[m EXCEPT !.pc = "pr"]} /\ merging' = merging \cup {r}
      <4>1. MergeNew([m EXCEPT !.pc = "pr"])
        BY <1>00, <1>2, <2>1, CallGoesOn DEF MergeClaims
      <4> QED
        BY <3>2, <4>1
    <3> QED
      BY <1>2, <3>1, <3>2 DEF MergeClaims
  <2>3. WorkMoves
    BY <1>0, <1>2, <2>2, ReviewsTyped DEF MergeClaims, WorkMoves, service
  <2> QED
    BY <2>1, <2>3 DEF Moves
<1>3. CASE MergeResolves(m)
  <2> DEFINE moved == github.state = "open" /\ github.head # m.sha
  <2>0. /\ UNCHANGED <<starting, turns, ended, github, syncs, delivery, budget>>
        /\ m.pc = "pr" /\ \/ Goes(m, "gate")
                          \/ Refused(m, moved)
        /\ IF moved THEN Sets(r, Reopened(v, 0)) ELSE UNCHANGED review
        /\ \A x \in sends' \ sends : x.review = r
    BY <1>3 DEF MergeResolves, Relay, outside
  <2>1. /\ StoreMoves
        /\ \A q \in Reviews : review[q].phase # "absent" => review'[q].phase # "absent"
    <3>1. Follows(v, Reopened(v, 0))
      BY <1>0, ReopenedFollows
    <3>2. CASE moved
      BY <1>0, <2>0, <3>1, <3>2, OneFollows DEF Sets
    <3>3. CASE ~moved
      BY <2>0, <3>3, Unwritten
    <3> QED
      BY <3>2, <3>3
  <2>2. LineMoves /\ TurnsMove /\ GithubMoves /\ BudgetGood'
    BY <1>0, <2>0, ReviewsTyped DEF LineMoves, TurnsMove, GithubMoves, BudgetGood
  <2>3. (\A x \in merges' \ merges : MergeNew(x)) /\ merging' \subseteq merging
    <3>1. moved \in BOOLEAN
      OBVIOUS
    <3> HIDE DEF moved
    <3> QED
      BY <1>00, <2>0, <2>1, <2>2, <3>1, RefusalMoves
  <2>4. WorkMoves
    BY <1>0, <2>0, <2>1, <2>3, ReviewsTyped DEF WorkMoves
  <2> QED
    BY <2>1, <2>2, <2>4 DEF Moves
<1>4. CASE MergeGates(m)
  <2>1. StoreMoves /\ LineMoves /\ TurnsMove /\ GithubMoves
    BY <1>4, Unwritten, ReviewsTyped DEF MergeGates, LineMoves, TurnsMove, GithubMoves, service, outside
  <2>2. (\A x \in merges' \ merges : MergeNew(x)) /\ merging' \subseteq merging
    BY <1>00, <1>4, <2>1, RefusalMoves DEF MergeGates
  <2>3. BudgetGood'
    <3>1. Spends("fail") \/ UNCHANGED budget
      BY <1>4 DEF MergeGates
    <3> QED
      BY <1>0, <3>1, Spent DEF BudgetGood
  <2>4. WorkMoves
    BY <1>4, <2>2, ReviewsTyped DEF MergeGates, WorkMoves, service
  <2> QED
    BY <2>1, <2>3, <2>4 DEF Moves
<1>5. CASE MergeScript(m)
  <2>1. GithubMoves
    <3>1. github' = MergedBy("panel", m) \/ github' = github
      BY <1>5 DEF MergeScript
    <3>2. github' = github => GithubMoves
      BY ReviewsTyped DEF GithubMoves
    <3> QED
      BY <3>1, <3>2, TakenMoves
  <2>2. StoreMoves /\ LineMoves /\ TurnsMove
    BY <1>5, Unwritten DEF MergeScript, LineMoves, TurnsMove, service
  <2>3. (\A x \in merges' \ merges : MergeNew(x)) /\ merging' \subseteq merging
    BY <1>00, <1>5, <2>1, <2>2, RefusalMoves DEF MergeScript
  <2>4. BudgetGood'
    <3>1. Spends("fail") \/ UNCHANGED budget
      BY <1>5 DEF MergeScript
    <3> QED
      BY <1>0, <3>1, Spent DEF BudgetGood
  <2>5. WorkMoves
    BY <1>5, <2>3, ReviewsTyped DEF MergeScript, WorkMoves, service
  <2> QED
    BY <2>1, <2>2, <2>4, <2>5 DEF Moves
<1>6. CASE MergeCloses(m)
  <2>1. StoreMoves
    BY <1>0, <1>6, SystemFollows, OneFollows DEF MergeCloses, Sets
  <2>2. LineMoves /\ TurnsMove /\ GithubMoves /\ WorkMoves /\ BudgetGood'
    BY <1>0, <1>6, ReviewsTyped
       DEF MergeCloses, LineMoves, TurnsMove, GithubMoves, WorkMoves, BudgetGood, releaseMerge, service
  <2> QED
    BY <2>1, <2>2 DEF Moves
<1>7. CASE refuseAutoMerge(m)
  <2>1. StoreMoves
    <3>1. Follows(v, [v EXCEPT !.autoMergeFailedRound = v.round])
      BY <1>0, FieldsFollow
    <3>2. review' = [review EXCEPT ![r] = [v EXCEPT !.autoMergeFailedRound = v.round]]
      BY <1>7 DEF refuseAutoMerge, Sets
    <3> QED
      BY <1>0, <3>1, <3>2, OneFollows
  <2>2. LineMoves /\ TurnsMove /\ GithubMoves /\ WorkMoves /\ BudgetGood'
    BY <1>0, <1>7, ReviewsTyped
       DEF refuseAutoMerge, LineMoves, TurnsMove, GithubMoves, WorkMoves, BudgetGood, service, outside
  <2> QED
    BY <2>1, <2>2 DEF Moves
<1> QED
  BY <1>1, <1>2, <1>3, <1>4, <1>5, <1>6, <1>7 DEF MergeStep

\* The delivery of the author's card.
LEMMA DeliverMoves ==
  ASSUME IInv, Delivers
  PROVE  Moves
<1>0. BudgetGood /\ github \in PullRequests /\ github.head \in Heads /\ github.head \in Nat
  BY ReviewsTyped DEF IInv
<1>7. PICK dpc : \E S \in SUBSET Reviews : delivery = [pc |-> dpc, review |-> S]
  BY ReviewsTyped
<1>1. PICK D \in SUBSET Reviews : delivery = [pc |-> dpc, review |-> D]
  BY <1>7
<1>2. \E S \in SUBSET Reviews : NoDelivery = [pc |-> "none", review |-> S]
  BY DEF NoDelivery
<1>3. CASE deliverCard
  <2>1. StoreMoves /\ LineMoves /\ TurnsMove /\ GithubMoves
    BY <1>3, Unwritten, ReviewsTyped DEF deliverCard, LineMoves, TurnsMove, GithubMoves, service, outside
  <2>2. BudgetGood'
    BY <1>0, <1>3, Spent DEF deliverCard
  <2>3. WorkMoves
    BY <1>3 DEF deliverCard, WorkMoves, ActiveReviews, service
  <2> QED
    BY <2>1, <2>2, <2>3 DEF Moves
<1>4. CASE DeliverPushes
  <2>1. StoreMoves /\ LineMoves /\ TurnsMove /\ BudgetGood'
    BY <1>0, <1>4, Unwritten DEF DeliverPushes, LineMoves, TurnsMove, BudgetGood, service
  <2>2. GithubMoves
    <3>1. PICK head \in {github.head, github.head + 1} \cap Heads :
            github' = [github EXCEPT !.head = head] \/ github' = github
      BY <1>4 DEF DeliverPushes
    <3>2. github.head <= head
      BY <1>0, <3>1
    <3> QED
      BY <1>0, <3>1, <3>2 DEF GithubMoves, PullRequests
  <2>3. \A m \in merges' \ merges : MergeNew(m)
    <3> SUFFICES ASSUME NEW m \in merges' \ merges PROVE MergeNew(m)
      OBVIOUS
    <3>1. PICK r \in delivery.review : Active(review[r]) /\ m = MergeAsked(r)
      BY <1>4 DEF DeliverPushes
    <3>2. r \in Reviews /\ review[r].phase # "absent"
      BY <1>1, <3>1 DEF Active
    <3>3. m \in MergeCalls /\ m.review = r /\ ~m.auto /\ m.sha = review[r].reviewedSha /\ m.sha \in Int
      BY <3>1, <3>2, CallTyped, ReviewsTyped
    <3>4. review' = review
      BY <1>4 DEF DeliverPushes
    <3> QED
      BY <3>2, <3>3, <3>4 DEF MergeNew
  <2>4. \E pc : \E S \in SUBSET Reviews : delivery' = [pc |-> pc, review |-> S]
    <3>1. delivery' = NoDelivery \/ \E pc \in {"gate", "push"} : delivery' = [pc |-> pc, review |-> {}]
      BY <1>4 DEF DeliverPushes
    <3> QED
      BY <1>2, <3>1
  <2>5. WorkMoves
    BY <1>4, <2>3, <2>4 DEF DeliverPushes, WorkMoves, service
  <2> QED
    BY <2>1, <2>2, <2>5 DEF Moves
<1>5. CASE DeliverGates
  <2>1. StoreMoves /\ LineMoves /\ TurnsMove /\ GithubMoves
    BY <1>5, Unwritten, ReviewsTyped DEF DeliverGates, LineMoves, TurnsMove, GithubMoves, service, outside
  <2>2. BudgetGood'
    <3>1. Spends("fail") \/ UNCHANGED budget
      BY <1>5 DEF DeliverGates
    <3> QED
      BY <1>0, <3>1, Spent DEF BudgetGood
  <2>3. \E pc : \E S \in SUBSET Reviews : delivery' = [pc |-> pc, review |-> S]
    <3>1. delivery' = NoDelivery \/ delivery' = [delivery EXCEPT !.pc = "script"]
      BY <1>5 DEF DeliverGates
    <3>2. [delivery EXCEPT !.pc = "script"] = [pc |-> "script", review |-> D]
      BY <1>1
    <3> QED
      BY <1>2, <3>1, <3>2
  <2>4. WorkMoves
    BY <1>5, <2>3 DEF DeliverGates, WorkMoves, service
  <2> QED
    BY <2>1, <2>2, <2>4 DEF Moves
<1>6. CASE DeliverMerges
  <2>1. StoreMoves /\ LineMoves /\ TurnsMove /\ BudgetGood'
    BY <1>0, <1>6, Unwritten DEF DeliverMerges, LineMoves, TurnsMove, BudgetGood, service
  <2>2. GithubMoves
    <3> DEFINE x == [github EXCEPT !.state = "merged", !.by = "deliver"]
    <3>1. github' = github \/ github' = x
      BY <1>6 DEF DeliverMerges, outside
    <3>2. x \in PullRequests /\ x.head = github.head /\ x.approved = github.approved
      BY <1>0 DEF PullRequests
    <3> HIDE DEF x
    <3> QED
      BY <1>0, <3>1, <3>2 DEF GithubMoves
  <2>3. WorkMoves
    BY <1>2, <1>6 DEF DeliverMerges, WorkMoves, service
  <2> QED
    BY <2>1, <2>2, <2>3 DEF Moves
<1> QED
  BY <1>3, <1>4, <1>5, <1>6 DEF Delivers

\* A turn of the reviewer submits its round.
LEMMA SubmitMoves ==
  ASSUME IInv, NEW r \in Reviews, NEW t \in Calls(r, "reviewer"), NEW news \in NewOnes,
         NEW verdicts \in [DOMAIN review[r].findings -> budget.verdicts],
         NEW sha \in Heads, submitReviewerRound(r, t, verdicts, news, sha)
  PROVE  Moves
<1> DEFINE v == review[r]
           w == Submitted(v, verdicts, news, sha)
<1>0. BudgetGood /\ GoodReview(v) /\ v.phase = "reviewing"
  BY ReviewsTyped DEF IInv, submitReviewerRound, freshSubmit
<1>1. t \in turns /\ t.review = r /\ t.side = "reviewer" 
  BY DEF Calls
<1>2. news \in Seq(Severities) /\ verdicts \in [DOMAIN v.findings -> Verdicts]
  <2>1. \A s \in Severities : <<s>> \in Seq(Severities)
    OBVIOUS
  <2>2. news = <<>> \/ \E s \in Severities : news = <<s>>
    BY <1>0 DEF BudgetGood, NewOnes
  <2>3. <<>> \in Seq(Severities)
    OBVIOUS
  <2>4. budget.verdicts \subseteq Verdicts
    BY <1>0 DEF BudgetGood
  <2>5. verdicts \in [DOMAIN v.findings -> Verdicts]
    BY <2>4
  <2> QED
    BY <2>1, <2>2, <2>3, <2>5
<1>3. GoodReview(w) /\ Active(w) /\ w.reviewedSha = sha
  <2>1. Len(v.findings) + Len(news) <= MaxFindings
    BY DEF submitReviewerRound
  <2> QED
    BY <1>0, <1>1, <1>2, <2>1, SubmittedGood
<1>4. /\ review' = [review EXCEPT ![r] = w]
      /\ sends' = sends \cup Dispatched(r, w)
      /\ UNCHANGED <<starting, turns, ended, github, merging, merges, syncs, delivery>>
      /\ SpendsAll({}) \/ SpendsAll({"finding"}) \/ SpendsAll({"sha"}) \/ SpendsAll({"finding", "sha"})
      /\ sha = t.at \/ r \in astray'
  BY DEF submitReviewerRound, Sets, outside
<1>5. Active(v) /\ w.phase # "absent"
  BY <1>0, <1>3 DEF Active, CLOSED
<1> HIDE DEF w
<1>6. Judgement(t) /\ review' \in [Reviews -> ReviewType]
  BY <1>1, <1>3, <1>4, <1>5, ReviewsTyped DEF Judgement, GoodReview
<1>7. \A m \in sends' \ sends : m.review = r
  BY <1>4 DEF Dispatched, Relay
<1>8. \A m \in sends' \ sends : m.review \in Reviews /\ review'[m.review].phase # "absent"
  BY <1>4, <1>5, <1>7, ReviewsTyped
<1>9. BudgetGood'
  BY <1>0, <1>4, SpentAll
<1>10. StoreMoves /\ LineMoves /\ TurnsMove /\ GithubMoves
  BY <1>1, <1>4, <1>6, ReviewsTyped DEF StoreMoves, LineMoves, TurnsMove, GithubMoves
<1>11. WorkMoves
  BY <1>4, <1>8, ReviewsTyped DEF WorkMoves
<1> QED
  BY <1>9, <1>10, <1>11 DEF Moves

\* The author's AI answers.
LEMMA RespondMoves ==
  ASSUME IInv, NEW r \in Reviews, NEW n, NEW answers \in [DOMAIN review[r].findings -> Answers],
         submitAuthorResponse(r, n, answers)
  PROVE  Moves
<1> DEFINE v == review[r]
           w == Responded(v, n, answers, github.head)
<1>0. BudgetGood /\ GoodReview(v) /\ github.head \in Heads
  BY ReviewsTyped DEF IInv
<1>1. Active(v)
  <2>1. v.phase \notin CLOSED /\ w # v
    BY DEF submitAuthorResponse
  <2>2. ASSUME v = NoReview PROVE w = v
    <3>1. v.phase = "absent" /\ v.findings = <<>> /\ DOMAIN v.findings = {}
      BY <2>2 DEF NoReview
    <3>2. Takes(v, n, answers) = {} /\ ~freshResponse(v, n) /\ ~answersDoubt(v, n, answers)
      BY <3>1 DEF Takes, freshResponse, answersDoubt
    <3> DEFINE s == [i \in DOMAIN v.findings |->
                       IF i \in Takes(v, n, answers) THEN [v.findings[i] EXCEPT !.status = answers[i]]
                       ELSE v.findings[i]]
               head == IF Takes(v, n, answers) # {} \/ freshResponse(v, n) THEN github.head ELSE v.prHeadSha
    <3>3. s = v.findings
      BY <3>1
    <3>4. head = v.prHeadSha
      BY <3>2
    <3>5. w = [v EXCEPT !.findings = s, !.prHeadSha = head]
      BY <2>1, <3>2 DEF Responded
    <3> HIDE DEF s, head
    <3>6. [v EXCEPT !.findings = v.findings, !.prHeadSha = v.prHeadSha] = v
      BY <1>0 DEF GoodReview, ReviewType
    <3> QED
      BY <3>3, <3>4, <3>5, <3>6
  <2> QED
    BY <1>0, <2>1, <2>2 DEF GoodReview, Active
<1>2. Follows(v, w)
  BY <1>0, <1>1, RespondedFollows
<1>3. /\ review' = [review EXCEPT ![r] = w]
      /\ sends' \subseteq sends \cup {Relay(r, w, "reviewer", "turn")}
      /\ UNCHANGED <<starting, turns, ended, github, merging, merges, syncs, delivery>>
      /\ Spends("answer") \/ UNCHANGED budget
  BY DEF submitAuthorResponse, Sets, outside
<1> HIDE DEF w
<1>4. /\ StoreMoves
      /\ \A q \in Reviews : review[q].phase # "absent" => review'[q].phase # "absent"
  BY <1>2, <1>3, OneFollows
<1>5. \A m \in sends' \ sends : m.review \in Reviews /\ review'[m.review].phase # "absent"
  BY <1>1, <1>3, <1>4 DEF Relay, Active
<1>6. BudgetGood'
  BY <1>0, <1>3, Spent DEF BudgetGood
<1>7. LineMoves /\ TurnsMove /\ GithubMoves /\ WorkMoves
  BY <1>3, <1>5, ReviewsTyped DEF LineMoves, TurnsMove, GithubMoves, WorkMoves
<1> QED
  BY <1>4, <1>6, <1>7 DEF Moves

\* People at the panel.
LEMMA PeopleMoves ==
  ASSUME IInv, People
  PROVE  Moves
<1> SUFFICES ASSUME NEW r \in Reviews,
                    \/ AsksReview(r) \/ MergeClicks(r) \/ retryReview(r) \/ cancelReview(r)
                    \/ \E i \in 1 .. MaxFindings, d \in Decisions \ {"none"} : decideQuestion(r, i, d)
                    \/ \E apply, skip \in SUBSET openSuggestions(review[r]) : asksToApply(r, apply, skip)
                    \/ \E skip \in SUBSET openSuggestions(review[r]) : asksToSkip(r, skip)
             PROVE  Moves
  BY DEF People
<1> DEFINE v == review[r]
<1>0. BudgetGood /\ GoodReview(v)
  BY ReviewsTyped DEF IInv
<1>1. CASE AsksReview(r)
  <2>1. LineMoves
    <3>1. ~Asked(r)
      BY <1>1 DEF AsksReview, Reviews
    <3>2. review[r] = NoReview /\ \A i \in DOMAIN starting : starting[i].review # r
      BY <3>1 DEF Asked
    <3> QED
      BY <1>1, <3>2 DEF AsksReview, LineMoves
  <2>2. BudgetGood'
    BY <1>0, <1>1, Spent DEF AsksReview
  <2>3. StoreMoves /\ TurnsMove /\ GithubMoves /\ WorkMoves
    BY <1>1, Unwritten, ReviewsTyped DEF AsksReview, TurnsMove, GithubMoves, WorkMoves, service, outside
  <2> QED
    BY <2>1, <2>2, <2>3 DEF Moves
<1>2. CASE MergeClicks(r)
  <2>1. StoreMoves /\ LineMoves /\ TurnsMove /\ GithubMoves
    BY <1>2, Unwritten, ReviewsTyped DEF MergeClicks, LineMoves, TurnsMove, GithubMoves, service, outside
  <2>2. BudgetGood'
    BY <1>0, <1>2, Spent DEF MergeClicks
  <2>3. \A m \in merges' \ merges : MergeNew(m)
    <3> SUFFICES ASSUME NEW m \in merges' \ merges PROVE MergeNew(m)
      OBVIOUS
    <3>1. m = MergeAsked(r) /\ v.phase # "absent" /\ review' = review
      BY <1>2 DEF MergeClicks, mayAsk
    <3>2. m \in MergeCalls /\ m.review = r /\ ~m.auto /\ m.sha = v.reviewedSha /\ m.sha \in Int
      BY <3>1, CallTyped, ReviewsTyped
    <3> QED
      BY <3>1, <3>2 DEF MergeNew
  <2>4. WorkMoves
    BY <1>2, <2>3, ReviewsTyped DEF MergeClicks, WorkMoves, service
  <2> QED
    BY <2>1, <2>2, <2>4 DEF Moves
<1>3. CASE retryReview(r)
  <2>1. v.phase # "absent"
    BY <1>3 DEF retryReview, RetryFor, awaitingTool
  <2>2. Follows(v, Retried(v)) /\ review' = [review EXCEPT ![r] = Retried(v)]
    BY <1>0, <1>3, <2>1, RetriedFollows DEF retryReview, Sets
  <2>3. /\ StoreMoves
        /\ \A q \in Reviews : review[q].phase # "absent" => review'[q].phase # "absent"
    BY <2>2, OneFollows
  <2>4. \A m \in sends' \ sends : m.review = r
    BY <1>3 DEF retryReview, Relay
  <2>5. \A m \in sends' \ sends : m.review \in Reviews /\ review'[m.review].phase # "absent"
    BY <2>1, <2>3, <2>4
  <2>6. BudgetGood'
    BY <1>0, <1>3, Spent DEF retryReview
  <2>7. LineMoves /\ TurnsMove /\ GithubMoves /\ WorkMoves
    BY <1>3, <2>5, ReviewsTyped DEF retryReview, LineMoves, TurnsMove, GithubMoves, WorkMoves, outside
  <2> QED
    BY <2>3, <2>6, <2>7 DEF Moves
<1>4. CASE cancelReview(r)
  <2>1. v.phase # "absent"
    BY <1>4 DEF cancelReview, Active
  <2>2. StoreMoves
    BY <1>0, <1>4, <2>1, RetriedFollows, OneFollows DEF cancelReview, Sets
  <2>3. BudgetGood'
    BY <1>0, <1>4, Spent DEF cancelReview
  <2>4. LineMoves /\ TurnsMove /\ GithubMoves /\ WorkMoves
    BY <1>4, ReviewsTyped DEF cancelReview, LineMoves, TurnsMove, GithubMoves, WorkMoves, service, outside
  <2> QED
    BY <2>2, <2>3, <2>4 DEF Moves
<1>5. ASSUME NEW i \in 1 .. MaxFindings, NEW d \in Decisions \ {"none"}, decideQuestion(r, i, d)
      PROVE  Moves
  <2> DEFINE w == Decided(v, i, d)
  <2>1. mayDecide(v, i, d) /\ v.phase # "absent"
    BY <1>5 DEF decideQuestion, mayDecide
  <2>2. Follows(v, w)
    BY <1>0, <2>1, DecidedFollows
  <2>3. /\ review' = [review EXCEPT ![r] = w]
        /\ sends' \subseteq sends \cup Dispatched(r, w)
        /\ Spends("decide")
        /\ UNCHANGED <<starting, turns, ended, github, merging, merges, syncs, delivery>>
    BY <1>5 DEF decideQuestion, Sets, outside
  <2> HIDE DEF w
  <2>4. /\ StoreMoves
        /\ \A q \in Reviews : review[q].phase # "absent" => review'[q].phase # "absent"
    BY <2>2, <2>3, OneFollows
  <2>5. \A m \in sends' \ sends : m.review = r
    BY <2>3 DEF Dispatched, Relay
  <2>6. \A m \in sends' \ sends : m.review \in Reviews /\ review'[m.review].phase # "absent"
    BY <2>1, <2>4, <2>5
  <2>7. BudgetGood'
    BY <1>0, <2>3, Spent
  <2>8. LineMoves /\ TurnsMove /\ GithubMoves /\ WorkMoves
    BY <2>3, <2>6, ReviewsTyped DEF LineMoves, TurnsMove, GithubMoves, WorkMoves
  <2> QED
    BY <2>4, <2>7, <2>8 DEF Moves
<1>6. ASSUME NEW apply, NEW skip, asksToApply(r, apply, skip) PROVE Moves
  <2>1. v.phase # "absent" /\ \A m \in sends' \ sends : m.review = r
    BY <1>6 DEF asksToApply, Active, Relay
  <2>2. StoreMoves /\ LineMoves /\ TurnsMove /\ GithubMoves
    BY <1>6, Unwritten, ReviewsTyped DEF asksToApply, LineMoves, TurnsMove, GithubMoves, outside
  <2>3. BudgetGood'
    BY <1>0, <1>6, Spent DEF asksToApply
  <2>4. WorkMoves
    BY <1>6, <2>1, ReviewsTyped DEF asksToApply, WorkMoves
  <2> QED
    BY <2>2, <2>3, <2>4 DEF Moves
<1>7. ASSUME NEW skip, asksToSkip(r, skip) PROVE Moves
  <2>1. v.phase # "absent" /\ review' = [review EXCEPT ![r] = Skipped(v, skip)]
    BY <1>7 DEF asksToSkip, Active, Sets
  <2>2. Follows(v, Skipped(v, skip))
    BY <1>0, <2>1, SkippedFollows
  <2>3. StoreMoves /\ Followed
    BY <2>1, <2>2, OneFollows
  <2>4. review'[r].phase # "absent" /\ review'[r].reviewedSha = v.reviewedSha
    BY <2>1, <2>3 DEF Followed, Follows
  <2>5. \A m \in merges' \ merges : MergeNew(m)
    <3> SUFFICES ASSUME NEW m \in merges' \ merges PROVE MergeNew(m)
      OBVIOUS
    <3>1. m = AutoMerge(r)
      BY <1>7 DEF asksToSkip
    <3>2. m \in MergeCalls /\ m.review = r /\ m.pc = "approval" /\ m.sha = v.reviewedSha /\ m.sha \in Int
      BY <2>1, <3>1, CallTyped, ReviewsTyped
    <3> QED
      BY <2>4, <3>2 DEF MergeNew
  <2>6. BudgetGood'
    BY <1>0, <1>7, Spent DEF asksToSkip
  <2>7. LineMoves /\ TurnsMove /\ GithubMoves /\ WorkMoves
    BY <1>7, <2>5, ReviewsTyped DEF asksToSkip, LineMoves, TurnsMove, GithubMoves, WorkMoves, service, outside
  <2> QED
    BY <2>3, <2>6, <2>7 DEF Moves
<1> QED
  BY <1>1, <1>2, <1>3, <1>4, <1>5, <1>6, <1>7

\* The panel reads, GitHub moves by itself, a card is removed, a restart.
LEMMA WorldMoves ==
  ASSUME IInv, Panel \/ World
  PROVE  Moves
<1>0. BudgetGood /\ github \in PullRequests /\ github.head \in Heads /\ github.head \in Nat
  BY ReviewsTyped DEF IInv
<1>1. ASSUME NEW r \in Reviews, PanelReads(r) PROVE Moves
  <2>1. StoreMoves /\ LineMoves /\ TurnsMove /\ GithubMoves /\ BudgetGood'
    BY <1>0, <1>1, Unwritten, ReviewsTyped
       DEF PanelReads, LineMoves, TurnsMove, GithubMoves, BudgetGood, service, outside
  <2>2. review[r].phase # "absent" /\ review' = review /\ syncs' = syncs \cup {Reads(r)}
    BY <1>1 DEF PanelReads, Active
  <2>3. \A t \in syncs' \ syncs : t \in Readings /\ review'[t.review].phase # "absent"
    BY <2>2, ReadingTyped
  <2>4. WorkMoves
    BY <1>1, <2>3, ReviewsTyped DEF PanelReads, WorkMoves, service
  <2> QED
    BY <2>1, <2>4 DEF Moves
<1>2. CASE Pushes
  <2>1. StoreMoves /\ LineMoves /\ TurnsMove /\ WorkMoves
    BY <1>2, Unwritten, ReviewsTyped DEF Pushes, LineMoves, TurnsMove, WorkMoves, service
  <2>2. BudgetGood'
    BY <1>0, <1>2, Spent DEF Pushes
  <2>3. GithubMoves
    <3> DEFINE head == github.head + 1
    <3>1. head \in Heads /\ github.head <= head
      BY <1>0, <1>2 DEF Pushes, Heads
    <3>2. github' = [github EXCEPT !.head = head]
      BY <1>2 DEF Pushes
    <3> HIDE DEF head
    <3> QED
      BY <1>0, <3>1, <3>2 DEF GithubMoves, PullRequests
  <2> QED
    BY <2>1, <2>2, <2>3 DEF Moves
<1>3. CASE EndsOutside
  <2>1. StoreMoves /\ LineMoves /\ TurnsMove /\ WorkMoves
    BY <1>3, Unwritten, ReviewsTyped DEF EndsOutside, LineMoves, TurnsMove, WorkMoves, service
  <2>2. BudgetGood'
    BY <1>0, <1>3, Spent DEF EndsOutside
  <2>3. GithubMoves
    <3>1. PICK state \in {"merged", "closed"} : github' = [github EXCEPT !.state = state, !.by = "outside"]
      BY <1>3 DEF EndsOutside
    <3> DEFINE x == [github EXCEPT !.state = state, !.by = "outside"]
    <3>2. x \in PullRequests /\ x.head = github.head /\ x.approved = github.approved
      BY <1>0 DEF PullRequests
    <3> HIDE DEF x
    <3> QED
      BY <1>0, <3>1, <3>2 DEF GithubMoves, x
  <2> QED
    BY <2>1, <2>2, <2>3 DEF Moves
<1>4. CASE closeReviewsOfRemovedCard
  <2>1. review' = [r \in Reviews |-> IF Active(review[r]) THEN CancelledBySystem(review[r]) ELSE review[r]]
    BY <1>4 DEF closeReviewsOfRemovedCard
  <2>2. Followed
    <3> SUFFICES ASSUME NEW r \in Reviews PROVE Follows(review[r], review'[r])
      BY DEF Followed
    <3>1. GoodReview(review[r]) /\ Follows(review[r], review[r])
      BY ReviewsTyped
    <3>2. Active(review[r]) => Follows(review[r], CancelledBySystem(review[r]))
      BY <3>1, SystemFollows DEF Active
    <3> QED
      BY <2>1, <3>1, <3>2
  <2>3. review' \in [Reviews -> ReviewType]
    <3>1. \A r \in Reviews : review'[r] \in ReviewType
      BY <2>2 DEF Followed, Follows, GoodReview
    <3> QED
      BY <2>1, <3>1
  <2>4. StoreMoves
    BY <2>2, <2>3 DEF StoreMoves
  <2>5. BudgetGood'
    BY <1>0, <1>4, Spent DEF closeReviewsOfRemovedCard
  <2>6. LineMoves /\ TurnsMove /\ GithubMoves /\ WorkMoves
    BY <1>4, ReviewsTyped
       DEF closeReviewsOfRemovedCard, LineMoves, TurnsMove, GithubMoves, WorkMoves, service, outside
  <2> QED
    BY <2>4, <2>5, <2>6 DEF Moves
<1>5. CASE Restart
  <2>1. StoreMoves /\ LineMoves /\ TurnsMove
    BY <1>5, Unwritten DEF Restart, LineMoves, TurnsMove
  <2>2. GithubMoves
    <3>1. github' = github \/ \E m \in merges : github' = MergedBy("panel", m)
      BY <1>5 DEF Restart
    <3>2. github' = github => GithubMoves
      BY ReviewsTyped DEF GithubMoves
    <3> QED
      BY <3>1, <3>2, TakenMoves
  <2>3. BudgetGood'
    BY <1>0, <1>5, Spent DEF Restart
  <2>4. WorkMoves
    BY <1>5 DEF Restart, WorkMoves, NoDelivery
  <2> QED
    BY <2>1, <2>2, <2>3, <2>4 DEF Moves
<1> QED
  BY <1>1, <1>2, <1>3, <1>4, <1>5 DEF Panel, World

\* Every step of the reviews, the merges, the people and GitHub.
LEMMA NextMoves == IInv /\ [Next]_vars => Moves
<1> SUFFICES ASSUME IInv, [Next]_vars PROVE Moves
  OBVIOUS
<1>1. CASE Relays
  BY <1>1, RelayMoves DEF Relays
<1>2. CASE Starts
  BY <1>2, StartMoves DEF Starts
<1>3. CASE Endings
  BY <1>3, EndingMoves DEF Endings
<1>4. CASE Syncs
  BY <1>4, SyncMoves DEF Syncs
<1>5. CASE MergeSteps
  BY <1>5, MergeMoves DEF MergeSteps
<1>6. CASE Delivers
  BY <1>6, DeliverMoves
<1>7. CASE Tools
  BY <1>7, SubmitMoves, RespondMoves DEF Tools
<1>8. CASE People
  BY <1>8, PeopleMoves
<1>9. CASE Panel \/ World
  BY <1>9, WorldMoves
<1>10. CASE UNCHANGED vars
  <2>1. StoreMoves /\ LineMoves /\ TurnsMove /\ GithubMoves
    BY <1>10, Unwritten, ReviewsTyped DEF vars, LineMoves, TurnsMove, GithubMoves
  <2>2. WorkMoves /\ BudgetGood'
    BY <1>10, ReviewsTyped DEF vars, WorkMoves, BudgetGood, IInv
  <2> QED
    BY <2>1, <2>2 DEF Moves
<1> QED
  BY <1>1, <1>2, <1>3, <1>4, <1>5, <1>6, <1>7, <1>8, <1>9, <1>10 DEF Next

\* The tools of the AIs leave GitHub alone.
LEMMA ToolsKeep == Tools => UNCHANGED outside /\ astray \subseteq astray'
<1>1. ASSUME NEW r, NEW t, NEW news, NEW verdicts, NEW sha, submitReviewerRound(r, t, verdicts, news, sha)
      PROVE  UNCHANGED outside /\ astray \subseteq astray'
  BY <1>1 DEF submitReviewerRound
<1>2. ASSUME NEW r, NEW n, NEW answers, submitAuthorResponse(r, n, answers)
      PROVE  UNCHANGED outside /\ astray \subseteq astray'
  BY <1>2 DEF submitAuthorResponse, history
<1> QED
  BY <1>1, <1>2 DEF Tools

\* A review whose reviewer went astray is never forgotten.
LEMMA AstrayKept == [Next]_vars => AstrayGrows
<1> SUFFICES ASSUME [Next]_vars PROVE AstrayGrows
  OBVIOUS
<1>1. CASE Relays \/ Starts \/ Endings \/ Syncs \/ Panel \/ World
  BY <1>1 DEF AstrayGrows, Relays, SendLands, SendFails, Starts, StartChecks, StartInserts, StartFails,
     Endings, TurnEnds, JudgesTurn, IgnoresTurn, Syncs, SyncChecks, SyncFails, SyncWrites, Panel, PanelReads,
     World, Pushes, EndsOutside, closeReviewsOfRemovedCard, Restart, history
<1>2. ASSUME NEW m \in merges, MergeStep(m) PROVE AstrayGrows
  <2>1. CASE AutoMergeAsks(m) \/ MergeClaims(m) \/ MergeResolves(m) \/ MergeGates(m)
    BY <2>1 DEF AstrayGrows, AutoMergeAsks, MergeClaims, MergeResolves, MergeGates, history
  <2>2. CASE MergeScript(m) \/ MergeCloses(m) \/ refuseAutoMerge(m)
    BY <2>2 DEF AstrayGrows, MergeScript, MergeCloses, refuseAutoMerge, history
  <2> QED
    BY <1>2, <2>1, <2>2 DEF MergeStep
<1>3. CASE Delivers \/ UNCHANGED vars
  BY <1>3 DEF AstrayGrows, Delivers, deliverCard, DeliverPushes, DeliverGates, DeliverMerges, vars, history
<1>4. CASE Tools
  BY <1>4, ToolsKeep DEF AstrayGrows
<1>5. CASE People
  BY <1>5 DEF AstrayGrows, People, AsksReview, MergeClicks, retryReview, cancelReview, decideQuestion,
     asksToApply, asksToSkip, history
<1> QED
  BY <1>1, <1>2, <1>3, <1>4, <1>5 DEF Next, MergeSteps

-----------------------------------------------------------------------------
(* The theorems.                                                           *)

\* It holds at the start, whatever faults and inputs a behaviour has left.
LEMMA InitGood == Init => IInv
<1> SUFFICES ASSUME Init PROVE IInv
  OBVIOUS
<1>1. github \in PullRequests /\ github.head = 1 /\ 1 \in Heads
  BY DEF Init, PullRequests, Heads
<1>2. StoreGood
  BY <1>1, NewReviewGood DEF Init, StoreGood, GoodReview
<1>3. LineGood /\ TurnsGood
  BY DEF Init, LineGood, TurnsGood
<1>4. WorkGood
  BY DEF Init, WorkGood, NoDelivery
<1>5. BudgetGood
  BY BudgetsAssumption DEF Init, BudgetsAssumption, BudgetGood
<1> QED
  BY <1>1, <1>2, <1>3, <1>4, <1>5 DEF IInv

\* The invariant is one.
LEMMA Invariance == Spec => []IInv
<1>1. IInv /\ [Next]_vars => IInv'
  BY NextMoves, AstrayKept, MovesKeep
<1> QED
  BY <1>1, InitGood, PTL DEF Spec

\* The store keeps records of reviews, no findings beyond the bound and no
\* number of a round past the round, and only a review that exists has a
\* merge claimed: reviews.json and the claims of merge.ts stay well formed
\* through every handler, however many findings, rounds and commits.
THEOREM TypeCorrect == Spec => []TypeInvariant
<1>1. IInv => TypeInvariant
  <2> SUFFICES ASSUME IInv PROVE TypeInvariant
    OBVIOUS
  <2>1. ASSUME NEW r \in Reviews PROVE ReviewRecord(review[r])
    <3>1. review[r] \in ReviewType /\ GoodFindings(review[r].findings) /\ RoundsGood(review[r])
      BY DEF IInv, StoreGood, GoodReview
    <3>2. \A i \in DOMAIN review[r].findings : review[r].findings[i] \in Finding
      BY <3>1 DEF ReviewType
    <3> QED
      BY <3>1, <3>2 DEF ReviewRecord, ReviewType, GoodFindings, RoundsGood
  <2>2. \A r \in merging : review[r] # NoReview
    BY DEF IInv, WorkGood, Exists, NoReview
  <2> QED
    BY <2>1, <2>2 DEF TypeInvariant, IInv, StoreGood
<1> QED
  BY <1>1, Invariance, PTL

\* One pull request never has two reviews under way: not by two requests in
\* the same instant (the line), not by what a late relay, the end of a turn
\* or a reading of GitHub writes on a review that is over.
THEOREM OneUnderWay == Spec => []OneReviewUnderWay
<1>1. IInv => OneReviewUnderWay
  <2> SUFFICES ASSUME IInv PROVE Cardinality(ActiveReviews) <= 1
    BY DEF OneReviewUnderWay
  <2>1. CASE ActiveReviews = {}
    BY <2>1, FS_EmptySet
  <2>2. ASSUME NEW r \in ActiveReviews PROVE Cardinality(ActiveReviews) <= 1
    <3>1. ActiveReviews = {r}
      BY <2>2 DEF ActiveReviews, IInv, StoreGood
    <3>2. Cardinality({r}) = 1
      BY FS_Singleton
    <3> QED
      BY <3>1, <3>2
  <2> QED
    BY <2>1, <2>2
<1> QED
  BY <1>1, Invariance, PTL

\* What a person decided of a finding stands in every state, whatever the
\* verdicts of the reviewer, the answers of the author and the other people
\* of the panel are, and in whatever order they arrive.
THEOREM HumanWord == Spec => []HumanWordStands
<1>1. IInv => HumanWordStands
  <2> SUFFICES ASSUME IInv, NEW r \in Reviews, NEW i \in DOMAIN review[r].findings
               PROVE  LET f == review[r].findings[i] IN
                      CASE f.decision = "drop" -> f.status = "dropped"
                        [] f.decision = "accept_risk" -> f.status = "accepted_risk"
                        [] f.decision \in {"block", "keep"} -> f.status # "dropped"
                        [] OTHER -> TRUE
    BY DEF HumanWordStands
  <2>1. Stands(review[r].findings[i])
    BY DEF IInv, StoreGood, GoodReview, GoodFindings
  <2> QED
    BY <2>1 DEF Stands
<1> QED
  BY <1>1, Invariance, PTL

\* The call that GitHub takes pinned the commit that is the head, which the
\* review cannot have judged past.
LEMMA PinnedIsReviewed ==
  ASSUME IInv, NEW m \in merges, m.pc = "script", Pinned(m)
  PROVE  TakesTheReviewed(m)
<1>1. /\ m.review \in Reviews /\ m.sha = github.head
      /\ m.review \notin astray => m.sha <= review[m.review].reviewedSha
      /\ m.auto => m.proven \in github.approved
  BY DEF IInv, WorkGood, MergeGood, Exists, Pinned
<1>2. /\ review[m.review].reviewedSha \in Nat /\ github.head \in Nat
      /\ m.review \notin astray => review[m.review].reviewedSha <= github.head
  BY <1>1, ReviewsTyped
<1>3. review[m.review].phase = "ready" => Clean(review[m.review].findings)
  BY <1>1, ReviewsTyped DEF GoodReview
<1> QED
  BY <1>1, <1>2, <1>3 DEF TakesTheReviewed, Clean, Some

\* GitHub takes a merge of the reviews in two places only: the script that
\* ends, and the one a restart leaves on the runner.
LEMMA WhoMerges ==
  ASSUME IInv, [Next]_vars, github'.of # github.of
  PROVE  \E m \in merges : m.pc = "script" /\ Pinned(m) /\ github'.of = {m}
<1>0. github \in PullRequests
  BY DEF IInv
<1>1. ASSUME NEW head, NEW state, NEW by, NEW approved,
             \/ github' = [github EXCEPT !.head = head]
             \/ github' = [github EXCEPT !.approved = approved]
             \/ github' = [github EXCEPT !.state = state, !.by = by]
             \/ github' = github
      PROVE  FALSE
  BY <1>0, <1>1 DEF PullRequests
<1>2. ASSUME NEW m \in merges, github' = MergedBy("panel", m) PROVE github'.of = {m}
  BY <1>0, <1>2 DEF MergedBy, PullRequests
<1>3. CASE Relays \/ Starts \/ Syncs \/ Tools \/ People \/ Panel \/ UNCHANGED vars
  <2>1. github' = github
    <3>1. CASE Relays \/ Starts \/ Syncs
      BY <3>1 DEF Relays, SendLands, SendFails, Starts, StartChecks, StartInserts, StartFails,
         Syncs, SyncChecks, SyncFails, SyncWrites, outside
    <3>2. CASE Tools
      BY <3>2, ToolsKeep DEF outside
    <3>4. CASE Panel \/ UNCHANGED vars
      BY <3>4 DEF Panel, PanelReads, vars, outside
    <3>3. CASE People
      BY <3>3 DEF People, AsksReview, MergeClicks, retryReview, cancelReview, decideQuestion,
         asksToApply, asksToSkip, outside
    <3> QED
      BY <1>3, <3>1, <3>2, <3>3, <3>4
  <2> QED
    BY <2>1, <1>1
<1>4. CASE Endings
  <2>1. github' = github \/ github' = [github EXCEPT !.approved = @ \cup {github.head}]
    BY <1>4 DEF Endings, TurnEnds, JudgesTurn, IgnoresTurn, outside
  <2> QED
    BY <2>1, <1>1
<1>5. CASE Delivers
  <2>1. \/ github' = github \/ \E head : github' = [github EXCEPT !.head = head]
        \/ github' = [github EXCEPT !.state = "merged", !.by = "deliver"]
    BY <1>5 DEF Delivers, deliverCard, DeliverPushes, DeliverGates, DeliverMerges, outside
  <2> QED
    BY <2>1, <1>1
<1>6. CASE Pushes \/ EndsOutside \/ closeReviewsOfRemovedCard
  <2>1. \/ github' = github \/ github' = [github EXCEPT !.head = @ + 1]
        \/ \E state : github' = [github EXCEPT !.state = state, !.by = "outside"]
    BY <1>6 DEF Pushes, EndsOutside, closeReviewsOfRemovedCard, outside
  <2> QED
    BY <2>1, <1>1
<1>7. CASE Restart
  <2>1. \/ github' = github
        \/ \E m \in merges : m.pc = "script" /\ Pinned(m) /\ github' = MergedBy("panel", m)
    BY <1>7 DEF Restart
  <2> QED
    BY <2>1, <1>1, <1>2
<1>8. ASSUME NEW m \in merges, MergeStep(m)
      PROVE  m.pc = "script" /\ Pinned(m) /\ github'.of = {m}
  <2>1. CASE MergeScript(m)
    <3>1. github' = github \/ (m.pc = "script" /\ Pinned(m) /\ github' = MergedBy("panel", m))
      BY <2>1 DEF MergeScript
    <3> QED
      BY <3>1, <1>1, <1>2
  <2>2. CASE ~MergeScript(m)
    <3>1. github' = github
      BY <1>8, <2>2 DEF MergeStep, AutoMergeAsks, MergeClaims, MergeResolves, MergeGates, MergeCloses,
         refuseAutoMerge, outside
    <3> QED
      BY <3>1, <1>1
  <2> QED
    BY <2>1, <2>2
<1> QED
  BY <1>3, <1>4, <1>5, <1>6, <1>7, <1>8 DEF Next, World, MergeSteps

\* A merge the review lets out, by the script that ends or by one that
\* reaches GitHub while the backend restarts, takes the commit the review
\* judged last, with nothing left to wait for if it still stands approved,
\* and by itself only what GitHub proved an Approve of.
THEOREM MergesReviewed == Spec => MergesWhatWasReviewed
<1>1. IInv /\ [Next]_vars => [\A m \in github'.of \ github.of : TakesTheReviewed(m)]_vars
  <2> SUFFICES ASSUME IInv, [Next]_vars, NEW m \in github'.of \ github.of
               PROVE  TakesTheReviewed(m)
    OBVIOUS
  <2>1. PICK x \in merges : x.pc = "script" /\ Pinned(x) /\ github'.of = {x}
    BY WhoMerges
  <2> QED
    BY <2>1, PinnedIsReviewed
<1> QED
  BY <1>1, Invariance, PTL DEF MergesWhatWasReviewed, Spec
=============================================================================
