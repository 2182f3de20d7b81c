---------------------------- MODULE ReviewRules ----------------------------
(***************************************************************************)
(* The rules of a pull-request review, with no I/O: services/review/model.ts *)
(* and the mutations that review/orchestrator.ts runs on one review inside *)
(* the queue of its store.  Each operator takes the review before the      *)
(* mutation and gives the one after it.  Texts, notes, proofs and replies  *)
(* are left out; a commit is a number, newer commits being larger, and 0   *)
(* is an absent number.                                                    *)
(***************************************************************************)
EXTENDS Integers, Sequences

CONSTANTS
    MAX_ROUNDS,    \* ceiling on the rounds of one review (3 in the code)
    MaxFindings,   \* bound: findings of one review
    MaxHead        \* bound: commits of the pull request

ASSUME RulesAssumption ==
    /\ MAX_ROUNDS \in Nat \ {0}
    /\ MaxFindings \in Nat
    /\ MaxHead \in Nat \ {0}

Sides      == {"reviewer", "author"}
Phases     == {"absent", "reviewing", "fixing", "ready", "impasse", "merged", "cancelled"}
CLOSED     == {"merged", "cancelled"}
Severities == {"blocking", "suggestion", "question"}
Statuses   == {"open", "fixed", "contested", "accepted_risk", "dropped", "wontfix"}
Decisions  == {"none", "keep", "block", "accept_risk", "drop"}
Reasons    == {"none", "rodadas", "envio", "semResposta"}
Heads      == 1 .. MaxHead

Finding == [severity : Severities, status : Statuses, decision : Decisions]

NoReview ==
    [phase |-> "absent", round |-> 0, findings |-> <<>>, reviewedSha |-> 0, prHeadSha |-> 0,
     lastSubmitRound |-> 0, lastRespondRound |-> 0, nudges |-> 0, reason |-> "none",
     approvePending |-> FALSE, autoMergeFailedRound |-> 0]

FreshReview == [NoReview EXCEPT !.phase = "reviewing", !.round = 1]

Active(v) == v.phase \notin CLOSED \cup {"absent"}

------------------------------------------------------------------------------
(* What a review waits for.                                                *)

IsOpen(f) == f.status \in {"open", "contested"}

actionableForAuthor(f) ==
    /\ f.severity = "blocking" \/ (f.severity = "question" /\ f.decision = "block")
    /\ IsOpen(f)

pendingQuestion(f) == f.severity = "question" /\ f.decision = "none" /\ IsOpen(f)

Some(v, P(_)) == \E i \in DOMAIN v.findings : P(v.findings[i])

\* The round of the reviewer is over: where the review goes, and why if it
\* is an impasse.
phaseAfterReviewerRound(v) ==
    IF Some(v, actionableForAuthor)
    THEN IF v.round >= MAX_ROUNDS THEN <<"impasse", "rodadas">> ELSE <<"fixing", v.reason>>
    ELSE IF Some(v, pendingQuestion) THEN <<"reviewing", v.reason>> ELSE <<"ready", v.reason>>

EntersNext(v) ==
    LET next == phaseAfterReviewerRound(v)
    IN  [v EXCEPT !.phase = next[1], !.reason = next[2]]

autoMergeEligible(v) ==
    /\ v.phase = "ready" /\ v.reviewedSha # 0
    /\ ~Some(v, IsOpen)
    /\ ~v.approvePending
    /\ v.autoMergeFailedRound # v.round

awaitingTool(v, side) ==
    IF side = "reviewer" THEN v.phase = "reviewing" /\ v.lastSubmitRound # v.round
                         ELSE v.phase = "fixing" /\ v.lastRespondRound # v.round

------------------------------------------------------------------------------
(* The round of the reviewer.  A verdict "none" leaves a finding alone.    *)

freshSubmit(v, n) == v.phase = "reviewing" /\ n = v.round /\ v.lastSubmitRound # n

Verdicts == {"none", "fixed", "open", "dropped"}

\* Mutant of overridesHuman: only a risk somebody accepted is final.
overridesAcceptedRisk(f, verdict) == f.status = "accepted_risk"

overridesHuman(f, verdict) ==
    \/ f.status = "accepted_risk"
    \/ f.decision \in {"accept_risk", "drop"}
    \/ f.decision \in {"block", "keep"} /\ verdict = "dropped"

applyVerdict(f, verdict) ==
    IF verdict = "none" \/ overridesHuman(f, verdict) THEN f ELSE [f EXCEPT !.status = verdict]

NewFinding(severity) == [severity |-> severity, status |-> "open", decision |-> "none"]

\* What the reviewer submits: a verdict for each finding there is and the
\* severities of the new ones (a blocking one with no proof arrives as a
\* suggestion; from round 2 on they carry the mark of the correction).
Submitted(v, verdicts, news, sha) ==
    EntersNext([v EXCEPT
        !.findings = [i \in DOMAIN v.findings |-> applyVerdict(v.findings[i], verdicts[i])]
                       \o [i \in DOMAIN news |-> NewFinding(news[i])],
        !.reviewedSha = sha, !.prHeadSha = sha,
        !.lastSubmitRound = v.round, !.nudges = 0])

------------------------------------------------------------------------------
(* The answer of the author, in the round of correction or outside it.     *)

Answers == {"none", "fixed", "contested", "wontfix"}

freshResponse(v, n) == v.phase = "fixing" /\ n = v.round /\ v.lastRespondRound # n

answerable(v, n, f) ==
    \/ f.severity = "suggestion" /\ f.status \notin {"dropped", "accepted_risk"}
    \/ pendingQuestion(f)
    \/ freshResponse(v, n) /\ actionableForAuthor(f)

\* Not applying is an answer to suggestions alone: the call throws.
validAnswers(v, n, answers) ==
    \A i \in DOMAIN v.findings :
        (answers[i] = "wontfix" /\ answerable(v, n, v.findings[i])) => v.findings[i].severity = "suggestion"

Takes(v, n, answers) ==
    {i \in DOMAIN v.findings :
        /\ answers[i] # "none" /\ answerable(v, n, v.findings[i])
        /\ \/ freshResponse(v, n)
           \/ v.findings[i].status # answers[i]
           \/ answers[i] = "contested"}        \* it may come with another reply

answersDoubt(v, n, answers) ==
    /\ ~freshResponse(v, n)
    /\ v.phase = "reviewing" /\ v.lastSubmitRound = v.round
    /\ \E i \in Takes(v, n, answers) : v.findings[i].severity = "question"

\* The reviewer looks again: in the next round, or once more in the last.
OneMoreRound(v) ==
    IF v.round < MAX_ROUNDS THEN [v EXCEPT !.round = @ + 1] ELSE [v EXCEPT !.lastSubmitRound = v.round - 1]

OpensRound(v, n, answers) == freshResponse(v, n) \/ answersDoubt(v, n, answers)

Responded(v, n, answers, sha) ==
    LET taken == Takes(v, n, answers)
        said  == [v EXCEPT
            !.findings = [i \in DOMAIN v.findings |->
                IF i \in taken THEN [v.findings[i] EXCEPT !.status = answers[i]] ELSE v.findings[i]],
            !.prHeadSha = IF taken # {} \/ freshResponse(v, n) THEN sha ELSE @]
    IN  IF v.phase \in CLOSED THEN v
        ELSE IF answersDoubt(v, n, answers) THEN OneMoreRound(said)
        ELSE IF freshResponse(v, n)
             THEN [said EXCEPT !.lastRespondRound = v.round, !.nudges = 0,
                               !.round = @ + 1, !.phase = "reviewing"]
        ELSE said

------------------------------------------------------------------------------
(* What people decide in the panel.                                        *)

mayDecide(v, i, d) ==
    /\ v.phase \in {"reviewing", "fixing", "impasse"}
    /\ i \in DOMAIN v.findings
    /\ v.findings[i].severity \in (IF d = "keep" THEN {"blocking"} ELSE {"blocking", "question"})

DecidedFinding(f, d) ==
    [f EXCEPT !.decision = d,
              !.status = CASE d = "accept_risk" -> "accepted_risk"
                           [] d = "drop" -> "dropped"
                           [] OTHER -> IF @ \in {"dropped", "accepted_risk"} THEN "open" ELSE @]

\* Only a round the reviewer has delivered is judged again.
Decided(v, i, d) ==
    LET said == [v EXCEPT !.findings[i] = DecidedFinding(@, d)]
        next == phaseAfterReviewerRound(said)
    IN  IF v.lastSubmitRound # v.round THEN said
        ELSE IF v.phase = "reviewing" THEN EntersNext(said)
        ELSE IF v.phase = "impasse" /\ next[1] = "ready"
             THEN [said EXCEPT !.phase = "ready", !.reason = "none"]
        ELSE said

openSuggestions(v) ==
    {i \in DOMAIN v.findings : v.findings[i].severity = "suggestion" /\ v.findings[i].status = "open"}

Skipped(v, skip) ==
    [v EXCEPT !.findings = [i \in DOMAIN v.findings |->
        IF i \in skip /\ v.findings[i].status = "open"
        THEN [v.findings[i] EXCEPT !.status = "dropped", !.decision = "drop"] ELSE v.findings[i]]]

\* Whose turn a retry gives back, or "none" when there is nothing to retry.
RetryFor(v) ==
    IF v.phase = "ready" /\ v.approvePending THEN "approve"
    ELSE IF v.phase = "impasse" /\ v.reason # "rodadas"
         THEN IF v.lastSubmitRound # v.round THEN "reviewer" ELSE "author"
    ELSE IF awaitingTool(v, "reviewer") THEN "reviewer"
    ELSE IF awaitingTool(v, "author") THEN "author"
    ELSE "none"

Retried(v) ==
    [v EXCEPT !.phase = IF @ = "impasse" THEN IF v.lastSubmitRound # v.round THEN "reviewing" ELSE "fixing"
                        ELSE @,
              !.nudges = 0, !.reason = "none"]

Cancelled(v) == [v EXCEPT !.phase = "cancelled", !.approvePending = FALSE]

------------------------------------------------------------------------------
(* What the system writes.                                                 *)

\* cancelBySystem: a review that is over stays as it is.
CancelledBySystem(v) == IF v.phase \in CLOSED THEN v ELSE Cancelled(v)

Merged(v) ==
    IF v.phase = "merged" THEN v
    ELSE [v EXCEPT !.phase = "merged", !.approvePending = FALSE, !.reason = "none"]

\* A text for the place of w (phase and round) could not be delivered.
Undelivered(v, w) ==
    IF v.phase \in CLOSED \/ v.phase # w.phase \/ v.round # w.round THEN v
    ELSE [v EXCEPT !.phase = "impasse", !.reason = "envio"]

\* The pull request is at another commit than the approved one; head is 0
\* when the caller did not read it.
Reopens(v, head) == v.phase = "ready" /\ ~(head # 0 /\ v.reviewedSha = head)

Reopened(v, head) ==
    IF ~Reopens(v, head) THEN v
    ELSE OneMoreRound([v EXCEPT !.approvePending = FALSE, !.nudges = 0, !.phase = "reviewing"])

\* Mutant of Judged: one more reminder instead of the impasse, for ever.
JudgedWithReminders(v, side) ==
    IF ~awaitingTool(v, side) THEN v ELSE [v EXCEPT !.nudges = 1]

\* Mutant of Judged: the reminder is counted, and never looked at.
JudgedUncounted(v, side) ==
    IF ~awaitingTool(v, side) THEN v ELSE [v EXCEPT !.nudges = @ + 1]

\* A turn ended without the tool: a reminder, the second time an impasse.
Judged(v, side) ==
    IF ~awaitingTool(v, side) THEN v
    ELSE IF v.nudges >= 1 THEN [v EXCEPT !.phase = "impasse", !.reason = "semResposta"]
    ELSE [v EXCEPT !.nudges = @ + 1]
=============================================================================
