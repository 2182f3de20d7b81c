------------------------------ MODULE PrReview ------------------------------
(***************************************************************************)
(* The reviews of one pull request: services/review/orchestrator.ts and    *)
(* merge.ts over the rules of ReviewRules, the merge of maestro/deliver.ts *)
(* and review/deliverCard.ts, the two AIs (the card of the author and one  *)
(* card of a reviewer per review), the people at the panel, and GitHub,    *)
(* where the pull request also moves by itself.  Every await that lets     *)
(* another handler in is a step of its own; a mutation of the store of     *)
(* reviews is one step, as its queue makes it.                             *)
(***************************************************************************)
EXTENDS ReviewRules, FiniteSets

CONSTANTS
    MaxReviews,  \* bound: reviews somebody asks for, numbered in that order
    Budgets      \* the faults and inputs a behaviour may start with

ASSUME ReviewsAssumption == MaxReviews \in Nat

\* What a behaviour may start with: how often each input and fault comes, whether
\* a panel is open, which side never calls its tool, and what the AIs may say.
ASSUME BudgetsAssumption ==
    Budgets \subseteq
        [ask : Nat, fail : Nat, finding : Nat, sha : Nat, answer : Nat, silent : Nat, together : Nat, busy : Nat, click : Nat,
         deliver : Nat, decide : Nat, retry : Nat, cancel : Nat, remove : Nat, push : Nat, outside : Nat,
         restart : Nat, panel : BOOLEAN, mute : SUBSET Sides, severities : SUBSET Severities,
         verdicts : SUBSET Verdicts]

Reviews == 1 .. MaxReviews

VARIABLES
    review,      \* reviews.json: each review, or NoReview
    starting,    \* serialStart: the requests in line; the head is being served
    sends,       \* relays on their way to a card
    turns,       \* turns the relays opened on the cards
    ended,       \* turns that ended and are waiting out the grace
    github,      \* the pull request as GitHub has it
    noted,       \* the card's record says the pull request was merged
    merging,     \* reviews with a merge claimed
    merges,      \* calls of autoMerge and mergeReviewedPr under way
    syncs,       \* readings of GitHub under way
    delivery,    \* the delivery of the author's card under way
    budget,      \* faults and inputs left
    lost,        \* a relay or the end of a turn was dropped (see Restart)
    astray       \* reviews whose reviewer reported another commit than it read

service == <<sends, turns, ended>>
outside == <<github, noted>>
history == <<lost, astray>>
vars == <<review, starting, sends, turns, ended, github, noted, merging, merges, syncs,
          delivery, budget, history>>

NoDelivery == [pc |-> "none", review |-> {}]

Init ==
    /\ review = [r \in Reviews |-> NoReview]
    /\ starting = <<>>
    /\ sends = {} /\ turns = {} /\ ended = {}
    /\ github = [state |-> "open", head |-> 1, approved |-> {}, by |-> "nobody", of |-> {}]
    /\ noted = FALSE
    /\ merging = {} /\ merges = {} /\ syncs = {}
    /\ delivery = NoDelivery
    /\ budget \in Budgets
    /\ lost = FALSE /\ astray = {}

SpendsAll(S) ==
    /\ \A what \in S : budget[what] > 0
    /\ budget' = [what \in DOMAIN budget |-> IF what \in S THEN budget[what] - 1 ELSE budget[what]]

Spends(what) == budget[what] > 0 /\ budget' = [budget EXCEPT ![what] = @ - 1]

Sets(r, v) == review' = [review EXCEPT ![r] = v]

------------------------------------------------------------------------------
(* Texts.  A relay remembers the review it was written for; kind is "turn" *)
(* (the tool is expected), "approve" or "optional" (suggestions somebody   *)
(* chose, skip being the ones to take out once the others are delivered).  *)

Relay(r, v, side, kind) ==
    [review |-> r, side |-> side, kind |-> kind, phase |-> v.phase, round |-> v.round,
     pending |-> v.approvePending, skip |-> {}]

\* dispatch: what the new phase asks for.
Dispatched(r, v) ==
    CASE v.phase = "fixing" -> {Relay(r, v, "author", "turn")}
      [] v.phase = "ready"  -> {Relay(r, v, "reviewer", "approve")}
      [] OTHER -> {}

\* at: the head of the pull request when the turn reads its text.
Opens(m) == [review |-> m.review, side |-> m.side, kind |-> m.kind, round |-> m.round, at |-> github.head]

\* A text that reaches a card in the middle of a turn joins it.
OnTheCardOf(m) == {t \in turns : t.side = m.side /\ (m.side = "reviewer" => t.review = m.review)}

relayDelivered(m, v) ==
    IF m.kind = "approve" /\ m.pending /\ v.phase = "ready" THEN [v EXCEPT !.approvePending = FALSE]
    ELSE IF m.kind = "optional" THEN Skipped(v, m.skip)
    ELSE v

SendLands(m) ==
    /\ sends' = sends \ {m}
    /\ turns' = (turns \ OnTheCardOf(m)) \cup {Opens(m)}
    /\ Sets(m.review, relayDelivered(m, review[m.review]))
    /\ UNCHANGED <<starting, ended, outside, merging, merges, syncs, delivery, budget, history>>

relayFailed(m, v) ==
    CASE m.kind = "turn" -> Undelivered(v, m)
      [] m.kind = "approve" -> IF v.phase = "ready" THEN [v EXCEPT !.approvePending = TRUE] ELSE v
      [] OTHER -> v

SendFails(m) ==
    /\ Spends("fail")
    /\ sends' = sends \ {m}
    /\ Sets(m.review, relayFailed(m, review[m.review]))
    /\ UNCHANGED <<starting, turns, ended, outside, merging, merges, syncs, delivery, history>>

------------------------------------------------------------------------------
(* startReview.  The check for an active review and the insertion are two  *)
(* steps with the creation of a card between them.                         *)

Asked(r) == review[r] # NoReview \/ \E i \in DOMAIN starting : starting[i].review = r

AsksReview(r) ==
    /\ Spends("ask")
    /\ {q \in Reviews : Asked(q)} = 1 .. r - 1
    /\ starting' = Append(starting, [review |-> r, checked |-> FALSE])
    /\ UNCHANGED <<review, service, outside, merging, merges, syncs, delivery, history>>

mayStart == ~noted /\ \A r \in Reviews : ~Active(review[r])

\* Mutant of Serves: no line, every request runs at once.
ServesAll == DOMAIN starting

\* serialStart: the requests whose work runs now.
Serves == {i \in DOMAIN starting : i = 1}

Without(i) == [j \in 1 .. Len(starting) - 1 |-> starting[IF j < i THEN j ELSE j + 1]]

StartChecks(i) ==
    /\ i \in Serves /\ ~starting[i].checked
    /\ starting' = IF mayStart THEN [starting EXCEPT ![i].checked = TRUE] ELSE Without(i)
    /\ UNCHANGED <<review, service, outside, merging, merges, syncs, delivery, budget, history>>

StartInserts(i) ==
    /\ i \in Serves /\ starting[i].checked
    /\ LET r == starting[i].review IN
        /\ Sets(r, FreshReview)
        /\ sends' = sends \cup {Relay(r, FreshReview, "reviewer", "turn")}
    /\ starting' = Without(i)
    /\ UNCHANGED <<turns, ended, outside, merging, merges, syncs, delivery, budget, history>>

StartFails(i) ==
    /\ Spends("fail")
    /\ i \in Serves /\ starting[i].checked
    /\ starting' = Without(i)
    /\ UNCHANGED <<review, service, outside, merging, merges, syncs, delivery, history>>

------------------------------------------------------------------------------
(* The tools of the two AIs.  A card calls its tool in a turn, and answers *)
(* the round of that turn's text; a person may also have the author's AI   *)
(* answer at any time.                                                     *)

Calls(r, side) == {t \in turns : side \notin budget.mute /\ t.review = r /\ t.side = side /\ t.kind # "approve"}

\* The commit is the one the reviewer says it judged: seldom another one
\* than the head when its turn began.
submitReviewerRound(r, t, verdicts, news, sha) ==
    LET v == review[r]
        w == Submitted(v, verdicts, news, sha)
    IN  /\ freshSubmit(v, t.round)
        /\ Len(v.findings) + Len(news) <= MaxFindings
        /\ SpendsAll((IF news = <<>> THEN {} ELSE {"finding"}) \cup IF sha = t.at THEN {} ELSE {"sha"})
        /\ Sets(r, w)
        /\ sends' = sends \cup Dispatched(r, w)
        /\ astray' = IF sha = t.at THEN astray ELSE astray \cup {r}
        /\ UNCHANGED <<starting, turns, ended, outside, merging, merges, syncs, delivery, lost>>

submitAuthorResponse(r, n, answers) ==
    LET v == review[r]
        w == Responded(v, n, answers, github.head)
    IN  /\ v.phase \notin CLOSED /\ validAnswers(v, n, answers)
        /\ w # v
        /\ IF freshResponse(v, n) THEN UNCHANGED budget ELSE Spends("answer")
        /\ Sets(r, w)
        /\ sends' = sends \cup IF OpensRound(v, n, answers) THEN {Relay(r, w, "reviewer", "turn")} ELSE {}
        /\ UNCHANGED <<starting, turns, ended, outside, merging, merges, syncs, delivery, history>>

\* A turn ends.  The tool it was opened for need not have been called; the
\* text of an Approve asks for the Approve and for a report of ready, and
\* neither has to happen.
Silent(t, ready, approves) ==
    IF t.kind = "approve" THEN ~ready \/ ~approves
    ELSE awaitingTool(review[t.review], t.side) /\ review[t.review].round = t.round

\* Each event has a timer of its own: n tells two of one side apart.  How
\* often a turn ends within the grace of another is an input (together).
Event(t, ready) ==
    [review |-> t.review, side |-> t.side, ready |-> ready,
     n |-> CHOOSE n \in 0 .. Cardinality(ended) : \A e \in ended : e.n # n]

TurnEnds(t) ==
    /\ turns' = turns \ {t}
    /\ \E ready, approves \in BOOLEAN :
        /\ (ready \/ approves) => t.kind = "approve"
        /\ SpendsAll((IF Silent(t, ready, approves) /\ t.side \notin budget.mute THEN {"silent"} ELSE {})
                       \cup IF ended = {} THEN {} ELSE {"together"})
        /\ ended' = ended \cup {Event(t, ready)}
        /\ github' = IF approves THEN [github EXCEPT !.approved = @ \cup {github.head}] ELSE github
    /\ UNCHANGED <<review, starting, sends, noted, merging, merges, syncs, delivery, history>>

------------------------------------------------------------------------------
(* The end of a turn, after the grace: onTurnFinished and checkAuthorPush. *)

Seen(v) == [phase |-> v.phase, reviewedSha |-> v.reviewedSha, prHeadSha |-> v.prHeadSha]

\* A reading: the review it started from and what GitHub said.
Reads(r) == [review |-> r, was |-> Seen(review[r]), state |-> github.state, head |-> github.head, pc |-> "read"]

\* A reading that says nothing new writes nothing: it is left out.
News(r) == LET v == review[r] IN
    github.state # "open" \/ v.prHeadSha # github.head \/ (v.phase = "ready" /\ v.reviewedSha # github.head)

\* The pushes looked for at the end of a turn of the author: always in
\* ready, elsewhere when the last reading is old enough.
PushChecks(e) ==
    IF e.side = "reviewer" THEN {{}}
    ELSE LET open  == {r \in Reviews : Active(review[r]) /\ r \notin merging}
             ready == {r \in open : review[r].phase = "ready"}
         IN  {{Reads(r) : r \in {q \in S : News(q)}} : S \in {X \in SUBSET open : ready \subseteq X}}

\* The reviews whose side e ends a turn of: the card of the author is in all.
Waiting(e) ==
    {r \in Reviews : awaitingTool(review[r], e.side) /\ (e.side = "reviewer" => r = e.review)}

EndsAutoMerge(e) == e.side = "reviewer" /\ e.ready /\ autoMergeEligible(review[e.review])

AutoMerge(r) == [review |-> r, auto |-> TRUE, sha |-> review[r].reviewedSha, proven |-> 0, pc |-> "approval"]

JudgesTurn(e) ==
    /\ ended' = ended \ {e}
    /\ review' = [r \in Reviews |-> IF r \in Waiting(e) THEN Judged(review[r], e.side) ELSE review[r]]
    /\ sends' = sends \cup {Relay(r, review'[r], e.side, "turn") :
                               r \in {x \in Waiting(e) : review'[x].phase # "impasse"}}
    /\ merges' = merges \cup IF EndsAutoMerge(e) THEN {AutoMerge(e.review)} ELSE {}
    /\ \E S \in PushChecks(e) : syncs' = syncs \cup S
    /\ UNCHANGED <<starting, turns, outside, merging, delivery, budget, history>>

\* notJudged: somebody is using the card, or the agent waits for a person.
IgnoresTurn(e) ==
    /\ Spends("busy")
    /\ Waiting(e) # {}
    /\ ended' = ended \ {e}
    /\ lost' = TRUE
    /\ \E S \in PushChecks(e) : syncs' = syncs \cup S
    /\ UNCHANGED <<review, starting, sends, turns, outside, merging, merges, delivery, astray>>

------------------------------------------------------------------------------
(* syncReviewWithGithub.  A reading starts with the review and GitHub as   *)
(* they are; its answer is dropped when a merge was claimed meanwhile, and *)
(* what it found is written later still.                                   *)

\* syncReviewSoon: the panel is open; one reading of a review at a time.
PanelReads(r) ==
    /\ budget.panel
    /\ Active(review[r]) /\ r \notin merging /\ News(r)
    /\ ~\E t \in syncs : t.review = r
    /\ syncs' = syncs \cup {Reads(r)}
    /\ UNCHANGED <<review, starting, service, outside, merging, merges, delivery, budget, history>>

SyncChecks(t) ==
    /\ t.pc = "read"
    /\ syncs' = (syncs \ {t}) \cup IF t.review \in merging THEN {} ELSE {[t EXCEPT !.pc = "write"]}
    /\ UNCHANGED <<review, starting, service, outside, merging, merges, delivery, budget, history>>

SyncFails(t) ==
    /\ Spends("fail")
    /\ t.pc = "read"
    /\ syncs' = syncs \ {t}
    /\ UNCHANGED <<review, starting, service, outside, merging, merges, delivery, history>>

\* The head read, unless somebody recorded one since.
HeadSeen(t, v) ==
    IF v.phase \notin CLOSED /\ v.prHeadSha = t.was.prHeadSha THEN [v EXCEPT !.prHeadSha = t.head] ELSE v

FindsPush(t, v) ==
    LET seen == IF t.was.prHeadSha = t.head THEN t.was ELSE Seen(HeadSeen(t, v))
    IN  seen.phase = "ready" /\ seen.reviewedSha \notin {0, t.head}

\* What the reading writes: the head and the reopening (two mutations of the
\* store, the second started by the end of the first) are one step, and so
\* are the two records of a merge.
SyncWrites(t) ==
    LET r == t.review
        v == HeadSeen(t, review[r])
        reopens == t.state = "open" /\ FindsPush(t, review[r]) /\ Reopens(v, t.head)
        w == CASE t.state = "merged" -> Merged(review[r])
               [] t.state = "closed" -> CancelledBySystem(review[r])
               [] OTHER -> IF reopens THEN Reopened(v, t.head) ELSE v
    IN  /\ t.pc = "write"
        /\ syncs' = syncs \ {t}
        /\ Sets(r, w)
        /\ sends' = sends \cup IF reopens THEN {Relay(r, w, "reviewer", "turn")} ELSE {}
        /\ noted' = (noted \/ t.state = "merged")
        /\ UNCHANGED <<starting, turns, ended, github, merging, merges, delivery, budget, history>>

------------------------------------------------------------------------------
(* mergeReviewedPr: read, claim, read again, then the merge-only delivery: *)
(* the pull request, the gate, the merge pinned to the reviewed commit.    *)

MergeAsked(r) == [review |-> r, auto |-> FALSE, sha |-> review[r].reviewedSha, proven |-> 0, pc |-> "claim"]

mayAsk(r) == review[r].phase = "ready" /\ review[r].reviewedSha # 0

MergeClicks(r) ==
    /\ Spends("click")
    /\ mayAsk(r)
    /\ merges' = merges \cup {MergeAsked(r)}
    /\ UNCHANGED <<review, starting, service, outside, merging, syncs, delivery, history>>

\* merging and merges after a step of m: where it goes, or out.
Goes(m, pc) ==
    /\ merges' = (merges \ {m}) \cup {[m EXCEPT !.pc = pc]}
    /\ UNCHANGED merging

Claimed(m) == m.pc \in {"pr", "gate", "script", "merged"}

\* Mutant of releaseMerge: given back by a merge that happened only.
releaseMergeIfDone(m) == merging' = IF m.pc = "merged" THEN merging \ {m.review} ELSE merging

releaseMerge(m) == merging' = merging \ {m.review}

\* A merge that did not happen; auto also tells so, unless it was a race.
Refused(m, aRace) ==
    /\ merges' = (merges \ {m}) \cup IF m.auto /\ ~aRace THEN {[m EXCEPT !.pc = "refused"]} ELSE {}
    /\ IF Claimed(m) THEN releaseMerge(m) ELSE UNCHANGED merging

\* autoMerge: GitHub proves the Approve of the commit it read, and
\* mergeReviewedPr reads the review again: proven may be older than sha.
AutoMergeAsks(m) ==
    /\ m.pc = "approval"
    /\ IF m.sha \notin github.approved THEN Refused(m, FALSE)
       ELSE IF ~mayAsk(m.review) THEN Refused(m, TRUE)
       ELSE /\ merges' = (merges \ {m}) \cup {[m EXCEPT !.pc = "claim", !.proven = m.sha,
                                                   !.sha = review[m.review].reviewedSha]}
            /\ UNCHANGED merging
    /\ UNCHANGED <<review, starting, service, outside, syncs, delivery, budget, history>>

claimMerge(r) == r \notin merging

MergeClaims(m) ==
    /\ m.pc = "claim"
    /\ IF claimMerge(m.review) /\ mayAsk(m.review) /\ review[m.review].reviewedSha = m.sha
       THEN /\ merges' = (merges \ {m}) \cup {[m EXCEPT !.pc = "pr"]}
            /\ merging' = merging \cup {m.review}
       ELSE Refused(m, TRUE)
    /\ UNCHANGED <<review, starting, service, outside, syncs, delivery, budget, history>>

MergeResolves(m) ==
    LET r == m.review
        v == review[r]
        moved == github.state = "open" /\ github.head # m.sha
    IN  /\ m.pc = "pr"
        /\ IF github.state = "open" /\ ~moved THEN Goes(m, "gate") ELSE Refused(m, moved)
        /\ IF moved THEN Sets(r, Reopened(v, 0)) ELSE UNCHANGED review
        /\ sends' = sends \cup IF moved /\ Reopens(v, 0) THEN {Relay(r, review'[r], "reviewer", "turn")} ELSE {}
        /\ UNCHANGED <<starting, turns, ended, outside, syncs, delivery, budget, history>>

MergeGates(m) ==
    /\ m.pc = "gate"
    /\ \/ Goes(m, "script") /\ UNCHANGED budget
       \/ Refused(m, FALSE) /\ Spends("fail")
    /\ UNCHANGED <<review, starting, service, outside, syncs, delivery, history>>

MergedBy(who, m) == [github EXCEPT !.state = "merged", !.by = who, !.of = {m}]

\* Mutant of Pinned: the merge is not pinned (no --match-head-commit).
Unpinned(m) == TRUE

\* GitHub refuses the merge at another commit than the pinned one.
Pinned(m) == github.head = m.sha

MergeScript(m) ==
    /\ m.pc = "script"
    /\ IF github.state = "open" /\ Pinned(m)
       THEN /\ github' = MergedBy("panel", m)
            /\ \/ Goes(m, "merged") /\ UNCHANGED budget
               \/ Refused(m, FALSE) /\ Spends("fail")     \* the answer is lost
       ELSE Refused(m, FALSE) /\ UNCHANGED <<github, budget>>
    /\ UNCHANGED <<review, starting, service, noted, syncs, delivery, history>>

\* afterPrMerged and markReviewMerged.
MergeCloses(m) ==
    /\ m.pc = "merged"
    /\ merges' = merges \ {m} /\ releaseMerge(m)
    /\ noted' = TRUE
    /\ Sets(m.review, Merged(review[m.review]))
    /\ UNCHANGED <<starting, service, github, syncs, delivery, budget, history>>

refuseAutoMerge(m) ==
    /\ m.pc = "refused"
    /\ merges' = merges \ {m}
    /\ Sets(m.review, [review[m.review] EXCEPT !.autoMergeFailedRound = review[m.review].round])
    /\ UNCHANGED <<starting, service, outside, merging, syncs, delivery, budget, history>>

------------------------------------------------------------------------------
(* deliverCard: the AI of the author's card delivers, authorized.  Under a *)
(* review it only pushes, and then merges by the path above if the review  *)
(* is ready and its merger gave the order.                                 *)

ActiveReviews == {r \in Reviews : Active(review[r])}

deliverCard ==
    /\ Spends("deliver")
    /\ delivery.pc = "none" /\ github.state = "open"
    /\ \E S \in SUBSET ActiveReviews :
        /\ Cardinality(S) = (IF ActiveReviews = {} THEN 0 ELSE 1)
        /\ delivery' = [pc |-> "push", review |-> S]
    /\ UNCHANGED <<review, starting, service, outside, merging, merges, syncs, history>>

\* The push, with or without new commits, and what follows it.
DeliverPushes ==
    /\ delivery.pc = "push"
    /\ \E head \in {github.head, github.head + 1} \cap Heads :
          github' = IF github.state = "open" THEN [github EXCEPT !.head = head] ELSE github
    /\ \/ /\ \A r \in delivery.review : review[r].phase \in CLOSED
          /\ delivery' = [pc |-> IF delivery.review = {} THEN "gate" ELSE "push", review |-> {}]
          /\ UNCHANGED merges
       \/ /\ \E r \in delivery.review :
                /\ Active(review[r])
                /\ merges' \in {merges} \cup IF mayAsk(r) THEN {merges \cup {MergeAsked(r)}} ELSE {}
          /\ delivery' = NoDelivery
    /\ UNCHANGED <<review, starting, service, noted, merging, syncs, budget, history>>

DeliverGates ==
    /\ delivery.pc = "gate"
    /\ \/ /\ delivery' = IF ActiveReviews = {} THEN [delivery EXCEPT !.pc = "script"] ELSE NoDelivery
          /\ UNCHANGED budget
       \/ delivery' = NoDelivery /\ Spends("fail")
    /\ UNCHANGED <<review, starting, service, outside, merging, merges, syncs, history>>

DeliverMerges ==
    /\ delivery.pc = "script"
    /\ delivery' = NoDelivery
    /\ IF github.state = "open"
       THEN github' = [github EXCEPT !.state = "merged", !.by = "deliver"] /\ noted' = TRUE
       ELSE UNCHANGED outside
    /\ UNCHANGED <<review, starting, service, merging, merges, syncs, budget, history>>

------------------------------------------------------------------------------
(* People at the panel.                                                    *)

decideQuestion(r, i, d) ==
    LET v == review[r]
        w == Decided(v, i, d)
    IN  /\ Spends("decide")
        /\ mayDecide(v, i, d)
        /\ Sets(r, w)
        /\ sends' = sends \cup IF w.phase # v.phase THEN Dispatched(r, w) ELSE {}
        /\ UNCHANGED <<starting, turns, ended, outside, merging, merges, syncs, delivery, history>>

\* The ones to apply go to the author before anything is recorded.
asksToApply(r, apply, skip) ==
    /\ Spends("decide")
    /\ Active(review[r]) /\ apply # {} /\ apply \cup skip \subseteq openSuggestions(review[r])
    /\ apply \cap skip = {}
    /\ sends' = sends \cup {[Relay(r, review[r], "author", "optional") EXCEPT !.skip = skip]}
    /\ UNCHANGED <<review, starting, turns, ended, outside, merging, merges, syncs, delivery, history>>

\* reviewerApproved reads the card of the reviewer: idle, declared ready.
asksToSkip(r, skip) ==
    /\ Spends("decide")
    /\ Active(review[r]) /\ skip # {} /\ skip \subseteq openSuggestions(review[r])
    /\ Sets(r, Skipped(review[r], skip))
    /\ \/ UNCHANGED merges
       \/ /\ ~\E t \in turns : t.side = "reviewer" /\ t.review = r
          /\ autoMergeEligible(review'[r])
          /\ merges' = merges \cup {AutoMerge(r)}
    /\ UNCHANGED <<starting, service, outside, merging, syncs, delivery, history>>

retryReview(r) ==
    LET v == review[r]
        w == Retried(v)
        kind == RetryFor(v)
    IN  /\ Spends("retry")
        /\ kind # "none"
        /\ Sets(r, w)
        /\ sends' = sends \cup {IF kind = "approve" THEN Relay(r, w, "reviewer", "approve")
                                                   ELSE Relay(r, w, kind, "turn")}
        /\ UNCHANGED <<starting, turns, ended, outside, merging, merges, syncs, delivery, history>>

cancelReview(r) ==
    /\ Spends("cancel")
    /\ Active(review[r])
    /\ Sets(r, Cancelled(review[r]))
    /\ UNCHANGED <<starting, service, outside, merging, merges, syncs, delivery, history>>

closeReviewsOfRemovedCard ==
    /\ Spends("remove")
    /\ review' = [r \in Reviews |-> IF Active(review[r]) THEN CancelledBySystem(review[r]) ELSE review[r]]
    /\ UNCHANGED <<starting, service, outside, merging, merges, syncs, delivery, history>>

------------------------------------------------------------------------------
(* GitHub moves by itself, and the backend restarts.                       *)

Pushes ==
    /\ Spends("push")
    /\ github.state = "open" /\ github.head < MaxHead
    /\ github' = [github EXCEPT !.head = @ + 1]
    /\ UNCHANGED <<review, starting, service, noted, merging, merges, syncs, delivery, history>>

EndsOutside ==
    /\ Spends("outside")
    /\ github.state = "open"
    /\ \E state \in {"merged", "closed"} : github' = [github EXCEPT !.state = state, !.by = "outside"]
    /\ UNCHANGED <<review, starting, service, noted, merging, merges, syncs, delivery, history>>

\* Everything but the store and the cards is memory of the process; a merge
\* script on the runner may still reach GitHub.
Restart ==
    /\ Spends("restart")
    /\ starting' = <<>> /\ sends' = {} /\ ended' = {}
    /\ merging' = {} /\ merges' = {} /\ syncs' = {} /\ delivery' = NoDelivery
    /\ github' \in {github} \cup
        {MergedBy("panel", m) : m \in {x \in merges : x.pc = "script" /\ github.state = "open" /\ Pinned(x)}}
    /\ lost' = (lost \/ sends # {} \/ ended # {})
    /\ UNCHANGED <<review, turns, noted, astray>>

------------------------------------------------------------------------------
Relays  == \E m \in sends : SendLands(m) \/ SendFails(m)
Starts  == \E i \in DOMAIN starting : StartChecks(i) \/ StartInserts(i) \/ StartFails(i)
Endings == (\E t \in turns : TurnEnds(t)) \/ (\E e \in ended : JudgesTurn(e) \/ IgnoresTurn(e))
Syncs   == \E t \in syncs : SyncChecks(t) \/ SyncFails(t) \/ SyncWrites(t)

MergeStep(m) ==
    \/ AutoMergeAsks(m) \/ MergeClaims(m) \/ MergeResolves(m) \/ MergeGates(m)
    \/ MergeScript(m) \/ MergeCloses(m) \/ refuseAutoMerge(m)

MergeSteps == \E m \in merges : MergeStep(m)

Delivers == deliverCard \/ DeliverPushes \/ DeliverGates \/ DeliverMerges

\* What the AIs say: a scenario names the severities and the verdicts.
NewOnes == {<<>>} \cup {<<s>> : s \in budget.severities}

Tools ==
    \E r \in Reviews :
        \/ \E t \in Calls(r, "reviewer"), news \in NewOnes,
              verdicts \in [DOMAIN review[r].findings -> budget.verdicts], sha \in Heads :
              submitReviewerRound(r, t, verdicts, news, sha)
        \/ \E n \in {t.round : t \in Calls(r, "author")} \cup {0},
              answers \in [DOMAIN review[r].findings -> Answers] : submitAuthorResponse(r, n, answers)

People ==
    \E r \in Reviews :
        \/ AsksReview(r) \/ MergeClicks(r) \/ retryReview(r) \/ cancelReview(r)
        \/ \E i \in 1 .. MaxFindings, d \in Decisions \ {"none"} : decideQuestion(r, i, d)
        \/ \E apply, skip \in SUBSET openSuggestions(review[r]) : asksToApply(r, apply, skip)
        \/ \E skip \in SUBSET openSuggestions(review[r]) : asksToSkip(r, skip)

Panel == \E r \in Reviews : PanelReads(r)

World == Pushes \/ EndsOutside \/ closeReviewsOfRemovedCard \/ Restart

Next == Relays \/ Starts \/ Endings \/ Syncs \/ MergeSteps \/ Delivers \/ Tools \/ People \/ Panel \/ World

(* Promises of the process settle; a turn of an AI ends, before or after   *)
(* its tool was called (a scenario says how often before: never, a number  *)
(* of times, or always for a side that is mute); and where a panel is open *)
(* it reads its review every three seconds.                                *)
Fairness ==
    /\ WF_vars(Relays) /\ WF_vars(Starts) /\ WF_vars(Tools \/ Endings) /\ WF_vars(Syncs)
    /\ WF_vars(MergeSteps)
    /\ WF_vars(DeliverPushes \/ DeliverGates \/ DeliverMerges)
    /\ \A r \in Reviews : WF_vars(PanelReads(r))

Spec == Init /\ [][Next]_vars /\ Fairness

------------------------------------------------------------------------------
(* Types.                                                                  *)

(* The round has no ceiling here: a relay that fails after the answer to it *)
(* (the nudge or a retry sends it again) leaves an impasse in a round      *)
(* already answered; its retry gives the author a correction in the last   *)
(* round, whose answer opens a round past MAX_ROUNDS, and so on.           *)
ReviewRecord(v) ==
    /\ v.phase \in Phases /\ v.reason \in Reasons /\ v.nudges \in 0 .. 1
    /\ v.round \in Nat
    /\ v.lastSubmitRound \in 0 .. v.round /\ v.lastRespondRound \in 0 .. v.round
    /\ v.reviewedSha \in 0 .. MaxHead /\ v.prHeadSha \in 0 .. MaxHead
    /\ v.approvePending \in BOOLEAN /\ v.autoMergeFailedRound \in 0 .. v.round
    /\ Len(v.findings) <= MaxFindings /\ \A i \in DOMAIN v.findings : v.findings[i] \in Finding

\* A review is a record of the store, with at most one reminder counted, and
\* only a review that exists has a merge claimed.
TypeInvariant ==
    /\ DOMAIN review = Reviews /\ \A r \in Reviews : ReviewRecord(review[r])
    /\ \A r \in merging : review[r] # NoReview

------------------------------------------------------------------------------
(* Properties.                                                             *)

\* One pull request has one review under way: two requests in the same
\* instant, each of which finds none and makes a card, do not both insert,
\* and nothing still on its way to a review that is over (a relay, the end
\* of a turn, a reading of GitHub) brings it back beside a new one.
OneReviewUnderWay == Cardinality(ActiveReviews) <= 1

\* What a person decided stands whatever the two AIs and the other people
\* send later: a finding taken out or accepted stays so, and no AI takes
\* out what a person holds as blocking.
HumanWordStands ==
    \A r \in Reviews, i \in 1 .. MaxFindings : i \in DOMAIN review[r].findings =>
        LET f == review[r].findings[i] IN
        CASE f.decision = "drop" -> f.status = "dropped"
          [] f.decision = "accept_risk" -> f.status = "accepted_risk"
          [] f.decision \in {"block", "keep"} -> f.status # "dropped"
          [] OTHER -> TRUE

\* What holds of the review when GitHub takes the merge m.
TakesTheReviewed(m) ==
    LET v == review[m.review] IN
    /\ m.review \notin astray => github.head = v.reviewedSha
    /\ v.phase = "ready" => ~Some(v, actionableForAuthor) /\ ~Some(v, pendingQuestion)
    /\ m.auto => m.proven \in github.approved

\* The merge a review lets out, by the button, the delivery or by itself,
\* takes exactly the commit that the review last judged, however long the
\* gate took and whatever was pushed meanwhile, with nothing blocking and no
\* doubt left if the review still stands approved (a reading of GitHub may
\* reopen it under the merge, which goes on); by itself, only after GitHub
\* proved an Approve of the commit autoMerge read (a round closed during
\* that reading makes it an older one).  Which commit was judged is what the
\* reviewer says: nothing is asked where it named another than it read.
MergesWhatWasReviewed == [][\A m \in github'.of \ github.of : TakesTheReviewed(m)]_vars

WaitsInRound(v, n) == v.round = n /\ \E side \in Sides : awaitingTool(v, side)

\* An AI a review waits for, in a round, answers, or the review goes to a
\* person: no review waits for ever for a tool nobody calls.  (A restart
\* that drops a text, and a turn not judged because a person uses the card,
\* leave the review to the retry of the panel.)
NobodyWaitsForEver ==
    \A r \in Reviews, n \in 1 .. MAX_ROUNDS :
        WaitsInRound(review[r], n) ~> (~WaitsInRound(review[r], n) \/ lost)

\* A pull request merged by any road, or closed, is noticed by whoever has
\* its panel open: its reviews end, even when the answer of the merge was
\* lost, the delivery of the card merged it or the backend restarted.
GitHubEndsReviews ==
    (github.state # "open" /\ budget.panel) ~> (starting = <<>> /\ ActiveReviews = {})
=============================================================================
