--------------------------- MODULE CardLifecycle ---------------------------
(***************************************************************************)
(* One card and its terminal session: what the person does to it (open,    *)
(* drag, pause, restart, hibernate, type), what the runner hooks report of *)
(* it (services/board/status.ts), and the timers that repair what the      *)
(* hooks miss (the pause reconciler, the stale `working` reconciler, the   *)
(* idle sweep).  The cards of a board share nothing these handlers read,   *)
(* so one card is the whole component; a board adds more of the same.      *)
(*                                                                         *)
(* The registry changes a card in one `store.mutate` at a time: each of    *)
(* its rules is a function from the card's record to its next record.      *)
(* The handlers around them read, await the runner, write and await again: *)
(* every await is a step boundary.  The card's conversation runs in the    *)
(* terminal (no native chat), so cardHoldsBackgroundWork and isCardInUse   *)
(* are false.  Timestamps keep only whether they are set, and whether the  *)
(* clock has run past the thresholds compared with them.                   *)
(***************************************************************************)
EXTENDS Naturals, FiniteSets

CONSTANTS
  Reporters,    \* status reports the backend may be handling at once
  IdleSetting,  \* TRUE when idleHibernateMinutes is not 0
  MaxOps,       \* bound: requests a person makes
  MaxTurns,     \* bound: turns of Claude
  MaxFaults     \* bound: calls to the runner that fail, crashes, dead sessions

ASSUME IdleSettingAssumption == IdleSetting \in BOOLEAN
ASSUME BoundsAssumption == MaxOps \in Nat /\ MaxTurns \in Nat /\ MaxFaults \in Nat

VARIABLES
  card,     \* the card's record in the registry
  session,  \* what the card's tmux session really is
  hooks,    \* statuses posted by hooks and not handled yet
  report,   \* one reportCardStatus per reporter
  pause,    \* pauseCard, for a person's request and for the reconciler
  stale,    \* reconcileStaleWorking
  sleep,    \* sweepIdleCards, or a person's hibernateCard
  restart,  \* restartStaggered, applySessionChange or restartCard
  opening,  \* openCard: one at a time, it holds the card's lock
  attach,   \* a terminal websocket attaching to the session
  drag,     \* a PATCH that moves the card to a column
  ops, turns, faults, \* the bounded counters
  stirred   \* history: the finished card has been worked in, see Watch

world    == <<session, hooks>>
handlers == <<report, pause, stale, sleep, restart, opening, attach, drag>>
counters == <<ops, turns, faults>>
system   == <<card, world, handlers, counters>>
vars     == <<system, stirred>>

Columns  == {"backlog", "waiting", "working", "paused", "done"}
Statuses == {"working", "waiting"}
Pausers  == {"person", "reconciler"}

\* `opened`, `paused`, `hibernated`, `flagged`: openedAt, pausedAt,
\* hibernatedAt, restartPendingAt are set.  `silent`: statusAt is older than
\* STALE_WORKING_MS.  `cold`: lastActivityAt is older than the idle threshold.
CardRecord ==
  [column : Columns, status : Statuses \union {"none"}, opened : BOOLEAN,
   paused : BOOLEAN, hibernated : BOOLEAN, flagged : BOOLEAN,
   silent : BOOLEAN, cold : BOOLEAN]

NewCard ==
  [column |-> "backlog", status |-> "none", opened |-> FALSE, paused |-> FALSE,
   hibernated |-> FALSE, flagged |-> FALSE, silent |-> FALSE, cold |-> FALSE]

NoReport == [pc |-> "off", status |-> "waiting", pauseDue |-> FALSE, restartDue |-> FALSE]
NoPause  == [pc |-> "off", effective |-> FALSE]
NoDrag   == [pc |-> "off", target |-> "backlog", effect |-> "none"]

\* A card that was opened before this backend started: waiting or finished,
\* or paused, and then its session is gone.
OldCards == {[NewCard EXCEPT !.column = col, !.opened = TRUE, !.paused = (col = "paused")] :
              col \in {"waiting", "paused", "done"}}

\* An old card, or one just created, whose workspace may have been prepared.
Init ==
  /\ card \in OldCards \union {NewCard}
  /\ session \in IF card.paused THEN {"none"} ELSE {"none", "idle"}
  /\ hooks = {}
  /\ report = [r \in Reporters |-> NoReport]
  /\ pause = [p \in Pausers |-> NoPause]
  /\ stale = "off" /\ sleep = "off" /\ restart = "off"
  /\ opening = "off" /\ attach = "off" /\ drag = NoDrag
  /\ ops = 0 /\ turns = 0 /\ faults = 0
  /\ stirred = FALSE

-----------------------------------------------------------------------------
(* The registry's rules.                                                   *)

\* hasLiveSession: what the BOARD believes of the session.
Live(c) == c.opened /\ ~c.paused /\ ~c.hibernated

\* shouldEndSessionOnStatus for the card as it was, whatever the status.
PauseDue(c) == c.column = "paused" /\ Live(c)

ColumnAfterStatus(column, s) == IF column \in Statuses THEN s ELSE column

ColumnAfterOpen(column) == IF column \in {"backlog", "paused"} THEN "waiting" ELSE column

\* Mutant of Reactivates: any report reopens a finished card.
ReactivatesOnAnyReport(c, s) ==
  /\ ~c.paused
  /\ c.status # "working" /\ c.column = "done"

\* reactivatesOnActivity: a `working` report of a finished card whose dot was
\* not `working`, which the code takes for a NEW turn.
Reactivates(c, s) ==
  /\ ~c.paused
  /\ c.status # "working"
  /\ s = "working" /\ c.column = "done"

\* Mutant of Reported: a report of a paused card is applied like any other.
ReportedAsleep(c, s) ==
  [c EXCEPT !.status = s, !.silent = FALSE, !.cold = FALSE,
            !.hibernated = FALSE, !.flagged = @ /\ s = "working",
            !.column = ColumnAfterStatus(@, s)]

\* Mutant of Reported: a sign of life lifts the pause as it lifts hibernation.
ReportedWakes(c, s) == [ReportedAsleep(c, s) EXCEPT !.paused = FALSE]

\* applyCardStatus.
Reported(c, s) ==
  IF PauseDue(c)
    THEN IF s = "working"
           THEN [c EXCEPT !.status = s, !.silent = FALSE, !.cold = FALSE]
           ELSE [c EXCEPT !.paused = TRUE, !.status = "none", !.flagged = FALSE]
  ELSE IF c.paused THEN c
  ELSE [c EXCEPT !.status = s, !.silent = FALSE, !.cold = FALSE,
                 !.hibernated = FALSE,
                 !.flagged = @ /\ s = "working",
                 !.column = IF Reactivates(c, s) THEN "working"
                                                 ELSE ColumnAfterStatus(@, s)]

\* applyOpenTerminal.
Opened(c) ==
  [c EXCEPT !.column = ColumnAfterOpen(@), !.opened = TRUE, !.paused = FALSE,
            !.hibernated = FALSE, !.cold = FALSE]

\* The registry's pauseCard: it throws for a card never opened, and a card
\* that is paused already stays as it is.
Paused(c, effective) ==
  IF ~c.opened \/ c.paused THEN c
  ELSE LET moved == [c EXCEPT !.column = IF @ = "done" THEN @ ELSE "paused"] IN
       IF effective \/ c.status # "working"
         THEN [moved EXCEPT !.paused = TRUE, !.status = "none"]
         ELSE moved

\* The registry's hibernateCard refuses anything but an idle live session.
MayHibernate(c) == Live(c) /\ c.status # "working"

Hibernated(c) == [c EXCEPT !.hibernated = TRUE, !.status = "none", !.flagged = FALSE]

\* cardMoveEffect.
MoveEffect(c, target) ==
  IF target = c.column THEN "none"
  ELSE IF target = "paused" THEN IF c.opened THEN "pause" ELSE "none"
  ELSE IF target \in {"waiting", "working"} /\ c.opened /\ ~Live(c) THEN "resume"
  ELSE "none"

-----------------------------------------------------------------------------
(* The runner: the session, and the hooks of the Claude inside it.         *)

Hook(s) == hooks' = hooks \union {s}

\* killCardSession: the dying Claude may still fire hooks on its way out.
KillSession ==
  /\ session' = "none"
  /\ IF session = "none" THEN UNCHANGED hooks
                         ELSE \E S \in SUBSET Statuses : hooks' = hooks \union S

\* `tmux new-session -A`: the session is created, with its SessionStart hook,
\* unless it is there.
CreateSession ==
  IF session = "none" THEN session' = "idle" /\ Hook("waiting")
                      ELSE UNCHANGED world

\* probeSessions: "gone" and "idle" (a session where nothing runs) are read
\* off the session; a runner that does not answer is a fault.
Fault == faults < MaxFaults /\ faults' = faults + 1

Op == ops < MaxOps /\ ops' = ops + 1

\* A prompt is submitted; typed by a person, it is a sign of life.
TurnStarts ==
  /\ session = "idle" /\ turns < MaxTurns
  /\ turns' = turns + 1
  /\ session' = "busy" /\ Hook("working")
  /\ card' = [card EXCEPT !.cold = FALSE]
  /\ UNCHANGED <<handlers, ops, faults>>

\* PreToolUse, and the Notification of a session that waits inside a turn.
HookFires ==
  /\ session = "busy"
  /\ \E s \in Statuses : s \notin hooks /\ Hook(s)
  /\ UNCHANGED <<card, session, handlers, counters>>

TurnEnds ==
  /\ session = "busy"
  /\ session' = "idle" /\ Hook("waiting")
  /\ UNCHANGED <<card, handlers, counters>>

\* The runner restarts, or Claude is killed from outside.
SessionDies ==
  /\ session # "none" /\ Fault
  /\ session' = "none"
  /\ UNCHANGED <<card, hooks, handlers, ops, turns>>

\* `curl ... || true`: a hook that does not reach the backend is gone.
HookLost ==
  /\ \E s \in hooks : hooks' = hooks \ {s}
  /\ UNCHANGED <<card, session, handlers, counters>>

\* The clock runs past STALE_WORKING_MS, or past the idle threshold.
TimePasses ==
  /\ \/ ~card.silent /\ card' = [card EXCEPT !.silent = TRUE]
     \/ ~card.cold /\ card' = [card EXCEPT !.cold = TRUE]
  /\ UNCHANGED <<world, handlers, counters>>

-----------------------------------------------------------------------------
(* reportCardStatus.                                                       *)

\* The state BEFORE the status is applied is read first, and it is what the
\* pause and the restart are decided from, several awaits later.
BeginReport(r, s) ==
  /\ report[r].pc = "off"
  /\ report' = [report EXCEPT ![r] =
       [pc |-> "apply", status |-> s, pauseDue |-> PauseDue(card),
        restartDue |-> card.flagged /\ Live(card)]]

ReportRead(r) ==
  /\ \E s \in hooks : BeginReport(r, s) /\ hooks' = hooks \ {s}
  /\ UNCHANGED <<card, session, pause, stale, sleep, restart, opening, attach,
                 drag, counters>>

\* shouldEndSessionOnStatus, then shouldRestartOnStatus: a pause beats it.
Verdict(r) ==
  IF report[r].status = "working" THEN "off"
  ELSE IF report[r].pauseDue THEN "kill"
  ELSE IF report[r].restartDue THEN "restart"
  ELSE "off"

ReportApply(r) ==
  /\ report[r].pc = "apply"
  /\ card' = Reported(card, report[r].status)
  /\ report' = [report EXCEPT ![r] = IF Verdict(r) = "off" THEN NoReport
                                     ELSE [@ EXCEPT !.pc = Verdict(r)]]
  /\ UNCHANGED <<world, pause, stale, sleep, restart, opening, attach, drag, counters>>

\* killCardSession for the pause, restartCard for the restart.
ReportKill(r) ==
  /\ report[r].pc \in {"kill", "restart"}
  /\ report' = [report EXCEPT ![r] = NoReport]
  /\ \/ KillSession /\ UNCHANGED faults
     \/ Fault /\ UNCHANGED world
  /\ UNCHANGED <<card, pause, stale, sleep, restart, opening, attach, drag, ops, turns>>

-----------------------------------------------------------------------------
(* pauseCard of the workspace, for a person, and reconcilePausedCards.     *)

\* A `working` dot is checked against the runner first.
BeginPause ==
  /\ pause["person"].pc = "off"
  /\ pause' = [pause EXCEPT !["person"].pc =
       IF card.status = "working" /\ Live(card) THEN "probe" ELSE "apply"]

PauseRequest ==
  /\ Op /\ BeginPause
  /\ UNCHANGED <<card, world, report, stale, sleep, restart, opening, attach,
                 drag, turns, faults>>

ReconcilePauses ==
  /\ pause["reconciler"].pc = "off"
  /\ PauseDue(card)
  /\ pause' = [pause EXCEPT !["reconciler"].pc = "probe"]
  /\ UNCHANGED <<card, world, report, stale, sleep, restart, opening, attach,
                 drag, counters>>

\* Mutant of PauseProbe: only a session that is gone proves a pause overdue.
PauseProbeGone(p) ==
  /\ pause[p].pc = "probe"
  /\ pause' = [pause EXCEPT ![p] =
       IF session = "none" THEN [pc |-> "apply", effective |-> TRUE]
       ELSE IF p = "person" THEN [pc |-> "apply", effective |-> FALSE] ELSE NoPause]
  /\ UNCHANGED <<card, world, report, stale, sleep, restart, opening, attach, drag, counters>>

\* pauseMustBeEffective for the person, overduePauses for the reconciler: the
\* first goes on to pause anyway, the second leaves a busy card alone.
PauseProbe(p) ==
  /\ pause[p].pc = "probe"
  /\ \/ /\ session # "busy"
        /\ pause' = [pause EXCEPT ![p] = [pc |-> "apply", effective |-> TRUE]]
        /\ UNCHANGED faults
     \/ /\ \/ session = "busy" /\ UNCHANGED faults
           \/ Fault
        /\ pause' = [pause EXCEPT ![p] =
             IF p = "person" THEN [pc |-> "apply", effective |-> FALSE] ELSE NoPause]
  /\ UNCHANGED <<card, world, report, stale, sleep, restart, opening, attach,
                 drag, ops, turns>>

\* The reconciler does not look at the column again: the card may have left
\* `paused` while the runner was answering.
PauseApply(p) ==
  /\ pause[p].pc = "apply"
  /\ card' = Paused(card, pause[p].effective)
  /\ pause' = [pause EXCEPT ![p] = IF card'.opened /\ card'.paused
                                     THEN [@ EXCEPT !.pc = "kill"] ELSE NoPause]
  /\ UNCHANGED <<world, report, stale, sleep, restart, opening, attach, drag, counters>>

PauseKill(p) ==
  /\ pause[p].pc = "kill"
  /\ pause' = [pause EXCEPT ![p] = NoPause]
  /\ \/ KillSession /\ UNCHANGED faults
     \/ Fault /\ UNCHANGED world
  /\ UNCHANGED <<card, report, stale, sleep, restart, opening, attach, drag, ops, turns>>

-----------------------------------------------------------------------------
(* reconcileStaleWorking: a `working` dot no Stop hook ever closed.        *)

FindStaleWorking ==
  /\ stale = "off"
  /\ card.status = "working" /\ Live(card) /\ card.silent
  /\ stale' = "probe"
  /\ UNCHANGED <<card, world, report, pause, sleep, restart, opening, attach,
                 drag, counters>>

\* Mutant of StaleProbe: only a session that is gone is believed.
StaleProbeGone ==
  /\ stale = "probe"
  /\ stale' = IF session = "none" THEN "report" ELSE "off"
  /\ UNCHANGED <<card, world, report, pause, sleep, restart, opening, attach, drag, counters>>

StaleProbe ==
  /\ stale = "probe"
  /\ \/ session # "busy" /\ stale' = "report" /\ UNCHANGED faults
     \/ session = "busy" /\ stale' = "off" /\ UNCHANGED faults
     \/ Fault /\ stale' = "off"
  /\ UNCHANGED <<card, world, report, pause, sleep, restart, opening, attach,
                 drag, ops, turns>>

\* The re-check compares the statusAt of the cached card with itself, so all
\* it can see is that the status is still `working`.
StaleReport ==
  /\ stale = "report"
  /\ stale' = "off"
  /\ IF card.status = "working" THEN \E r \in Reporters : BeginReport(r, "waiting")
                                ELSE UNCHANGED report
  /\ UNCHANGED <<card, world, pause, sleep, restart, opening, attach, drag, counters>>

-----------------------------------------------------------------------------
(* sweepIdleCards, and hibernateCard of the workspace.                     *)

\* cardsToHibernate, after the early return of the sweep on a setting of 0.
SweepIdle ==
  /\ sleep = "off"
  /\ IdleSetting
  /\ Live(card) /\ card.cold
  /\ card.column = "done" \/ card.status # "working"
  /\ sleep' = IF card.column = "done" THEN "apply" ELSE "probe"
  /\ UNCHANGED <<card, world, report, pause, stale, restart, opening, attach,
                 drag, counters>>

HibernateRequest ==
  /\ sleep = "off" /\ Op
  /\ sleep' = "apply"
  /\ UNCHANGED <<card, world, report, pause, stale, restart, opening, attach,
                 drag, turns, faults>>

\* A card the runner calls busy, or cannot speak of, is spared and counted as
\* alive; a finished one is not spared.
SleepProbe ==
  /\ sleep = "probe"
  /\ \/ /\ session # "busy" \/ card.column = "done"
        /\ sleep' = "apply"
        /\ UNCHANGED <<card, faults>>
     \/ /\ card.column # "done"
        /\ \/ session = "busy" /\ UNCHANGED faults
           \/ Fault
        /\ sleep' = "off"
        /\ card' = [card EXCEPT !.cold = FALSE]
  /\ UNCHANGED <<world, report, pause, stale, restart, opening, attach, drag, ops, turns>>

SleepApply ==
  /\ sleep = "apply"
  /\ \/ MayHibernate(card) /\ card' = Hibernated(card) /\ sleep' = "kill"
     \/ ~MayHibernate(card) /\ sleep' = "off" /\ UNCHANGED card
  /\ UNCHANGED <<world, report, pause, stale, restart, opening, attach, drag, counters>>

SleepKill ==
  /\ sleep = "kill"
  /\ sleep' = "off"
  /\ \/ KillSession /\ UNCHANGED faults
     \/ Fault /\ UNCHANGED world
  /\ UNCHANGED <<card, report, pause, stale, restart, opening, attach, drag, ops, turns>>

-----------------------------------------------------------------------------
(* restartStaggered and applySessionChange: a session that must be started *)
(* again to read what changed; restartCard does it unasked.                *)

RestartRequest ==
  /\ restart = "off" /\ Op
  /\ \/ Live(card) /\ card.status = "working" /\ restart' = "mark"
     \/ Live(card) /\ card.status # "working" /\ restart' = "kill"
     \/ restart' = "kill"  \* restartCard itself
  /\ UNCHANGED <<card, world, report, pause, stale, sleep, opening, attach,
                 drag, turns, faults>>

\* markRestartPending trusts the status its caller read.
RestartMark ==
  /\ restart = "mark"
  /\ restart' = "off"
  /\ card' = [card EXCEPT !.flagged = TRUE]
  /\ UNCHANGED <<world, report, pause, stale, sleep, opening, attach, drag, counters>>

RestartKill ==
  /\ restart = "kill"
  /\ restart' = "off"
  /\ \/ KillSession /\ UNCHANGED faults
     \/ Fault /\ UNCHANGED world
  /\ UNCHANGED <<card, report, pause, stale, sleep, opening, attach, drag, ops, turns>>

-----------------------------------------------------------------------------
(* openCard, the terminal that attaches, and the drag between columns.     *)

BeginOpen == opening = "off" /\ opening' = "script"

OpenRequest ==
  /\ Op /\ BeginOpen
  /\ UNCHANGED <<card, world, report, pause, stale, sleep, restart, attach,
                 drag, turns, faults>>

\* provisionWorkspace: a script that fails ends the open.
OpenScript ==
  /\ opening = "script"
  /\ \/ CreateSession /\ opening' = "apply" /\ UNCHANGED faults
     \/ Fault /\ opening' = "off" /\ UNCHANGED world
  /\ UNCHANGED <<card, report, pause, stale, sleep, restart, attach, drag, ops, turns>>

OpenApply ==
  /\ opening = "apply"
  /\ opening' = "off"
  /\ card' = Opened(card)
  /\ UNCHANGED <<world, report, pause, stale, sleep, restart, attach, drag, counters>>

\* A pane of the deck connects: refused while the card is paused, once the
\* grace of stillPausedAfterGrace is over.  The check starts the process that
\* attaches; typing will report `working` of a card that is shelved or
\* finished.  A card never opened is attached to like any other once its
\* workspace was prepared; the pane of one that was not opens it first
\* (needsProvisioning: that is OpenRequest).
AttachCheck ==
  /\ attach = "off" /\ Op
  /\ ~card.paused
  /\ attach' = IF card.column \in {"paused", "done"} THEN "reviving" ELSE "spawn"
  /\ UNCHANGED <<card, world, report, pause, stale, sleep, restart, opening,
                 drag, turns, faults>>

\* The process reaches tmux, and creates the session when it is gone.
AttachSpawn ==
  /\ attach \in {"spawn", "reviving"}
  /\ CreateSession
  /\ attach' = IF attach = "reviving" THEN "revives" ELSE "off"
  /\ UNCHANGED <<card, report, pause, stale, sleep, restart, opening, drag, counters>>

AttachInput ==
  /\ attach = "revives"
  /\ attach' = "off"
  /\ \/ card' = Reported(card, "working")
     \/ UNCHANGED card  \* the socket closes with nothing typed
  /\ UNCHANGED <<world, report, pause, stale, sleep, restart, opening, drag, counters>>

\* Mutant of DragRead: the column asked for is not validated.
DragReadUnvalidated ==
  /\ drag.pc = "off" /\ Op
  /\ \E target \in (Columns \union {"archived"}) \ {card.column} :
       drag' = [pc |-> "apply", target |-> target, effect |-> MoveEffect(card, target)]
  /\ UNCHANGED <<card, world, report, pause, stale, sleep, restart, opening,
                 attach, turns, faults>>

DragRead ==
  /\ drag.pc = "off" /\ Op
  /\ \E target \in Columns \ {card.column} :
       drag' = [pc |-> "apply", target |-> target, effect |-> MoveEffect(card, target)]
  /\ UNCHANGED <<card, world, report, pause, stale, sleep, restart, opening,
                 attach, turns, faults>>

\* updateCard, then what the move means for the session.
DragApply ==
  /\ drag.pc = "apply"
  /\ card' = [card EXCEPT !.column = drag.target]
  /\ drag' = IF drag.effect = "none" THEN NoDrag ELSE [drag EXCEPT !.pc = "effect"]
  /\ UNCHANGED <<world, report, pause, stale, sleep, restart, opening, attach, counters>>

DragEffect ==
  /\ drag.pc = "effect"
  /\ drag' = NoDrag
  /\ \/ drag.effect = "pause" /\ BeginPause /\ UNCHANGED opening
     \/ drag.effect = "resume" /\ BeginOpen /\ UNCHANGED pause
  /\ UNCHANGED <<card, world, report, stale, sleep, restart, attach, counters>>

-----------------------------------------------------------------------------
\* The backend dies and comes back: every handler was memory.
Crash ==
  /\ Fault
  /\ report' = [r \in Reporters |-> NoReport]
  /\ pause' = [p \in Pausers |-> NoPause]
  /\ stale' = "off" /\ sleep' = "off" /\ restart' = "off"
  /\ opening' = "off" /\ attach' = "off" /\ drag' = NoDrag
  /\ UNCHANGED <<card, world, ops, turns>>

Claude == TurnStarts \/ HookFires \/ TurnEnds \/ SessionDies \/ HookLost

Person ==
  PauseRequest \/ HibernateRequest \/ RestartRequest \/ OpenRequest
    \/ AttachCheck \/ DragRead

ReportStep(r)  == ReportApply(r) \/ ReportKill(r)
PauseStep(p)   == PauseProbe(p) \/ PauseApply(p) \/ PauseKill(p)
StaleStep      == StaleProbe \/ StaleReport
SleepStep      == SleepProbe \/ SleepApply \/ SleepKill
RestartStep    == RestartMark \/ RestartKill
OpenStep       == OpenScript \/ OpenApply
AttachStep     == AttachSpawn \/ AttachInput
DragStep       == DragApply \/ DragEffect

Handler ==
  \/ \E r \in Reporters : ReportRead(r) \/ ReportStep(r)
  \/ \E p \in Pausers : PauseStep(p)
  \/ StaleStep \/ SleepStep \/ RestartStep \/ OpenStep \/ AttachStep \/ DragStep

Timer == ReconcilePauses \/ FindStaleWorking \/ SweepIdle

\* Somebody works in the session, or did and its report is still under way.
AtWork ==
  \/ session = "busy" \/ "working" \in hooks
  \/ \E r \in Reporters : report[r].pc = "apply" /\ report[r].status = "working"

\* What the history variable remembers of a finished card: whether anybody
\* has been at work in it at any time since it was filed as done.
Watch ==
  stirred' = (card'.column = "done" /\ (AtWork' \/ (card.column = "done" /\ stirred)))

Step == Claude \/ TimePasses \/ Person \/ Handler \/ Timer \/ Crash

Next == Step /\ Watch

Spec == Init /\ [][Next]_vars

\* The clock runs, the timers tick, and the handlers they start and those of
\* the reports go on.  Nothing is promised of Claude, of its hooks, or of what
\* a person asks for.
Fairness ==
  /\ WF_system(TimePasses)
  /\ \A r \in Reporters : WF_system(ReportStep(r))
  /\ WF_system(ReconcilePauses) /\ WF_system(PauseStep("reconciler"))
  /\ WF_system(FindStaleWorking) /\ WF_system(StaleStep)
  /\ WF_system(SweepIdle) /\ WF_system(SleepStep)

FairSpec == Spec /\ Fairness

-----------------------------------------------------------------------------
(* Properties.                                                             *)

\* Every handler is where its code can be, and holds what it can hold.
TypeOK ==
  /\ card \in CardRecord
  /\ session \in {"none", "idle", "busy"} /\ hooks \subseteq Statuses
  /\ report \in [Reporters -> [pc : {"off", "apply", "kill", "restart"},
                               status : Statuses, pauseDue : BOOLEAN, restartDue : BOOLEAN]]
  /\ pause \in [Pausers -> [pc : {"off", "probe", "apply", "kill"}, effective : BOOLEAN]]
  /\ stale \in {"off", "probe", "report"} /\ sleep \in {"off", "probe", "apply", "kill"}
  /\ restart \in {"off", "mark", "kill"} /\ opening \in {"off", "script", "apply"}
  /\ attach \in {"off", "spawn", "reviving", "revives"}
  /\ drag \in [pc : {"off", "apply", "effect"}, target : Columns,
               effect : {"none", "pause", "resume"}]
  /\ ops \in 0..MaxOps /\ turns \in 0..MaxTurns /\ faults \in 0..MaxFaults
  /\ stirred \in BOOLEAN

\* "A dot on a card with no process behind it is a lie": whatever reports,
\* sweeps and reconcilers are in flight, a card that is paused or hibernated
\* has been opened and shows no status.
AsleepHasNoDot ==
  card.paused \/ card.hibernated => card.opened /\ card.status = "none"

\* "A hook cannot undo a decision it does not know about": a card filed under
\* `paused` leaves that column, or its pause is lifted, by an open or a drag
\* somebody asked for, never by a report (that of somebody typing into its
\* pane included), a sweep, a restart or a timer.
PauseSticks ==
  [][card.column = "paused" /\ (card'.column # "paused" \/ (card.paused /\ ~card'.paused))
       => opening = "apply" \/ drag.pc = "apply"]_vars

\* Only WORK reopens a finished card: a session opened, attached to,
\* restarted, hibernated or reconciled, with all the reports that fires, leaves
\* it in `done`.  It comes back by a drag, by somebody typing into its pane, or
\* when a turn ran, or its report was still under way, since it was finished;
\* and while the dot still says that the turn which finished it goes on, by a
\* drag only, whatever that turn's tools report.
DoneSticks ==
  [][card.column = "done" /\ card'.column # "done"
       => \/ drag.pc = "apply"
          \/ (attach = "revives" \/ stirred) /\ card.status # "working"]_vars

\* A pending pause lands, however many hooks are lost: once Claude is not
\* working any more, no card stays in `paused` with a live session.
PendingPauseLands == <>[](session # "busy") => (PauseDue(card) ~> ~PauseDue(card))

\* The dot of a Claude that has stopped working goes out, hooks or no hooks.
StaleDotGoesOut ==
  <>[](session # "busy")
    => ((card.status = "working" /\ Live(card)) ~> (card.status # "working" \/ ~Live(card)))

\* A finished card whose Claude is idle is put to sleep, "whatever the idle
\* setting says": its session does not stay up for ever.
DoneCardSleeps ==
  <>[](card.column = "done" /\ session # "busy") => []<>(~Live(card) \/ session = "none")

\* "`pausedAt` therefore always means the session is dead": once the handlers
\* that kill or create sessions are through.
Settled ==
  /\ \A r \in Reporters : report[r].pc = "off"
  /\ \A p \in Pausers : pause[p].pc = "off"
  /\ sleep = "off" /\ restart = "off" /\ opening = "off" /\ attach = "off" /\ drag.pc = "off"

PausedMeansDead == card.paused /\ Settled => session = "none"
=============================================================================
