------------------------ MODULE CardLifecycleProofs ------------------------
(***************************************************************************)
(* Machine-checked proofs about CardLifecycle, for any number of status    *)
(* reports handled at once and any bounds.  The handlers are many, but a   *)
(* card changes in seven ways only (CardChanges); what is proved of the    *)
(* card is proved of those seven.                                          *)
(***************************************************************************)
EXTENDS CardLifecycle, TLAPS

USE IdleSettingAssumption, BoundsAssumption

-----------------------------------------------------------------------------
(* The registry's rules keep the record a card.                            *)

\* applyCardStatus answers a card for every card and status.
LEMMA ReportedType ==
  ASSUME NEW c \in CardRecord, NEW s \in Statuses
  PROVE  Reported(c, s) \in CardRecord
  BY DEF Reported, CardRecord, Columns, Statuses, ColumnAfterStatus

\* So do the open, the pause and the hibernation.
LEMMA RulesType ==
  ASSUME NEW c \in CardRecord, NEW e \in BOOLEAN
  PROVE  /\ Opened(c) \in CardRecord
         /\ Paused(c, e) \in CardRecord
         /\ Hibernated(c) \in CardRecord
<1>1. Opened(c) \in CardRecord
  BY DEF Opened, CardRecord, Columns, ColumnAfterOpen
<1>2. Paused(c, e) \in CardRecord
  BY DEF Paused, CardRecord, Columns, Statuses
<1>3. Hibernated(c) \in CardRecord
  BY DEF Hibernated, CardRecord, Statuses
<1> QED
  BY <1>1, <1>2, <1>3

-----------------------------------------------------------------------------
(* What a step can do to the card.                                         *)

\* The clocks and the restart flag, which no rule below looks at.
Ticked(c, d) ==
  \E b \in BOOLEAN : d \in {[c EXCEPT !.cold = b], [c EXCEPT !.silent = b], [c EXCEPT !.flagged = b]}

\* A report of status `s` is at its apply, or a pane that revives is typed into.
Telling(s) ==
  \/ \E r \in Reporters : report[r].pc = "apply" /\ report[r].status = s
  \/ attach = "revives"

CardChange ==
  \/ card' = card
  \/ Ticked(card, card')
  \/ \E s \in Statuses : Telling(s) /\ card' = Reported(card, s)
  \/ \E e \in BOOLEAN : card' = Paused(card, e)
  \/ MayHibernate(card) /\ card' = Hibernated(card)
  \/ opening = "apply" /\ card' = Opened(card)
  \/ drag.pc = "apply" /\ \E t \in Columns : card' = [card EXCEPT !.column = t]

\* Every step of every handler, hook, timer and crash changes the card in one
\* of these ways.
LEMMA CardChanges == TypeOK /\ [Next]_vars => CardChange
<1> SUFFICES ASSUME TypeOK, [Next]_vars PROVE CardChange
  OBVIOUS
<1> USE DEF CardChange, Telling
<1>1. ASSUME Claude \/ TimePasses PROVE CardChange
  BY <1>1 DEF Claude, TimePasses, TurnStarts, HookFires, TurnEnds, SessionDies, HookLost, Ticked
<1>2. ASSUME Person \/ Timer \/ Crash \/ UNCHANGED vars PROVE CardChange
  BY <1>2 DEF Person, Timer, Crash, vars, system, PauseRequest, HibernateRequest, RestartRequest,
     OpenRequest, AttachCheck, DragRead, ReconcilePauses, FindStaleWorking, SweepIdle
<1>3. ASSUME NEW r \in Reporters, ReportRead(r) \/ ReportStep(r) PROVE CardChange
  BY <1>3 DEF ReportRead, ReportStep, ReportApply, ReportKill, TypeOK
<1>4. ASSUME NEW p \in Pausers, PauseStep(p) PROVE CardChange
  BY <1>4 DEF PauseStep, PauseProbe, PauseApply, PauseKill, TypeOK
<1>5. ASSUME StaleStep \/ SleepStep \/ RestartStep PROVE CardChange
  BY <1>5 DEF StaleStep, StaleProbe, StaleReport, SleepStep, SleepProbe, SleepApply, SleepKill,
     RestartStep, RestartMark, RestartKill, Ticked
<1>6. ASSUME OpenStep \/ AttachStep \/ DragStep PROVE CardChange
  BY <1>6 DEF OpenStep, OpenScript, OpenApply, AttachStep, AttachSpawn, AttachInput, DragStep,
     DragApply, DragEffect, TypeOK, Statuses
<1> QED
  BY <1>1, <1>2, <1>3, <1>4, <1>5, <1>6 DEF Next, Step, Handler

\* Each of them keeps the record a card.
LEMMA CardTypeStep == card \in CardRecord /\ CardChange => card' \in CardRecord
<1> SUFFICES ASSUME card \in CardRecord, CardChange PROVE card' \in CardRecord
  OBVIOUS
<1>1. ASSUME Ticked(card, card') PROVE card' \in CardRecord
  BY <1>1 DEF Ticked, CardRecord
<1>2. ASSUME NEW t \in Columns, card' = [card EXCEPT !.column = t] PROVE card' \in CardRecord
  BY <1>2 DEF CardRecord
<1> QED
  BY <1>1, <1>2, ReportedType, RulesType DEF CardChange

-----------------------------------------------------------------------------
(* Type correctness.                                                       *)

\* What TypeOK says of everything but the card.
HandlersOK ==
  /\ session \in {"none", "idle", "busy"} /\ hooks \subseteq Statuses
  /\ report \in [Reporters -> [pc : {"off", "apply", "kill", "restart"},
                               status : Statuses, pauseDue : BOOLEAN, restartDue : BOOLEAN]]
  /\ pause \in [Pausers -> [pc : {"off", "probe", "apply", "kill"}, effective : BOOLEAN]]
  /\ stale \in {"off", "probe", "report"} /\ sleep \in {"off", "probe", "apply", "kill"}
  /\ restart \in {"off", "mark", "kill"} /\ opening \in {"off", "script", "apply"}
  /\ attach \in {"off", "spawn", "reviving", "revives"}
  /\ drag \in [pc : {"off", "apply", "effect"}, target : Columns,
               effect : {"none", "pause", "resume"}]
  /\ ops \in 0..MaxOps /\ turns \in 0..MaxTurns /\ faults \in 0..MaxFaults

\* Killing and creating the session, and a call that fails, keep the types.
LEMMA WorldType ==
  ASSUME session \in {"none", "idle", "busy"}, hooks \subseteq Statuses, faults \in 0..MaxFaults
  PROVE  /\ KillSession \/ CreateSession \/ UNCHANGED world
              => session' \in {"none", "idle", "busy"} /\ hooks' \subseteq Statuses
         /\ Fault \/ UNCHANGED faults => faults' \in 0..MaxFaults
<1>1. KillSession => session' \in {"none", "idle", "busy"} /\ hooks' \subseteq Statuses
  BY DEF KillSession
<1>2. CreateSession \/ UNCHANGED world => session' \in {"none", "idle", "busy"} /\ hooks' \subseteq Statuses
  BY DEF CreateSession, Hook, Statuses, world
<1>3. Fault \/ UNCHANGED faults => faults' \in 0..MaxFaults
  BY DEF Fault
<1> QED
  BY <1>1, <1>2, <1>3

\* A pause begins at the probe or at the change of the card.
LEMMA BeginPauseType ==
  ASSUME pause \in [Pausers -> [pc : {"off", "probe", "apply", "kill"}, effective : BOOLEAN]],
         BeginPause
  PROVE  pause' \in [Pausers -> [pc : {"off", "probe", "apply", "kill"}, effective : BOOLEAN]]
<1> DEFINE pc == IF card.status = "working" /\ Live(card) THEN "probe" ELSE "apply"
<1>1. pc \in {"probe", "apply"} /\ pause' = [pause EXCEPT !["person"].pc = pc]
  BY DEF BeginPause
<1> HIDE DEF pc
<1> QED
  BY <1>1

\* Every step keeps the handlers, the session and the counters well typed.
LEMMA HandlersTypeStep == TypeOK /\ [Next]_vars => HandlersOK'
<1> SUFFICES ASSUME TypeOK, [Next]_vars PROVE HandlersOK'
  OBVIOUS
<1> USE DEF TypeOK, HandlersOK, counters
<1>0. /\ PauseDue(card) \in BOOLEAN /\ Live(card) \in BOOLEAN /\ card.flagged \in BOOLEAN
      /\ \A r \in Reporters : Verdict(r) \in {"off", "kill", "restart"}
      /\ \A t \in Columns : MoveEffect(card, t) \in {"none", "pause", "resume"}
  BY DEF PauseDue, Live, CardRecord, Verdict, MoveEffect
<1>1. ASSUME Claude \/ TimePasses PROVE HandlersOK'
  BY <1>1 DEF Claude, TimePasses, TurnStarts, HookFires, TurnEnds, SessionDies, HookLost,
     world, handlers, Hook, Fault, Statuses
<1>2. ASSUME PauseRequest PROVE HandlersOK'
  <2>1. pause' \in [Pausers -> [pc : {"off", "probe", "apply", "kill"}, effective : BOOLEAN]]
    BY <1>2, BeginPauseType DEF PauseRequest
  <2> QED
    BY <1>2, <2>1 DEF PauseRequest, Op, world
<1>23. ASSUME HibernateRequest \/ RestartRequest PROVE HandlersOK'
  BY <1>23 DEF HibernateRequest, RestartRequest, Op, world
<1>24. ASSUME OpenRequest \/ AttachCheck PROVE HandlersOK'
  BY <1>24 DEF OpenRequest, AttachCheck, BeginOpen, Op, world
<1>3. ASSUME DragRead PROVE HandlersOK'
  BY <1>0, <1>3 DEF DragRead, Op, world
<1>4. ASSUME Timer PROVE HandlersOK'
  BY <1>4 DEF Timer, ReconcilePauses, FindStaleWorking, SweepIdle, world, Pausers
<1>5. ASSUME Crash PROVE HandlersOK'
  BY <1>5 DEF Crash, Fault, world, NoReport, NoPause, NoDrag, Statuses, Columns
<1>6. ASSUME NEW r \in Reporters, ReportRead(r) PROVE HandlersOK'
  BY <1>0, <1>6 DEF ReportRead, BeginReport
<1>7. ASSUME NEW r \in Reporters, ReportApply(r) PROVE HandlersOK'
  BY <1>0, <1>7 DEF ReportApply, NoReport, world, Statuses
<1>8. ASSUME NEW r \in Reporters, ReportKill(r) PROVE HandlersOK'
  <2>1. report' \in [Reporters -> [pc : {"off", "apply", "kill", "restart"},
                               status : Statuses, pauseDue : BOOLEAN, restartDue : BOOLEAN]]
    BY <1>8 DEF ReportKill, NoReport, Statuses
  <2> QED
    BY <1>8, <2>1, WorldType DEF ReportKill
<1>9. ASSUME NEW p \in Pausers, PauseProbe(p) PROVE HandlersOK'
  <2>1. PICK v \in [pc : {"off", "probe", "apply", "kill"}, effective : BOOLEAN] :
          pause' = [pause EXCEPT ![p] = v]
    <3>1. \/ pause' = [pause EXCEPT ![p] = [pc |-> "apply", effective |-> TRUE]]
          \/ pause' = [pause EXCEPT ![p] = [pc |-> "apply", effective |-> FALSE]]
          \/ pause' = [pause EXCEPT ![p] = NoPause]
      BY <1>9, ZenonT(30) DEF PauseProbe
    <3> QED
      BY <3>1 DEF NoPause
  <2> QED
    BY <1>9, <2>1, WorldType DEF PauseProbe, world
<1>10. ASSUME NEW p \in Pausers, PauseApply(p) PROVE HandlersOK'
  BY <1>10 DEF PauseApply, NoPause, world
<1>11. ASSUME NEW p \in Pausers, PauseKill(p) PROVE HandlersOK'
  <2>1. pause' \in [Pausers -> [pc : {"off", "probe", "apply", "kill"}, effective : BOOLEAN]]
    BY <1>11 DEF PauseKill, NoPause
  <2> QED
    BY <1>11, <2>1, WorldType DEF PauseKill
<1>12. ASSUME StaleProbe PROVE HandlersOK'
  BY <1>12 DEF StaleProbe, Fault, world
<1>13. ASSUME StaleReport PROVE HandlersOK'
  BY <1>0, <1>13 DEF StaleReport, BeginReport, world, Statuses
<1>14. ASSUME SleepProbe \/ SleepApply PROVE HandlersOK'
  BY <1>14 DEF SleepProbe, SleepApply, Fault, world
<1>15. ASSUME SleepKill PROVE HandlersOK'
  BY <1>15, WorldType DEF SleepKill
<1>16. ASSUME RestartMark PROVE HandlersOK'
  BY <1>16 DEF RestartMark, world
<1>17. ASSUME RestartKill PROVE HandlersOK'
  BY <1>17, WorldType DEF RestartKill
<1>18. ASSUME OpenScript PROVE HandlersOK'
  BY <1>18, WorldType DEF OpenScript
<1>19. ASSUME OpenApply \/ AttachInput \/ DragApply PROVE HandlersOK'
  BY <1>19 DEF OpenApply, AttachInput, DragApply, NoDrag, world, Columns
<1>20. ASSUME AttachSpawn PROVE HandlersOK'
  BY <1>20, WorldType DEF AttachSpawn
<1>21. ASSUME DragEffect PROVE HandlersOK'
  <2>1. pause' \in [Pausers -> [pc : {"off", "probe", "apply", "kill"}, effective : BOOLEAN]]
    BY <1>21, BeginPauseType DEF DragEffect
  <2>2. opening' \in {"off", "script", "apply"}
    BY <1>21 DEF DragEffect, BeginOpen
  <2>3. drag' \in [pc : {"off", "apply", "effect"}, target : Columns, effect : {"none", "pause", "resume"}]
    BY <1>21 DEF DragEffect, NoDrag, Columns
  <2> QED
    BY <1>21, <2>1, <2>2, <2>3 DEF DragEffect, world
<1>22. ASSUME UNCHANGED vars PROVE HandlersOK'
  BY <1>22 DEF vars, system, world, handlers
<1> QED
  BY <1>1, <1>2, <1>3, <1>4, <1>5, <1>6, <1>7, <1>8, <1>9, <1>10, <1>11, <1>12, <1>13,
     <1>14, <1>15, <1>16, <1>17, <1>18, <1>19, <1>20, <1>21, <1>22, <1>23, <1>24
  DEF Next, Step, Person, Handler, ReportStep, PauseStep, StaleStep, SleepStep, RestartStep,
      OpenStep, AttachStep, DragStep

\* The initial card is a card without a dot; only an opened one is paused.
LEMMA InitialCards == Init => card \in CardRecord /\ AsleepHasNoDot
<1>1. NewCard \in CardRecord /\ NewCard.status = "none" /\ ~NewCard.paused /\ ~NewCard.hibernated
  BY DEF NewCard, CardRecord, Columns, Statuses
<1>2. ASSUME NEW c \in OldCards
      PROVE  c \in CardRecord /\ c.status = "none" /\ c.opened
  BY <1>2 DEF OldCards, NewCard, CardRecord, Columns, Statuses
<1> QED
  BY <1>1, <1>2 DEF Init, AsleepHasNoDot

\* So the initial states are well typed.
LEMMA TypeInit == Init => TypeOK
<1>1. Init => card \in CardRecord
  BY InitialCards
<1>2. Init => HandlersOK
  BY DEF Init, HandlersOK, Columns, Statuses, NoReport, NoPause, NoDrag
<1> QED
  BY <1>1, <1>2 DEF TypeOK, HandlersOK, Init

\* Type correctness of every state of the card and its handlers.
THEOREM TypeCorrect == Spec => []TypeOK
<1>1. TypeOK /\ [Next]_vars => TypeOK'
  <2> SUFFICES ASSUME TypeOK, [Next]_vars PROVE TypeOK'
    OBVIOUS
  <2>1. card' \in CardRecord
    BY CardChanges, CardTypeStep DEF TypeOK
  <2>2. HandlersOK'
    BY HandlersTypeStep
  <2>3. CASE Next
    <3>1. stirred' \in BOOLEAN
      BY <2>3 DEF Next, Watch
    <3> QED
      BY <2>1, <2>2, <3>1 DEF TypeOK, HandlersOK
  <2>4. CASE UNCHANGED vars
    <3>1. stirred' \in BOOLEAN
      BY <2>4 DEF vars, TypeOK
    <3> QED
      BY <2>1, <2>2, <3>1 DEF TypeOK, HandlersOK
  <2> QED
    BY <2>3, <2>4
<1> QED
  BY TypeInit, <1>1, PTL DEF Spec

-----------------------------------------------------------------------------
(* What the board shows of a card that is asleep, and how it wakes up.     *)

\* A card put to sleep has no dot, and no change of the card gives it one.
THEOREM SleepersHaveNoDot == Spec => []AsleepHasNoDot
<1>1. Init => AsleepHasNoDot
  BY InitialCards
<1>2. TypeOK /\ AsleepHasNoDot /\ [Next]_vars => AsleepHasNoDot'
  <2> SUFFICES ASSUME TypeOK, AsleepHasNoDot, CardChange PROVE AsleepHasNoDot'
    BY CardChanges
  <2> USE DEF TypeOK, CardRecord, AsleepHasNoDot
  <2>1. CASE card' = card \/ Ticked(card, card')
    BY <2>1 DEF Ticked
  <2>2. ASSUME NEW s \in Statuses, card' = Reported(card, s) PROVE AsleepHasNoDot'
    BY <2>2 DEF Reported, PauseDue, Live
  <2>3. ASSUME NEW e \in BOOLEAN, card' = Paused(card, e) PROVE AsleepHasNoDot'
    BY <2>3 DEF Paused
  <2>4. CASE MayHibernate(card) /\ card' = Hibernated(card)
    BY <2>4 DEF MayHibernate, Hibernated, Live
  <2>5. CASE card' = Opened(card)
    BY <2>5 DEF Opened
  <2>6. ASSUME NEW t \in Columns, card' = [card EXCEPT !.column = t] PROVE AsleepHasNoDot'
    BY <2>6
  <2> QED
    BY <2>1, <2>2, <2>3, <2>4, <2>5, <2>6 DEF CardChange
<1> QED
  BY TypeCorrect, <1>1, <1>2, PTL DEF Spec

\* Only an open or a drag takes a card out of `paused`: no interleaving of
\* hooks, reconcilers, sweeps, restarts and crashes does.
THEOREM OnlyPeopleUnpause == Spec => PauseSticks
<1> DEFINE Sticks == card.column = "paused" /\ (card'.column # "paused" \/ (card.paused /\ ~card'.paused))
                       => opening = "apply" \/ drag.pc = "apply"
<1>1. TypeOK /\ [Next]_vars => [Sticks]_vars
  <2> SUFFICES ASSUME TypeOK, CardChange PROVE Sticks
    BY CardChanges
  <2> USE DEF TypeOK, CardRecord
  <2>1. CASE card' = card \/ Ticked(card, card')
    BY <2>1 DEF Ticked
  <2>2. ASSUME NEW s \in Statuses, card' = Reported(card, s) PROVE Sticks
    BY <2>2 DEF Reported, PauseDue, Live, ColumnAfterStatus, Reactivates, Statuses
  <2>3. ASSUME NEW e \in BOOLEAN, card' = Paused(card, e) PROVE Sticks
    BY <2>3 DEF Paused
  <2>4. CASE card' = Hibernated(card)
    BY <2>4 DEF Hibernated
  <2> QED
    BY <2>1, <2>2, <2>3, <2>4 DEF CardChange
<1> QED
  BY TypeCorrect, <1>1, PTL DEF Spec, PauseSticks

-----------------------------------------------------------------------------
(* What brings a finished card back.                                       *)

\* Work in a finished card is remembered for as long as the card is finished.
WorkIsRemembered == card.column = "done" /\ AtWork => stirred

\* No turn runs in the initial states, and none of its reports is under way.
LEMMA QuietAtFirst == Init => WorkIsRemembered
<1> SUFFICES ASSUME Init PROVE ~AtWork
  BY DEF WorkIsRemembered
<1>1. session # "busy" /\ "working" \notin hooks
  BY DEF Init
<1>2. \A r \in Reporters : report[r].pc # "apply"
  BY DEF Init, NoReport
<1> QED
  BY <1>1, <1>2 DEF AtWork

\* Every step remembers it.
LEMMA WorkStaysRemembered == WorkIsRemembered /\ [Next]_vars => WorkIsRemembered'
<1> SUFFICES ASSUME WorkIsRemembered, [Next]_vars, (card.column = "done")', AtWork' PROVE stirred'
  BY DEF WorkIsRemembered
<1>1. CASE Next
  BY <1>1 DEF Next, Watch
<1>2. CASE UNCHANGED vars
  <2>1. AtWork /\ card.column = "done" /\ stirred' = stirred
    BY <1>2 DEF vars, system, world, handlers, AtWork
  <2> QED
    BY <2>1 DEF WorkIsRemembered
<1> QED
  BY <1>1, <1>2

\* Only work reopens a finished card: no interleaving of the sessions opened,
\* attached to and killed in it, of what their hooks report, of sweeps and of
\* reconcilers does, unless a turn ran since it was finished or is reported.
THEOREM OnlyWorkReopens == Spec => DoneSticks
<1> DEFINE Sticks == card.column = "done" /\ card'.column # "done"
                       => \/ drag.pc = "apply"
                          \/ (attach = "revives" \/ stirred) /\ card.status # "working"
<1>1. TypeOK /\ WorkIsRemembered /\ [Next]_vars => [Sticks]_vars
  <2> SUFFICES ASSUME TypeOK, WorkIsRemembered, CardChange PROVE Sticks
    BY CardChanges
  <2> USE DEF TypeOK, CardRecord
  <2>1. CASE card' = card \/ Ticked(card, card')
    BY <2>1 DEF Ticked
  <2>2. ASSUME NEW s \in Statuses, Telling(s), card' = Reported(card, s) PROVE Sticks
    <3>1. card.column = "done" /\ card'.column # "done" => s = "working" /\ card.status # "working"
      BY <2>2 DEF Reported, PauseDue, Live, ColumnAfterStatus, Reactivates, Statuses
    <3>2. s = "working" => AtWork \/ attach = "revives"
      BY <2>2 DEF Telling, AtWork
    <3> QED
      BY <3>1, <3>2 DEF WorkIsRemembered
  <2>3. ASSUME NEW e \in BOOLEAN, card' = Paused(card, e) PROVE Sticks
    BY <2>3 DEF Paused
  <2>4. CASE card' = Hibernated(card) \/ card' = Opened(card)
    BY <2>4 DEF Hibernated, Opened, ColumnAfterOpen
  <2> QED
    BY <2>1, <2>2, <2>3, <2>4 DEF CardChange
<1> QED
  BY TypeCorrect, QuietAtFirst, WorkStaysRemembered, <1>1, PTL DEF Spec, DoneSticks
=============================================================================
