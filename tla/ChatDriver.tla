----------------------------- MODULE ChatDriver -----------------------------
(***************************************************************************)
(* One native-chat driver session of a card, as the backend keeps it       *)
(* (services/sdk/manager.ts, DriverSession): how many turns are in flight, *)
(* the work that outlives a turn, the watch over an automatic              *)
(* continuation, the retry after an API failure, the in-flight marker it   *)
(* last wrote.  Every operator is a pure function from a session to the    *)
(* session its handler leaves; NativeChat composes them with the disk, the *)
(* CLI, the other backend and the browser.                                 *)
(*                                                                         *)
(* The field io says what the handler did last to the marker file and said *)
(* which line of the panel it wrote: the action that runs the handler      *)
(* carries both out and resets them (Quiet).                               *)
(***************************************************************************)
EXTENDS Integers, FiniteSets

CONSTANTS
    MaxAutoResumes,  \* MAX_AUTO_RESUMES
    MaxApiRetries    \* Len(API_RETRY_DELAYS_MS)

ASSUME LimitsAssumption ==
    MaxAutoResumes \in Nat \ {0} /\ MaxApiRetries \in Nat

(* What goes on after a turn has closed: tasks of the CLI, notices of      *)
(* finished tasks the model has not read, a scheduled wake-up.             *)
Work == {"task", "notice", "wakeup"}

NoMarker == [at |-> 0, owner |-> 0, attempts |-> 0, progressed |-> FALSE,
             work |-> {}, idle |-> FALSE]

(* A marker of a turn that entered now, before putMarker completes it.     *)
Marker(now, attempts) == [NoMarker EXCEPT !.at = now, !.attempts = attempts]

\* Mutant of mayResumeAgain: the count of resumes alone decides.
mayResumeAgainByCount(m) == m.attempts < MaxAutoResumes

(* The turn earns one more automatic resume.                               *)
mayResumeAgain(m) ==
    \/ m.attempts = 0
    \/ m.progressed /\ m.attempts < MaxAutoResumes

NoSession ==
    [child |-> "none", activeTurns |-> 0, autonomousTurn |-> FALSE, work |-> {},
     settling |-> FALSE, watch |-> "none", armed |-> FALSE, stirred |-> FALSE,
     failures |-> 0, retryTimer |-> FALSE, idleTimer |-> FALSE,
     boardStatus |-> "none", marker |-> NoMarker, io |-> "keep", said |-> "nothing"]

FreshSession == [NoSession EXCEPT !.child = "up"]

Quiet(s) == [s EXCEPT !.io = "keep", !.said = "nothing"]

(* An open session: closed is stamped as the session leaves the map.       *)
Open(s) == s.child # "none"

(* stdin still takes a line: a child that died keeps looking alive (deaf)  *)
(* until its exit code is seen.                                            *)
canAcceptTurn(s) == s.child \in {"up", "deaf"}

\* Mutant of isTurnInFlight: only the turns somebody sent count.
isTurnInFlightIfSent(s) == s.activeTurns > 0

isTurnInFlight(s) == s.activeTurns > 0 \/ s.autonomousTurn

turnRunning(s) == isTurnInFlight(s) \/ s.watch # "none" \/ s.retryTimer

(* isDriverBusy, while background tasks still count.                       *)
isDriverBusy(s) == turnRunning(s) \/ "task" \in s.work

syncBoardStatus(s) ==
    [s EXCEPT !.boardStatus = IF turnRunning(s) THEN "working" ELSE "waiting"]

putMarker(s, base) ==
    [s EXCEPT !.marker = [base EXCEPT !.work = s.work,
                                      !.idle = s.work # {} /\ ~turnRunning(s)],
              !.io = "put"]

\* Mutant of syncInflightMarker: the end of the turn is the end of the marker.
syncInflightMarkerTurnOnly(s0, now) ==
    LET s == syncBoardStatus(s0)
    IN  IF ~turnRunning(s) THEN [s EXCEPT !.marker = NoMarker, !.io = "clear"]
        ELSE IF s.marker = NoMarker THEN putMarker(s, Marker(now, 0)) ELSE s

syncInflightMarker(s0, now) ==
    LET s == syncBoardStatus(s0)
        stale == \/ s.marker.work # s.work
                 \/ s.work # {} /\ s.marker.idle = turnRunning(s)
    IN  CASE ~turnRunning(s) /\ s.work = {} ->
                 [s EXCEPT !.marker = NoMarker, !.io = "clear"]
          [] OTHER ->
                 IF s.marker = NoMarker THEN putMarker(s, Marker(now, 0))
                 ELSE IF stale THEN putMarker(s, s.marker) ELSE s

(* The idle clock is armed when no page is connected and no turn runs.     *)
maybeScheduleIdleStop(s, attached) ==
    [s EXCEPT !.idleTimer = @ \/ (~attached /\ ~isTurnInFlight(s))]

-----------------------------------------------------------------------------
(* Turns that enter the driver.                                            *)

(* One more turn is owed a result.                                         *)
CountTurn(s) ==
    syncBoardStatus([s EXCEPT !.activeTurns = @ + 1, !.idleTimer = FALSE])

(* handleClientFrame and markPersonTurn: a person's turn restarts the chain *)
(* and the CLI folds the pending notices into it.                          *)
PersonTurn(s, now) ==
    putMarker([CountTurn(s) EXCEPT !.watch = "none", !.armed = FALSE,
                                   !.failures = 0, !.retryTimer = FALSE,
                                   !.work = @ \ {"notice"}],
              Marker(now, 0))

(* injectSystemTurn: the continuation after a deploy or a crash.           *)
injectSystemTurn(s, now, attempts) ==
    putMarker([CountTurn(s) EXCEPT !.watch = "fresh", !.armed = FALSE],
              Marker(now, attempts))

armResumeWatch(s) ==
    IF s.watch = "none" THEN s ELSE [s EXCEPT !.armed = TRUE, !.stirred = FALSE]

abandonResumeWatch(s, now) ==
    syncInflightMarker([s EXCEPT !.watch = "none", !.armed = FALSE], now)

(* The deadline of the continuation: an open turn or a sign of life waits  *)
(* again; else the order goes once more, and the second time a line says   *)
(* that it did not work.                                                   *)
checkResumeWatch(s0, now, attached) ==
    LET s == [s0 EXCEPT !.armed = FALSE]
    IN  IF isTurnInFlight(s) \/ s.stirred THEN armResumeWatch(s)
        ELSE IF s.watch = "fresh" /\ canAcceptTurn(s)
             THEN syncInflightMarker([CountTurn(s) EXCEPT !.watch = "reengaged"], now)
             ELSE maybeScheduleIdleStop(
                      [abandonResumeWatch(s, now) EXCEPT !.said = "stalled"], attached)

cancelApiRetry(s, now, attached) ==
    maybeScheduleIdleStop(
        syncInflightMarker([s EXCEPT !.failures = 0, !.retryTimer = FALSE], now), attached)

(* The retry of a turn the API ended: the order to continue, unless        *)
(* another turn runs; with no driver to take it, a line says so.           *)
ApiRetryFires(s0, now, attached) ==
    LET s == [s0 EXCEPT !.retryTimer = FALSE]
    IN  IF isTurnInFlight(s) THEN s
        ELSE IF canAcceptTurn(s) THEN putMarker(CountTurn(s), Marker(now, 0))
        ELSE [cancelApiRetry(s, now, attached) EXCEPT !.said = "exhausted"]

(* noteApiOutcome, after the count of the turn has gone down: an error     *)
(* that will not pass (failed) leaves the count and the retry as they are. *)
noteApiOutcome(s0, outcome) ==
    LET s == [s0 EXCEPT !.retryTimer = FALSE]
    IN  CASE outcome = "failed" -> s0
          [] outcome = "result" -> [s EXCEPT !.failures = 0]
          [] outcome = "api_error" /\ s.failures + 1 > MaxApiRetries ->
                 [s EXCEPT !.failures = 0, !.said = "exhausted"]
          [] OTHER ->
                 [s EXCEPT !.failures = @ + 1, !.retryTimer = ~isTurnInFlight(s)]

-----------------------------------------------------------------------------
(* Events of the driver, each the arm of handleDriverEvent it takes.       *)

(* noteAgentWork: the principal speaks with no counted turn, so the CLI    *)
(* opened one by itself, which reads the pending notices.                  *)
noteAgentWork(s, now, schedules) ==
    LET opens  == ~isTurnInFlight(s)
        kept   == IF opens THEN s.work \ {"notice", "wakeup"} ELSE s.work
        spoken == [s EXCEPT !.autonomousTurn = @ \/ opens,
                            !.work = IF schedules THEN kept \cup {"wakeup"} ELSE kept]
    IN  IF opens \/ schedules THEN syncInflightMarker(spoken, now) ELSE spoken

(* The continuation produced something: it took.                           *)
ContinuationTook(s) ==
    IF s.watch = "none" THEN s
    ELSE [putMarker(s, [s.marker EXCEPT !.progressed = TRUE])
             EXCEPT !.watch = "none", !.armed = FALSE]

OnWork(s, now, schedules) == ContinuationTook(noteAgentWork(s, now, schedules))

(* A delta only proves life.                                               *)
OnDelta(s) == [s EXCEPT !.stirred = @ \/ s.watch # "none"]

(* The set of background tasks changed; a task that left owes its notice.  *)
OnTasks(s, now, alive, attached) ==
    LET had  == "task" \in s.work
        work == IF alive THEN s.work \cup {"task"}
                ELSE IF had THEN (s.work \ {"task"}) \cup {"notice"} ELSE s.work
        next == [s EXCEPT !.work = work,
                          !.settling = IF had = alive THEN @ ELSE ~alive]
    IN  maybeScheduleIdleStop(
            [syncInflightMarker(next, now) EXCEPT !.idleTimer = FALSE], attached)

\* Mutant of OnAbsorbed: the running turn is taken off as well.
OnAbsorbedToZero(s) ==
    [s EXCEPT !.activeTurns = IF @ > 2 THEN @ - 2 ELSE 0]

(* The send folded into the running turn and owes no result of its own.    *)
OnAbsorbed(s) ==
    [s EXCEPT !.activeTurns = IF @ - 1 > 1 THEN @ - 1 ELSE 1]

\* Mutant of OnResult: the count goes down though the CLI opened the turn.
OnResultUnfloored(s, now, outcome, attached) ==
    LET closed  == [s EXCEPT !.activeTurns = @ - 1, !.autonomousTurn = FALSE]
        watched == IF isTurnInFlight(closed) THEN closed ELSE armResumeWatch(closed)
    IN  maybeScheduleIdleStop(
            syncInflightMarker(noteApiOutcome(watched, outcome), now), attached)

OnResult(s, now, outcome, attached) ==
    LET closed  == [s EXCEPT !.activeTurns = IF @ > 0 THEN @ - 1 ELSE 0,
                             !.autonomousTurn = FALSE]
        watched == IF isTurnInFlight(closed) THEN closed ELSE armResumeWatch(closed)
    IN  maybeScheduleIdleStop(
            syncInflightMarker(noteApiOutcome(watched, outcome), now), attached)

(* An error of the driver ends a turn the CLI opened by itself, when no    *)
(* turn somebody sent is counted: the stream may have died under it.       *)
OnError(s, now, attached) ==
    IF s.autonomousTurn /\ s.activeTurns = 0
    THEN maybeScheduleIdleStop(
             syncInflightMarker([s EXCEPT !.autonomousTurn = FALSE], now), attached)
    ELSE s

(* The events that close a turn: with its answer, with an error of the API *)
(* that may pass, with any other error.                                    *)
Closings == {"result", "api_error", "failed"}

handleDriverEvent(s, event, now, attached) ==
    CASE event = "work"      -> OnWork(s, now, FALSE)
      [] event = "schedules" -> OnWork(s, now, TRUE)
      [] event = "delta"     -> OnDelta(s)
      [] event = "tasks"     -> OnTasks(s, now, TRUE, attached)
      [] event = "no_tasks"  -> OnTasks(s, now, FALSE, attached)
      [] event = "absorbed"  -> OnAbsorbed(s)
      [] event = "error"     -> OnError(s, now, attached)
      [] event \in Closings  -> OnResult(s, now, event, attached)

(* The interrupt frame: at most one result is still owed, and neither the  *)
(* watch nor the retry may undo the click.                                 *)
OnInterrupt(s0, now, attached) ==
    LET s       == [s0 EXCEPT !.activeTurns = IF @ > 1 THEN 1 ELSE @]
        watched == IF s.watch = "none" THEN s ELSE abandonResumeWatch(s, now)
    IN  IF watched.retryTimer THEN cancelApiRetry(watched, now, attached) ELSE watched

(* The dot of the card after a report: waiting does not stand while the    *)
(* driver holds a turn or a task (onCardBackgroundProbe).                  *)
Reported(s, status) == IF status = "waiting" /\ isDriverBusy(s) THEN "working" ELSE status
=============================================================================
