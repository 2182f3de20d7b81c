----------------------------- MODULE NativeChat -----------------------------
(***************************************************************************)
(* The native chat of one card across backends: the driver sessions        *)
(* (services/sdk/manager.ts), the CLI each one speaks to, the in-flight    *)
(* marker on disk (inflight.ts) and the automatic resume after a deploy or *)
(* a crash of the driver (resume.ts).  Backends are numbered in the order  *)
(* they boot; a deploy is blue/green (the old one is still up, and may be  *)
(* killed with no goodbye) or a stop and a start.                          *)
(***************************************************************************)
EXTENDS ChatDriver, Sequences, SequencesExt

CONSTANTS
    MaxBackends,     \* bound: backends that ever boot
    MaxPipe,         \* bound: events of a driver not yet read
    MaxHeld,         \* bound: messages a driver has not given to its CLI yet
    Budgets          \* the fault and input budgets a behaviour may start with

ASSUME BoundsAssumption ==
    MaxBackends \in Nat \ {0} /\ MaxPipe \in Nat /\ MaxHeld \in Nat \ {0}

Backends == 1 .. MaxBackends

VARIABLES
    bk,       \* backend -> "off" | "up" | "stopping" | "gone"
    beat,     \* backend -> its heartbeat reads as fresh
    drv,      \* backend -> its driver session of the card
    cli,      \* backend -> the CLI behind that driver
    pipe,     \* backend -> events written by the driver, not yet read
    marker,   \* what the marker file says once all that was asked of it has landed
    file,     \* the marker file
    ink,      \* backend -> the operation on it that is still under way (see Asks)
    resume,   \* <<backend, cause>> -> the resume task
    paused,   \* the card has no live session, by somebody's decision
    dot,      \* the card's status on the board
    clock,    \* stamps startedAt: one per marker with a new turn
    budget,   \* faults and inputs left
    page,     \* the backend an open page of the card is attached to, or 0
    owed,     \* work died, and neither a note nor another turn followed it
    crossed,  \* the marker file failed its readers (see Crosses)
    chain,    \* automatic resumes since a turn with a marker of its own began
    barren,   \* of those, the ones since the agent last produced something
    stranded, \* work was given up that nobody follows (see Dies, IdleFires)
    miscount  \* backend -> fewer turns counted than the CLI has (see Enters)

disk     == <<marker, file, ink>>
turnVars == <<drv, cli, pipe, disk, dot, clock>>
ghosts   == <<owed, crossed, chain, barren, stranded, miscount>>
vars == <<bk, beat, drv, cli, pipe, disk, resume, paused, dot, clock, budget,
          page, owed, crossed, chain, barren, stranded, miscount>>

NoCli   == [run |-> "no", spoke |-> FALSE, after |-> {}, held |-> 0]
NoTask  == [pc |-> "none", m |-> NoMarker, noted |-> FALSE, seen |-> 0]
Dry     == [op |-> "none", m |-> NoMarker]
Tasks   == Backends \X {"restart", "crash"}
attached(b) == page = b

Init ==
    /\ bk = [b \in Backends |-> IF b = 1 THEN "up" ELSE "off"]
    /\ beat = [b \in Backends |-> b = 1]
    /\ drv = [b \in Backends |-> NoSession]
    /\ cli = [b \in Backends |-> NoCli]
    /\ pipe = [b \in Backends |-> <<>>]
    /\ marker = NoMarker
    /\ file = NoMarker
    /\ ink = [b \in Backends |-> Dry]
    /\ resume = [t \in Tasks |-> NoTask]
    /\ paused = FALSE
    /\ dot = "waiting"
    /\ clock = 0
    /\ budget \in Budgets
    /\ page = 0
    /\ owed = FALSE
    /\ crossed = FALSE
    /\ chain = 0
    /\ barren = 0
    /\ stranded = FALSE
    /\ miscount = [b \in Backends |-> FALSE]

(* While two backends are up the proxy may hand a request to either.       *)
Serving(b) == bk[b] = "up"
Spend(what) == budget[what] > 0 /\ budget' = [budget EXCEPT ![what] = @ - 1]

(* inOrder: the operations a process asks for on the marker file land one  *)
(* after the other, later than the handler that asked; of those under way  *)
(* the last is kept.  In a behaviour with no lag each lands at once.       *)
Asks(b, op, m) ==
    /\ marker' = m
    /\ IF budget.lag
       THEN ink' = [ink EXCEPT ![b] = [op |-> op, m |-> m]] /\ UNCHANGED file
       ELSE ink' = [ink EXCEPT ![b] = Dry] /\ file' = m

(* What a read of the file finds: a writeFile under way has emptied it     *)
(* first, and a file that is torn reads as none.                           *)
Found == {file} \cup (IF \E c \in Backends : ink[c].op = "put" THEN {NoMarker} ELSE {})

(* An operation of b goes across the marker of another live process or     *)
(* across its operation under way.  That, a read that found something else *)
(* than what was asked for, and an operation that failed or died with its  *)
(* process are what nobody repairs: crossed remembers them.                *)
Crosses(b) ==
    \/ marker # NoMarker /\ marker.owner # b /\ bk[marker.owner] = "up"
    \/ \E c \in Backends \ {b} : ink[c] # Dry

(* Below, \E s \in {e} names the session a handler leaves, computed once.  *)
(* What a handler of backend b leaves behind: the session, the marker file *)
(* (signed by b) and the dot; over, when it went by what no longer holds.  *)
CommitOver(b, s, over) ==
    /\ drv' = [drv EXCEPT ![b] = Quiet(s)]
    /\ CASE s.io = "put"   -> Asks(b, "put", [s.marker EXCEPT !.owner = b])
         [] s.io = "clear" -> Asks(b, "clear", NoMarker)
         [] s.io = "keep"  -> UNCHANGED disk
    /\ crossed' = (crossed \/ over \/ (s.io # "keep" /\ Crosses(b)))
    /\ clock' = IF s.io = "put" /\ s.marker.at > clock THEN s.marker.at ELSE clock

Commit(b, s) == CommitOver(b, s, FALSE)

Dot(b, s) == IF s.boardStatus # drv[b].boardStatus
             THEN Reported(s, s.boardStatus) ELSE dot

Now == clock + 1

(* What the CLI of b has begun, or has yet to: of the turns it opens by    *)
(* itself those it was heard in, of notices and wake-ups those the manager *)
(* still knows of.  It takes a notice that comes in the middle of such a   *)
(* turn for read, and a wake-up for the cause of whatever turn opens next. *)
Doing(b) ==
    \/ cli[b].run = "given" \/ cli[b].held > 0
    \/ cli[b].run = "own" /\ isTurnInFlight(drv[b])
    \/ cli[b].after \cap ({"task"} \cup drv[b].work) # {}

(* A quiet CLI takes nothing in: behaviours that are not about its turns.  *)
Alive(b) == drv[b].child = "up"
Answers(b) == Alive(b) /\ ~budget.quiet

(* What dies with the driver of b and must be followed: that, or an order   *)
(* still to be given, unless the manager had lost count of it.             *)
Works(b) == ~miscount[b] /\ (Doing(b) \/ drv[b].watch # "none" \/ drv[b].retryTimer)

(* What takes the count down: the events that close a turn and the sends   *)
(* that were folded into one.  How many of those the first i are.          *)
Downs(events, i) == Cardinality({j \in 1 .. i : events[j] \in Closings \cup {"absorbed"}})

(* The result of a turn the CLI opened is still to come, or unread.        *)
Straddles(b) == cli[b].run = "own" \/ Downs(pipe[b], Len(pipe[b])) > drv[b].activeTurns

-----------------------------------------------------------------------------
(* Pages and turns.                                                        *)

(* attachSocket, on the driver the card has or on one spawned for it.      *)
Attaches(b) ==
    /\ Serving(b) /\ page = 0
    /\ page' = b
    /\ drv' = [drv EXCEPT ![b] = IF Open(@) THEN [@ EXCEPT !.idleTimer = FALSE]
                                 ELSE FreshSession]
    /\ cli' = [cli EXCEPT ![b] = IF Open(drv[b]) THEN @ ELSE NoCli]
    /\ UNCHANGED <<bk, beat, pipe, disk, resume, dot, clock, ghosts>>

(* Opening the card takes it out of its pause first.                       *)
Attach(b) == Attaches(b) /\ Spend("page") /\ paused' = FALSE

(* The page left: from here on the idle clock may run.                     *)
Detaches(b) ==
    /\ page = b /\ page' = 0
    /\ drv' = [drv EXCEPT ![b] = IF Open(@) THEN maybeScheduleIdleStop(@, FALSE) ELSE @]
    /\ UNCHANGED <<bk, beat, cli, pipe, disk, resume, paused, dot, clock, ghosts>>

\* Mutant of Detach: the clock is left to the next result.
DetachOnly(b) ==
    /\ page = b /\ page' = 0
    /\ UNCHANGED <<bk, beat, drv, cli, pipe, disk, resume, paused, dot, clock, budget, ghosts>>

Detach(b) == Detaches(b) /\ UNCHANGED budget

(* The sockets of b close with its driver.                                 *)
Leaves(b) == page' = IF attached(b) THEN 0 ELSE page

(* The line reaches the driver, or a process that is already dead.         *)
Write(b, s) ==
    cli' = [cli EXCEPT ![b].held = IF s.child = "up" THEN @ + 1 ELSE @]

(* A person's turn enters session s of b.  When the CLI is in a turn it    *)
(* opened by itself, or the end of one is still unread, that turn's result *)
(* takes the count of this one away: miscount remembers it (here, in Orders, *)
(* ResumeInjects, CliOpensTurn and Interrupt) until the CLI is quiet again. *)
Enters(b, s) ==
    /\ canAcceptTurn(s) /\ cli[b].held < MaxHeld
    /\ \E next \in {PersonTurn(s, Now)} :
           Commit(b, next) /\ dot' = Dot(b, next)
    /\ Write(b, s)
    /\ miscount' = [miscount EXCEPT ![b] = @ \/ Straddles(b)]
    /\ owed' = (s.child # "up")
    /\ chain' = 0 /\ barren' = 0
    /\ UNCHANGED <<bk, beat, pipe, resume, stranded>>

(* sendAgentTurn, on the live driver or on one started with no page.       *)
AgentTurn(b) ==
    /\ bk[b] = "up" /\ Spend("person")
    /\ \/ Open(drv[b]) /\ Enters(b, drv[b]) /\ UNCHANGED paused
       \/ ~Open(drv[b]) /\ Serving(b) /\ Enters(b, FreshSession) /\ paused' = FALSE
    /\ UNCHANGED page

Interrupt(b) ==
    /\ attached(b) /\ Open(drv[b])
    /\ Len(pipe[b]) < MaxPipe
    /\ Spend("interrupt")
    /\ \E s \in {OnInterrupt(drv[b], Now, attached(b))} :
           Commit(b, s) /\ dot' = Dot(b, s)
    /\ \E survives \in SUBSET (cli[b].after \cap {"tail"}) :
          IF drv[b].child = "up" /\ cli[b].run # "no"
          THEN /\ pipe' = [pipe EXCEPT ![b] = Append(@, "result")]
               /\ cli' = [cli EXCEPT ![b].run = "no",
                                     ![b].after = (@ \ {"tail"}) \cup survives]
          ELSE survives = {} /\ UNCHANGED <<pipe, cli>>
    /\ miscount' = [miscount EXCEPT ![b] = @ \/ drv[b].activeTurns > 1]
    /\ owed' = FALSE
    /\ UNCHANGED <<bk, page, beat, resume, paused, chain, barren, stranded>>

(* The order to continue, when the handler that left s wrote it.           *)
Orders(b, s) ==
    LET sent == s.activeTurns > drv[b].activeTurns
    IN  /\ IF sent THEN Write(b, s) ELSE UNCHANGED cli
        /\ miscount' = [miscount EXCEPT ![b] = @ \/ (sent /\ Straddles(b))]

WatchFires(b) ==
    /\ bk[b] = "up" /\ Open(drv[b]) /\ drv[b].armed
    /\ cli[b].held < MaxHeld
    /\ \E s \in {checkResumeWatch(drv[b], Now, attached(b))} :
           /\ Commit(b, s) /\ dot' = Dot(b, s)
           /\ Orders(b, s)
           /\ owed' = (IF s.said = "stalled" THEN FALSE ELSE owed)
    /\ UNCHANGED <<bk, page, beat, pipe, resume, paused, budget, chain, barren, stranded>>

RetryFires(b) ==
    /\ bk[b] = "up" /\ Open(drv[b]) /\ drv[b].retryTimer
    /\ cli[b].held < MaxHeld
    /\ \E s \in {ApiRetryFires(drv[b], Now, attached(b))} :
       LET sent == s.activeTurns > drv[b].activeTurns
       IN  /\ Commit(b, s) /\ dot' = Dot(b, s)
           /\ Orders(b, s)
           /\ chain' = IF sent THEN 0 ELSE chain
           /\ barren' = IF sent THEN 0 ELSE barren
           /\ owed' = (IF s.said = "exhausted" THEN FALSE ELSE owed)
    /\ UNCHANGED <<bk, page, beat, pipe, resume, paused, budget, stranded>>

(* Idle past the limit (15 minutes, with the cap of their hold for tasks): *)
(* with no page and no turn the manager knows of, the driver is stopped,   *)
(* whatever the CLI has just begun and whatever is still unread.  The      *)
(* marker goes with it, be it of an earlier turn that waits to be resumed, *)
(* and the dot its tasks kept lit is left to the sweep of silent cards.    *)
IdleFires(b) ==
    /\ bk[b] = "up" /\ Open(drv[b]) /\ drv[b].idleTimer
    /\ IF attached(b) \/ turnRunning(drv[b])
       THEN /\ Commit(b, [drv[b] EXCEPT !.idleTimer = FALSE])
            /\ UNCHANGED <<cli, pipe, stranded, miscount>>
       ELSE /\ Commit(b, [NoSession EXCEPT !.io = "clear"])
            /\ cli' = [cli EXCEPT ![b] = NoCli]
            /\ pipe' = [pipe EXCEPT ![b] = <<>>]
            /\ stranded' = (stranded \/ owed \/ drv[b].work # {})
            /\ miscount' = [miscount EXCEPT ![b] = FALSE]
    /\ UNCHANGED <<bk, page, beat, resume, paused, dot, budget, owed, chain, barren>>

(* The tasks ended and no turn opened meanwhile: no hook will say waiting. *)
SettleFires(b) ==
    /\ bk[b] = "up" /\ Open(drv[b]) /\ drv[b].settling
    /\ drv' = [drv EXCEPT ![b].settling = FALSE]
    /\ dot' = IF isTurnInFlight(drv[b]) \/ dot # "working" THEN dot
              ELSE Reported(drv[b], "waiting")
    /\ UNCHANGED <<bk, page, beat, cli, pipe, disk, resume, paused, clock, budget, ghosts>>

-----------------------------------------------------------------------------
(* The CLI (external), as its driver reports it.                           *)

Emit(b, event) ==
    /\ Len(pipe[b]) < MaxPipe
    /\ pipe' = [pipe EXCEPT ![b] = Append(@, event)]

CliKeeps == UNCHANGED <<bk, page, beat, drv, disk, resume, paused, dot, clock, ghosts>>

CliTakes(b) ==
    /\ Answers(b) /\ cli[b].held > 0
    /\ IF cli[b].run = "no"
       THEN /\ cli' = [cli EXCEPT ![b].run = "given", ![b].spoke = FALSE,
                                  ![b].held = @ - 1, ![b].after = @ \ {"notice"}]
            /\ UNCHANGED pipe
       ELSE /\ cli' = [cli EXCEPT ![b].run = "given", ![b].held = @ - 1,
                                  ![b].after = @ \cup {"tail"}]
            /\ Emit(b, "absorbed")
    /\ UNCHANGED budget /\ CliKeeps

CliSpeaks(b) ==
    /\ Answers(b) /\ cli[b].run # "no" /\ ~cli[b].spoke
    /\ cli' = [cli EXCEPT ![b].spoke = TRUE]
    /\ Emit(b, "work")
    /\ UNCHANGED budget /\ CliKeeps

CliSchedules(b) ==
    /\ Answers(b) /\ cli[b].run # "no" /\ "wakeup" \notin cli[b].after
    /\ Spend("extra")
    /\ cli' = [cli EXCEPT ![b].spoke = TRUE, ![b].after = @ \cup {"wakeup"}]
    /\ Emit(b, "schedules") /\ CliKeeps

CliStartsTask(b) ==
    /\ Answers(b) /\ cli[b].run # "no" /\ "task" \notin cli[b].after
    /\ Spend("extra")
    /\ cli' = [cli EXCEPT ![b].after = @ \cup {"task"}]
    /\ Emit(b, "tasks") /\ CliKeeps

CliTaskEnds(b) ==
    /\ Answers(b) /\ "task" \in cli[b].after
    /\ cli' = [cli EXCEPT ![b].after = (@ \ {"task"}) \cup {"notice"}]
    /\ Emit(b, "no_tasks")
    /\ UNCHANGED budget /\ CliKeeps

(* A notice, a wake-up or a message that outlived an interrupt opens a turn. *)
CliOpensTurn(b) ==
    /\ Answers(b) /\ cli[b].run = "no"
    /\ \E why \in cli[b].after \ {"task"} :
          cli' = [cli EXCEPT ![b].run = "own", ![b].spoke = FALSE, ![b].after = @ \ {why}]
    /\ Emit(b, "delta")
    /\ miscount' = [miscount EXCEPT ![b] = @ \/ cli[b].held > 0]
    /\ UNCHANGED <<bk, page, beat, drv, disk, resume, paused, dot, clock, budget,
                   owed, crossed, chain, barren, stranded>>

CliCloses(b) ==
    /\ Answers(b) /\ cli[b].run # "no"
    /\ cli' = [cli EXCEPT ![b].run = "no", ![b].after = @ \ {"tail"}]
    /\ \/ Emit(b, "result") /\ UNCHANGED budget
       \/ \E how \in {"api_error", "failed"} : Emit(b, how) /\ Spend("apiError")
    /\ CliKeeps

(* A late click, an interrupt that failed or a stream that died.  A turn   *)
(* that goes on will have to be heard again.                               *)
CliErrs(b) ==
    /\ Answers(b) /\ Spend("error")
    /\ cli' = [cli EXCEPT ![b].spoke = FALSE]
    /\ Emit(b, "error") /\ CliKeeps

(* readline: the next event of the driver goes to the handler.             *)
Reads(b) ==
    /\ bk[b] = "up" /\ Open(drv[b]) /\ pipe[b] # <<>>
    /\ pipe' = [pipe EXCEPT ![b] = Tail(@)]

Hear(b) ==
    /\ Reads(b)
    /\ \E s \in {handleDriverEvent(drv[b], Head(pipe[b]), Now, attached(b))} :
       LET event == Head(pipe[b])
           produced == event \in {"work", "schedules"}
           begins == s.marker # NoMarker /\ drv[b].marker = NoMarker
       IN  /\ Commit(b, s)
           /\ dot' = IF event = "tasks" THEN "working" ELSE Dot(b, s)
           /\ owed' = (owed /\ (Alive(b) \/ s.marker # NoMarker))
           /\ chain' = IF begins THEN 0 ELSE chain
           /\ barren' = IF begins \/ produced THEN 0 ELSE barren
           /\ miscount' = [miscount EXCEPT ![b] = @ /\ ~(/\ Tail(pipe[b]) = <<>> /\ Alive(b)
                                                     /\ cli[b].run = "no" /\ cli[b].held = 0)]
    /\ UNCHANGED <<bk, page, beat, cli, resume, paused, budget, stranded>>

-----------------------------------------------------------------------------
(* The driver dies under a live backend.                                   *)

Crash(b) ==
    /\ bk[b] = "up" /\ Alive(b) /\ resume[<<b, "crash">>].pc = "none"
    /\ Spend("crash")
    /\ drv' = [drv EXCEPT ![b].child = "deaf"]
    /\ cli' = [cli EXCEPT ![b] = NoCli]
    /\ owed' = (owed \/ Works(b))
    /\ UNCHANGED <<bk, page, beat, pipe, disk, resume, paused, dot, clock, crossed, chain, barren,
                   stranded, miscount>>

ExitSeen(b) ==
    /\ bk[b] = "up" /\ drv[b].child = "deaf"
    /\ drv' = [drv EXCEPT ![b].child = "exited"]
    /\ UNCHANGED <<bk, page, beat, cli, pipe, disk, resume, paused, dot, clock, budget, ghosts>>

(* child.on("close"), once the output is drained.                          *)
DriverClosed(b) ==
    /\ bk[b] = "up" /\ drv[b].child = "exited" /\ pipe[b] = <<>>
    /\ LET withWork == drv[b].marker # NoMarker
       IN  /\ resume' = IF withWork
                        THEN [resume EXCEPT ![<<b, "crash">>] =
                                 [NoTask EXCEPT !.pc = "wait", !.m = drv[b].marker]]
                        ELSE resume
           /\ dot' = IF drv[b].boardStatus = "working" /\ ~withWork THEN "waiting" ELSE dot
    /\ drv' = [drv EXCEPT ![b] = NoSession]
    /\ Leaves(b)
    /\ miscount' = [miscount EXCEPT ![b] = FALSE]
    /\ UNCHANGED <<bk, beat, cli, pipe, disk, paused, clock, budget, owed, crossed, chain, barren,
                   stranded>>

(* A person pauses the card: killCardSession, in the backend that hears it, *)
(* stops the driver this backend has.                                      *)
Pause(b) ==
    /\ Serving(b) /\ ~paused /\ Spend("pause")
    /\ paused' = TRUE
    /\ IF Open(drv[b])
       THEN /\ Commit(b, [NoSession EXCEPT !.io = "clear"])
            /\ cli' = [cli EXCEPT ![b] = NoCli]
            /\ pipe' = [pipe EXCEPT ![b] = <<>>]
       ELSE UNCHANGED <<drv, disk, clock, crossed, cli, pipe>>
    /\ Leaves(b)
    /\ owed' = FALSE
    /\ dot' = "waiting"
    /\ miscount' = [miscount EXCEPT ![b] = FALSE]
    /\ UNCHANGED <<bk, beat, resume, chain, barren, stranded>>

-----------------------------------------------------------------------------
(* The marker file (inflight.ts).                                          *)

InkKeeps == UNCHANGED <<bk, page, beat, drv, cli, pipe, marker, resume, paused, dot, clock,
                        owed, chain, barren, stranded, miscount>>

Lands(b) ==
    /\ ink[b] # Dry
    /\ file' = ink[b].m
    /\ ink' = [ink EXCEPT ![b] = Dry]
    /\ UNCHANGED <<budget, crossed>> /\ InkKeeps

(* The operation under way is over, and the file was not reached or, by a  *)
(* write, only emptied.                                                    *)
CutOff(b) ==
    /\ file' \in {file} \cup (IF ink[b].op = "put" THEN {NoMarker} ELSE {})
    /\ ink' = [ink EXCEPT ![b] = Dry]
    /\ crossed' = (crossed \/ ink[b] # Dry)
    /\ UNCHANGED marker

(* The error is a line of the log.                                         *)
MarkerFails(b) ==
    /\ ink[b] # Dry /\ Spend("ink")
    /\ CutOff(b) /\ InkKeeps

-----------------------------------------------------------------------------
(* Backends come and go.                                                   *)

(* The boot sweep lists the markers and clears a file that is torn.        *)
Boot(b) ==
    /\ bk[b] = "off" /\ b > 1 /\ bk[b - 1] # "off"
    /\ bk[b - 1] # "stopping"
    /\ \A c \in Backends : c < b - 1 => bk[c] = "gone"
    /\ IF bk[b - 1] = "up" THEN Spend("deploy") ELSE UNCHANGED budget
    /\ bk' = [bk EXCEPT ![b] = "up"]
    /\ beat' = [beat EXCEPT ![b] = TRUE]
    /\ \E m \in Found :
       LET torn == m = NoMarker /\ \E c \in Backends : ink[c].op = "put"
       IN  /\ resume' = [resume EXCEPT ![<<b, "restart">>] =
                IF m = NoMarker THEN NoTask ELSE [NoTask EXCEPT !.pc = "orphan"]]
           /\ IF torn THEN Asks(b, "clear", NoMarker) ELSE UNCHANGED disk
           /\ crossed' = (crossed \/ torn \/ m # marker)
    /\ UNCHANGED <<page, drv, cli, pipe, dot, clock, paused, owed, chain, barren, stranded,
                   miscount>>

(* A newer backend whose boot sweep no longer looks for the marker.        *)
SweptBefore(b) ==
    \E c \in Backends : c > b /\ bk[c] = "up" /\ resume[<<c, "restart">>].pc # "orphan"

(* Its drivers die with it, and so do its tasks if it is killed.  The boot *)
(* sweep lists the markers once: work that an old backend took in after    *)
(* the newer one looked dies with nobody waiting for it (stranded).        *)
Dies(b, next) ==
    /\ bk' = [bk EXCEPT ![b] = next]
    /\ drv' = [drv EXCEPT ![b] = NoSession]
    /\ cli' = [cli EXCEPT ![b] = NoCli]
    /\ pipe' = [pipe EXCEPT ![b] = <<>>]
    /\ owed' = (owed \/ Works(b))
    /\ stranded' = (stranded \/ (marker.owner = b /\ SweptBefore(b)))
    /\ Leaves(b)
    /\ miscount' = [miscount EXCEPT ![b] = FALSE]

(* The older of two backends goes, or the only one (no rollback).          *)
Goes(b) ==
    /\ bk[b] = "up" /\ b < MaxBackends /\ \A c \in Backends : c < b => bk[c] = "gone"
    /\ IF bk[b + 1] = "up" THEN UNCHANGED budget ELSE Spend("deploy")

(* handOffSdkOnShutdown: the drivers end, the markers stay, the heartbeat  *)
(* is given up last; the process lingers a few seconds.                    *)
Sigterm(b) ==
    /\ Goes(b)
    /\ Dies(b, "stopping")
    /\ beat' = [beat EXCEPT ![b] = FALSE]
    /\ UNCHANGED <<disk, resume, paused, dot, clock, crossed, chain, barren>>

EndTasks(b) == [t \in Tasks |-> IF t[1] = b THEN NoTask ELSE resume[t]]

Exit(b) ==
    /\ bk[b] = "stopping"
    /\ bk' = [bk EXCEPT ![b] = "gone"]
    /\ resume' = EndTasks(b)
    /\ CutOff(b)
    /\ UNCHANGED <<page, beat, drv, cli, pipe, dot, clock, paused, budget, owed, chain, barren,
                   stranded, miscount>>

Sigkill(b) ==
    /\ Goes(b)
    /\ Dies(b, "gone")
    /\ resume' = EndTasks(b)
    /\ CutOff(b)
    /\ UNCHANGED <<beat, paused, dot, clock, chain, barren>>

(* A heartbeat grows stale only after its process is gone (OWNER_STALE_MS  *)
(* is four beats).                                                         *)
BeatStale(b) ==
    /\ bk[b] = "gone" /\ beat[b]
    /\ beat' = [beat EXCEPT ![b] = FALSE]
    /\ UNCHANGED <<bk, page, turnVars, resume, paused, budget, ghosts>>

-----------------------------------------------------------------------------
(* Resuming: the boot sweep and the crash of a driver.                     *)

Running(t) == bk[t[1]] \in {"up", "stopping"}
At(t, pc)  == Running(t) /\ resume[t].pc = pc
Goto(t, pc) == resume' = [resume EXCEPT ![t].pc = pc]
ResumeKeeps == UNCHANGED <<bk, page, beat, cli, pipe, paused>>

(* Of what was read of the file, and of the driver the card has here.      *)
MovedOn(t, m)  == m = NoMarker \/ m.at # resume[t].m.at
TurnRuns(b)    == Open(drv[b]) /\ turnRunning(drv[b])

\* Mutant of Unresumed: the dot is left to the hooks.
UnresumedToHooks(b) == dot

(* settleUnresumed: the dot of a dead turn that did not become a resume.   *)
Unresumed(b) ==
    IF bk[b] = "stopping" \/ TurnRuns(b) THEN dot ELSE Reported(drv[b], "waiting")

(* What a task goes by is what it read.                                    *)
Relies(m) == crossed' = (crossed \/ m # marker)
LookKeeps == UNCHANGED <<drv, disk, clock, owed, chain, barren, miscount>> /\ ResumeKeeps

\* Mutant of SweepDecides: a marker of another process is an orphan.
SweepDecidesAtOnce(t) ==
    /\ At(t, "orphan")
    /\ \E m \in Found :
          /\ resume' = [resume EXCEPT ![t] = IF m = NoMarker \/ m.owner = t[1]
                                             THEN NoTask ELSE [@ EXCEPT !.pc = "rules", !.m = m]]
          /\ Relies(m)
    /\ UNCHANGED <<dot, budget, stranded>> /\ LookKeeps

\* Mutant of SweepDecides: a marker whose owner lives is left to it.
SweepDecidesOnce(t) ==
    /\ At(t, "orphan")
    /\ \E m \in Found :
          /\ resume' = [resume EXCEPT ![t] = IF m = NoMarker \/ beat[m.owner]
                                             THEN NoTask ELSE [@ EXCEPT !.pc = "rules", !.m = m]]
          /\ Relies(m)
    /\ UNCHANGED <<dot, budget, stranded>> /\ LookKeeps

(* orphanedMarker: reads the marker again and again while the process that  *)
(* signed it is alive.  The read and the look at its heartbeat that follows *)
(* are one step.                                                           *)
SweepDecides(t) ==
    /\ At(t, "orphan")
    /\ \E m \in Found :
       LET mine == m = NoMarker \/ m.owner = t[1]
       IN  /\ ~mine => ~beat[m.owner]
           /\ resume' = [resume EXCEPT ![t] =
                 IF mine THEN NoTask ELSE [@ EXCEPT !.pc = "rules", !.m = m]]
           /\ Relies(m)
    /\ UNCHANGED <<dot, budget, stranded>> /\ LookKeeps

(* An error ends the sweep of the card; its marker stays for the next one. *)
SweepFails(t) ==
    /\ At(t, "orphan") /\ Spend("prepare")
    /\ resume' = [resume EXCEPT ![t] = NoTask]
    /\ stranded' = TRUE
    /\ UNCHANGED <<dot, crossed>> /\ LookKeeps

CrashLooks(t) ==
    /\ At(t, "wait")
    /\ IF bk[t[1]] = "stopping"
       THEN Goto(t, "none") /\ UNCHANGED <<dot, crossed>>
       ELSE \E m \in Found :
               /\ Relies(m)
               /\ IF MovedOn(t, m) \/ TurnRuns(t[1])
                  THEN Goto(t, "none") /\ dot' = Unresumed(t[1])
                  ELSE Goto(t, "rules") /\ UNCHANGED dot
    /\ UNCHANGED <<budget, stranded>> /\ LookKeeps

(* resumeCard up to its first effect: a card that was stopped on purpose   *)
(* loses its marker in silence, every other reason not to resume is noted. *)
ResumeRules(t) ==
    /\ At(t, "rules")
    /\ \E stale \in {FALSE, resume[t].m.work # {} /\ resume[t].m.idle} :
         LET m == resume[t].m
             refused == ~budget.autoResume \/ stale \/ ~mayResumeAgain(m)
         IN  IF paused
             THEN /\ Goto(t, "clear") /\ owed' = FALSE
             ELSE /\ resume' = [resume EXCEPT ![t].pc = IF refused THEN "clear" ELSE "prepare",
                                              ![t].noted = refused]
                  /\ owed' = (owed /\ ~refused)
    /\ UNCHANGED <<drv, disk, dot, clock, budget, crossed, chain, barren,
                   stranded, miscount>>
    /\ ResumeKeeps

(* An error before any note (the board, the settings, the note itself):    *)
(* the marker goes in silence.                                             *)
RulesFail(t) ==
    /\ At(t, "rules") /\ Spend("prepare")
    /\ resume' = [resume EXCEPT ![t].pc = "clear", ![t].noted = TRUE]
    /\ stranded' = TRUE
    /\ UNCHANGED <<dot, crossed>> /\ LookKeeps

(* clearMarker after the note: whatever the marker says by then.           *)
ResumeClears(t) ==
    /\ At(t, "clear")
    /\ Asks(t[1], "clear", NoMarker)
    /\ crossed' = (\/ crossed
                   \/ marker # NoMarker /\ marker.at # resume[t].m.at
                   \/ \E c \in Backends \ {t[1]} : ink[c] # Dry)
    /\ dot' = IF resume[t].noted \/ t[2] = "crash" THEN Unresumed(t[1]) ELSE dot
    /\ Goto(t, "none")
    /\ UNCHANGED <<drv, clock, budget, owed, chain, barren, stranded, miscount>> /\ ResumeKeeps

(* Installing the driver, restoring the workspace, building the command.   *)
PrepareFails(t) ==
    /\ At(t, "prepare") /\ Spend("prepare")
    /\ resume' = [resume EXCEPT ![t].pc = "clear", ![t].noted = TRUE]
    /\ owed' = FALSE
    /\ UNCHANGED <<drv, disk, dot, clock, crossed, chain, barren, stranded, miscount>> /\ ResumeKeeps

Skips(t) == Goto(t, "none") /\ dot' = IF t[2] = "crash" THEN Unresumed(t[1]) ELSE dot

(* conversationMovedOn reads the marker, once more, just before the order. *)
ResumeLooks(t) ==
    /\ At(t, "prepare")
    /\ IF bk[t[1]] = "stopping"
       THEN Skips(t) /\ UNCHANGED crossed
       ELSE \E m \in Found :
               /\ Relies(m)
               /\ IF MovedOn(t, m) THEN Skips(t)
                  ELSE /\ resume' = [resume EXCEPT ![t].pc = "inject", ![t].seen = clock]
                       /\ UNCHANGED dot
    /\ UNCHANGED <<budget, stranded>> /\ LookKeeps

(* ... and the order goes in when that read is back: what another process  *)
(* did with the marker meanwhile is not seen.                              *)
Overtaken(t) == marker.at # resume[t].m.at

Order(t, base) == injectSystemTurn(base, Now, resume[t].m.attempts + 1)

Resumed(t) ==
    /\ Goto(t, "none")
    /\ chain' = chain + 1 /\ barren' = barren + 1
    /\ UNCHANGED <<bk, page, beat, pipe, paused, budget>>

ResumeInjects(t) ==
    LET b == t[1]
        base == IF Open(drv[b]) THEN drv[b] ELSE FreshSession
    IN  /\ At(t, "inject") /\ bk[b] = "up" /\ ~TurnRuns(b)
        /\ cli[b].held < MaxHeld
        /\ \E s \in {Order(t, base)} :
              CommitOver(b, s, Overtaken(t)) /\ dot' = Dot(b, s)
        /\ Write(b, base)
        /\ owed' = (base.child # "up")
        /\ miscount' = [miscount EXCEPT ![b] = @ \/ Straddles(b)]
        /\ Resumed(t) /\ UNCHANGED stranded

(* SIGTERM came during that read: nothing asks again, and the driver that  *)
(* takes the order dies with the process.                                  *)
ResumeInjectsLate(t) ==
    /\ At(t, "inject") /\ bk[t[1]] = "stopping"
    /\ \E s \in {Order(t, FreshSession)} : Asks(t[1], "put", [s.marker EXCEPT !.owner = t[1]])
    /\ crossed' = (crossed \/ Overtaken(t) \/ Crosses(t[1]))
    /\ clock' = Now /\ dot' = "working"
    /\ owed' = TRUE
    /\ stranded' = (stranded \/ SweptBefore(t[1]))
    /\ UNCHANGED <<drv, cli, miscount>> /\ Resumed(t)

ResumeYields(t) ==
    /\ At(t, "inject") /\ TurnRuns(t[1])
    /\ Skips(t)
    /\ UNCHANGED <<budget, crossed, stranded>> /\ LookKeeps

-----------------------------------------------------------------------------
Cli(b) ==
    \/ CliTakes(b) \/ CliSpeaks(b) \/ CliSchedules(b) \/ CliStartsTask(b)
    \/ CliTaskEnds(b) \/ CliOpensTurn(b) \/ CliCloses(b) \/ CliErrs(b)

Manager(b) ==
    \/ Hear(b) \/ ExitSeen(b) \/ DriverClosed(b)
    \/ WatchFires(b) \/ RetryFires(b) \/ IdleFires(b) \/ SettleFires(b)

Resume(t) ==
    \/ SweepDecides(t) \/ SweepFails(t) \/ CrashLooks(t)
    \/ ResumeRules(t) \/ RulesFail(t) \/ ResumeClears(t)
    \/ PrepareFails(t) \/ ResumeLooks(t)
    \/ ResumeInjects(t) \/ ResumeInjectsLate(t) \/ ResumeYields(t)

MarkerFile(b) == Lands(b) \/ MarkerFails(b)

Deploy(b) == Boot(b) \/ Sigterm(b) \/ Exit(b) \/ Sigkill(b) \/ BeatStale(b)

Card(b) ==
    \/ AgentTurn(b) \/ Interrupt(b) \/ Crash(b) \/ Pause(b)
    \/ Cli(b) \/ Manager(b) \/ MarkerFile(b) \/ Deploy(b)

Next ==
    \/ \E b \in Backends : Card(b) \/ Attach(b) \/ Detach(b)
    \/ \E t \in Tasks : Resume(t)

(* What a running process does by itself goes on being done: the CLI works *)
(* on, its events are read, timers fire, writes land, tasks resume; a backend that was  *)
(* stopped is replaced, and the old one of a deploy is killed.  Each is    *)
(* fair as a whole: nothing is assumed of one backend against another.     *)
CliWorks(b) ==
    CliTakes(b) \/ CliCloses(b) \/ CliSpeaks(b) \/ CliTaskEnds(b) \/ CliOpensTurn(b)

Ends(b) == ExitSeen(b) \/ DriverClosed(b)
Timers(b) == SettleFires(b) \/ IdleFires(b) \/ RetryFires(b) \/ WatchFires(b)

Replaces(b) ==
    \/ Boot(b) \/ BeatStale(b) \/ Exit(b)
    \/ b < MaxBackends /\ bk[b + 1] = "up" /\ Sigkill(b)

Fairness ==
    /\ WF_vars(\E b \in Backends : CliWorks(b))
    /\ WF_pipe(\E b \in Backends : Reads(b))
    /\ WF_vars(\E b \in Backends : Ends(b))
    /\ WF_vars(\E b \in Backends : Timers(b))
    /\ WF_vars(\E b \in Backends : Lands(b))
    /\ WF_vars(\E b \in Backends : Replaces(b))
    /\ WF_vars(\E t \in Tasks : Resume(t))

Spec == Init /\ [][Next]_vars
FairSpec == Spec /\ Fairness

-----------------------------------------------------------------------------
TypeInvariant ==
    /\ bk \in [Backends -> {"off", "up", "stopping", "gone"}]
    /\ beat \in [Backends -> BOOLEAN]
    /\ \A b \in Backends :
          /\ drv[b].child \in {"none", "up", "deaf", "exited"}
          /\ drv[b].activeTurns \in Nat /\ drv[b].failures \in 0 .. MaxApiRetries
          /\ drv[b].work \subseteq Work
          /\ drv[b].watch \in {"none", "fresh", "reengaged"}
          /\ drv[b].io = "keep" /\ drv[b].said = "nothing"
          /\ cli[b].run \in {"no", "given", "own"} /\ cli[b].held \in 0 .. MaxHeld
          /\ Len(pipe[b]) <= MaxPipe
    /\ marker.owner \in 0 .. MaxBackends /\ marker.attempts \in 0 .. MaxAutoResumes
    /\ marker.at \in 0 .. clock /\ page \in 0 .. MaxBackends
    /\ file.owner \in 0 .. MaxBackends
    /\ \A b \in Backends : ink[b].op \in {"none", "put", "clear"}
    /\ \A t \in Tasks :
          resume[t].pc \in {"none", "orphan", "wait", "rules", "clear", "prepare", "inject"}

(* A driver that runs a turn, or holds work that outlives one, has its     *)
(* promise on disk or on its way there: whatever kills it, the next boot   *)
(* finds the marker (inflight.ts, syncInflightMarker).  Beyond repair are  *)
(* two processes that write at once, an operation lost with its process or *)
(* failed (crossed); a send folded into a turn the manager counts as over  *)
(* raises the count with no marker (OnAbsorbed).                           *)
WorkIsOnDisk ==
    \A b \in Backends :
        Open(drv[b]) /\ (turnRunning(drv[b]) \/ drv[b].work # {})
            => \/ file # NoMarker \/ crossed \/ miscount[b]
               \/ \E c \in Backends : ink[c].op = "put"

(* The count of the manager never says idle while the CLI answers a message *)
(* or has one to answer: the idle stop, the hibernation, the rewind and the *)
(* marker all go by it (isTurnInFlight).                                   *)
RunningTurnIsCounted ==
    \A b \in Backends :
        /\ cli[b].run = "given" \/ cli[b].held > 0
        /\ drv[b].child = "up"
        => isTurnInFlight(drv[b]) \/ miscount[b]

(* The idle stop (maybeScheduleIdleStop) ends no answer to a message, and   *)
(* of the turns the CLI opens by itself only one the manager has read      *)
(* nothing of yet, or whose stream broke: it spoke last in what is unread. *)
IdleStopKillsNoWork ==
    [][\A b \in Backends :
          /\ drv[b].child = "up" /\ drv'[b].child = "none"
          /\ bk'[b] = "up" /\ paused' = paused
          => \/ miscount[b]
             \/ /\ cli[b].run # "given" /\ cli[b].held = 0
                /\ cli[b].run = "own" /\ cli[b].spoke
                      => \E i \in DOMAIN pipe[b] : pipe[b][i] \in {"work", "schedules"}]_vars

(* The loop guard: no second resume of a turn that produced nothing since   *)
(* the first, and never more than MaxAutoResumes of one order, whatever     *)
(* dies in between (mayResumeAgain), as long as the count reaches the file *)
(* (crossed).  A turn the CLI opens by itself once the marker is gone gets *)
(* one of its own, and begins a chain.                                     *)
LoopGuard == crossed \/ (barren <= 1 /\ chain <= MaxAutoResumes)

(* A resume never starts beside a turn that runs in another live backend,  *)
(* but for a turn that began since the task's last look at the marker:     *)
(* during a deploy only one of the two drivers speaks for the card.        *)
NoTwin ==
    [][\A t \in Tasks, c \in Backends :
          /\ t[1] # c /\ resume[t].pc = "inject" /\ resume'[t].pc = "none"
          /\ drv[t[1]].watch = "none" /\ drv'[t[1]].watch = "fresh"
          /\ bk[c] = "up" /\ isTurnInFlight(drv[c])
          => crossed \/ miscount[c] \/ drv[c].marker.at > resume[t].seen]_vars

(* Work that dies is followed: by a resume, another turn, or a line in the  *)
(* conversation (resume.ts) -- all but the work of an old backend that the  *)
(* newer one's only sweep came too early to see.                           *)
DeadWorkIsFollowed == owed ~> (~owed \/ crossed \/ stranded)

(* The card does not stay green with nothing running.                      *)
DotSettles ==
    (dot = "working")
        ~> \/ dot = "waiting" \/ crossed \/ stranded \/ paused
           \/ \E b \in Backends : Open(drv[b]) /\ isDriverBusy(drv[b])

(* A driver with no page does not stay up for ever.                        *)
IdleDriverStops ==
    \A b \in Backends : Open(drv[b]) ~> (~Open(drv[b]) \/ page = b)
=============================================================================
