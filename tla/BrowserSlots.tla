---------------------------- MODULE BrowserSlots ----------------------------
(***************************************************************************)
(* The browser slot of a card: its X display, VNC port and CDP port are    *)
(* one offset from fixed bases (services/browser/ports.ts), allocated by   *)
(* the registry when the card is created and HELD after the card is        *)
(* deleted until its Chromium is known to be down, so that no card is ever *)
(* handed a display where another card's logged-in browser runs.           *)
(*                                                                         *)
(* board.json (the cards' slots, the holds) survives a restart; the port   *)
(* table, the starts in flight and the purges are memory.  Browsers run in *)
(* the runner and survive the backend.  Boards older than the stored slot  *)
(* are not modelled: every card has the slot it was created with.          *)
(***************************************************************************)
EXTENDS Naturals, FiniteSets

CONSTANTS
  Cards,      \* the card ids that may ever be created
  SlotSpace,  \* SLOT_SPACE
  Preferred,  \* cardBrowserSlot: the slot an id hashes to
  Requests,   \* browser requests the backend may be handling at once
  NoCard, NoSlot,
  MaxFaults   \* bound: scripts that fail or are given up, crashes

ASSUME SlotSpaceAssumption == SlotSpace \in Nat
ASSUME PreferredAssumption == Preferred \in [Cards -> 0 .. SlotSpace - 1]
ASSUME NoCardAssumption == NoCard \notin Cards
ASSUME NoSlotAssumption == NoSlot \notin 0 .. SlotSpace - 1
ASSUME MaxFaultsAssumption == MaxFaults \in Nat

VARIABLES
  onBoard,   \* cards of the board
  slotOf,    \* browserSlot, kept in mind after the card is gone
  held,      \* browserSlotHolds: deleted cards whose slot is kept
  crowded,   \* history: cards created when every slot was taken
  table,     \* allocatedSlots: cards whose slot was reported
  running,   \* the card whose Chromium listens on each slot
  request,   \* requests past resolveCardBrowser
  starting,  \* startsInFlight
  adrift,    \* start scripts nobody waits for, that may still launch
  purge,     \* purgeCard or purgeRemovedCards of each card
  sweep,     \* retryBrowserSlotHolds
  faults

board  == <<onBoard, slotOf, held, crowded, table>>
runner == <<running, adrift>>
vars   == <<board, runner, request, starting, purge, sweep, faults>>

Slots == 0 .. SlotSpace - 1

NoRequest == [kind |-> "off", card |-> NoCard]
NoSweep   == [todo |-> {}, stopped |-> NoCard]

Init ==
  /\ onBoard = {} /\ held = {} /\ crowded = {} /\ table = {}
  /\ slotOf = [c \in Cards |-> NoSlot]
  /\ running = [s \in Slots |-> NoCard]
  /\ request = [r \in Requests |-> NoRequest]
  /\ starting = {} /\ adrift = {}
  /\ purge = [c \in Cards |-> "off"]
  /\ sweep = NoSweep /\ faults = 0

-----------------------------------------------------------------------------
(* The registry.                                                           *)

\* Mutant of Taken: only the cards of the board are asked.
TakenOnBoard == {slotOf[c] : c \in onBoard}

\* takenBrowserSlots.
Taken == {slotOf[c] : c \in onBoard \union held}

\* Mutant of Allocate: the next slot is taken to be the count of those in use.
AllocateByCount(c, taken) ==
  IF Preferred[c] \notin taken THEN Preferred[c] ELSE Cardinality(taken) + 1

\* allocateBrowserSlot: the hashed slot if it is free, else the lowest free
\* one, else the hashed slot after all.
Allocate(c, taken) ==
  IF Preferred[c] \notin taken \/ Slots \subseteq taken THEN Preferred[c]
  ELSE CHOOSE s \in Slots \ taken : \A t \in Slots \ taken : s <= t

\* cardBrowserPorts: the slot the table has, or the hashed one.
PortsOf(c) == IF c \in table THEN slotOf[c] ELSE Preferred[c]

\* createCard: an id is new.
CreateCard(c) ==
  /\ slotOf[c] = NoSlot
  /\ slotOf' = [slotOf EXCEPT ![c] = Allocate(c, Taken)]
  /\ onBoard' = onBoard \union {c}
  /\ table' = table \union {c}
  /\ crowded' = IF Slots \subseteq Taken THEN crowded \union {c} ELSE crowded
  /\ UNCHANGED <<held, runner, request, starting, purge, sweep, faults>>

\* removeCard and removeProject: off the board and held, in the same write.
Remove(S) ==
  /\ onBoard' = onBoard \ S
  /\ held' = held \union (S \intersect onBoard)
  /\ UNCHANGED <<slotOf, crowded, table>>

\* releaseBrowserSlot.
Release(c) == held' = held \ {c} /\ UNCHANGED <<onBoard, slotOf, crowded, table>>

-----------------------------------------------------------------------------
(* The runner's scripts.                                                   *)

Fault == faults < MaxFaults /\ faults' = faults + 1

\* buildBrowserStartScript: a Chromium that has the port already is reused.
Launch(c, s) == running' = [running EXCEPT ![s] = IF @ = NoCard THEN c ELSE @]

\* stopCardBrowser waits for a start in flight, then kills what listens on
\* the port; a script that fails may have done its work.
Stopped(c) ==
  /\ c \notin starting
  /\ running' = [running EXCEPT ![PortsOf(c)] = NoCard]
  /\ UNCHANGED <<adrift, faults>>

NotStopped(c) ==
  /\ c \notin starting
  /\ Fault
  /\ \/ UNCHANGED running
     \/ running' = [running EXCEPT ![PortsOf(c)] = NoCard]
  /\ UNCHANGED adrift

-----------------------------------------------------------------------------
(* Opening and closing a card's browser.                                   *)

\* resolveCardBrowser: the card must be on the board NOW.
Resolve(r, c) ==
  /\ request[r] = NoRequest
  /\ c \in onBoard
  /\ \E kind \in {"open", "close"} : request' = [request EXCEPT ![r] = [kind |-> kind, card |-> c]]
  /\ UNCHANGED <<board, runner, starting, purge, sweep, faults>>

\* startCardBrowser: one start per card, later callers share it.
OpenBrowser(r) ==
  /\ request[r].kind = "open"
  /\ starting' = starting \union {request[r].card}
  /\ request' = [request EXCEPT ![r] = NoRequest]
  /\ UNCHANGED <<board, runner, purge, sweep, faults>>

CloseBrowser(r) ==
  /\ request[r].kind = "close"
  /\ Stopped(request[r].card) \/ NotStopped(request[r].card)
  /\ request' = [request EXCEPT ![r] = NoRequest]
  /\ UNCHANGED <<board, starting, purge, sweep>>

StartDone(c) ==
  /\ c \in starting
  /\ Launch(c, PortsOf(c))
  /\ starting' = starting \ {c}
  /\ UNCHANGED <<board, adrift, request, purge, sweep, faults>>

\* The script failed, or timed out and may still launch the browser later.
StartFails(c) ==
  /\ c \in starting
  /\ Fault
  /\ starting' = starting \ {c}
  /\ adrift' \in {adrift, adrift \union {c}}
  /\ UNCHANGED <<board, running, request, purge, sweep>>

\* Its command line was built with the slot the table had for the card.
LaunchLate(c) ==
  /\ c \in adrift
  /\ adrift' = adrift \ {c}
  /\ Launch(c, slotOf[c])
  /\ UNCHANGED <<board, request, starting, purge, sweep, faults>>

-----------------------------------------------------------------------------
(* purgeCard: stop, off the board, release.                                *)

PurgeCard(c) ==
  /\ purge[c] = "off" /\ c \in onBoard
  /\ purge' = [purge EXCEPT ![c] = "stop"]
  /\ UNCHANGED <<board, runner, request, starting, sweep, faults>>

PurgeStop(c) ==
  /\ purge[c] = "stop"
  /\ \/ Stopped(c) /\ purge' = [purge EXCEPT ![c] = "remove stopped"]
     \/ NotStopped(c) /\ purge' = [purge EXCEPT ![c] = "remove"]
  /\ UNCHANGED <<board, request, starting, sweep>>

PurgeRemove(c) ==
  /\ purge[c] \in {"remove", "remove stopped"}
  /\ Remove({c})
  /\ purge' = [purge EXCEPT ![c] = IF @ = "remove" THEN "off" ELSE "release"]
  /\ UNCHANGED <<runner, request, starting, sweep, faults>>

\* releaseSlotIfBrowserStopped.
PurgeRelease(c) ==
  /\ purge[c] = "release"
  /\ Release(c)
  /\ purge' = [purge EXCEPT ![c] = "off"]
  /\ UNCHANGED <<runner, request, starting, sweep, faults>>

\* removeProject, then purgeRemovedCards: off the board first, then the same
\* steps.  A card that purgeCard is at keeps to those; the second pass of the
\* same steps over it is left out.
RemoveProject(S) ==
  /\ S # {} /\ S \subseteq onBoard
  /\ Remove(S)
  /\ purge' = [c \in Cards |-> IF c \in S /\ purge[c] = "off" THEN "stop" ELSE purge[c]]
  /\ UNCHANGED <<runner, request, starting, sweep, faults>>

-----------------------------------------------------------------------------
(* retryBrowserSlotHolds, over the holds as they were when the pass began. *)

SweepBegin ==
  /\ sweep = NoSweep /\ held # {}
  /\ sweep' = [NoSweep EXCEPT !.todo = held]
  /\ UNCHANGED <<board, runner, request, starting, purge, faults>>

SweepStop(c) ==
  /\ sweep.stopped = NoCard /\ c \in sweep.todo
  /\ \/ Stopped(c) /\ sweep' = [todo |-> sweep.todo \ {c}, stopped |-> c]
     \/ NotStopped(c) /\ sweep' = [todo |-> sweep.todo \ {c}, stopped |-> NoCard]
  /\ UNCHANGED <<board, request, starting, purge>>

\* Mutant of SweepRelease: the browser is stopped but its slot stays held.
SweepKeeps ==
  /\ sweep.stopped # NoCard
  /\ sweep' = [sweep EXCEPT !.stopped = NoCard]
  /\ UNCHANGED <<board, runner, request, starting, purge, faults>>

SweepRelease ==
  /\ sweep.stopped # NoCard
  /\ Release(sweep.stopped)
  /\ sweep' = [sweep EXCEPT !.stopped = NoCard]
  /\ UNCHANGED <<runner, request, starting, purge, faults>>

-----------------------------------------------------------------------------
\* Mutant of Reported: the load does not report the holds.
ReportedOnBoard == onBoard

\* What the load of board.json reports to the port table.
Reported == onBoard \union held

\* The backend dies and comes back; the start scripts it ran may go on.
Crash ==
  /\ Fault
  /\ request' = [r \in Requests |-> NoRequest]
  /\ starting' = {}
  /\ adrift' = adrift \union starting
  /\ purge' = [c \in Cards |-> "off"]
  /\ sweep' = NoSweep
  /\ table' = Reported
  /\ UNCHANGED <<onBoard, slotOf, held, crowded, running>>

SweepStep == SweepRelease \/ \E c \in Cards : SweepStop(c)

Next ==
  \/ \E c \in Cards :
       \/ CreateCard(c)
       \/ StartDone(c) \/ StartFails(c) \/ LaunchLate(c)
       \/ PurgeCard(c) \/ PurgeStop(c) \/ PurgeRemove(c) \/ PurgeRelease(c)
  \/ \E r \in Requests : OpenBrowser(r) \/ CloseBrowser(r) \/ \E c \in Cards : Resolve(r, c)
  \/ \E S \in SUBSET Cards : RemoveProject(S)
  \/ SweepBegin \/ SweepStep
  \/ Crash

Spec == Init /\ [][Next]_vars

\* A start ends (its script has a timeout), and the orphan sweep runs at boot
\* and daily, through every hold.
Fairness ==
  /\ \A c \in Cards : WF_vars(StartDone(c) \/ StartFails(c))
  /\ WF_vars(SweepBegin) /\ WF_vars(SweepStep)

FairSpec == Spec /\ Fairness

-----------------------------------------------------------------------------
(* Properties.                                                             *)

\* Every variable keeps its type.
TypeOK ==
  /\ onBoard \subseteq Cards /\ held \subseteq Cards
  /\ crowded \subseteq Cards /\ table \subseteq Cards
  /\ slotOf \in [Cards -> Slots \union {NoSlot}]
  /\ running \in [Slots -> Cards \union {NoCard}]
  /\ request \in [Requests -> [kind : {"off", "open", "close"}, card : Cards \union {NoCard}]]
  /\ \A r \in Requests : request[r].kind # "off" => request[r].card \in Cards
  /\ starting \subseteq Cards /\ adrift \subseteq Cards
  /\ purge \in [Cards -> {"off", "stop", "remove", "remove stopped", "release"}]
  /\ sweep \in [todo : SUBSET Cards, stopped : Cards \union {NoCard}]
  /\ faults \in 0 .. MaxFaults

\* Two cards collide on a slot, the deleted ones that still hold theirs
\* included, only when one of them was created with every slot taken.
DistinctSlots ==
  \A c, d \in onBoard \union held :
    slotOf[c] = slotOf[d] => c = d \/ c \in crowded \/ d \in crowded

\* A Chromium whose card is on the board, or holds its slot, runs where a stop
\* for that card will aim at, also after restarts that emptied the table.
StopsAimRight ==
  \A s \in Slots :
    running[s] \in onBoard \union held => PortsOf(running[s]) = s

\* A deleted card does not keep its slot for ever: when the runner answers,
\* the sweep stops the browser and gives the slot back.
HoldsAreReleased == \A c \in Cards : c \in held ~> c \notin held

\* "So the next card is never handed it": a card that got a free slot finds
\* there no browser of another card but of one created with no slot left.
CleanSlots ==
  \A c \in onBoard \ crowded : running[slotOf[c]] \in {NoCard, c} \union crowded
=============================================================================
