------------------------------- MODULE Outbox -------------------------------
(***************************************************************************)
(* The outbox of a card's terminal (services/board/outbox.ts): a message a *)
(* person composes is appended to a per-card queue in outbox.json and      *)
(* typed into the card's tmux pane by a FLUSH, which probes the pane       *)
(* first.  Every `await` of flushOnce is a step boundary here: the pane,   *)
(* the queue and the board may all change between two of its steps.        *)
(*                                                                         *)
(* A card's array, oldest first, is the set of its queued messages ordered *)
(* by `ticket` (the order of the appends): appending takes a new ticket    *)
(* and filtering a message out keeps the order of the others.  The text,   *)
(* the sender's label (noteSender) and the attempts counter are left out:  *)
(* nothing in the delivery reads them back.                                *)
(***************************************************************************)
EXTENDS Naturals, FiniteSets

CONSTANTS
  Cards,      \* the cards of the board
  Msgs,       \* the messages that may ever be composed
  CardOf,     \* the card each message is composed for
  Flushers,   \* the callers that may run a flush at the same time
  NoCard,     \* the card of a flusher that runs no flush
  MaxFaults   \* bound: failed scripts, probes and writes, crashes, sessions that
              \* end or appear in the middle of a script

ASSUME CardOfAssumption == CardOf \in [Msgs -> Cards]
ASSUME NoCardAssumption == NoCard \notin Cards
ASSUME MaxFaultsAssumption == MaxFaults \in Nat

VARIABLES
  onBoard,    \* the cards the registry still has
  pane,       \* what each card's tmux pane really shows
  queue,      \* outbox.json: the messages still queued
  ticket,     \* 0, or the rank of the message among all appends
  nextTicket, \* the rank of the next append
  flush,      \* one flushOnce per flusher: where it is and its snapshot
  orphans,    \* messages whose send-keys script was given up but may still type
  landed,     \* typed into a pane at least once
  reached,    \* typed at the prompt of a running Claude
  repeated,   \* typed more than once
  withdrawn,  \* cancelled by the person, or dropped with the card
  missed,     \* taken out of the queue by a script that typed nothing
  faulted,    \* messages whose delivery met a fault
  faults      \* faults so far

vars == <<onBoard, pane, queue, ticket, nextTicket, flush, orphans, landed,
          reached, repeated, withdrawn, missed, faulted, faults>>

\* "none": no tmux session; "shell": Claude exited and `exec bash` has the
\* pane; "booting": nothing drawn yet; "menu": an interactive choice is open;
\* "ready": Claude's prompt.
PaneStates == {"none", "shell", "booting", "menu", "ready"}

\* What the pane may turn into: the session dies or is created, Claude boots,
\* opens and closes menus, exits to the shell, is started again by hand.
PaneMoves(p) ==
  CASE p = "none"    -> {"booting"}
    [] p = "shell"   -> {"none", "booting"}
    [] p = "booting" -> {"none", "shell", "menu", "ready"}
    [] p = "menu"    -> {"none", "shell", "ready"}
    [] p = "ready"   -> {"none", "shell", "menu"}

\* "enter" and "blank": the script is between its two `send-keys`, with the
\* text typed, or with no session to take it.
FlushSteps == {"off", "probe", "capture", "type", "enter", "blank", "remove", "mark"}

NoFlush == [pc |-> "off", card |-> NoCard, todo |-> {}]

Accepted == {m \in Msgs : ticket[m] # 0}

Pending(c) == {m \in queue : CardOf[m] = c}

Active(f) == flush[f].pc # "off"

\* Mutant of Current: the queue is walked from its newest end.
CurrentNewest(f, m) ==
  /\ m \in flush[f].todo
  /\ \A n \in flush[f].todo : ticket[m] >= ticket[n]

\* The message the loop of a flush is on: the oldest left of its snapshot.
Current(f, m) ==
  /\ m \in flush[f].todo
  /\ \A n \in flush[f].todo : ticket[m] <= ticket[n]

Init ==
  /\ onBoard = Cards
  /\ pane \in [Cards -> {"none", "ready"}]
  /\ queue = {} /\ orphans = {}
  /\ ticket = [m \in Msgs |-> 0] /\ nextTicket = 1
  /\ flush = [f \in Flushers |-> NoFlush]
  /\ landed = {} /\ reached = {} /\ repeated = {} /\ withdrawn = {}
  /\ missed = {} /\ faulted = {} /\ faults = 0

-----------------------------------------------------------------------------
(* The queue: append, cancel, and what the deletion of a card does.        *)

\* queueMessage, up to its append.  It looked the card up before an await, so
\* the card may be gone by now.  The flush it then asks for is FlushStart; when
\* one is running for the card, the call only waits for that one.
Enqueue(m) ==
  /\ m \notin Accepted
  /\ queue' = queue \union {m}
  /\ ticket' = [ticket EXCEPT ![m] = nextTicket]
  /\ nextTicket' = nextTicket + 1
  /\ UNCHANGED <<onBoard, pane, flush, orphans, landed, reached, repeated,
                 withdrawn, missed, faulted, faults>>

\* cancelMessage: out of the queue, whatever a running flush holds of it.
Cancel(m) ==
  /\ m \in queue
  /\ queue' = queue \ {m}
  /\ withdrawn' = withdrawn \union {m}
  /\ UNCHANGED <<onBoard, pane, ticket, nextTicket, flush, orphans, landed,
                 reached, repeated, missed, faulted, faults>>

\* removeCard of the purge: from here the card resolves to nothing.
RemoveCard(c) ==
  /\ c \in onBoard
  /\ onBoard' = onBoard \ {c}
  /\ UNCHANGED <<pane, queue, ticket, nextTicket, flush, orphans, landed,
                 reached, repeated, withdrawn, missed, faulted, faults>>

DropQueue(c) ==
  /\ queue' = queue \ Pending(c)
  /\ withdrawn' = withdrawn \union Pending(c)

\* purgeCardQueue: the erase step of the purge, and the orphan sweep.
PurgeCardQueue(c) ==
  /\ c \notin onBoard
  /\ Pending(c) # {}
  /\ DropQueue(c)
  /\ UNCHANGED <<onBoard, pane, ticket, nextTicket, flush, orphans, landed,
                 reached, repeated, missed, faulted, faults>>

-----------------------------------------------------------------------------
(* The flush.                                                              *)

\* Mutant of FlushStart: the per-card lock is gone.
FlushStartUnlocked(f, c) ==
  /\ ~Active(f)
  /\ c \in onBoard /\ Pending(c) # {}
  /\ flush' = [flush EXCEPT ![f] = [pc |-> "probe", card |-> c, todo |-> Pending(c)]]
  /\ UNCHANGED <<onBoard, pane, queue, ticket, nextTicket, orphans, landed,
                 reached, repeated, withdrawn, missed, faulted, faults>>

\* Mutant of FlushStart: a card that is gone keeps its queue.
FlushStartOnBoard(f, c) ==
  /\ \A g \in Flushers : flush[g].card # c
  /\ FlushStartUnlocked(f, c)

\* flushCard with its per-card lock, then flushOnce up to the first probe:
\* the queue is snapshotted and the card looked up; a card that is gone takes
\* its queue with it and ends the flush.
FlushStart(f, c) ==
  /\ ~Active(f)
  /\ \A g \in Flushers : flush[g].card # c
  /\ Pending(c) # {}
  /\ \/ /\ c \in onBoard
        /\ flush' = [flush EXCEPT ![f] =
                       [pc |-> "probe", card |-> c, todo |-> Pending(c)]]
        /\ UNCHANGED <<queue, withdrawn>>
     \/ /\ c \notin onBoard
        /\ DropQueue(c)
        /\ UNCHANGED flush
  /\ UNCHANGED <<onBoard, pane, ticket, nextTicket, orphans, landed, reached,
                 repeated, missed, faulted, faults>>

Goto(f, step) == flush' = [flush EXCEPT ![f].pc = step]

\* Mutant of EndFlush: the lock of the card is not given back.
EndFlushLocked(f) == flush' = [flush EXCEPT ![f].pc = "off"]

EndFlush(f) == flush' = [flush EXCEPT ![f] = NoFlush]

\* cardAgentState: is there anything but a shell in the pane's process tree?
ProbeAgent(f) ==
  /\ flush[f].pc = "probe"
  /\ IF pane[flush[f].card] \in {"none", "shell"} THEN EndFlush(f)
                                                  ELSE Goto(f, "capture")
  /\ UNCHANGED <<onBoard, pane, queue, ticket, nextTicket, orphans, landed,
                 reached, repeated, withdrawn, missed, faulted, faults>>

\* cardPaneReadiness: an empty capture reads as booting and a menu is
\* recognised; any other text reads as ready, a shell's prompt included.
ReadPane(f) ==
  /\ flush[f].pc = "capture"
  /\ IF pane[flush[f].card] \in {"ready", "shell"} THEN Goto(f, "type")
                                                   ELSE EndFlush(f)
  /\ UNCHANGED <<onBoard, pane, queue, ticket, nextTicket, orphans, landed,
                 reached, repeated, withdrawn, missed, faulted, faults>>

\* A probe or capture that could not be run, or a card the board calls
\* dormant: nothing is typed this time.
ProbeMisses(f) ==
  /\ flush[f].pc \in {"probe", "capture"}
  /\ faults < MaxFaults
  /\ faults' = faults + 1
  /\ EndFlush(f)
  /\ UNCHANGED <<onBoard, pane, queue, ticket, nextTicket, orphans, landed,
                 reached, repeated, withdrawn, faulted, missed>>

\* `tmux send-keys` on the pane as it is at that moment.
Typed(m) ==
  /\ landed' = landed \union {m}
  /\ repeated' = IF m \in landed THEN repeated \union {m} ELSE repeated
  /\ reached' = IF pane[CardOf[m]] = "ready" THEN reached \union {m}
                                              ELSE reached

\* The script's first command, `send-keys -l` with the text: with no session
\* it types nothing, and the script, which has no `set -e`, goes on.
Type(f) ==
  /\ flush[f].pc = "type"
  /\ \E m \in Msgs :
       /\ Current(f, m)
       /\ \/ /\ pane[CardOf[m]] # "none"
             /\ Typed(m)
             /\ Goto(f, "enter")
          \/ /\ pane[CardOf[m]] = "none"
             /\ Goto(f, "blank")
             /\ UNCHANGED <<landed, reached, repeated>>
  /\ UNCHANGED <<onBoard, pane, queue, ticket, nextTicket, orphans, withdrawn,
                 missed, faulted, faults>>

\* 150 ms later its last command, `send-keys Enter`, whose exit status is the
\* script's: success when there is a session NOW, so that a message whose text
\* found none counts as delivered, and one whose session ended after the text
\* counts as failed.
Enter(f) ==
  /\ flush[f].pc \in {"enter", "blank"}
  /\ \E m \in Msgs :
       /\ Current(f, m)
       /\ \/ /\ pane[CardOf[m]] # "none"
             /\ Goto(f, "remove")
             /\ missed' = IF flush[f].pc = "blank" THEN missed \union {m} ELSE missed
             /\ UNCHANGED faulted
          \/ /\ pane[CardOf[m]] = "none"
             /\ Goto(f, "mark")
             /\ faulted' = faulted \union {m}
             /\ UNCHANGED missed
  /\ UNCHANGED <<onBoard, pane, queue, ticket, nextTicket, orphans, landed,
                 reached, repeated, withdrawn, faults>>

\* The script times out or the host is lost while it runs: the wait is given
\* up, but a `docker exec` that had not typed yet may go on and type later.
AbandonSend(f) ==
  /\ flush[f].pc \in {"type", "enter", "blank"}
  /\ faults < MaxFaults
  /\ faults' = faults + 1
  /\ \E m \in Msgs :
       /\ Current(f, m)
       /\ orphans' = IF flush[f].pc = "type" THEN orphans \union {m} ELSE orphans
       /\ faulted' = faulted \union {m}
  /\ Goto(f, "mark")
  /\ UNCHANGED <<onBoard, pane, queue, ticket, nextTicket, landed, reached,
                 repeated, withdrawn, missed>>

\* removeMessage after a script that succeeded; the loop goes on with the
\* next message of the SNAPSHOT.
RemoveMessage(f) ==
  /\ flush[f].pc = "remove"
  /\ \E m \in Msgs :
       /\ Current(f, m)
       /\ queue' = queue \ {m}
       /\ IF flush[f].todo = {m}
            THEN EndFlush(f)
            ELSE flush' = [flush EXCEPT ![f].pc = "type", ![f].todo = @ \ {m}]
  /\ UNCHANGED <<onBoard, pane, ticket, nextTicket, orphans, landed, reached,
                 repeated, withdrawn, missed, faulted, faults>>

\* The script succeeded, but its success was lost (a timeout after the keys) or
\* the write of the queue failed.
LoseRemoval(f) ==
  /\ flush[f].pc = "remove"
  /\ faults < MaxFaults
  /\ faults' = faults + 1
  /\ \E m \in Msgs : Current(f, m) /\ faulted' = faulted \union {m}
  /\ Goto(f, "mark")
  /\ UNCHANGED <<onBoard, pane, queue, ticket, nextTicket, orphans, landed,
                 reached, repeated, withdrawn, missed>>

\* Mutant of MarkAttempt: the loop goes on after a failure.
MarkAttemptGoesOn(f) ==
  /\ flush[f].pc = "mark"
  /\ \E m \in Msgs :
       /\ Current(f, m)
       /\ IF flush[f].todo = {m}
            THEN EndFlush(f)
            ELSE flush' = [flush EXCEPT ![f].pc = "type", ![f].todo = @ \ {m}]
  /\ UNCHANGED <<onBoard, pane, queue, ticket, nextTicket, orphans, landed,
                 reached, repeated, withdrawn, missed, faulted, faults>>

\* Mutant of MarkAttempt: the failed message leaves the queue.
MarkAttemptDrops(f) ==
  /\ flush[f].pc = "mark"
  /\ \E m \in Msgs : Current(f, m) /\ queue' = queue \ {m}
  /\ EndFlush(f)
  /\ UNCHANGED <<onBoard, pane, ticket, nextTicket, orphans, landed, reached,
                 repeated, withdrawn, missed, faulted, faults>>

\* markAttempt and `break`: the messages behind the failed one wait with it.
MarkAttempt(f) ==
  /\ flush[f].pc = "mark"
  /\ EndFlush(f)
  /\ UNCHANGED <<onBoard, pane, queue, ticket, nextTicket, orphans, landed,
                 reached, repeated, withdrawn, missed, faulted, faults>>

-----------------------------------------------------------------------------
(* The world: scripts nobody waits for any more, panes, crashes.           *)

\* A script that was given up types after all, or finds no session.
TypeLate(m) ==
  /\ m \in orphans
  /\ orphans' = orphans \ {m}
  /\ IF pane[CardOf[m]] = "none" THEN UNCHANGED <<landed, reached, repeated>>
                                 ELSE Typed(m)
  /\ UNCHANGED <<onBoard, pane, queue, ticket, nextTicket, flush, withdrawn,
                 missed, faulted, faults>>

\* The script typing into the card is between its two commands.
Halfway(c) == \E f \in Flushers : flush[f].card = c /\ flush[f].pc \in {"enter", "blank"}

\* A pane changes by itself; its session ending, or being created, within the
\* 150 ms of a script counts as a fault.
PaneChanges(c) ==
  /\ \E p \in PaneMoves(pane[c]) :
       /\ pane' = [pane EXCEPT ![c] = p]
       /\ IF Halfway(c) /\ "none" \in {p, pane[c]}
            THEN faults < MaxFaults /\ faults' = faults + 1
            ELSE UNCHANGED faults
  /\ UNCHANGED <<onBoard, queue, ticket, nextTicket, flush, orphans, landed,
                 reached, repeated, withdrawn, missed, faulted>>

ScriptSteps == {"type", "enter", "blank", "remove"}

\* The messages a flush was on: with its script running, or done already.
InFlight(step) == {m \in Msgs : \E f \in Flushers : flush[f].pc = step /\ Current(f, m)}

\* The backend dies and comes back: locks and snapshots were memory, the
\* queue is on disk, and a script it had started may still type.
Crash ==
  /\ \E f \in Flushers : Active(f)
  /\ faults < MaxFaults
  /\ faults' = faults + 1
  /\ orphans' = orphans \union InFlight("type")
  /\ faulted' = faulted \union UNION {InFlight(step) : step \in ScriptSteps}
  /\ flush' = [f \in Flushers |-> NoFlush]
  /\ UNCHANGED <<onBoard, pane, queue, ticket, nextTicket, landed, reached,
                 repeated, withdrawn, missed>>

FlushStep(f) ==
  \/ ProbeAgent(f) \/ ReadPane(f) \/ Type(f) \/ Enter(f)
  \/ RemoveMessage(f) \/ MarkAttempt(f)

Next ==
  \/ \E m \in Msgs : Enqueue(m) \/ Cancel(m) \/ TypeLate(m)
  \/ \E c \in Cards : RemoveCard(c) \/ PurgeCardQueue(c) \/ PaneChanges(c)
  \/ \E f \in Flushers, c \in Cards : FlushStart(f, c)
  \/ \E f \in Flushers : FlushStep(f) \/ ProbeMisses(f) \/ AbandonSend(f) \/ LoseRemoval(f)
  \/ Crash

Spec == Init /\ [][Next]_vars

\* The ticker visits every card with something queued (startOutboxFlusher);
\* every await of a flush ends, with its result or at its timeout.
Fairness ==
  /\ \A c \in Cards : WF_vars(\E f \in Flushers : FlushStart(f, c))
  /\ \A f \in Flushers : WF_vars(FlushStep(f))

FairSpec == Spec /\ Fairness

-----------------------------------------------------------------------------
(* Properties.                                                             *)

\* Every variable keeps its type: in particular a flush holds messages of its
\* own card only, and only an active one holds a card (the flushLocks entry).
TypeOK ==
  /\ onBoard \subseteq Cards
  /\ pane \in [Cards -> PaneStates]
  /\ queue \subseteq Msgs /\ orphans \subseteq Msgs
  /\ ticket \in [Msgs -> Nat] /\ nextTicket \in Nat \ {0}
  /\ flush \in [Flushers -> [pc : FlushSteps, card : Cards \union {NoCard},
                             todo : SUBSET Msgs]]
  /\ \A f \in Flushers : flush[f].pc = "off" <=> flush[f].card = NoCard
  /\ \A f \in Flushers : \A m \in flush[f].todo : CardOf[m] = flush[f].card
  /\ landed \subseteq Msgs /\ reached \subseteq Msgs
  /\ repeated \subseteq Msgs /\ withdrawn \subseteq Msgs
  /\ missed \subseteq Msgs /\ faulted \subseteq Msgs
  /\ faults \in 0..MaxFaults

\* Nothing is lost by the queue itself: across crashes, failed writes and
\* overlapping triggers, a message handed over is still queued, was typed
\* into its pane, or was withdrawn by the person or with its card; the one
\* exception is the script that succeeds without having typed (`missed`).
NothingLost == Accepted \subseteq queue \union landed \union withdrawn \union missed

\* "Order matters in a conversation": when a message has been typed, every
\* older one of the same card has been typed, withdrawn or missed, also when
\* scripts that were given up type late and flushes stop at a failure.
InOrder ==
  \A m \in landed, n \in Accepted :
    CardOf[n] = CardOf[m] /\ ticket[n] < ticket[m]
      => n \in landed \union withdrawn \union missed

\* One flush per card: no message is typed twice into the same prompt unless
\* a fault hit its own delivery (the deliver-then-remove trade).
TwiceOnlyAfterFault == repeated \subseteq faulted

\* The file's promise: a message that left the queue, and that nobody
\* withdrew, was typed at the prompt of a RUNNING Claude.
DeliveredToClaude == Accepted \subseteq queue \union withdrawn \union reached

Promise == INSTANCE OutboxPromise WITH held <- queue

\* The flush implements the promise of OutboxPromise: every step of it is a
\* step of that specification or changes nothing it speaks of.
KeepsPromise == Promise!Spec

\* A queue does not starve: once the card's Claude stays at its prompt, what
\* is queued leaves the queue, with no further help than the ticker.
QueueDrains ==
  \A m \in Msgs :
    <>[](pane[CardOf[m]] = "ready" /\ CardOf[m] \in onBoard)
      => (m \in queue ~> m \notin queue)

\* The queue of a deleted card goes away even when the purge's own step for
\* it never ran, or ran before a late append: some later flush finds the card
\* gone.
GoneCardLeavesNoQueue ==
  \A c \in Cards : c \notin onBoard ~> Pending(c) = {}
=============================================================================
