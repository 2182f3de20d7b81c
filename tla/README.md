# VibeHub in TLA+

VibeHub is a board of cards; each card is a workspace in a container with a
terminal (tmux) or a native chat where Claude Code works. The backend
(`src/back`, one Node process) keeps the board in JSON documents, drives the
container ("the runner") by shell scripts, and learns what happens in it from
hooks that post back. What is hard about it is not computation but
interleaving: handlers that read, await the runner, and write; people, hooks,
timers and scripts acting on the same card; a backend that is restarted by every
deploy while the runner lives on.

This directory holds TLA+ models of that core, the TLC runs that check them on
small instances, and TLAPS proofs of their main results for all values of the
constants. `PROJECT.json` lists components, runs, the definition-to-source map,
hazards, findings and theorems. Line numbers below are of files under
`src/back/src` unless another path is given.

To run: `tlc -config MCOutbox.cfg MCOutbox`, and so on for the runs below;
`tlapm OutboxProofs.tla`, `tlapm CardLifecycleProofs.tla`,
`tlapm BrowserSlotsProofs.tla`, `tlapm JsonStoreProofs.tla`,
`tlapm PrReviewProofs.tla`, `tlapm ChatDriverProofs.tla`,
`tlapm ChatProofs.tla`, `tlapm DeliveryProofs.tla` (the longest, some minutes).

## Inventory

| Component | State it keeps | Operations | Talks to | What is hard, what makes it correct | Module |
|---|---|---|---|---|---|
| JSON document store (`store/jsonStore.ts`, `atomicWrite.ts`) | one document cached with its file's stamp, a promise-chain mutex | load, read, mutate, reload on stamp change, temp file + rename | every service below | writers in one process are serialised; two backends (blue/green deploy) share the files: a cached document must not outlive the file, an update must not be lost, a rejected change not persisted | `JsonStore`, `UpdateRegister` |
| Card registry (`services/board/registry.ts`) | board.json: projects, cards, columns, status, pause/hibernate/restart stamps, browser slots | create/move/remove card, applyCardStatus, pauseCard, hibernateCard, markRestartPending, slots | workspace, status, routes, sweeps | each rule is one `mutate`, but callers act on what they read before an await | `CardLifecycle`, `BrowserSlots` |
| Session handlers and timers (`services/board/workspace.ts`, `status.ts`, `agentState.ts`, `routes/session.ts`, `routes/board.ts`) | sessions in the runner, an open-lock per card | open, attach, pause, restart, hibernate, drag, hook reports, reconcilers, idle sweep | registry, runner | lost and late hooks, stale decisions, a pause racing an attach, a sweep that must reach everything | `CardLifecycle` |
| Terminal outbox (`services/board/outbox.ts`) | outbox.json: a queue per card; in-memory flush locks | queue, cancel, flush, purge | agent state probes, send-keys script, purge | probe/type/remove are three awaits: loss, duplication, reordering, starvation | `Outbox`, `OutboxPromise` |
| Card browser slots (`services/browser/*`, slot part of the registry) | slot per card and holds in board.json; port table, starts in flight in memory | allocate, open, close, release, sweep holds | purge, runner | a slot reused while an old Chromium listens on it; a stop aimed at the wrong port after a restart | `BrowserSlots` |
| Purge and retention (`services/board/purge.ts`, `retention.ts`) | none of its own | stop, remove, erase each thing a card owned; orphan sweep | all stores | partial failure, a writer that resurrects what was erased | steps in `BrowserSlots`, `Outbox`; rest planned |
| Native chat (`services/sdk/*`, `routes/cardSdk.ts`) | a driver session per card in memory (counted turns, tasks, notices, wake-ups, resume watch, API retry), the in-flight marker and the heartbeat of its owner on disk, the history of each card, the receipts a session has given | attach, user frame, injected turn, interrupt, idle stop, driver events, boot sweep, resume, history append | cards, status reports, the CLI, the chat of the front end | the count of turns goes by results that come late, merged or unasked; a turn that dies with its driver or backend is to be resumed once, by one of two live backends, and not for ever | `ChatDriver`, `NativeChat`, `ChatDelivery` |
| Front end's chat outbox (`src/front/.../sdkOutbox.ts`, `sdkQueue.ts`, `sdkChat.ts`, `SdkChatView.tsx`) | queue and outbox in localStorage, rows on the screen, the socket | send, receipt, reconcile with the replay, watchdog, automatic resend, reload | native chat | a receipt is lost with its socket, and the replay has words and times but no receipts: neither lose nor repeat | `ChatDelivery` |
| Maestro (`services/maestro/*`) | held messages, change feed; the delivery of a card | deliver, gate, release | cards' terminals and chats, GitHub, reviews | the gate takes minutes, and branch, review and pull request move meanwhile | the send-keys script in `Outbox`, the delivery in `PrReview`; gate of messages planned |
| Review orchestrator (`services/review/*`) | reviews.json: a review per pull request under way (phase, round, findings, commits); claims of merges and the line of starts in memory | start, relay, submit, respond, decide, suggestions, retry, cancel, judge a turn, read GitHub, merge | GitHub, cards, Maestro | AIs that end a turn without the tool, late answers of a former round, a merge against a moving branch, people deciding meanwhile, a restart | `ReviewRules`, `PrReview` |
| Card events and webhooks (`services/events`, `services/webhooks`) | subscriptions, failure counters | emit, deliver, retry, disable | external URLs | retries against a dead subscriber, order of events | planned |
| Previews, reaper (`services/preview`, `services/reaper`) | announced ports, leftovers | announce, probe, reap | runner | reaping what is in use | planned, low |
| Accounts, credentials, vault, GitHub, settings, plugins, brain, MCP catalogue | configuration documents | CRUD, push to the runner | store, runner | sequential over the store | not modelled |
| Auth, HTTP and MCP surface | sessions | check, route | services | stateless decisions; the routes with effects are inside the handlers' actions | partly |

## Modules and how they correspond to the code

An `await` in a modelled handler is a step boundary, but for the few that "What the
models leave out" names; what runs between two
awaits is one action, because Node runs it without interruption and because a
`store.mutate` applies its function under the document's mutex. A handler's
position is a `pc` field next to the data it read earlier and will use later,
which is where stale decisions come from. A backend restart (`Crash`) clears
everything that is memory and keeps what is in a document, in the runner, or
already on its way as a script. Calls to the runner may fail at any time, up to
`MaxFaults`; a script given up at its timeout may still act later.

### `Outbox`, implementing `OutboxPromise`

`queueMessage` (`Enqueue`), `cancelMessage` (`Cancel`), the purge
(`RemoveCard`, `PurgeCardQueue`), and `flushOnce` step by step: lock and
snapshot (`FlushStart`), process probe (`ProbeAgent`), pane capture
(`ReadPane`), the send-keys script, removal (`RemoveMessage`) or failed attempt
(`MarkAttempt`). The script (`services/maestro/maestro.ts:192-203`) is two steps,
150 ms apart: `Type` sends the text, and goes on also when it found no session
(`blank`); `Enter` sends the key, and its exit status is the script's, for there is
no `set -e` inside. So a session that appears in between makes a success with
nothing typed (`missed`), one that ends in between a failure with the text typed;
both count against `MaxFaults`, as does a probe that cannot be run or finds a card
the board calls dormant (`ProbeMisses`): `QueueDrains` is about a card that is not
dormant for ever. A card's array is the set of its queued messages ordered by
`ticket`, the rank of the append: appending and filtering are the only writes, so
nothing is lost by it. The tmux pane is the real thing the probes only sample: it
changes under a running flush (`PaneChanges`), and `Type` types into whatever it
then is. `Enqueue` has no guard on the board, because the code looks the card up
before an await and appends after it. `landed`, `reached`, `repeated`,
`withdrawn`, `missed`, `faulted` are history.

`OutboxPromise` is the module a reader should start with: hold, land in order,
release only what landed or was taken for landed (`Miss`), withdraw. `KeepsPromise`
is the refinement, with `held <- queue`; the rest of the mapping is by name. It
leaves open where a message lands, which is what `DeliveredToClaude` asks.

### `CardLifecycle`

One card: its registry record (column, status dot, the four stamps as booleans, and
whether the clock ran past the two thresholds), the real tmux session, the hooks on
their way, and one program counter per handler: status reports (several at once),
the person's pause and the pause reconciler, the stale-`working` reconciler,
hibernation (sweep or person), restart, open, terminal attach, drag. The registry's
rules (`Reported`, `Opened`, `Paused`, `Hibernated`, `MoveEffect`...) are functions
on the record, one per rule of `registry.ts`. Cards share nothing these handlers
read, so one card is the whole component. `stirred` is history, of a finished card:
a turn has run in its session, or was still being reported, since it was filed as
done; what it does not excuse is a card reopened by a session that was merely
opened, attached to, restarted, swept or reconciled. The conversation runs in the
terminal: the native chat's vetoes (`isCardInUse`, `cardHoldsBackgroundWork`) are
false.

### `BrowserSlots`

Slot allocation by hash with a fallback to the lowest free one (`Allocate`),
the hold a deleted card keeps (`held`), the in-memory port table, start and stop
scripts, `purgeCard` (stop, then remove, then release), `removeProject` (remove
first, then the same steps), the sweep over the holds, and a restart, which
rebuilds the table from what the load reports. `running` is what listens on each
slot in the runner. `crowded` is history: cards created when no slot was free.

### `JsonStore`, implementing `UpdateRegister`

One document, its file, and several processes over it. A document is the set of
the updates it contains; a file's stamp is the number of the write that made it,
which is what a fresh inode amounts to. `load` with nothing cached joins the read
in flight or begins one (`JoinRead`), and a read is `StatFile`, `ReadContent`,
`LandRead`, with the other process free to rename between them. A mutation is
called (`Mutate`), begins when the one before it is over (`Begin`), checks the
stamp (`CheckStamp`) or waits for the read (`Loaded`), runs its function
(`Apply`: it changes the live document in place, changes nothing, refuses, or
throws halfway), renames its temporary file (`Rename`) and remembers the stamp
(`Persisted`). `entered`, `begun` and `joined` are history: the write that last
brought an update in, the file's stamp when a mutation began, and whether it
found a cold read in flight.

`ErasesOnlyOverlapped` says exactly what two processes are promised, which is
less than serialisation: a write of the other process that lands after the stamp
check is erased by the rename. What may not happen is that an update is erased
which the mutation could have seen.

`UpdateRegister` is what one backend alone with the file promises its callers:
updates wait in a line; the first may decide on its change (`Change`), which takes
effect at once (`Commit`) or never; callers are answered in the order of the
calls, yes only when the change is in the document, no only when it is not and
never will be (`Answer`); whoever waits when the process dies hears nothing
(`Forget`). The mapping: its value is the content of the file, its line the
mutation that runs and those queued behind it, `changed` says that the function
has put its change in the live document, and `told` is `outcome`. Two backends do
not keep this promise (a write of the other may be erased), which is why the
mapping names the only one (`Backend`).

### `ChatDriver`, `NativeChat`

`ChatDriver` has the handlers of `services/sdk/manager.ts` as functions from a
driver session to the session they leave: a person's turn, an injected one, each arm
of `handleDriverEvent` (an answer, an error of the API that may pass, one that may
not, an error of the driver among them), the interrupt, the resume watch, the API
retry. What a handler did last to the marker file and said to the panel is left in
two fields (`io`, `said`), which the action that runs it carries out; so a handler
is one step, as it is in Node, whatever it calls.

`NativeChat` composes them for one card over the backends that boot one after
the other: the CLI behind each driver (`cli`) and the events it wrote that are
not read yet (`pipe`), the marker file, the heartbeat of each backend, the dot,
and one resume task per backend and cause (the boot sweep and the crash of a
driver), in steps between its awaits: whose marker is it (`SweepDecides`,
`CrashLooks`; `SweepFails` is the early return on an error), the rules
(`ResumeRules`; `RulesFail` is an error before any note), the preparation that may
fail, the second look at the marker (`ResumeLooks`), and then, when that read is
back, the injection, with no further look at the disk (`ResumeInjects`;
`ResumeInjectsLate` when SIGTERM came during the read; `ResumeYields` when a turn
runs here by then).

Nobody waits for the marker: a handler asks for it (`Asks`; `marker` is what
the file will say), the write or the removal is under way (`ink`) and lands later
(`Lands`), fails with a line in the log (`MarkerFails`) or dies with its process
(`CutOff`). A write empties the file before it fills it, so that a reader
meanwhile may find none (`Found`), and a boot that finds a torn file removes it
(`Boot`). A deploy is blue/green (`Boot`
beside the old backend, which then gets SIGTERM, or is killed when its goodbye
does not come) or a stop and a start. A driver that dies is `Crash`; until its
exit is seen the child is "deaf": it takes lines and answers nothing.

History variables say what a property needs to know. `owed`: work died, and neither
a note nor another turn followed. `chain` and `barren`: resumes in a row of one
order, and those of them since the agent last produced something. `crossed`: the
marker file failed those who rely on it. Two live backends acted on one marker (it
is erased and overwritten with no look at its owner), an operation on it failed or
died with its process, a reader found something else than what had been asked for,
or an order went by a look that was out of date. A late write that lands before
anybody reads is no such thing. `stranded`: work was given up that no sweep will
see, by a sweep that came too early or failed. `miscount`: fewer results were
counted than the CLI owes. The last three mark behaviours the code's own comments
say nothing of, and the properties say where they are excused; "Disagreements met"
says what they are.

### `ChatDelivery`

One browser tab over `NativeChat`: `tab` (queue, outbox, rows), `conn` (the
socket, with what is on the wire in each direction), the receipts each session
keeps, the appends to the history under way, the history. The actions are the
person's `Writes`, the effects of `SdkChatView.tsx` (`Dispatches`, `Hears`,
`Watchdog`, `Reload`, the reconnection) and the server's (`ServerReads` and
`ServerAttaches`, with the replay between them; `ServerHandles`, which takes,
charges or refuses a frame; `WriteEnds`, `WriteFails`). `late` is what a socket
the tab has closed may still bring. The reconciliation (`sendMark`, `Proofs`,
`reconcileOutbox`) is the code's, over the words of messages: two messages may
have the same words, and the history keeps no receipt. `blind` and `skewed` are
history: a message the last replay could not prove, and a mark that fits the line
of a twin.

### `ReviewRules`, `PrReview`

`ReviewRules` has the rules of `services/review/model.ts` and the mutations of
`orchestrator.ts` as functions from a review to the review they leave: what a
submission, an answer, a decision, a retry, a judged turn, a push do to phase,
round, findings and commits. A commit is a number.

`PrReview` runs them for one pull request, over the reviews somebody asks for one
after the other: relays on their way (`sends`), the turns they open on the cards
(`turns`), turns that ended and wait out the grace (`ended`), readings of GitHub
(`syncs`), merges under way (`merges`, claimed in `merging`), the delivery of the
author's card (`delivery`), the line of starts (`starting`), and GitHub. Each step
between two awaits is an action: a relay lands or fails; a start checks, makes its
card, inserts; a merge asks, claims, resolves, waits for the gate, runs its script,
closes the review; the script itself is one step, and compares the head with the
pinned commit as GitHub does. `Restart` forgets all but reviews and cards. `lost`
and `astray` are history: a restart dropped a text, or a turn was not judged because
a person uses the card; a reviewer reported another commit than the one it read.

The other modules take one `mutate` as one step, `PrReview` (reviews.json)
included. Inside one process `RefinesRegister` gives them that: updates follow the
order of the calls, a write never loses another update, and a mutation that fails
leaves no trace.

## Runs

| Run | Config | Instance | What it checks |
|---|---|---|---|
| `outbox` | `MCOutbox.cfg` | 1 card, 2 messages, 2 flush callers, 2 faults; 248k states | `TypeOK`; `NothingLost`; `InOrder`; `TwiceOnlyAfterFault`; refinement `KeepsPromise`; liveness `QueueDrains`, `GoneCardLeavesNoQueue` |
| `outbox_promise` | `MCOutboxPromise.cfg` | 1 caller, no fault | violation of `DeliveredToClaude` |
| `card_safety` | `MCCardLifecycle.cfg` | 2 reports in flight, 1 request, 1 turn, 1 fault, symmetric reports; 1.65M states | `TypeOK`; `AsleepHasNoDot`; `PauseSticks`; `DoneSticks` |
| `card_liveness` | `MCCardLive.cfg` | 1 report, 1 request, 1 turn, 2 faults, idle sweep off; 179k states | `PendingPauseLands`; `StaleDotGoesOut` |
| `card_paused` | `MCCardPaused.cfg` | 2 requests, no fault | violation of `PausedMeansDead` |
| `card_done` | `MCCardDone.cfg` | idle setting 0, no fault | violation of `DoneCardSleeps` |
| `browser_slots` | `MCBrowserSlots.cfg` | 2 ids hashing to one slot of 2, 1 request, 1 fault; 251k states | `TypeOK`; `DistinctSlots`; `StopsAimRight`; liveness `HoldsAreReleased` |
| `browser_clean` | `MCBrowserClean.cfg` | the same, no fault | violation of `CleanSlots` |
| `store` | `MCJsonStore.cfg` | 2 processes, 3 mutations, 1 fault; 462k states | `TypeOK`; `StampsTell`; `RejectedIsGone`; `ErasesOnlyOverlapped`; liveness `MutationsSettle` |
| `chat` | `MCChat.cfg` | 3 backends, 2 messages, 3 automatic resumes (5 in the code), 1 API retry (3 in the code), 21 scenarios; 46k states | `TypeInvariant`; `WorkIsOnDisk`; `RunningTurnIsCounted`; `LoopGuard`; `WordsNeverVanish`; `IdleStopKillsNoWork`; `NoTwin`; `NoSecondTurn`; liveness `DeadWorkIsFollowed`, `DotSettles`, `IdleDriverStops`, `EventuallySettled` |
| `pr_review` | `MCPrReview.cfg` | 2 reviews, 2 commits, 1 finding, 3 rounds (as in the code), 20 scenarios; 70k states | `TypeInvariant`; `OneReviewUnderWay`; `HumanWordStands`; `MergesWhatWasReviewed`; liveness `NobodyWaitsForEver`, `GitHubEndsReviews` |
| `store_deploy` | `MCStoreDeploy.cfg` | 2 processes, 2 mutations, no fault | violation of `SeesThePast` |

Why the bounds are enough for the interesting cases. Two messages of one card
are what order, overtaking and stop-at-failure need; flush locks are per card
and messages of different cards meet nowhere, so a second card only multiplies
states. Two faults allow a script given up that types after a retry, and a crash
after a failed removal, and a session that comes or goes in the middle of a script.
In `CardLifecycle` one request meets every handler and
timer in every order, and two reports in flight are the least for one to act on
a state another has changed; one more request is allowed where the case needs
two people (`card_paused`). Every initial card (new, waiting, paused, finished)
starts a run, so one request reaches what would otherwise take three. Two ids on
one hash in two slots make the fallback, the reuse of a slot and a late launch
onto it happen; what happens when slots run out is proved, not run. In `JsonStore` a
deploy has two backends; three mutations let each process write, and one of them
write again over what the other brought in, and one fault is enough to leave a
dirty document behind and then write. No property
mentions a bound, and the safety results are proved without them.

`chat` and `pr_review` start from scenarios (`Budgets`): each names the inputs
and faults a behaviour may have and how often, and within it they come at every
moment. All of them at once, in one instance, would be far past what TLC can
finish; one fault or two per scenario is what the hazards need. Turns of the
chat: a second deploy while the first one's resume runs; a deploy with a crash, a
pause, background work or an API failure beside it; four crashes in a row, one
more than the guard lets be resumed; an order that cannot be prepared, after a crash
or a deploy; the setting off; an error of the driver. In two more every operation on
the marker file lands late: with a failed write and a crash, with a deploy and a
crash. Three backends let a resumed turn be interrupted by a second deploy.
Delivery: a dead wire, a reload, a slow server, a failed append, a crash, a
deploy, each with one message or with two of the same words; there the CLI takes
nothing in, since what it does with a turn is the other scenarios' matter. Three
resumes instead of five and one retry instead of three delays keep the same
boundaries (below, at and past the limit). Two commits, one reviewed and one not,
are what a merge can confuse; one finding goes through every status and severity,
and two reviews are the least for one to be over while another is under way.

CHECK_DEADLOCK is off throughout: a system where everyone is content and every
bound is used up stops, which is not an error of the program. Symmetry is used
only in the safety run of `CardLifecycle`.

## Fairness

* `Outbox`: `FlushStart` for each card with a queue, because
  `startOutboxFlusher` visits every such card on an interval; each `FlushStep`,
  because every await in it ends with a result or at its timeout. Nothing is
  promised of panes: `QueueDrains` assumes that the card stays on the board and
  its Claude at its prompt from some moment on.
* `CardLifecycle`: the clock; the timers `index.ts:150-179` starts and the
  handlers they run, and the steps of a report already received. Nothing is
  promised of hooks (they may all be lost), of Claude or of people. The liveness
  properties assume only that Claude stops being busy.
* `BrowserSlots`: a start ends (its script has a timeout) and the orphan sweep,
  at boot and daily, goes through the holds.
* `NativeChat`, `ChatDelivery`: what running processes do by themselves. The CLI
  works on, its events are read, exits are seen, timers fire, resume tasks
  proceed; a stopped backend exits and is replaced, and the old one of a deploy is
  killed; the tab dispatches, hears and reconnects, a dead wire is seen in the
  end, the server handles frames and appends end. Each of these is one class,
  fair as a whole: nothing is promised of one backend against another, of
  people, or of a fault.
* `PrReview`: promises of the process settle (relays, starts, readings, merges,
  the delivery once begun), and a turn of an AI ends, before or after its tool
  was called; a scenario says which side never calls it. A panel reads its review
  every three seconds (`syncReviewSoon`) where one is open, which is what
  `GitHubEndsReviews` asks for.
* `JsonStore`: the steps of a read and of a mutation, because every call of
  `node:fs` ends. `MutationsSettle` does not count a process that died.

## Findings

1. `outbox_promise`: "it is delivered to a running Claude, or it is still in the
   queue" (`services/board/outbox.ts:26-28`) fails without any fault. Claude may
   exit between the process probe and the capture; a shell prompt reads as
   ready, and the message is typed into the shell and removed.
2. `card_paused`: "`pausedAt` always means the session is dead"
   (`registry.ts:2311`) fails when a terminal passed the pause check
   (`routes/session.ts:521`) before the stamp and reaches `tmux new-session -A`
   after the kill. No timer repairs it.
3. `card_done`: finished cards are to sleep "whatever the idle setting says"
   (`workspace.ts:1662`), but with the setting at 0 the sweep returns
   (`workspace.ts:1703`) before it looks at them.
4. `browser_clean`: purge stops the browser (`purge.ts:102`) before the card
   leaves the board (`purge.ts:107`); an open that resolved the card in between
   starts it again, the slot is released all the same, and the next card gets it
   with that browser there.
5. `store_deploy`: "every mutation first checks that the file is still the one
   this process last read or wrote" (`store/jsonStore.ts:14-16`), but with no
   cache (line 85) it joins the cold read in flight, which may have looked at
   the file before the other process wrote; nothing is checked afterwards, and
   the other's update is erased although it was in the file when the mutation
   began.

## Disagreements met

Met while modelling or in TLC's counterexamples, and left out of the runs; each
is told by a ghost variable or a guard of the model, named here.

Outbox. A message "is delivered to a running Claude, or it is still in the queue"
and a swallowed one "is the bug this exists to kill" (`outbox.ts:26-28`, 46-47); but
the script of `maestro.ts:192-203` succeeds when its last command does. With no
session for the text and one for the Enter, the message is removed (`outbox.ts:219`)
and nobody typed it: `missed`, which `NothingLost`, `InOrder` and `OutboxPromise`
name as the one exception. With a session for the text and none for the Enter it is
typed, counted as failed and typed again: `faulted`.

Card. (a) The comment of `applyCardStatus` (`registry.ts:1930-1934`) says that a
`working` on a paused card clears the pause, and `session.ts:564` that writing into a
paused card revives it, "the same rule a status hook follows"; the code ignores every
report of a paused card (1962-1967), of typing too, and the comment of
`reactivatesOnActivity` (1008-1020) says why: "A hook cannot undo a decision it does
not know about". `PauseSticks` is the second, which is what the code does; the first
two are from before it. (b) "Só um turno NOVO" brings a finished card back
(1026-1029), but a turn is new to the code when the dot was not `working`: a `working`
of the turn that finished the card, delivered after its `waiting`, takes the card out
of `done`. `DoneSticks` asks what is left: nothing reopens a card in which nobody has
worked since (`stirred`), and nothing but a drag while the dot still shows the turn
that finished it. (c) `status.ts:116` compares a live record with itself, so that
`StaleReport` may put out the dot of a turn that has just begun; the next hook of that
turn lights it again.

Native chat. (a) The boot sweep lists the markers once (`resume.ts:302-311`): what
the old backend of a blue/green deploy takes in after that dies unnoticed with it
(`stranded`). (b) `manager.ts:819` takes the count down for every result, also of
a turn the CLI opened by itself, and an interrupt may overtake a message the
driver still holds: the count is then too small (`miscount`). (c) `noteAgentWork`
(1940-1946) drops wake-up and notices whatever turn the CLI opens. (d) A marker is
erased or overwritten with no look at its owner (`crossed`), and the idle stop of
a fresh driver on the new backend clears it. (e) A resume checks for a pause before
its awaits only (370) and un-pauses a card paused meanwhile. (f) The API retry
starts a chain of resumes anew (1850). (g) The comment at `sdkOutbox.ts:11-14` has
the disk before the socket; the effect writes after. (h) Two messages of the same
words prove each other (`sdkOutbox.ts:347-366`), and a row may show twice
(`sdkChat.ts:1281-1292`): `skewed`. (i) A deaf driver's line is acknowledged, and a
retried append keeps its first time.

(j) A send folded into a turn whose result was already counted leaves a count of
one and no marker (`manager.ts:813`), and (k) a resume may enter a driver that
still owes the result of a turn of its own (`resume.ts:412-445`), which then takes
the count of the resumed turn away: both are `miscount`. (l) A turn the CLI opens
once the marker is gone gets a marker of its own with no attempts
(`manager.ts:1929`), so `LoopGuard` counts a new chain from it. The proof attempt
met (j) to (l), and TLC showed each on a larger instance than the run's: the
properties of an earlier version of `NativeChat` were false there.

(m) The marker of a turn is asked for with `void` (`manager.ts:1902`) and its errors
are a line of the log (`inflight.ts:117-143`): killed before the write, or when it
fails, a running turn has no marker and nobody resumes or notes it; and where the count of
resumes is what is lost, the same order is resumed again. (n) `writeFile` empties the
file first: a sweep that reads it then takes it for "no marker" and gives up, and one
that boots then removes it (`inflight.ts:167`). (o) The second look
at the marker is a read (`resume.ts:424`, 472-475), and the order goes in when it is
back: a turn the other backend takes in meanwhile is not seen, and gets a twin. `NoTwin` allows just that one, by what
the task had seen. All three are `crossed`, (m) and (n) for `WorkIsOnDisk`,
`LoopGuard`, `DeadWorkIsFollowed`. (p) An error ends a sweep (`resume.ts:305-331`) with
the marker left for the next boot (`stranded`). (q) The idle stop goes by the turns the
manager knows of (656-659): a turn the CLI opens by itself in the fifteenth minute is
stopped with the driver when nothing of it was read yet, which
`IdleStopKillsNoWork` allows, and so is one whose stream an error of the driver
declared dead while it went on (788-795).

Reviews. (a) A relay sent again after its round was answered may fail late: the
impasse falls on an answered round, retry gives the author a correction in round 3,
and his answer opens round 4 of 3 (`orchestrator.ts:252-262`, 899-902). One scenario
of the run reaches it, so `TypeInvariant` puts no ceiling on a round. (b)
`autoMerge` (354-361) proves the approval of the commit it read, and
`mergeReviewedPr` then merges the commit reviewed by that time (`proven` in the
merge's record is the commit it read, and all `MergesWhatWasReviewed` asks of it is
that GitHub had its Approve); and a reading of GitHub that began before an approval
reopens a review that approved a newer commit (1019, 1080-1081), under a merge that
goes on: a finding entered meanwhile, or a cancel, does not stop it, so
`MergesWhatWasReviewed` asks for clean findings only while the review still stands
approved. TLC showed all of it, and the model has it. (c) `refuseAutoMerge`
(372-373) marks the round of the moment. (d) A merge whose answer was lost leaves
the review `ready` until somebody opens its panel. (e) A restart between a mutation
and its relay waits for a person's retry. (f) The plain delivery looks for a review before its
merge script only (918-933). (g) A submission takes any full commit the reviewer
reports (585, 614), not the one it read: `astray`. A later round may then judge an
older commit than a merge under way has pinned, so for such a review
`MergesWhatWasReviewed` does not ask that the merge takes the commit judged last.

## Proofs

The proof modules hold no assumption beyond the named ones on the constants
(`CardOf` maps messages to cards, `Preferred` maps ids to slots, the model
values are distinct from what they stand beside, the bounds are naturals).

* `OutboxProofs`. `TypeCorrect` is inductive alone. The other results need
  `IInv`: tickets rank messages uniquely and only accepted messages are anywhere
  (`Ranked`); one flush per card (`SingleFlight`); a message about to be removed
  has been typed or missed (`TypedBeforeRemoved`); a message of a snapshot, or left to a
  script that was given up, has every older message of its card in the same
  snapshot, typed or withdrawn (`SnapshotInOrder`, `OrphanInOrder`), which is
  what makes `InOrder` inductive; and whatever is typed and could be typed again
  was faulted (`RetriedOnlyAfterFault`), which carries `TwiceOnlyAfterFault`.
  `NothingIsLost`, `TypedInOrder` and `NoSilentRepeat` follow. `Refines` proves
  `Spec => KeepsPromise`: each action is `Accept`, `Land`, `Miss`,
  `Release`, `Withdraw` or a stutter under the mapping.
* `CardLifecycleProofs`. Every step changes the card by one of a few rules or
  not at all (`CardChanges`), stated with the handler position that allows it;
  `TypeCorrect`, `SleepersHaveNoDot` and
  `OnlyPeopleUnpause` are then case analyses over the rules, and `OnlyWorkReopens`
  rests on a second invariant besides: whenever somebody is at work in a finished
  card, or is still being reported at work, `stirred` has it (`WorkIsRemembered`).
* `BrowserSlotsProofs`. `Inv` is the type invariant, `DistinctSlots`,
  `StopsAimRight`, and `Known`: whatever acts for a card (a request, a start, a
  hold, the board) acts for one in the port table, and whatever runs or is
  adrift belongs to a card that was allocated a slot. Without `Known` a stop for
  a card outside the table would aim at its hashed slot and `StopsAimRight`
  would not be inductive; it is what the load's report of the holds
  establishes after a restart. `LowestSlot` (a non-empty set of slots has a
  least element) is proved from the well-foundedness of strict inclusion, so
  that `AllocateFree` can say what `CHOOSE` returns.
* `JsonStoreProofs`. `IInv` says: no remembered stamp is newer than the file's
  (`Bounded`); a process reads only without a cache, and its cache differs from
  what it knows to be on disk by the running mutation's update at most
  (`Cached`); a document held under a stamp contains every update still in the
  file that had entered by that stamp, and is the file while the stamp matches
  (`Faithful`, by `Sees`), which is why the stat must come before the read; a
  mutation that joined no read has a document at least as new as its start
  (`Fresh`); an update is queued or running in one place (`Places`); what
  entered the file belongs to a mutation that was answered "resolved", died, or
  has renamed and not yet returned (`Reached`). `StampsAreTrue` is `Faithful`
  alone, `RejectedIsNowhere` is `Reached` with `Cached`, `ErasesOnlyOverlap`
  needs `Faithful` and `Fresh`. `OneProcessKeepsAll` adds that a process alone
  with the file knows its stamp whenever it has a document (`Alone`).
  `RefinesRegister` proves `Spec => KeepsRegister` from the same, for one backend:
  each step is `Call`, `Change`, `Commit`, `Answer`, `Forget` or a stutter. That a
  rename adds the running update and nothing else is `Alone` with `Cached`; that a
  refused one is not in the file is `Reached`; that a "yes" is true is `Faithful`
  at the stamp the process made. It is proved and not a property of a run:
  `MCJsonStore` is about the two backends of a deploy, which do not keep it.
* `PrReviewProofs`. The lemmas of its first part say
  what each rule makes of one review: it stays well formed (`GoodReview`), a
  closed review stays closed and its commit stays the one judged (`Follows`, of
  every rule but a judgement and an insertion), what a person decided of a finding
  stands in what the rule leaves (`Stands`), and a review is ready only with nothing
  to wait for. Every step of `PrReview` is one of three things to the
  reviews (`StoreMoves`): each follows from what it was, the reviewer's turn
  judges a commit, or the first of the line is inserted. `IInv` is the shape of
  the store and of the calls under way, with what makes the safety results
  inductive: who is in line has no review, and was told it may start only while
  none is under way (`LineGood`); a reviewer has one turn, and sees no commit
  older than the one judged (`TurnsGood`); a merge pins a commit no newer than
  that, and one that runs by itself holds a proven approval (`MergeGood`).
  `OneUnderWay` is inductive because of `LineGood`, `HumanWord` is `Stands`, and
  `MergesReviewed` combines who lets a merge out (`WhoMerges`) with what its pin
  says (`PinnedIsReviewed`). Assumed: `RulesAssumption`, `ReviewsAssumption`,
  `BudgetsAssumption` (there is a round, a commit, and budgets are counters).
* `ChatDriverProofs`, `ChatProofs`. `ChatDriverProofs` shows of each handler of
  `manager.ts` what it preserves of one session: what goes on in it has a marker,
  or it is a bare count (`GoodSession`); the marker it leaves is the one it found
  or begins a new one with the attempts its caller states (`Kept`, `Begins`); and how
  the count moves. `ChatProofs` proves of the chat with its tab, for any number
  of backends and any fault budget, that `IInv` is inductive. For each driver
  (`Good`): its shape; once the CLI rests, a result is still to be heard wherever
  the count is wrong (`Settled`); a turn that spoke is in flight for the manager,
  or will be by words it has not read (`Heard`). Unless it is known to have lost
  count (`Sound`): what the CLI still answers, with the results and folded sends on
  their way, is no more than the count (`Counts`), and all that goes on has its
  marker. Open drivers live in backends that are up and beat (`Homes`). On disk
  (`Promise`): times are at most the clock's; and unless the file failed its readers
  (`crossed`), one process at most has an operation on it under way, and the file, or
  that operation, is what was asked for (`FileFollows`, `OwnFile`); what was asked for
  is the marker of the driver that has one (`OwnDriver`), no driver runs the
  turn a task is to resume (`OwnTask`), what another driver runs while a task holds its
  order began after the task's last look (`Aimed`), and the marker counts the resumes
  since a turn began and says whether anything came of them (`Loop`). `PromiseOnDisk` is
  `Sound` with `OwnFile`, `TurnsAreCounted` is `Sound`, `NoResumeLoop` is `Loop`,
  `IdleStopSpares` is `Heard` with the cases in which a driver may close
  (`WhatCloses`), and `NoTwinResume` is `Aimed`. Assumed: `LimitsAssumption`,
  `BoundsAssumption` (limits are naturals, there is a backend, a driver may hold a
  message). `chain`,
  `crossed`, `miscount` and the other history variables are the model's own; the
  excuses they grant are those of "Disagreements met".
* `DeliveryProofs`. On the invariant of `ChatProofs`, for any number of messages and
  backends: no message disappears between the keyboard and the history
  (`WordsStay`), and none is read twice but where the last replay could not prove it
  (`NoTurnTwice`). Both are about the histories in which no two messages have the
  same words (`Distinct`, one of the two kinds the model starts in), so that a line
  with a message's words is of that message. The invariant `Delivery` says besides:
  the tab has a message in its queue or in its outbox, once, and a bubble shown as
  sent, with no line of its own yet, is of neither (`TabGood`); nothing is on its
  way that the person has not written (`Written`); a receipt on the wire is for a
  line of the history, the ready comes first, and a message that is queued is not
  also on its way (`WireGood`); a driver has one receipt of a message (`Receipts`);
  a message that was taken and is not blind is known to the driver that may get it
  again, or will not be sent again, and what a closed socket may still bring it
  brings to one driver (`Once`); what was written is in the queue, in the outbox or
  in the history (`Somewhere`). Without `Once` a copy left on the wire would be
  taken by a driver that has not seen the first. Its lemmas say what a filter keeps
  (`Filtered`), which line each entry of the outbox takes for its own (`Claims`),
  and what the verdicts at the ready of a connection leave of the tab; they use the
  least and the greatest of a finite set of numbers, from the well-foundedness of
  strict inclusion. `NoReceiptTwice` (`Receipts`) holds without `Distinct`.

Only model-checked. Every liveness property: fairness and `ENABLED` are outside
the prover's reach. `WordsNeverVanish` and `NoSecondTurn` where two messages have
the same words: which copy a line of the history speaks for is then a matter of
counting the lines of one text over the page, an induction over the data; two
scenarios of the run `chat` have such a pair. The five violations are counterexamples.

## What the models leave out

Message text, labels and counters that nothing reads back; provisioning scripts
beyond "succeeds or fails"; card positions and projects; accounts and sharing;
boards from before the stored browser slot; tab grooming, the VNC bridge and browser
control; two backend processes in any module but `JsonStore` and `NativeChat`. In
`JsonStore` an inode is taken to be new for every write (a file system may reuse one
once the old file is gone; size and mtime would then tell), and `normalize` and file
modes are left out. In the native chat: of the operations a process has asked for on
the marker file only the last is under way (those before it would land first, and
each is overtaken by the next), and of two processes that write at once one file or
the other stays; some awaits of a resume are one step with what follows them: the
read of the marker with the look at its owner's heartbeat (`SweepDecides`), the read
after the wait of a crash with the look at the drivers (`CrashLooks`), the rules
with the note they write (`ResumeRules`; the removal of the marker after it is a
step, `ResumeClears`), the parts of the preparation. A replay is the whole history
or, when the read fails, nothing: its window of the last 500 lines, its merge with
the transcript and the compaction of the file are left out. One person and one tab;
message edits, side questions, question cards and the rule about answers awaited,
frames held for a new author, peers, the resend button, the transcript mirror, the
age limits and the cap of six automatic sends. The server notices at once that a tab
closed its socket; a session's child that is deaf goes down at once when its backend
dies; one send is under way until its verdict.

In the reviews: one pull request; a finding is its severity, status and decision
(what the closed-list rule and the proofs let in shows as which findings arrive);
the author's pause and return are part of a relay's outcome; a reading of the review
and of GitHub at the start of a sync is one step, and one that finds nothing is left
out; a text that lands in the middle of a turn joins it; two turns end within one
grace in the scenarios that say so (`together`); only approving turns report ready;
prompts, notices, notes, roles, attachments and several pull requests of one card.

Components marked "planned" in the inventory are not modelled at all yet; the
configuration services and the routes in front of them are sequential and are
left out.

## Plan

Done so far: the core (outbox, card, browser slots, store), the native chat, the
reviews, and proofs of every safety property of theirs: of the two about messages
(`WordsNeverVanish`, `NoSecondTurn`) for messages whose words differ.
Next, in order of importance:

1. Proofs: `WordsNeverVanish` and `NoSecondTurn` for two messages with the same
   words, by pairing the lines of a text with the sends of the tab in their order.
2. `CardEvents` and webhooks: events derived from card changes, ordered
   deliveries, retries, the cut-off of a dead subscription.
3. Maestro's gate of held messages.
4. `Purge`: the order in which a card's belongings are erased, retention, orphan
   sweep, against writers that resolved the card earlier.
5. Compositions: card lifecycle with the outbox (a paused card's queue waits and
   drains after it is opened), card lifecycle with the native chat's vetoes, two
   outbox processes over one `JsonStore` document during a deploy.
