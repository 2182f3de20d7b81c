----------------------------- MODULE ChatDelivery -----------------------------
(***************************************************************************)
(* The words of one browser tab on their way to the card's driver and to   *)
(* the history on disk, over the drivers and backends of NativeChat:       *)
(*   front  lib/sdkQueue.ts, lib/sdkOutbox.ts, lib/sdkChat.ts and the      *)
(*          effects of components/SdkChatView.tsx;                         *)
(*   back   routes/cardSdk.ts, handleClientFrame, chargeReceipt,           *)
(*          replyFrameOutcome and attachSocket of services/sdk/manager.ts. *)
(* One person, one tab; edits, side questions, pending decisions, the      *)
(* frames held for a new author and the age limits of a resend are left    *)
(* out; a replay is the whole history (the code's: its last 500 lines,     *)
(* merged with the transcript, which a compaction may have cut).           *)
(***************************************************************************)
EXTENDS NativeChat

CONSTANTS
    Msgs             \* what the person may write: the receipt (cid) of each

VARIABLES
    tab,       \* queue and outbox (kept in localStorage), rows, ready
    conn,      \* the socket of the tab
    late,      \* what a socket the tab closed still brings to a backend
    accepted,  \* backend -> acceptedCids of its session, with their lines
    writing,   \* history lines being appended, in order
    history,   \* the history of the card on disk
    taken,     \* message -> times it was written to a driver
    wrote,     \* messages the person has written
    blind,     \* messages the last replay could not prove (see Unproved)
    skewed     \* a mark was made that fits the line of a twin (see Skews)

deliveryVars == <<tab, conn, late, accepted, writing, history, taken, wrote,
                  blind, skewed>>
chatVars == <<vars, deliveryVars>>

(* Two messages may have the same words: only the cid tells them apart,    *)
(* and the history does not keep it.                                       *)
Words(m) == IF budget.twins THEN "same" ELSE m

Down == [st |-> "down", b |-> 0, deaf |-> FALSE, up |-> <<>>, dn |-> <<>>,
         snap |-> 0, asked |-> {}]

ChatInit ==
    /\ Init
    /\ tab = [queue |-> <<>>, outbox |-> <<>>, rows |-> <<>>, ready |-> FALSE]
    /\ conn = Down
    /\ late = <<>>
    /\ accepted = [b \in Backends |-> {}]
    /\ writing = <<>>
    /\ history = <<>>
    /\ taken = [m \in Msgs |-> 0]
    /\ wrote = {}
    /\ blind = {}
    /\ skewed = FALSE

Has(seq, m) == \E i \in DOMAIN seq : seq[i].m = m

(* What an array keeps in a filter: its elements at the indices of I.      *)
Filtered(seq, I) ==
    LET place(i) == Cardinality({j \in I : j <= i})
    IN  [k \in 1 .. Cardinality(I) |-> seq[CHOOSE i \in I : place(i) = k]]

dropFromOutbox(outbox, m) ==
    Filtered(outbox, {i \in DOMAIN outbox : outbox[i].m # m})
Frame(k, m, at) == [k |-> k, m |-> m, at |-> at]

-----------------------------------------------------------------------------
(* The marks of a send and the reconciliation (lib/sdkOutbox.ts).          *)

(* The words the server has, as far as the screen shows: at = 0 for a send *)
(* of this connection, confirmed by a receipt that carries no time.        *)
deliveredUserTexts(rows) == Filtered(rows, {i \in DOMAIN rows : rows[i].state = "sent"})

(* The anchor of a send is the newest time on the screen; seen counts the  *)
(* confirmed sends of the same words after it.                             *)
sendMark(rows, m) ==
    LET known  == deliveredUserTexts(rows)
        timed  == {i \in DOMAIN known : known[i].at > 0}
        since  == Max({0} \cup {known[i].at : i \in timed})
        anchor == Max({0} \cup {i \in timed : known[i].at = since})
    IN  [since |-> since,
         seen  |-> Cardinality({i \in DOMAIN known :
                       i > anchor /\ known[i].at = 0 /\ Words(known[i].m) = Words(m)})]

Entry(rows, m) ==
    LET mark == sendMark(rows, m)
    IN  [m |-> m, undelivered |-> FALSE, since |-> mark.since, seen |-> mark.seen]

\* Mutant of Proofs: any line of the same words will do.
ProofsByWords(sent, e) == {i \in DOMAIN sent : Words(sent[i].m) = Words(e.m)}

(* The lines that can prove the delivery of entry e: of its words, after   *)
(* its anchor, beyond the ones it had seen.                                *)
Proofs(sent, e) ==
    LET same == {i \in DOMAIN sent : Words(sent[i].m) = Words(e.m)
                                     /\ (e.since = 0 \/ sent[i].at > e.since)}
    IN  {i \in same : Cardinality({j \in same : j < i}) >= e.seen}

(* Each line proves one entry at most, in the order of the outbox: every   *)
(* entry claims the first that is left, or none (0).                       *)
Claims(sent, outbox) ==
    LET claim[i \in DOMAIN outbox] ==
            LET free == Proofs(sent, outbox[i]) \ {claim[j] : j \in 1 .. i - 1}
            IN  IF free = {} THEN 0 ELSE Min(free)
    IN  claim

(* The entries that are missing from the history.                          *)
reconcileOutbox(sent, outbox) ==
    Filtered(outbox, {i \in DOMAIN outbox : Claims(sent, outbox)[i] = 0})

markUndelivered(outbox, ms) ==
    [i \in DOMAIN outbox |-> IF outbox[i].m \in ms
                             THEN [outbox[i] EXCEPT !.undelivered = TRUE] ELSE outbox[i]]

settleUserRow(rows, ms, state) ==
    [i \in DOMAIN rows |-> IF rows[i].live /\ rows[i].m \in ms
                           THEN [rows[i] EXCEPT !.state = state] ELSE rows[i]]

Row(m, state) == [m |-> m, at |-> 0, live |-> TRUE, state |-> state]
Line(l)       == [m |-> l.m, at |-> l.at, live |-> FALSE, state |-> "sent"]

(* ready: the replay is on the screen, and the entries of before get their *)
(* verdict.  One that is missing and had none goes back to the front of    *)
(* the queue, with its receipt; the others stay, marked.                   *)
Reconciled(t, lines) ==
    LET rows   == [i \in DOMAIN lines |-> Line(lines[i])]
        lost   == reconcileOutbox(rows, t.outbox)
        queued == Filtered(lost, {i \in DOMAIN lost : ~lost[i].undelivered})
        kept   == Filtered(lost, {i \in DOMAIN lost : lost[i].undelivered})
    IN  [queue  |-> [i \in DOMAIN queued |-> queued[i].m] \o t.queue,
         outbox |-> kept,
         rows   |-> rows \o [i \in DOMAIN kept |-> Row(kept[i].m, "undelivered")],
         ready  |-> TRUE]

-----------------------------------------------------------------------------
(* The tab (components/SdkChatView.tsx).                                   *)

ChatKeeps == UNCHANGED <<bk, page, beat, turnVars, resume, paused, ghosts>>
BackKeeps == UNCHANGED <<late, accepted, writing, history, taken>>

wireUp == conn.st = "open" /\ tab.ready

(* A send leaves no room for the next until it has its verdict: awaiting    *)
(* lasts to the first word of the agent, long after the receipt.           *)
Room == \A i \in DOMAIN tab.rows : tab.rows[i].state # "sending"

(* The mark of a message that leaves while one of the same words still     *)
(* waits for its resend (the line of this one will prove that one), or     *)
(* stands on the screen twice: as the line of a socket that is gone and as *)
(* a bubble of this one (the bubble counts as a line that is not there).   *)
Skews(m) ==
    \/ \E i \in DOMAIN tab.outbox :
          tab.outbox[i].m # m /\ Words(tab.outbox[i].m) = Words(m)
    \/ \E i, j \in DOMAIN tab.rows :
          /\ i # j /\ tab.rows[i].m = tab.rows[j].m
          /\ tab.rows[i].m # m /\ Words(tab.rows[i].m) = Words(m)

(* The outbox first, then the frame; a dead wire takes it all the same.    *)
Sends(m, rows, queue) ==
    /\ wireUp /\ Room
    /\ tab' = [tab EXCEPT !.queue = queue, !.rows = rows,
                          !.outbox = Append(dropFromOutbox(@, m), Entry(tab.rows, m))]
    /\ conn' = [conn EXCEPT !.up = IF conn.deaf THEN @ ELSE Append(@, m)]
    /\ skewed' = (skewed \/ Skews(m))
    /\ BackKeeps /\ ChatKeeps /\ UNCHANGED blind

(* send: straight out, or behind a queue while the wire is down, the chat  *)
(* loads or a turn runs.                                                   *)
Writes(m) ==
    /\ m \notin wrote /\ Spend("words") /\ wrote' = wrote \cup {m}
    /\ \/ /\ tab' = [tab EXCEPT !.queue = Append(@, m)]
          /\ UNCHANGED <<conn, blind, skewed>> /\ BackKeeps /\ ChatKeeps
       \/ tab.queue = <<>> /\ Sends(m, Append(tab.rows, Row(m, "sending")), <<>>)

\* Mutant of Dispatches: a message that failed waits for somebody to click.
DispatchesQueue ==
    /\ tab.queue # <<>>
    /\ Sends(Head(tab.queue), Append(tab.rows, Row(Head(tab.queue), "sending")),
             Tail(tab.queue))
    /\ UNCHANGED <<budget, wrote>>

(* The dispatch: a resend whose delay is over, or the head of the queue.   *)
Dispatches ==
    /\ \/ \E i \in DOMAIN tab.outbox :
             /\ tab.outbox[i].undelivered
             /\ Sends(tab.outbox[i].m,
                      settleUserRow(tab.rows, {tab.outbox[i].m}, "sending"), tab.queue)
       \/ /\ tab.queue # <<>>
          /\ Sends(Head(tab.queue), Append(tab.rows, Row(Head(tab.queue), "sending")),
                   Tail(tab.queue))
    /\ UNCHANGED <<budget, wrote>>

(* The messages a replay of these lines does not prove: still in the queue  *)
(* (nobody looks), with a frame of a closed socket yet to land, no line    *)
(* yet, or only lines that the mark of their last send has already passed  *)
(* (a failed write keeps its time when it is tried again).                 *)
Unproved(t, lines) ==
    {m \in wrote :
        \/ m \in Range(t.queue) \/ Has(late, m)
        \/ ~ \E i \in DOMAIN lines :
               /\ lines[i].m = m
               /\ \A j \in DOMAIN t.outbox :
                     t.outbox[j].m = m => lines[i].at > t.outbox[j].since}

Hears ==
    /\ conn.st = "open" /\ ~conn.deaf /\ conn.dn # <<>>
    /\ LET f == Head(conn.dn)
       IN  /\ tab' = CASE f.k = "ready" -> Reconciled(tab, SubSeq(history, 1, f.at))
                       [] f.k = "line"  -> [tab EXCEPT !.rows = Append(@, Line(f))]
                       [] f.k = "ack"   -> [tab EXCEPT !.outbox = dropFromOutbox(@, f.m),
                                               !.rows = settleUserRow(@, {f.m}, "sent")]
                       [] f.k = "nack"  -> [tab EXCEPT !.outbox = markUndelivered(@, {f.m}),
                                               !.rows = settleUserRow(@, {f.m}, "undelivered")]
           /\ blind' = IF f.k = "ready" THEN Unproved(tab, SubSeq(history, 1, f.at)) ELSE blind
    /\ conn' = [conn EXCEPT !.dn = Tail(@)]
    /\ UNCHANGED <<budget, wrote, skewed>> /\ BackKeeps /\ ChatKeeps

(* The tab closes its socket.  What it had sent still reaches the server,  *)
(* unless the wire was dead; the server is taken to notice at once.        *)
TabCloses ==
    /\ conn.st # "down" /\ conn' = Down
    /\ late' = IF conn.deaf THEN late
               ELSE late \o [i \in DOMAIN conn.up |-> [b |-> conn.b, m |-> conn.up[i]]]
    /\ IF conn.st = "open" THEN Detaches(conn.b)
       ELSE UNCHANGED <<bk, page, beat, turnVars, resume, paused, ghosts>>
    /\ UNCHANGED <<accepted, writing, history, taken, wrote, blind, skewed>>

Reload ==
    /\ Spend("reload")
    /\ tab' = [tab EXCEPT !.rows = <<>>, !.ready = FALSE]
    /\ TabCloses

(* No receipt in time, on a connection that could have answered: the sends *)
(* get their verdict, once, and the socket goes.                           *)
Watchdog ==
    /\ wireUp
    /\ LET silent == {m \in Msgs : \E i \in DOMAIN tab.outbox :
                           tab.outbox[i].m = m /\ ~tab.outbox[i].undelivered}
       IN  /\ silent # {}
           /\ tab' = [tab EXCEPT !.outbox = markUndelivered(@, silent),
                                 !.rows = settleUserRow(@, silent, "undelivered")]
    /\ IF conn.deaf THEN UNCHANGED budget ELSE Spend("slow")
    /\ TabCloses

(* The wire dies and neither end knows; a drop that is seen ends it.       *)
WireDies ==
    /\ conn.st # "down" /\ ~conn.deaf /\ Spend("wire")
    /\ conn' = [conn EXCEPT !.deaf = TRUE, !.up = <<>>, !.dn = <<>>]
    /\ UNCHANGED <<tab, wrote, blind, skewed>> /\ BackKeeps /\ ChatKeeps

DropSeen == conn.deaf /\ TabCloses /\ UNCHANGED <<tab, budget>>

Connect(b) ==
    /\ conn.st = "down" /\ Serving(b) /\ budget.tab
    /\ conn' = [Down EXCEPT !.st = "setup", !.b = b]
    /\ tab' = [tab EXCEPT !.rows = <<>>, !.ready = FALSE]
    /\ UNCHANGED <<wrote, blind, skewed, budget>> /\ BackKeeps /\ ChatKeeps

-----------------------------------------------------------------------------
(* The server (routes/cardSdk.ts, services/sdk/manager.ts).                *)

(* The replay: the history as it is, or nothing when it cannot be read.    *)
ServerReads ==
    /\ conn.st = "setup"
    /\ \/ UNCHANGED budget /\ conn' = [conn EXCEPT !.st = "read", !.snap = Len(history)]
       \/ Spend("disk") /\ conn' = [conn EXCEPT !.st = "read", !.snap = 0]
    /\ UNCHANGED <<tab, wrote, blind, skewed>> /\ BackKeeps /\ ChatKeeps

(* The socket joins the driver of the card; the lines it heard during the  *)
(* setup and that the replay lacks go after the ready.                     *)
ServerAttaches ==
    /\ conn.st = "read" /\ Attaches(conn.b) /\ paused' = FALSE
    /\ LET replay == SubSeq(history, 1, conn.snap)
           missed == Filtered(conn.dn, {i \in DOMAIN conn.dn : ~Has(replay, conn.dn[i].m)})
       IN  conn' = [conn EXCEPT !.st = "open",
                       !.dn = IF conn.deaf THEN <<>>
                              ELSE <<Frame("ready", "none", conn.snap)>> \o missed]
    /\ UNCHANGED <<tab, wrote, blind, skewed, budget>> /\ BackKeeps

Answer(c, k, m) == IF c.deaf THEN c ELSE [c EXCEPT !.dn = Append(@, Frame(k, m, 0))]

(* A line has the time of the turn it opens.                                *)
ServerTime  == Now
Knows(b, m) == \E l \in accepted[b] : l.m = m
Appended(b, l) == Append(writing, [b |-> b, m |-> l.m, at |-> l.at, again |-> FALSE])

(* chargeReceipt: a receipt already given is never a new turn; all that may *)
(* be owed is the append, again if the one under way fails.                *)
chargeReceipt(b, l) ==
    writing' =
        IF l \in Range(history) THEN writing
        ELSE IF \E i \in DOMAIN writing : writing[i].m = l.m /\ writing[i].at = l.at
             THEN [i \in DOMAIN writing |->
                      IF writing[i].m = l.m /\ writing[i].at = l.at
                      THEN [writing[i] EXCEPT !.again = TRUE] ELSE writing[i]]
             ELSE Appended(b, l)

\* Mutant of Takes: the receipts already given are not looked up.
TakesAgain(b, m) ==
    LET line == [m |-> m, at |-> ServerTime]
    IN  /\ Enters(b, drv[b])
        /\ writing' = Appended(b, line)
        /\ accepted' = [accepted EXCEPT ![b] = @ \cup {line}]
        /\ taken' = [taken EXCEPT ![m] = @ + 1]
        /\ UNCHANGED <<page, paused>>

(* The user frame of handleClientFrame, on the session of b.               *)
Takes(b, m) ==
    LET line == [m |-> m, at |-> ServerTime]
    IN  /\ ~Knows(b, m) /\ Enters(b, drv[b])
        /\ writing' = Appended(b, line)
        /\ accepted' = [accepted EXCEPT ![b] = @ \cup {line}]
        /\ taken' = [taken EXCEPT ![m] = @ + 1]
        /\ UNCHANGED <<page, paused>>

Charges(b, m) ==
    /\ \E l \in accepted[b] : l.m = m /\ chargeReceipt(b, l)
    /\ UNCHANGED <<accepted, taken>> /\ ChatKeeps

Refuses(b, m) ==
    /\ ~Knows(b, m) /\ ~canAcceptTurn(drv[b])
    /\ UNCHANGED <<accepted, taken, writing>> /\ ChatKeeps

(* replyFrameOutcome: a refusal is said at once, a receipt after the append. *)
ServerHandles ==
    /\ conn.st = "open" /\ conn.up # <<>>
    /\ LET m == Head(conn.up)
           b == conn.b
           rest == [conn EXCEPT !.up = Tail(@)]
           asks == [rest EXCEPT !.asked = @ \cup {m}]
       IN  \/ Takes(b, m) /\ conn' = asks
           \/ /\ Charges(b, m)
              /\ conn' = IF \E l \in accepted[b] : l.m = m /\ l \in Range(history)
                         THEN Answer(rest, "ack", m) ELSE asks
           \/ Refuses(b, m) /\ conn' = Answer(rest, "nack", m)
    /\ UNCHANGED <<tab, late, history, wrote, blind, skewed, budget>>

(* A frame of a socket that is gone: nobody is left to answer, the others  *)
(* on that driver, or on their way to it, get its line.                    *)
LateHandled ==
    /\ late # <<>>
    /\ \E b \in Backends :
       LET m == Head(late).m
           line == Frame("line", m, ServerTime)
           told == conn.b = b /\ conn.st # "down" /\ ~conn.deaf
       IN  /\ Head(late).b = b
           /\ \/ /\ Takes(b, m)
                 /\ conn' = IF told THEN [conn EXCEPT !.dn = Append(@, line)] ELSE conn
              \/ (Charges(b, m) \/ Refuses(b, m)) /\ UNCHANGED conn
    /\ late' = Tail(late)
    /\ UNCHANGED <<tab, history, wrote, blind, skewed, budget>>

(* The append chain of a process: one line after the other (history.ts).   *)
NextWrite(i) ==
    /\ i \in DOMAIN writing /\ bk[writing[i].b] \in {"up", "stopping"}
    /\ \A j \in 1 .. i - 1 : writing[j].b # writing[i].b

Asked(w) == w.m \in conn.asked /\ conn.b = w.b
Answered(w, k) ==
    IF Asked(w) THEN [Answer(conn, k, w.m) EXCEPT !.asked = @ \ {w.m}] ELSE conn

WriteKeeps == UNCHANGED <<tab, late, accepted, taken, wrote, blind, skewed>> /\ ChatKeeps

WriteEnds ==
    /\ \E i \in DOMAIN writing :
          /\ NextWrite(i)
          /\ history' = Append(history, [m |-> writing[i].m, at |-> writing[i].at])
          /\ writing' = RemoveAt(writing, i)
          /\ conn' = Answered(writing[i], "ack")
    /\ UNCHANGED budget /\ WriteKeeps

WriteFails ==
    /\ Spend("disk")
    /\ \E i \in DOMAIN writing :
          LET w == writing[i]
          IN  /\ NextWrite(i)
              /\ writing' = IF w.again THEN Append(RemoveAt(writing, i), [w EXCEPT !.again = FALSE])
                            ELSE RemoveAt(writing, i)
              /\ conn' = IF w.again THEN conn ELSE Answered(w, "nack")
    /\ UNCHANGED history /\ WriteKeeps

-----------------------------------------------------------------------------
(* What the chat of the card does to its tab: a driver that ends closes    *)
(* its sockets and forgets its receipts; a dead backend, its appends.      *)
DeliveryReacts ==
    /\ conn' = IF /\ conn.st # "down"
                  /\ bk'[conn.b] # "up" \/ (conn.st = "open" /\ page' # conn.b)
               THEN Down ELSE conn
    /\ accepted' = [b \in Backends |-> IF Open(drv'[b]) THEN accepted[b] ELSE {}]
    /\ late' = Filtered(late, {i \in DOMAIN late : Open(drv'[late[i].b])})
    /\ writing' = Filtered(writing, {i \in DOMAIN writing : bk'[writing[i].b] # "gone"})
    /\ UNCHANGED <<tab, history, taken, wrote, blind, skewed>>

Page(b) == Attach(b) \/ (conn.st # "open" /\ Detach(b))

ChatStep ==
    /\ \/ \E b \in Backends : Card(b) \/ Page(b)
       \/ \E t \in Tasks : Resume(t)
    /\ DeliveryReacts

TabStep ==
    \/ \E m \in Msgs : Writes(m)
    \/ Dispatches \/ Hears \/ Reload \/ Watchdog \/ WireDies \/ DropSeen
    \/ \E b \in Backends : Connect(b)

ServerStep == ServerReads \/ ServerAttaches \/ ServerHandles \/ LateHandled \/ WriteEnds \/ WriteFails

ChatNext == ChatStep \/ TabStep \/ ServerStep

(* The tab and the server go on; a dead wire is seen in the end.           *)
TabWorks ==
    \/ Dispatches \/ Hears \/ DropSeen \/ (conn.deaf /\ Watchdog)
    \/ \E b \in Backends : Connect(b)

DeliveryFairness ==
    /\ WF_chatVars(TabWorks)
    /\ WF_chatVars(ServerReads \/ ServerAttaches \/ ServerHandles)
    /\ WF_chatVars(LateHandled)
    /\ WF_chatVars(WriteEnds)

ChatSpec ==
    ChatInit /\ [][ChatNext]_chatVars /\ Fairness /\ DeliveryFairness

-----------------------------------------------------------------------------
Of(w, seq) == Cardinality({i \in DOMAIN seq : Words(seq[i].m) = w})
Wrote(w)   == Cardinality({m \in wrote : Words(m) = w})

(* Until the history has them, the tab keeps its copy: no order of drops,   *)
(* restarts and lost receipts makes words vanish (sdkOutbox.ts).           *)
WordsNeverVanish ==
    \A m \in wrote :
        LET w == Words(m)
        IN  skewed \/ Cardinality({k \in Msgs : Words(k) = w /\ k \in Range(tab.queue)})
              + Of(w, tab.outbox) + Of(w, history) >= Wrote(w)

(* A message is not read twice: one driver takes it once, and what another  *)
(* takes again is a message the last replay could not prove (acceptedCids, *)
(* reconcileOutbox).                                                       *)
NoSecondTurn ==
    [][\A m \in Msgs : taken'[m] > taken[m] =>
          LET twins == {k \in wrote : Words(k) = Words(m)}
          IN  /\ \A b \in Backends : Cardinality({l \in accepted'[b] : l.m = m}) <= 1
              /\ \/ taken[m] = 0 \/ skewed
                 \/ twins \cap blind # {}
                 \/ MapThenSumSet(LAMBDA k : taken'[k], twins) <= Cardinality(twins)]_chatVars

(* In the end every message is a line of the history, and the tab owes no  *)
(* more copy of it.                                                        *)
EventuallySettled ==
    \A m \in Msgs : m \in wrote ~>
        /\ m \notin Range(tab.queue) /\ ~Has(tab.outbox, m)
        /\ skewed \/ Of(Words(m), history) >= Wrote(Words(m))
=============================================================================
