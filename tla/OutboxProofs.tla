---------------------------- MODULE OutboxProofs ----------------------------
(***************************************************************************)
(* Machine-checked proofs about Outbox, for every set of cards, messages   *)
(* and flush callers and every number of faults.                           *)
(***************************************************************************)
EXTENDS Outbox, TLAPS

USE CardOfAssumption, NoCardAssumption, MaxFaultsAssumption

-----------------------------------------------------------------------------
(* Type correctness is inductive by itself.                                *)

\* Type correctness holds of the empty outbox.
LEMMA TypeInit == Init => TypeOK
  BY DEF Init, TypeOK, NoFlush, PaneStates, FlushSteps

\* Every step of a flush, of a caller or of the world keeps the types.
LEMMA TypeStep == TypeOK /\ [Next]_vars => TypeOK'
<1> SUFFICES ASSUME TypeOK, [Next]_vars PROVE TypeOK'
  OBVIOUS
<1> USE DEF TypeOK, FlushSteps, PaneStates, NoFlush, Accepted, Pending
<1>1. ASSUME NEW m \in Msgs, Enqueue(m) PROVE TypeOK'
  BY <1>1 DEF Enqueue
<1>2. ASSUME NEW m \in Msgs, Cancel(m) PROVE TypeOK'
  BY <1>2 DEF Cancel
<1>3. ASSUME NEW m \in Msgs, TypeLate(m) PROVE TypeOK'
  BY <1>3 DEF TypeLate, Typed
<1>4. ASSUME NEW c \in Cards, RemoveCard(c) PROVE TypeOK'
  BY <1>4 DEF RemoveCard
<1>5. ASSUME NEW c \in Cards, PurgeCardQueue(c) PROVE TypeOK'
  BY <1>5 DEF PurgeCardQueue, DropQueue
<1>6. ASSUME NEW c \in Cards, PaneChanges(c) PROVE TypeOK'
  BY <1>6 DEF PaneChanges, PaneMoves
<1>7. ASSUME NEW f \in Flushers, NEW c \in Cards, FlushStart(f, c) PROVE TypeOK'
  BY <1>7 DEF FlushStart, DropQueue, Active
<1>8. ASSUME NEW f \in Flushers, ProbeAgent(f) PROVE TypeOK'
  <2>1. EndFlush(f) \/ Goto(f, "capture")
    BY <1>8 DEF ProbeAgent
  <2>2. Active(f)
    BY <1>8 DEF ProbeAgent, Active
  <2>3. UNCHANGED <<onBoard, pane, queue, ticket, nextTicket, orphans, landed,
                    reached, repeated, withdrawn, missed, faulted, faults>>
    BY <1>8 DEF ProbeAgent
  <2>4. CASE EndFlush(f)
    BY <2>3, <2>4 DEF EndFlush
  <2>5. CASE Goto(f, "capture")
    BY <2>2, <2>3, <2>5 DEF Goto, Active
  <2> QED
    BY <2>1, <2>4, <2>5
<1>9. ASSUME NEW f \in Flushers, ReadPane(f) PROVE TypeOK'
  BY <1>9 DEF ReadPane, Goto, EndFlush
<1>10. ASSUME NEW f \in Flushers, ProbeMisses(f) PROVE TypeOK'
  BY <1>10 DEF ProbeMisses, EndFlush
<1>11. ASSUME NEW f \in Flushers, Type(f) PROVE TypeOK'
  BY <1>11 DEF Type, Typed, Goto
<1>12. ASSUME NEW f \in Flushers, AbandonSend(f) PROVE TypeOK'
  BY <1>12 DEF AbandonSend, Goto
<1>13. ASSUME NEW f \in Flushers, RemoveMessage(f) PROVE TypeOK'
  BY <1>13 DEF RemoveMessage, EndFlush
<1>14. ASSUME NEW f \in Flushers, LoseRemoval(f) PROVE TypeOK'
  BY <1>14 DEF LoseRemoval, Goto
<1>15. ASSUME NEW f \in Flushers, MarkAttempt(f) PROVE TypeOK'
  BY <1>15 DEF MarkAttempt, EndFlush
<1>16. ASSUME Crash PROVE TypeOK'
  BY <1>16 DEF Crash, InFlight, ScriptSteps
<1>17. ASSUME UNCHANGED vars PROVE TypeOK'
  BY <1>17 DEF vars
<1>18. ASSUME NEW f \in Flushers, Enter(f) PROVE TypeOK'
  <2>1. PICK m \in Msgs, step \in {"remove", "mark"} :
          /\ Goto(f, step) /\ missed' \in {missed, missed \union {m}}
          /\ faulted' \in {faulted, faulted \union {m}}
    BY <1>18 DEF Enter
  <2>2. Active(f)
    BY <1>18 DEF Enter, Active
  <2>3. UNCHANGED <<onBoard, pane, queue, ticket, nextTicket, orphans, landed,
                    reached, repeated, withdrawn, faults>>
    BY <1>18 DEF Enter
  <2> QED
    BY <2>1, <2>2, <2>3 DEF Goto, Active
<1> QED
  BY <1>1, <1>2, <1>3, <1>4, <1>5, <1>6, <1>7, <1>8, <1>9, <1>10, <1>11,
     <1>12, <1>13, <1>14, <1>15, <1>16, <1>17, <1>18 DEF Next, FlushStep

\* Type correctness of every state of the outbox.
THEOREM TypeCorrect == Spec => []TypeOK
  BY TypeInit, TypeStep, PTL DEF Spec

-----------------------------------------------------------------------------
(* The inductive invariant behind the three safety properties.             *)

Older(n, m) ==
  n \in Accepted /\ CardOf[n] = CardOf[m] /\ ticket[n] < ticket[m]

\* Tickets rank the accepted messages, and only accepted messages are ever
\* queued, held in a snapshot, left to an orphan script, or typed.
Ranked ==
  /\ \A m \in Msgs : ticket[m] < nextTicket
  /\ \A m, n \in Accepted : ticket[m] = ticket[n] => m = n
  /\ queue \subseteq Accepted /\ orphans \subseteq Accepted
  /\ landed \subseteq Accepted /\ missed \subseteq Accepted
  /\ \A f \in Flushers : flush[f].todo \subseteq Accepted

\* The flushLocks: two flushes in progress are for different cards.
SingleFlight ==
  \A f, g \in Flushers : Active(f) /\ flush[f].card = flush[g].card => f = g

\* A message on its way out of the queue has been typed, or is missed.
TypedBeforeRemoved ==
  \A f \in Flushers : \A m \in flush[f].todo :
    Current(f, m) =>
      /\ flush[f].pc = "enter" => m \in landed
      /\ flush[f].pc = "remove" => m \in landed \union missed

\* What is older than a message of a snapshot, or of an orphan script, is in
\* that snapshot too or is out of the way.
SnapshotInOrder ==
  \A f \in Flushers : \A m \in flush[f].todo : \A n \in Msgs :
    Older(n, m) => n \in flush[f].todo \union landed \union withdrawn \union missed

OrphanInOrder ==
  \A m \in orphans : \A n \in Msgs : Older(n, m) => n \in landed \union withdrawn \union missed

\* A message that can be typed again after it was typed once is faulted,
\* unless its flush is past the typing and about to remove it.
Outgoing(f, m) == flush[f].pc \in {"enter", "remove"} /\ Current(f, m)

Leaving(m) == \E f \in Flushers : Outgoing(f, m)

RetriedOnlyAfterFault ==
  /\ orphans \subseteq faulted
  /\ \A m \in queue \intersect landed : m \in faulted \/ Leaving(m)
  /\ \A f \in Flushers : \A m \in flush[f].todo \intersect landed :
       m \in faulted \/ Outgoing(f, m)

IInv ==
  /\ TypeOK /\ Ranked /\ SingleFlight /\ NothingLost
  /\ TypedBeforeRemoved /\ SnapshotInOrder /\ OrphanInOrder /\ InOrder
  /\ RetriedOnlyAfterFault /\ TwiceOnlyAfterFault

\* What the probes leave alone.
ProtocolUnchanged ==
  UNCHANGED <<queue, ticket, nextTicket, orphans, landed, repeated, withdrawn, missed, faulted>>

\* A flush that ends with nothing of its own typed and not yet removed, or
\* that goes from a probe to its next step, disturbs no conjunct.
LEMMA AdvanceKeeps ==
  ASSUME IInv, TypeOK', ProtocolUnchanged, NEW f \in Flushers,
         \/ flush[f].pc \in {"probe", "capture", "mark"} /\ EndFlush(f)
         \/ flush[f].pc \in {"probe", "capture"} /\ (Goto(f, "capture") \/ Goto(f, "type"))
  PROVE  IInv'
<1> USE DEF IInv, TypeOK, Accepted, Older, Active, Current, Outgoing, FlushSteps, ProtocolUnchanged, EndFlush, NoFlush, Goto
<1>0. \A g \in Flushers : g # f => flush'[g] = flush[g]
  OBVIOUS
<1>a. flush'[f].todo \subseteq flush[f].todo /\ flush'[f].pc \notin {"enter", "remove"}
  OBVIOUS
<1>b. flush'[f] = NoFlush \/ (flush'[f].todo = flush[f].todo /\ flush'[f].card = flush[f].card /\ Active(f))
  OBVIOUS
<1> HIDE DEF EndFlush, Goto
<1>1. Ranked'
  BY <1>0, <1>a, <1>b DEF Ranked
<1>2. SingleFlight'
  BY <1>0, <1>a, <1>b DEF SingleFlight
<1>3. NothingLost'
  BY DEF NothingLost
<1>4. TypedBeforeRemoved'
  BY <1>0, <1>a, <1>b DEF TypedBeforeRemoved
<1>5. SnapshotInOrder'
  BY <1>0, <1>a, <1>b DEF SnapshotInOrder
<1>6. OrphanInOrder'
  BY DEF OrphanInOrder
<1>7. InOrder'
  BY DEF InOrder
<1>8. RetriedOnlyAfterFault'
  <2>1. ASSUME NEW x \in Msgs, Leaving(x) PROVE Leaving(x)'
    BY <1>0, <2>1 DEF Leaving
  <2>2. ASSUME NEW g \in Flushers, NEW x \in flush'[g].todo, x \in landed, x \notin faulted
        PROVE  Outgoing(g, x)'
    BY <1>0, <1>a, <2>2 DEF RetriedOnlyAfterFault
  <2> QED
    BY <2>1, <2>2 DEF RetriedOnlyAfterFault
<1>9. TwiceOnlyAfterFault'
  BY DEF TwiceOnlyAfterFault
<1> QED
  BY <1>1, <1>2, <1>3, <1>4, <1>5, <1>6, <1>7, <1>8, <1>9

\* Nor does a step that leaves the flushes alone as well.
LEMMA StutterKeeps ==
  ASSUME IInv, TypeOK', ProtocolUnchanged, UNCHANGED flush
  PROVE  IInv'
<1> USE DEF IInv, ProtocolUnchanged, Accepted, Older, Active, Current, Outgoing
<1> QED
  BY DEF Ranked, SingleFlight, NothingLost, TypedBeforeRemoved, SnapshotInOrder,
     OrphanInOrder, InOrder, RetriedOnlyAfterFault, TwiceOnlyAfterFault, Leaving

\* The invariant is inductive: one step per action, one per conjunct.
LEMMA InductiveStep == IInv /\ [Next]_vars => IInv'
<1> SUFFICES ASSUME IInv, [Next]_vars PROVE IInv'
  OBVIOUS
<1> USE DEF IInv, TypeOK, Accepted, Older, Active, Current, Outgoing, FlushSteps
<1>0. TypeOK'
  BY TypeStep
<1>1. ASSUME NEW m \in Msgs, Enqueue(m) PROVE IInv'
  <2>1. Ranked'
    BY <1>1, <1>0 DEF Ranked, Enqueue
  <2>2. SingleFlight'
    BY <1>1, <1>0 DEF SingleFlight, Enqueue
  <2>3. NothingLost'
    BY <1>1, <1>0 DEF NothingLost, Enqueue
  <2>4. TypedBeforeRemoved'
    BY <1>1, <1>0 DEF TypedBeforeRemoved, Ranked, Enqueue
  <2>5. SnapshotInOrder'
    BY <1>1, <1>0 DEF SnapshotInOrder, Ranked, Enqueue
  <2>6. OrphanInOrder'
    BY <1>1, <1>0 DEF OrphanInOrder, Ranked, Enqueue
  <2>7. InOrder'
    BY <1>1, <1>0 DEF InOrder, Ranked, Enqueue
  <2>8. RetriedOnlyAfterFault'
    BY <1>1, <1>0 DEF RetriedOnlyAfterFault, Ranked, Leaving, Enqueue
  <2>9. TwiceOnlyAfterFault'
    BY <1>1, <1>0 DEF TwiceOnlyAfterFault, Enqueue
  <2> QED
    BY <1>0, <2>1, <2>2, <2>3, <2>4, <2>5, <2>6, <2>7, <2>8, <2>9
<1>2. ASSUME NEW m \in Msgs, Cancel(m) PROVE IInv'
  <2>1. Ranked'
    BY <1>2, <1>0 DEF Ranked, Cancel
  <2>2. SingleFlight'
    BY <1>2, <1>0 DEF SingleFlight, Cancel
  <2>3. NothingLost'
    BY <1>2, <1>0 DEF NothingLost, Cancel
  <2>4. TypedBeforeRemoved'
    BY <1>2, <1>0 DEF TypedBeforeRemoved, Cancel
  <2>5. SnapshotInOrder'
    BY <1>2, <1>0 DEF SnapshotInOrder, Cancel
  <2>6. OrphanInOrder'
    BY <1>2, <1>0 DEF OrphanInOrder, Cancel
  <2>7. InOrder'
    BY <1>2, <1>0 DEF InOrder, Cancel
  <2>8. RetriedOnlyAfterFault'
    BY <1>2, <1>0 DEF RetriedOnlyAfterFault, Leaving, Cancel
  <2>9. TwiceOnlyAfterFault'
    BY <1>2, <1>0 DEF TwiceOnlyAfterFault, Cancel
  <2> QED
    BY <1>0, <2>1, <2>2, <2>3, <2>4, <2>5, <2>6, <2>7, <2>8, <2>9
<1>3. ASSUME NEW m \in Msgs, TypeLate(m) PROVE IInv'
  <2>1. Ranked'
    BY <1>3, <1>0 DEF Ranked, TypeLate, Typed
  <2>2. SingleFlight'
    BY <1>3, <1>0 DEF SingleFlight, TypeLate
  <2>3. NothingLost'
    BY <1>3, <1>0 DEF NothingLost, TypeLate, Typed
  <2>4. TypedBeforeRemoved'
    BY <1>3, <1>0 DEF TypedBeforeRemoved, TypeLate, Typed
  <2>5. SnapshotInOrder'
    BY <1>3, <1>0 DEF SnapshotInOrder, TypeLate, Typed
  <2>6. OrphanInOrder'
    BY <1>3, <1>0 DEF OrphanInOrder, TypeLate, Typed
  <2>7. InOrder'
    BY <1>3, <1>0 DEF InOrder, OrphanInOrder, TypeLate, Typed
  <2>8. RetriedOnlyAfterFault'
    BY <1>3, <1>0 DEF RetriedOnlyAfterFault, Leaving, TypeLate, Typed
  <2>9. TwiceOnlyAfterFault'
    BY <1>3, <1>0 DEF TwiceOnlyAfterFault, RetriedOnlyAfterFault, TypeLate, Typed
  <2> QED
    BY <1>0, <2>1, <2>2, <2>3, <2>4, <2>5, <2>6, <2>7, <2>8, <2>9
<1>4. ASSUME NEW c \in Cards, RemoveCard(c) PROVE IInv'
  BY <1>4, <1>0, StutterKeeps DEF RemoveCard, ProtocolUnchanged
<1>5. ASSUME NEW c \in Cards, PurgeCardQueue(c) PROVE IInv'
  <2>1. Ranked'
    BY <1>5, <1>0 DEF Ranked, PurgeCardQueue, DropQueue
  <2>2. SingleFlight'
    BY <1>5, <1>0 DEF SingleFlight, PurgeCardQueue
  <2>3. NothingLost'
    BY <1>5, <1>0 DEF NothingLost, PurgeCardQueue, DropQueue
  <2>4. TypedBeforeRemoved'
    BY <1>5, <1>0 DEF TypedBeforeRemoved, PurgeCardQueue
  <2>5. SnapshotInOrder'
    BY <1>5, <1>0 DEF SnapshotInOrder, PurgeCardQueue, DropQueue
  <2>6. OrphanInOrder'
    BY <1>5, <1>0 DEF OrphanInOrder, PurgeCardQueue, DropQueue
  <2>7. InOrder'
    BY <1>5, <1>0 DEF InOrder, PurgeCardQueue, DropQueue
  <2>8. RetriedOnlyAfterFault'
    BY <1>5, <1>0 DEF RetriedOnlyAfterFault, Leaving, PurgeCardQueue, DropQueue
  <2>9. TwiceOnlyAfterFault'
    BY <1>5, <1>0 DEF TwiceOnlyAfterFault, PurgeCardQueue
  <2> QED
    BY <1>0, <2>1, <2>2, <2>3, <2>4, <2>5, <2>6, <2>7, <2>8, <2>9
<1>6. ASSUME NEW c \in Cards, PaneChanges(c) PROVE IInv'
  BY <1>6, <1>0, StutterKeeps DEF PaneChanges, ProtocolUnchanged
<1>7. ASSUME NEW f \in Flushers, NEW c \in Cards, FlushStart(f, c) PROVE IInv'
  <2>1. Ranked'
    BY <1>7, <1>0 DEF Ranked, FlushStart, DropQueue, Pending
  <2>2. SingleFlight'
    BY <1>7, <1>0 DEF SingleFlight, FlushStart
  <2>3. NothingLost'
    BY <1>7, <1>0 DEF NothingLost, FlushStart, DropQueue
  <2>4. TypedBeforeRemoved'
    BY <1>7, <1>0 DEF TypedBeforeRemoved, FlushStart
  <2>5. SnapshotInOrder'
    BY <1>7, <1>0 DEF SnapshotInOrder, NothingLost, FlushStart, DropQueue, Pending
  <2>6. OrphanInOrder'
    BY <1>7, <1>0 DEF OrphanInOrder, FlushStart, DropQueue
  <2>7. InOrder'
    BY <1>7, <1>0 DEF InOrder, FlushStart, DropQueue
  <2>8. RetriedOnlyAfterFault'
    <3>1. (orphans \subseteq faulted)'
      BY <1>7, <1>0 DEF RetriedOnlyAfterFault, FlushStart
    <3>2. ASSUME NEW x \in Msgs, x \in queue', x \in landed', x \notin faulted' PROVE Leaving(x)'
      <4>1. x \in queue /\ x \in landed /\ x \notin faulted
        BY <3>2, <1>7 DEF FlushStart, DropQueue
      <4>2. PICK g \in Flushers : Outgoing(g, x)
        BY <4>1 DEF RetriedOnlyAfterFault, Leaving
      <4>3. flush'[g] = flush[g]
        BY <4>2, <1>7 DEF FlushStart
      <4>4. Outgoing(g, x)'
        BY <4>2, <4>3, <1>7 DEF FlushStart
      <4> QED
        BY <4>4 DEF Leaving
    <3>3. ASSUME NEW g \in Flushers, NEW x \in Msgs, x \in flush'[g].todo, x \in landed', x \notin faulted'
          PROVE Outgoing(g, x)'
      BY <3>3, <1>7, <1>0 DEF RetriedOnlyAfterFault, Leaving, FlushStart, Pending
    <3> QED
      BY <1>0, <3>1, <3>2, <3>3 DEF RetriedOnlyAfterFault
  <2>9. TwiceOnlyAfterFault'
    BY <1>7, <1>0 DEF TwiceOnlyAfterFault, FlushStart
  <2> QED
    BY <1>0, <2>1, <2>2, <2>3, <2>4, <2>5, <2>6, <2>7, <2>8, <2>9
<1>8. ASSUME NEW f \in Flushers, ProbeAgent(f) PROVE IInv'
  BY <1>8, <1>0, AdvanceKeeps DEF ProbeAgent, ProtocolUnchanged
<1>9. ASSUME NEW f \in Flushers, ReadPane(f) PROVE IInv'
  BY <1>9, <1>0, AdvanceKeeps DEF ReadPane, ProtocolUnchanged
<1>10. ASSUME NEW f \in Flushers, ProbeMisses(f) PROVE IInv'
  BY <1>10, <1>0, AdvanceKeeps DEF ProbeMisses, ProtocolUnchanged
<1>11. ASSUME NEW f \in Flushers, Type(f) PROVE IInv'
  <2>1. PICK m \in Msgs :
          /\ Current(f, m)
          /\ \/ Typed(m) /\ Goto(f, "enter")
             \/ Goto(f, "blank") /\ UNCHANGED <<landed, reached, repeated>>
    BY <1>11 DEF Type
  <2>2. \A n \in Msgs : Current(f, n) => n = m
    BY <2>1 DEF Ranked
  <2>3. \A g \in Flushers, n \in Msgs : Current(g, n)' <=> Current(g, n)
    BY <2>1, <1>11 DEF Type, Goto
  <2>4. \A g \in Flushers : g # f => flush'[g] = flush[g]
    BY <1>11 DEF Type, Goto
  <2>5. flush'[f].todo = flush[f].todo /\ flush'[f].card = flush[f].card
    BY <1>11 DEF Type, Goto
  <2>6. UNCHANGED <<ticket, nextTicket, queue, withdrawn, missed>>
    BY <1>11 DEF Type
  <2>7. m \in landed => m \in faulted
    BY <2>1, <1>11 DEF RetriedOnlyAfterFault, Type
  <2>8. /\ landed \subseteq landed' /\ landed' \subseteq landed \union {m}
        /\ repeated' \subseteq repeated \union (landed \intersect {m})
        /\ UNCHANGED <<orphans, faulted>>
    BY <2>1, <1>11 DEF Type, Typed
  <2>9. \/ m \in landed' /\ flush'[f].pc = "enter"
        \/ landed' = landed /\ flush'[f].pc = "blank"
    BY <2>1 DEF Typed, Goto
  <2>10. flush[f].pc = "type"
    BY <1>11 DEF Type
  <2> HIDE DEF Current
  <2>11. Ranked' /\ SingleFlight'
    BY <1>0, <2>1, <2>4, <2>5, <2>6, <2>8, <2>9, <2>10 DEF Ranked, SingleFlight, Current
  <2>12. NothingLost'
    BY <2>6, <2>8 DEF NothingLost
  <2>13. TypedBeforeRemoved'
    BY <1>0, <2>2, <2>3, <2>4, <2>5, <2>6, <2>8, <2>9 DEF TypedBeforeRemoved
  <2>14. SnapshotInOrder' /\ OrphanInOrder'
    BY <1>0, <2>4, <2>5, <2>6, <2>8 DEF SnapshotInOrder, OrphanInOrder
  <2>15. \A n \in Msgs : Older(n, m) => n \in landed \union withdrawn \union missed
    BY <2>1 DEF SnapshotInOrder, Current
  <2>16. InOrder'
    BY <2>15, <2>6, <2>8 DEF InOrder
  <2>17. RetriedOnlyAfterFault'
    <3>1. ASSUME NEW x \in Msgs, x \in queue', x \in landed', x \notin faulted'
          PROVE  Leaving(x)'
      BY <3>1, <2>1, <2>3, <2>4, <2>6, <2>7, <2>8, <2>9, <2>10 DEF RetriedOnlyAfterFault, Leaving
    <3>2. ASSUME NEW g \in Flushers, NEW x \in flush'[g].todo, x \in landed', x \notin faulted'
          PROVE  Outgoing(g, x)'
      <4>1. CASE g = f
        BY <4>1, <3>2, <2>1, <2>3, <2>5, <2>7, <2>8, <2>9, <2>10 DEF RetriedOnlyAfterFault
      <4>2. CASE g # f
        <5>1. x \in flush[g].todo /\ x # m
          BY <4>2, <3>2, <2>1, <2>4, <2>10, <1>0 DEF SingleFlight, Current
        <5> QED
          BY <5>1, <4>2, <3>2, <2>3, <2>4, <2>8 DEF RetriedOnlyAfterFault
      <4> QED
        BY <4>1, <4>2
    <3> QED
      BY <1>0, <2>8, <3>1, <3>2 DEF RetriedOnlyAfterFault
  <2>18. TwiceOnlyAfterFault'
    BY <2>7, <2>8 DEF TwiceOnlyAfterFault
  <2> QED
    BY <1>0, <2>11, <2>12, <2>13, <2>14, <2>16, <2>17, <2>18
<1>12. ASSUME NEW f \in Flushers, AbandonSend(f) PROVE IInv'
  <2>1. PICK m \in Msgs : /\ Current(f, m) /\ faulted' = faulted \union {m}
                          /\ orphans' = IF flush[f].pc = "type" THEN orphans \union {m} ELSE orphans
    BY <1>12 DEF AbandonSend
  <2>2. \A n \in Msgs : Current(f, n) => n = m
    BY <2>1 DEF Ranked
  <2>3. \A g \in Flushers, n \in Msgs : Current(g, n)' <=> Current(g, n)
    BY <2>1, <1>12 DEF AbandonSend, Goto
  <2>4. \A g \in Flushers : g # f => flush'[g] = flush[g]
    BY <1>12 DEF AbandonSend, Goto
  <2>5. flush'[f].todo = flush[f].todo /\ flush'[f].card = flush[f].card
    BY <1>12 DEF AbandonSend, Goto
  <2>6. UNCHANGED <<ticket, nextTicket, queue, withdrawn, missed>>
    BY <1>12 DEF AbandonSend
  <2>7. flush[f].pc \in {"type", "enter", "blank"} /\ flush'[f].pc = "mark"
    BY <1>12 DEF AbandonSend, Goto
  <2>8. UNCHANGED <<landed, repeated>>
    BY <1>12 DEF AbandonSend
  <2>9. m \in flush[f].todo
    BY <2>1
  <2>10. OrphanInOrder'
    BY <1>0, <2>1, <2>6, <2>8 DEF OrphanInOrder, SnapshotInOrder
  <2> HIDE DEF Current
  <2>11. Ranked' /\ SingleFlight'
    <3>1. orphans' \subseteq Accepted
      BY <2>1, <2>9 DEF Ranked
    <3>2. Ranked'
      BY <1>0, <2>4, <2>5, <2>6, <2>8, <3>1 DEF Ranked
    <3>3. SingleFlight'
      BY <1>0, <2>4, <2>5, <2>7 DEF SingleFlight
    <3> QED
      BY <3>2, <3>3
  <2>12. NothingLost' /\ InOrder'
    BY <2>6, <2>8 DEF NothingLost, InOrder
  <2>13. TypedBeforeRemoved'
    BY <1>0, <2>3, <2>4, <2>6, <2>7, <2>8 DEF TypedBeforeRemoved
  <2>14. SnapshotInOrder'
    BY <1>0, <2>4, <2>5, <2>6, <2>8 DEF SnapshotInOrder
  <2>15. RetriedOnlyAfterFault'
    <3>1. ASSUME NEW x \in Msgs, x \in queue', x \in landed', x \notin faulted'
          PROVE  Leaving(x)'
      BY <3>1, <2>1, <2>2, <2>3, <2>4, <2>6, <2>8 DEF RetriedOnlyAfterFault, Leaving
    <3>2. ASSUME NEW g \in Flushers, NEW x \in flush'[g].todo, x \in landed', x \notin faulted'
          PROVE  Outgoing(g, x)'
      BY <1>0, <3>2, <2>1, <2>2, <2>3, <2>4, <2>5, <2>8 DEF RetriedOnlyAfterFault
    <3> QED
      BY <1>0, <2>1, <2>8, <3>1, <3>2 DEF RetriedOnlyAfterFault
  <2>16. TwiceOnlyAfterFault'
    BY <2>1, <2>8 DEF TwiceOnlyAfterFault
  <2> QED
    BY <1>0, <2>10, <2>11, <2>12, <2>13, <2>14, <2>15, <2>16
<1>13. ASSUME NEW f \in Flushers, RemoveMessage(f) PROVE IInv'
  <2>1. Ranked'
    <3>1. \A g \in Flushers : flush'[g].todo \subseteq flush[g].todo
      BY <1>13 DEF RemoveMessage, EndFlush, NoFlush
    <3>2. queue' \subseteq queue
      BY <1>13 DEF RemoveMessage
    <3>3. UNCHANGED <<ticket, nextTicket, orphans, landed, missed>>
      BY <1>13 DEF RemoveMessage
    <3> QED
      BY <3>1, <3>2, <3>3 DEF Ranked
  <2>2. SingleFlight'
    BY <1>13, <1>0 DEF SingleFlight, RemoveMessage, EndFlush, NoFlush
  <2>3. NothingLost'
    BY <1>13, <1>0 DEF NothingLost, TypedBeforeRemoved, RemoveMessage
  <2>4. TypedBeforeRemoved'
    BY <1>13, <1>0 DEF TypedBeforeRemoved, RemoveMessage, EndFlush, NoFlush
  <2>5. SnapshotInOrder'
    BY <1>13, <1>0 DEF SnapshotInOrder, RemoveMessage, EndFlush, NoFlush
  <2>6. OrphanInOrder'
    BY <1>13, <1>0 DEF OrphanInOrder, RemoveMessage
  <2>7. InOrder'
    BY <1>13, <1>0 DEF InOrder, RemoveMessage
  <2>8. RetriedOnlyAfterFault'
    <3>1. (orphans \subseteq faulted)'
      BY <1>13, <1>0 DEF RetriedOnlyAfterFault, RemoveMessage
    <3>2. ASSUME NEW x \in Msgs, x \in queue', x \in landed', x \notin faulted' PROVE Leaving(x)'
      BY <3>2, <1>13, <1>0 DEF RetriedOnlyAfterFault, Leaving, RemoveMessage, EndFlush
    <3>3. ASSUME NEW g \in Flushers, NEW x \in Msgs, x \in flush'[g].todo, x \in landed', x \notin faulted'
          PROVE Outgoing(g, x)'
      BY <3>3, <1>13, <1>0 DEF RetriedOnlyAfterFault, RemoveMessage, EndFlush, NoFlush
    <3> QED
      BY <1>0, <3>1, <3>2, <3>3 DEF RetriedOnlyAfterFault
  <2>9. TwiceOnlyAfterFault'
    BY <1>13, <1>0 DEF TwiceOnlyAfterFault, RemoveMessage
  <2> QED
    BY <1>0, <2>1, <2>2, <2>3, <2>4, <2>5, <2>6, <2>7, <2>8, <2>9
<1>14. ASSUME NEW f \in Flushers, LoseRemoval(f) PROVE IInv'
  <2>1. PICK m \in Msgs : Current(f, m) /\ faulted' = faulted \union {m}
    BY <1>14 DEF LoseRemoval
  <2>2. \A n \in Msgs : Current(f, n) => n = m
    BY <2>1 DEF Ranked
  <2>3. \A g \in Flushers, n \in Msgs : Current(g, n)' <=> Current(g, n)
    BY <2>1, <1>14 DEF LoseRemoval, Goto
  <2>4. \A g \in Flushers : g # f => flush'[g] = flush[g]
    BY <1>14 DEF LoseRemoval, Goto
  <2>5. flush'[f].todo = flush[f].todo /\ flush'[f].card = flush[f].card
    BY <1>14 DEF LoseRemoval, Goto
  <2>6. UNCHANGED <<ticket, nextTicket, queue, withdrawn, missed>>
    BY <1>14 DEF LoseRemoval
  <2>7. flush[f].pc = "remove" /\ flush'[f].pc = "mark"
    BY <1>14 DEF LoseRemoval, Goto
  <2>8. UNCHANGED <<landed, repeated, orphans>>
    BY <1>14 DEF LoseRemoval
  <2> HIDE DEF Current
  <2>9. Ranked' /\ SingleFlight'
    BY <1>0, <2>4, <2>5, <2>6, <2>7, <2>8 DEF Ranked, SingleFlight
  <2>10. NothingLost' /\ InOrder'
    BY <2>6, <2>8 DEF NothingLost, InOrder
  <2>11. TypedBeforeRemoved'
    BY <1>0, <2>3, <2>4, <2>6, <2>7, <2>8 DEF TypedBeforeRemoved
  <2>12. SnapshotInOrder' /\ OrphanInOrder'
    BY <1>0, <2>4, <2>5, <2>6, <2>8 DEF SnapshotInOrder, OrphanInOrder
  <2>13. RetriedOnlyAfterFault'
    <3>1. ASSUME NEW x \in Msgs, x \in queue', x \in landed', x \notin faulted'
          PROVE  Leaving(x)'
      BY <3>1, <2>1, <2>2, <2>3, <2>4, <2>6, <2>8 DEF RetriedOnlyAfterFault, Leaving
    <3>2. ASSUME NEW g \in Flushers, NEW x \in flush'[g].todo, x \in landed', x \notin faulted'
          PROVE  Outgoing(g, x)'
      BY <1>0, <3>2, <2>1, <2>2, <2>3, <2>4, <2>5, <2>8 DEF RetriedOnlyAfterFault
    <3> QED
      BY <1>0, <2>1, <2>8, <3>1, <3>2 DEF RetriedOnlyAfterFault
  <2>14. TwiceOnlyAfterFault'
    BY <2>1, <2>8 DEF TwiceOnlyAfterFault
  <2> QED
    BY <1>0, <2>9, <2>10, <2>11, <2>12, <2>13, <2>14
<1>15. ASSUME NEW f \in Flushers, MarkAttempt(f) PROVE IInv'
  BY <1>15, <1>0, AdvanceKeeps DEF MarkAttempt, ProtocolUnchanged
<1>16. ASSUME Crash PROVE IInv'
  <2>1. Ranked'
    BY <1>16, <1>0 DEF Ranked, Crash, InFlight, NoFlush
  <2>2. SingleFlight'
    BY <1>16, <1>0 DEF SingleFlight, Crash, NoFlush
  <2>3. NothingLost'
    BY <1>16, <1>0 DEF NothingLost, Crash
  <2>4. TypedBeforeRemoved'
    BY <1>16, <1>0 DEF TypedBeforeRemoved, Crash, NoFlush
  <2>5. SnapshotInOrder'
    BY <1>16, <1>0 DEF SnapshotInOrder, Crash, NoFlush
  <2>6. OrphanInOrder'
    BY <1>16, <1>0 DEF OrphanInOrder, SnapshotInOrder, Crash, InFlight
  <2>7. InOrder'
    BY <1>16, <1>0 DEF InOrder, Crash
  <2>8. RetriedOnlyAfterFault'
    <3>1. faulted' = faulted \union UNION {InFlight(step) : step \in ScriptSteps}
      BY <1>16 DEF Crash
    <3>2. InFlight("type") \subseteq faulted'
      BY <3>1 DEF ScriptSteps
    <3>3. orphans' \subseteq faulted'
      BY <1>16, <3>1, <3>2 DEF Crash, RetriedOnlyAfterFault
    <3>4. ASSUME NEW x \in Msgs, Leaving(x) PROVE x \in faulted'
      BY <3>1, <3>4 DEF Leaving, InFlight, ScriptSteps
    <3>5. \A x \in queue' \intersect landed' : x \in faulted'
      BY <1>16, <3>1, <3>4 DEF Crash, RetriedOnlyAfterFault
    <3>6. \A g \in Flushers : flush'[g].todo = {}
      BY <1>16 DEF Crash, NoFlush
    <3> QED
      BY <3>3, <3>5, <3>6 DEF RetriedOnlyAfterFault
  <2>9. TwiceOnlyAfterFault'
    BY <1>16, <1>0 DEF TwiceOnlyAfterFault, Crash
  <2> QED
    BY <1>0, <2>1, <2>2, <2>3, <2>4, <2>5, <2>6, <2>7, <2>8, <2>9
<1>18. ASSUME NEW f \in Flushers, Enter(f) PROVE IInv'
  <2>1. PICK m \in Msgs :
          /\ Current(f, m)
          /\ \/ /\ flush[f].pc = "enter" /\ missed' = missed
                /\ faulted' = faulted /\ Goto(f, "remove")
             \/ /\ flush[f].pc = "blank" /\ missed' = missed \union {m}
                /\ faulted' = faulted /\ Goto(f, "remove")
             \/ /\ missed' = missed
                /\ faulted' = faulted \union {m} /\ Goto(f, "mark")
    BY <1>18 DEF Enter
  <2>2. \A n \in Msgs : Current(f, n) => n = m
    BY <2>1 DEF Ranked
  <2>3. \A g \in Flushers, n \in Msgs : Current(g, n)' <=> Current(g, n)
    BY <2>1, <1>18 DEF Enter, Goto
  <2>4. \A g \in Flushers : g # f => flush'[g] = flush[g]
    BY <2>1 DEF Goto
  <2>5. flush'[f].todo = flush[f].todo /\ flush'[f].card = flush[f].card
    BY <2>1 DEF Goto
  <2>6. UNCHANGED <<ticket, nextTicket, queue, withdrawn, landed, repeated, orphans>>
    BY <1>18 DEF Enter
  <2>7. \/ /\ flush[f].pc = "enter" /\ missed' = missed
           /\ faulted' = faulted /\ flush'[f].pc = "remove"
        \/ /\ flush[f].pc = "blank" /\ missed' = missed \union {m}
           /\ faulted' = faulted /\ flush'[f].pc = "remove"
        \/ /\ missed' = missed
           /\ faulted' = faulted \union {m} /\ flush'[f].pc = "mark"
    BY <2>1 DEF Goto
  <2>8. flush[f].pc \in {"enter", "blank"}
    BY <1>18 DEF Enter
  <2>9. m \in flush[f].todo /\ missed \subseteq missed'
    BY <2>1
  <2> HIDE DEF Current
  <2>10. Ranked' /\ SingleFlight'
    BY <1>0, <2>4, <2>5, <2>6, <2>7, <2>8, <2>9 DEF Ranked, SingleFlight
  <2>11. NothingLost' /\ InOrder'
    BY <2>6, <2>9 DEF NothingLost, InOrder
  <2>12. TypedBeforeRemoved'
    BY <1>0, <2>2, <2>3, <2>4, <2>5, <2>6, <2>7, <2>9 DEF TypedBeforeRemoved
  <2>13. SnapshotInOrder' /\ OrphanInOrder'
    BY <1>0, <2>4, <2>5, <2>6, <2>9 DEF SnapshotInOrder, OrphanInOrder
  <2>14. RetriedOnlyAfterFault'
    <3>1. m \in landed => m \in faulted' \/ flush'[f].pc = "remove"
      BY <2>7
    <3>2. ASSUME NEW x \in Msgs, x \in queue', x \in landed', x \notin faulted'
          PROVE  Leaving(x)'
      BY <3>2, <2>1, <2>2, <2>3, <2>4, <2>6, <2>7 DEF RetriedOnlyAfterFault, Leaving
    <3>3. ASSUME NEW g \in Flushers, NEW x \in flush'[g].todo, x \in landed', x \notin faulted'
          PROVE  Outgoing(g, x)'
      BY <1>0, <3>3, <2>1, <2>2, <2>3, <2>4, <2>5, <2>6, <2>7, <2>8 DEF RetriedOnlyAfterFault
    <3>4. orphans' \subseteq faulted'
      BY <2>6, <2>7 DEF RetriedOnlyAfterFault
    <3> QED
      BY <1>0, <3>2, <3>3, <3>4 DEF RetriedOnlyAfterFault
  <2>15. TwiceOnlyAfterFault'
    BY <2>6, <2>7 DEF TwiceOnlyAfterFault
  <2> QED
    BY <1>0, <2>10, <2>11, <2>12, <2>13, <2>14, <2>15
<1>17. ASSUME UNCHANGED vars PROVE IInv'
  BY <1>17, <1>0, StutterKeeps DEF vars, ProtocolUnchanged
<1> QED
  BY <1>1, <1>2, <1>3, <1>4, <1>5, <1>6, <1>7, <1>8, <1>9, <1>10, <1>11, <1>12, <1>13, <1>14, <1>15, <1>16, <1>17, <1>18 DEF Next, FlushStep

\* The empty outbox satisfies the invariant.
LEMMA InductiveInit == Init => IInv
<1> SUFFICES ASSUME Init PROVE IInv
  OBVIOUS
<1>1. TypeOK
  BY TypeInit
<1> QED
  BY <1>1 DEF Init, IInv, Ranked, SingleFlight, NothingLost, TypedBeforeRemoved,
     SnapshotInOrder, OrphanInOrder, InOrder, RetriedOnlyAfterFault,
     TwiceOnlyAfterFault, Accepted, NoFlush, Active

\* The invariant holds in every state of the outbox.
THEOREM Inductive == Spec => []IInv
  BY InductiveInit, InductiveStep, PTL DEF Spec

\* Whatever fails, and for any number of messages, cards and flush callers: a
\* message handed to the outbox is queued, was typed, was withdrawn, or is one
\* of those a script took for delivered with no session at its text.
THEOREM NothingIsLost == Spec => []NothingLost
<1>1. IInv => NothingLost
  BY DEF IInv
<1> QED
  BY Inductive, <1>1, PTL

\* The messages of a card are typed in the order they were accepted, with no
\* gap but what was withdrawn or missed.
THEOREM TypedInOrder == Spec => []InOrder
<1>1. IInv => InOrder
  BY DEF IInv
<1> QED
  BY Inductive, <1>1, PTL

\* A message typed twice is one whose delivery met a fault.
THEOREM NoSilentRepeat == Spec => []TwiceOnlyAfterFault
<1>1. IInv => TwiceOnlyAfterFault
  BY DEF IInv
<1> QED
  BY Inductive, <1>1, PTL

-----------------------------------------------------------------------------
(* The flush implements OutboxPromise: the queue is what is held, an append *)
(* is Accept, a `send-keys` that types is Land, an Enter that makes a text   *)
(* nobody took count as typed is Miss, the removal after it is Release, and *)
(* a cancel or a purge is Withdraw.                                         *)

\* Typing a message of a snapshot, or of an orphan script, is a Land of the
\* abstract specification: everything older is out of the way.
LEMMA TypedLands ==
  ASSUME IInv, NEW m \in Msgs, m \in Accepted, Typed(m),
         \A n \in Msgs : Older(n, m) => n \in landed \union withdrawn \union missed,
         UNCHANGED <<queue, ticket, nextTicket, withdrawn, missed>>
  PROVE  Promise!Next
<1>1. Promise!Land(m)
  BY DEF Promise!Land, Promise!Turn, Typed, Older, Accepted
<1> QED
  BY <1>1 DEF Promise!Next

\* Taking messages that are queued out of the queue as withdrawn.
LEMMA DropWithdraws ==
  ASSUME NEW S \in SUBSET queue, queue' = queue \ S, withdrawn' = withdrawn \union S,
         UNCHANGED <<ticket, nextTicket, landed, missed>>
  PROVE  Promise!Next
<1>1. Promise!Withdraw(S)
  BY DEF Promise!Withdraw
<1> QED
  BY <1>1 DEF Promise!Next

\* Every step of the outbox is a step of the promise or a stutter.
LEMMA StepRefines == IInv /\ [Next]_vars => [Promise!Next]_(Promise!promiseVars)
<1> SUFFICES ASSUME IInv, [Next]_vars
             PROVE  Promise!Next \/ UNCHANGED <<queue, ticket, nextTicket, landed, withdrawn, missed>>
  BY DEF Promise!promiseVars
<1>0. /\ queue \subseteq Accepted /\ orphans \subseteq Accepted /\ queue \subseteq Msgs
      /\ orphans \subseteq Msgs /\ Accepted \subseteq Msgs
      /\ \A f \in Flushers : flush[f].todo \subseteq Accepted
  BY DEF IInv, Ranked, TypeOK, Accepted
<1>1. ASSUME NEW m \in Msgs, Enqueue(m) PROVE Promise!Accept(m)
  BY <1>1 DEF Enqueue, Promise!Accept, Accepted
<1>2. ASSUME NEW m \in Msgs, Cancel(m) PROVE Promise!Next
  BY <1>2, DropWithdraws DEF Cancel
<1>3. ASSUME NEW c \in Cards, PurgeCardQueue(c) PROVE Promise!Next
  BY <1>3, DropWithdraws DEF PurgeCardQueue, DropQueue, Pending
<1>4. ASSUME NEW f \in Flushers, NEW c \in Cards, FlushStart(f, c)
      PROVE  Promise!Next \/ UNCHANGED <<queue, ticket, nextTicket, landed, withdrawn, missed>>
  BY <1>4, DropWithdraws DEF FlushStart, DropQueue, Pending
<1>5. ASSUME NEW m \in Msgs, TypeLate(m)
      PROVE  Promise!Next \/ UNCHANGED <<queue, ticket, nextTicket, landed, withdrawn, missed>>
  <2>1. \A n \in Msgs : Older(n, m) => n \in landed \union withdrawn \union missed
    BY <1>5 DEF TypeLate, IInv, OrphanInOrder
  <2> QED
    BY <1>0, <1>5, <2>1, TypedLands DEF TypeLate
<1>6. ASSUME NEW f \in Flushers, Type(f)
      PROVE  Promise!Next \/ UNCHANGED <<queue, ticket, nextTicket, landed, withdrawn, missed>>
  <2>1. PICK m \in Msgs : /\ Current(f, m)
                          /\ Typed(m) \/ UNCHANGED landed
    BY <1>6 DEF Type
  <2>2. CASE Typed(m)
    <3>1. \A n \in Msgs : Older(n, m) => n \in landed \union withdrawn \union missed
      BY <2>1 DEF IInv, TypeOK, SnapshotInOrder, Current, Older, Accepted
    <3> QED
      BY <1>0, <1>6, <2>1, <2>2, <3>1, TypedLands DEF Type, Current
  <2>3. CASE UNCHANGED landed
    BY <1>6, <2>3 DEF Type
  <2> QED
    BY <2>1, <2>2, <2>3
<1>7. ASSUME NEW f \in Flushers, RemoveMessage(f)
      PROVE  Promise!Next \/ UNCHANGED <<queue, ticket, nextTicket, landed, withdrawn, missed>>
  <2>1. PICK m \in Msgs : Current(f, m) /\ queue' = queue \ {m}
    BY <1>7 DEF RemoveMessage
  <2>2. m \in landed \union missed
    BY <1>7, <2>1 DEF RemoveMessage, IInv, TypedBeforeRemoved, Current
  <2>3. CASE m \in queue
    BY <1>7, <2>1, <2>2, <2>3 DEF RemoveMessage, Promise!Release, Promise!Next
  <2>4. CASE m \notin queue
    BY <1>7, <2>1, <2>4 DEF RemoveMessage
  <2> QED
    BY <2>3, <2>4
<1>8. ASSUME NEW f \in Flushers,
             ProbeAgent(f) \/ ReadPane(f) \/ MarkAttempt(f) \/ ProbeMisses(f)
               \/ AbandonSend(f) \/ LoseRemoval(f)
      PROVE  UNCHANGED <<queue, ticket, nextTicket, landed, withdrawn, missed>>
  BY <1>8 DEF ProbeAgent, ReadPane, MarkAttempt, ProbeMisses, AbandonSend, LoseRemoval
<1>11. ASSUME NEW f \in Flushers, Enter(f)
       PROVE  Promise!Next \/ UNCHANGED <<queue, ticket, nextTicket, landed, withdrawn, missed>>
  <2>1. PICK m \in Msgs : Current(f, m) /\ missed' \in {missed, missed \union {m}}
    BY <1>11 DEF Enter
  <2>2. UNCHANGED <<queue, ticket, nextTicket, landed, withdrawn>>
    BY <1>11 DEF Enter
  <2>3. CASE missed' = missed \union {m}
    <3>1. \A n \in Msgs : Older(n, m) => n \in landed \union withdrawn \union missed
      BY <2>1 DEF IInv, TypeOK, SnapshotInOrder, Current, Older, Accepted
    <3>2. m \in Accepted
      BY <1>0, <2>1 DEF Current
    <3>3. Promise!Miss(m)
      BY <2>2, <2>3, <3>1, <3>2 DEF Promise!Miss, Promise!Turn, Older, Accepted
    <3> QED
      BY <3>3 DEF Promise!Next
  <2>4. CASE missed' = missed
    BY <2>2, <2>4
  <2> QED
    BY <2>1, <2>3, <2>4
<1>9. ASSUME NEW c \in Cards, RemoveCard(c) \/ PaneChanges(c)
      PROVE  UNCHANGED <<queue, ticket, nextTicket, landed, withdrawn, missed>>
  BY <1>9 DEF RemoveCard, PaneChanges
<1>10. ASSUME Crash \/ UNCHANGED vars
       PROVE  UNCHANGED <<queue, ticket, nextTicket, landed, withdrawn, missed>>
  BY <1>10 DEF Crash, vars
<1> QED
  BY <1>1, <1>2, <1>3, <1>4, <1>5, <1>6, <1>7, <1>8, <1>9, <1>10, <1>11
  DEF Next, FlushStep, Promise!Next

\* The outbox, with its flushes, probes, orphaned scripts and crashes,
\* implements OutboxPromise, which knows none of them.
THEOREM Refines == Spec => KeepsPromise
<1>1. Init => Promise!Init
  BY DEF Init, Promise!Init
<1>2. IInv /\ [Next]_vars => [Promise!Next]_(Promise!promiseVars)
  BY StepRefines
<1> QED
  BY Inductive, <1>1, <1>2, PTL DEF Spec, KeepsPromise, Promise!Spec
=============================================================================
