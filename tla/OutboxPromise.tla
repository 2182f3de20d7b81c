--------------------------- MODULE OutboxPromise ---------------------------
(***************************************************************************)
(* What the outbox promises, with no flush, no probe, no crash in sight: a *)
(* message is held until it has been typed, is withdrawn, or is missed (its *)
(* typing was taken for done and was not), and the messages of one card    *)
(* are first typed, or missed, in the order they were accepted, skipping   *)
(* only what was withdrawn.                                                *)
(***************************************************************************)
EXTENDS Naturals

CONSTANTS Msgs, CardOf

VARIABLES held, ticket, nextTicket, landed, withdrawn, missed

promiseVars == <<held, ticket, nextTicket, landed, withdrawn, missed>>

Init ==
  /\ held = {} /\ landed = {} /\ withdrawn = {} /\ missed = {}
  /\ ticket = [m \in Msgs |-> 0] /\ nextTicket = 1

Accept(m) ==
  /\ ticket[m] = 0
  /\ held' = held \union {m}
  /\ ticket' = [ticket EXCEPT ![m] = nextTicket]
  /\ nextTicket' = nextTicket + 1
  /\ UNCHANGED <<landed, withdrawn, missed>>

\* Every older message of the card is out of the way.
Turn(m) ==
  /\ ticket[m] # 0
  /\ \A n \in Msgs :
       CardOf[n] = CardOf[m] /\ ticket[n] # 0 /\ ticket[n] < ticket[m]
         => n \in landed \union withdrawn \union missed

\* Typing needs the message's turn; it does not need `m` to be still held (a
\* flush works on a snapshot).
Land(m) ==
  /\ Turn(m)
  /\ landed' = landed \union {m}
  /\ UNCHANGED <<held, ticket, nextTicket, withdrawn, missed>>

\* So does taking it for typed when it was not.
Miss(m) ==
  /\ Turn(m)
  /\ missed' = missed \union {m}
  /\ UNCHANGED <<held, ticket, nextTicket, landed, withdrawn>>

Release(m) ==
  /\ m \in held \intersect (landed \union missed)
  /\ held' = held \ {m}
  /\ UNCHANGED <<ticket, nextTicket, landed, withdrawn, missed>>

Withdraw(S) ==
  /\ held' = held \ S
  /\ withdrawn' = withdrawn \union S
  /\ UNCHANGED <<ticket, nextTicket, landed, missed>>

Next ==
  \/ \E m \in Msgs : Accept(m) \/ Land(m) \/ Miss(m) \/ Release(m)
  \/ \E S \in SUBSET held : Withdraw(S)

Spec == Init /\ [][Next]_promiseVars
=============================================================================
