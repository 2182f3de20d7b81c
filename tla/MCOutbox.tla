------------------------------ MODULE MCOutbox ------------------------------
(* Instances of Outbox for TLC: one card, which every message is for.      *)
EXTENDS Outbox, TLC

CONSTANTS c1, m1, m2, f1, f2

\* Two messages for one card: a failed one holds the other back.
TwoMessages == (m1 :> c1) @@ (m2 :> c1)
=============================================================================
