---------------------------- MODULE MCJsonStore ----------------------------
(* Instances of JsonStore for TLC: the two backends of a deploy.           *)
EXTENDS JsonStore, TLC

CONSTANTS p1, p2, u1, u2, u3
=============================================================================
