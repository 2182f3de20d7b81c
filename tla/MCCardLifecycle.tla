-------------------------- MODULE MCCardLifecycle --------------------------
(* Instances of CardLifecycle for TLC.                                     *)
EXTENDS CardLifecycle, TLC

CONSTANTS r1, r2

\* Handlers of two reports are interchangeable.  Safety runs only.
Interchangeable == Permutations({r1, r2})
=============================================================================
