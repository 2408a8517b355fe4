------------------------------ MODULE MCStream ------------------------------
(* Small instances of Stream for TLC. *)
EXTENDS Stream, TLC

CONSTANTS d1, d2   \* deferreds

Symmetric == Permutations(Deferreds)
=============================================================================
