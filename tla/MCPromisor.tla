----------------------------- MODULE MCPromisor -----------------------------
(* Small instances of Promisor for TLC. *)
EXTENDS Promisor, TLC

CONSTANTS d, r, a, b   \* a deferred, a resolvable promise, two plain ones
CONSTANTS v, e         \* a value and an error

MCKind == [p \in Promises |->
             IF p = d THEN "Deferred" ELSE IF p = r THEN "Resolvable" ELSE "Promise"]

Symmetric == Permutations(Promises \cap {a, b})
=============================================================================
