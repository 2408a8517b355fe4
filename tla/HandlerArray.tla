---------------------------- MODULE HandlerArray ---------------------------
(***************************************************************************)
(* The array of handlers of a promise, and what ion_promisor_remove() and  *)
(* ion_promisor_cleanup() make of it.  Removed slots are counted by the    *)
(* caller, but the copy skips every NULL slot, those that somebody else    *)
(* has emptied included: the tail of the new array is then unwritten.      *)
(***************************************************************************)
EXTENDS Integers, Sequences, FiniteSets

CONSTANT Junk   \* the contents of memory that was never written

Staying(s, gone) == {k \in DOMAIN s : s[k] \notin gone}
Place(s, gone, k) == Cardinality({j \in Staying(s, gone) : j <= k})   \* handlers[j++]

Cleaned(s, gone, removed) ==
  IF removed = 0 THEN s
  ELSE [n \in 1 .. Len(s) - removed |->
          IF \E k \in Staying(s, gone) : Place(s, gone, k) = n
          THEN s[CHOOSE k \in Staying(s, gone) : Place(s, gone, k) = n]
          ELSE Junk]

\* ion_promisor_remove(): NULL is what an emptied slot holds.
Removed(s, h, NULL) == Cleaned(s, {h, NULL}, Cardinality({k \in DOMAIN s : s[k] = h}))
============================================================================
