------------------------------- MODULE Future -------------------------------
(***************************************************************************)
(* What the promises of php-ion promise to a program that does not settle  *)
(* a promise behind its own back (docs/ru/promisor.md): a promise is       *)
(* pending, then settled for good with one outcome and one value; a        *)
(* promise that waits for another is woken by the settlement of that one   *)
(* and of no other, and settles only when it waits for nothing.            *)
(***************************************************************************)
CONSTANTS Promises, Data, None

Pending == [outcome |-> "pending", val |-> None]
Settled == [outcome : {"done", "failed"}, val : Data]

VARIABLES
  state,   \* state[p]: pending, or the outcome and the value of p
  waits    \* waits[p]: the promise p waits for, or None

vars == <<state, waits>>

TypeOK == state \in [Promises -> Settled \cup {Pending}]
          /\ waits \in [Promises -> Promises \cup {None}]

Init ==
  /\ state = [p \in Promises |-> Pending]
  /\ waits = [p \in Promises |-> None]

Wait(p, q) ==
  /\ state[p] = Pending /\ waits[p] = None
  /\ state[q] = Pending
  /\ waits' = [waits EXCEPT ![p] = q]
  /\ UNCHANGED state

Wake(p) ==
  /\ waits[p] # None
  /\ state[waits[p]] # Pending
  /\ waits' = [waits EXCEPT ![p] = None]
  /\ UNCHANGED state

Settle(p, s) ==
  /\ state[p] = Pending /\ waits[p] = None
  /\ state' = [state EXCEPT ![p] = s]
  /\ UNCHANGED waits

Next == \E p \in Promises :
  \/ \E q \in Promises : Wait(p, q)
  \/ Wake(p)
  \/ \E s \in Settled : Settle(p, s)

Spec == Init /\ [][Next]_vars
=============================================================================
