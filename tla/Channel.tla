------------------------------ MODULE Channel ------------------------------
(***************************************************************************)
(* What a pair of ION\Process\IPC objects promises its two ends: messages  *)
(* arrive whole, once and in the order they were sent; those still under   *)
(* way may be lost when the sender is gone; an end is told that the other  *)
(* one is gone only if it is.                                              *)
(***************************************************************************)
EXTENDS Integers, Sequences

CONSTANTS
  Ends,      \* the two ends
  Messages   \* what can be sent

VARIABLES
  sent,   \* sent[e]: the messages e has sent
  taken,  \* taken[e]: those that have reached e, whether e listened or not
  open,   \* the ends that exist
  told    \* the ends that were told of the other's disappearance

Peer(e) == CHOOSE f \in Ends : f # e

Init ==
  /\ sent = [e \in Ends |-> <<>>]
  /\ taken = [e \in Ends |-> <<>>]
  /\ open = Ends
  /\ told = {}

Send(e, m) ==
  /\ e \in open
  /\ sent' = [sent EXCEPT ![e] = Append(@, m)]
  /\ UNCHANGED <<taken, open, told>>

\* The next message of the other end, which may be gone by now.
Take(e) ==
  /\ e \in open
  /\ Len(taken[e]) < Len(sent[Peer(e)])
  /\ taken' = [taken EXCEPT ![e] = Append(@, sent[Peer(e)][Len(@) + 1])]
  /\ UNCHANGED <<sent, open, told>>

Close(e) ==
  /\ open' = open \ {e}
  /\ UNCHANGED <<sent, taken, told>>

Tell(e) ==
  /\ e \in open /\ Peer(e) \notin open
  /\ told' = told \cup {e}
  /\ UNCHANGED <<sent, taken, open>>

Next == \E e \in Ends : (\E m \in Messages : Send(e, m)) \/ Take(e) \/ Close(e) \/ Tell(e)

Spec == Init /\ [][Next]_<<sent, taken, open, told>>
=============================================================================
