---------------------------- MODULE MCProcesses ----------------------------
(* One worker is used as documented; the other one is started twice, and stopped. *)
EXTENDS Processes

CONSTANTS w1, w2, e1, f1

MCLiberties == [p \in Children |-> IF p = w2 THEN {"twice", "stop"} ELSE {}]
============================================================================
