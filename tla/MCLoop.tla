------------------------------- MODULE MCLoop -------------------------------
(***************************************************************************)
(* The event loop calls back a listener or timers.  They share no state:   *)
(* in each behaviour one of them runs, and the other stays as it is when   *)
(* it is made, where nothing is due that its fairness could ask for.       *)
(***************************************************************************)
EXTENDS Listener, MCTimers

VARIABLE runs
loopVars == <<listenerVars, vars, runs>>

LoopInit ==
  /\ ListenerInit /\ Init
  /\ runs \in {"listener", "timers"} /\ (runs = "listener" => program = {})

LoopNext ==
  /\ UNCHANGED runs
  /\ \/ runs = "listener" /\ ListenerNext /\ UNCHANGED vars
     \/ runs = "timers" /\ Next /\ UNCHANGED listenerVars

LoopSpec ==
  /\ LoopInit /\ [][LoopNext]_loopVars
  /\ ListenerFairness /\ Fairness
=============================================================================
