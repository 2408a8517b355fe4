---------------------------- MODULE MCEndpoints ----------------------------
(***************************************************************************)
(* The two components that own a bufferevent.  They share no state: in     *)
(* each behaviour one of them runs, and the other stays as it is when it   *)
(* is made, where nothing is due that its fairness could ask for.          *)
(***************************************************************************)
EXTENDS Ipc, MCStream

CONSTANTS one, two, m0, m2
MCSize == [m \in Messages |-> IF m = m0 THEN 0 ELSE 2]
MCMaxSent == [e \in Ends |-> IF e = one THEN 2 ELSE 0]

VARIABLE runs
endpointsVars == <<ipcVars, vars, runs>>

EndpointsInit ==
  /\ IpcInit /\ Init
  /\ runs \in {"ipc", "stream"} /\ (runs = "stream" => reads = Ends)

EndpointsNext ==
  /\ UNCHANGED runs
  /\ \/ runs = "ipc" /\ IpcNext /\ UNCHANGED vars
     \/ runs = "stream" /\ Next /\ UNCHANGED ipcVars

EndpointsSpec ==
  /\ EndpointsInit /\ [][EndpointsNext]_endpointsVars
  /\ IpcFairness /\ Fairness
=============================================================================
