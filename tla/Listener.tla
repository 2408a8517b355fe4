----------------------------- MODULE Listener -----------------------------
(***************************************************************************)
(* ION\Listener: src/src/classes/ION/Listener.c.  The kernel queues the    *)
(* connections of a bound socket, in enabled and disabled state alike;     *)
(* libevent accepts them one after the other and calls the object back,    *)
(* which makes a Stream and invokes the sequence of whenAccepted().  The   *)
(* handlers of the sequence run inside that callback.                      *)
(***************************************************************************)
EXTENDS Naturals, Sequences

CONSTANTS
  Conns,     \* what peers do: connections
  MaxCalls   \* bound: calls of encrypt(), enable() and disable()

ASSUME CallsAssumption == MaxCalls \in Nat

VARIABLES
  evlistener,  \* listener->listener: "new", "on", "off" or "gone"
  enabled,     \* the flag ION_STREAM_STATE_ENABLED
  accept,      \* listener->accept: there is a sequence
  encrypt,     \* listener->encrypt: "none", "good", or "bad" when no SSL is made of it
  backlog,     \* the connections the kernel has queued
  conn,        \* what has become of each connection
  handling,    \* the connections whose handlers run: none or one
  calls        \* bound

listenerVars == <<evlistener, enabled, accept, encrypt, backlog, conn, handling, calls>>

Listening == evlistener \in {"on", "off"}
Become(cs, fate) == [c \in Conns |-> IF c \in cs THEN fate ELSE conn[c]]
Queued == {backlog[k] : k \in DOMAIN backlog}

Call == calls < MaxCalls /\ calls' = calls + 1
-----------------------------------------------------------------------------
(***************************************************************************)
(* Methods, outside of or in a handler.                                    *)
(***************************************************************************)
\* The constructor: an address that does not parse or cannot be bound throws,
\* and the object has no socket.
Construct ==
  /\ evlistener = "new"
  /\ \/ evlistener' = "on" /\ enabled' = TRUE
     \/ evlistener' = "gone" /\ UNCHANGED enabled
  /\ UNCHANGED <<accept, encrypt, backlog, conn, handling, calls>>

WhenAccepted ==
  /\ evlistener # "new" /\ ~accept
  /\ accept' = TRUE
  /\ UNCHANGED <<evlistener, enabled, encrypt, backlog, conn, handling, calls>>

Encrypt(crypto) ==
  /\ Call
  /\ encrypt' = crypto
  /\ UNCHANGED <<evlistener, enabled, accept, backlog, conn, handling>>

EnableListener ==
  /\ Listening /\ ~enabled /\ Call
  /\ evlistener' = "on"
  /\ enabled' = TRUE
  /\ UNCHANGED <<accept, encrypt, backlog, conn, handling>>

DisableListener ==
  /\ Listening /\ enabled /\ Call
  /\ evlistener' = "off"
  /\ enabled' = FALSE
  /\ UNCHANGED <<accept, encrypt, backlog, conn, handling>>

\* The socket is closed, what the kernel had queued is reset.
FreeSocket ==
  /\ evlistener' = "gone"
  /\ enabled' = FALSE
  /\ backlog' = <<>>
  /\ conn' = Become(Queued, "reset")

\* ion_listener_release(), for shutdown() or the destructor.
Shutdown ==
  /\ evlistener # "new"
  /\ FreeSocket
  /\ accept' = FALSE
  /\ UNCHANGED <<encrypt, handling, calls>>
-----------------------------------------------------------------------------
(***************************************************************************)
(* The kernel and libevent.                                                *)
(***************************************************************************)
Connect(c) ==
  /\ conn[c] = "away"
  /\ IF Listening
     THEN conn' = Become({c}, "queued") /\ backlog' = Append(backlog, c)
     ELSE conn' = Become({c}, "reset") /\ UNCHANGED backlog
  /\ UNCHANGED <<evlistener, enabled, accept, encrypt, handling, calls>>

Taking == evlistener = "on" /\ handling = {} /\ backlog # <<>>
Taken(fate) ==
  /\ Taking
  /\ backlog' = Tail(backlog)
  /\ conn' = Become({Head(backlog)}, fate)
  /\ UNCHANGED <<evlistener, enabled, accept, encrypt, calls>>

\* _ion_listener_accept(): without a sequence, or without an SSL handler, the
\* descriptor is closed.
Refuse == Taken("closed") /\ (~accept \/ encrypt = "bad") /\ UNCHANGED handling

\* ... and when no bufferevent can be made it is forgotten.
Forget == Taken("leaked") /\ accept /\ encrypt # "bad" /\ UNCHANGED handling

\* Mutant: a stream is made, and no handler is told.
AcceptSilent ==
  /\ Taken("stream") /\ accept /\ encrypt # "bad"
  /\ UNCHANGED handling

Accept ==
  /\ Taken("told") /\ accept /\ encrypt # "bad"
  /\ handling' = {Head(backlog)}

\* The handlers return; the stream is freed, and closed, unless they kept it.
Accepted(c) ==
  /\ c \in handling
  /\ handling' = {}
  /\ \/ conn' = Become({c}, "served")
     \/ conn' = Become({c}, "closed")
  /\ UNCHANGED <<evlistener, enabled, accept, encrypt, backlog, calls>>

\* _ion_listener_error(), when accept() has failed (no descriptors left, ...):
\* the socket is gone, the sequence stays.
Failed ==
  /\ Taking
  /\ FreeSocket
  /\ UNCHANGED <<accept, encrypt, handling, calls>>
-----------------------------------------------------------------------------
ListenerInit ==
  /\ evlistener = "new" /\ enabled = FALSE
  /\ accept = FALSE
  /\ encrypt = "none"
  /\ backlog = <<>>
  /\ conn = [c \in Conns |-> "away"]
  /\ handling = {}
  /\ calls = 0

ListenerStep == Refuse \/ Forget \/ Accept \/ \E c \in Conns : Accepted(c)

ListenerNext ==
  \/ Construct \/ WhenAccepted \/ (\E crypto \in {"good", "bad"} : Encrypt(crypto))
  \/ EnableListener \/ DisableListener \/ Shutdown
  \/ (\E c \in Conns : Connect(c)) \/ Failed \/ ListenerStep

ListenerFairness == WF_listenerVars(ListenerStep)
ListenerSpec == ListenerInit /\ [][ListenerNext]_listenerVars /\ ListenerFairness
-----------------------------------------------------------------------------
(***************************************************************************)
(* Properties.                                                             *)
(***************************************************************************)

\* Handlers are told of a connection once, when it comes out of the queue, and
\* never while the listener is disabled; and it is not reset under them, by a
\* shutdown() that they or an error of the listener make.
HandedOver ==
  [][\A c \in Conns :
       /\ conn'[c] = "told" /\ conn[c] # "told" => conn[c] = "queued" /\ enabled
       /\ c \in handling => conn'[c] # "reset"]_listenerVars

\* A connection that the kernel has queued is told to the handlers, refused
\* or reset, in the end, unless the listener is disabled for good or memory
\* runs out; and it is handed over properly.
Welcomed ==
  /\ \A c \in Conns : conn[c] = "queued" ~> conn[c] \notin {"queued", "stream", "told"} \/ ~enabled
  /\ HandedOver
=============================================================================
