-------------------------------- MODULE Ipc --------------------------------
(***************************************************************************)
(* The two ends of an ION\Process\IPC pair: src/src/classes/ION/Process/   *)
(* IPC.c and the message callbacks of src/src/ion/ion_process.c.           *)
(*                                                                         *)
(* A message is sent as one frame, a head and a body, over a stream of     *)
(* bytes that arrives cut anywhere.  The frame parser is a library: it     *)
(* calls back at the head, at each piece of the body and at the end.  The  *)
(* ends live in two processes (or in one, which allows less), so that each *)
(* has its own control: at[e].                                             *)
(***************************************************************************)
EXTENDS Integers, Sequences

CONSTANTS
  Ends,       \* the two objects
  Messages,   \* what can be sent
  Size,       \* Size[m]: the bytes of a message, 0 for the empty string
  Null,       \* a NULL pointer
  Freed,      \* a pointer to freed memory
  Junk,       \* memory that was never written
  MaxSent     \* bound: MaxSent[e], the messages e sends

ASSUME EndsAssumption == \E e, f \in Ends : e # f /\ Ends = {e, f}
ASSUME SizeAssumption == Size \in [Messages -> Nat]
ASSUME BoundAssumption == MaxSent \in [Ends -> Nat]
ASSUME PointersAssumption == Null # Freed /\ Junk \notin Messages

VARIABLES
  sent,        \* the messages each end has sent
  taken,       \* the messages whose frame each end has read to its end
  outgoing,    \* bytes in the output buffer of the bufferevent
  wire,        \* wire[e]: bytes in the kernel, on their way to e
  chunk,       \* the piece of the stream websocket_parser_execute() is in
  frame,       \* the parser: is it in a frame, its length, the offset reached
  frame_body,  \* ipc->frame_body: Null, Freed or the bytes
  on_message,  \* the ends that have asked whenIncoming()
  disconnect,  \* ipc->on_disconnect: "none", "asked" or "told"
  connected,   \* the ends with the flag ION_IPC_CONNECTED
  reads,       \* the ends with EV_READ enabled
  writes,      \* the ends with EV_WRITE enabled
  at,          \* "loop", "parse", or user code: "message", "disconnect"
  open,        \* the objects that exist
  held,        \* ends whose descriptor a third process has inherited
  ipcCrashed   \* ends that have used freed memory or a NULL pointer

traffic == <<sent, taken, outgoing, wire>>
parsing == <<chunk, frame, frame_body>>
asked == <<on_message, disconnect, connected>>
ipcVars == <<traffic, parsing, asked, reads, writes, at, open, held, ipcCrashed>>

Peer(e) == CHOOSE f \in Ends : f # e
Alive(e) == e \in open \ ipcCrashed
UserCode(e) == Alive(e) /\ at[e] \in {"loop", "message", "disconnect"}

\* A byte is known by its place n in its message; n = 0 stands for the head.
Body(m) == [n \in 1 .. Size[m] |-> [of |-> m, n |-> n]]
Framed(m) == <<[of |-> m, n |-> 0]>> \o Body(m)
Between == [busy |-> FALSE, length |-> 0, offset |-> 0]

\* What is made of the bytes of a frame.
Decoded(bytes) ==
  IF \E m \in Messages : Body(m) = bytes THEN CHOOSE m \in Messages : Body(m) = bytes ELSE Junk

Crash(e) == ipcCrashed' = ipcCrashed \cup {e}
            /\ UNCHANGED <<traffic, parsing, asked, reads, writes, at, open, held>>
-----------------------------------------------------------------------------
(***************************************************************************)
(* Methods.                                                                *)
(***************************************************************************)
Send(e, m) ==
  /\ UserCode(e) /\ Len(sent[e]) < MaxSent[e]
  /\ sent' = [sent EXCEPT ![e] = Append(@, m)]
  /\ outgoing' = [outgoing EXCEPT ![e] = @ \o Framed(m)]
  /\ UNCHANGED <<taken, wire, parsing, asked, reads, writes, at, open, held, ipcCrashed>>

WhenIncoming(e) ==
  /\ UserCode(e) /\ e \notin on_message
  /\ on_message' = on_message \cup {e}
  /\ UNCHANGED <<traffic, parsing, disconnect, connected, reads, writes, at, open, held, ipcCrashed>>

WhenDisconnected(e) ==
  /\ UserCode(e) /\ disconnect[e] = "none"
  /\ disconnect' = [disconnect EXCEPT ![e] = "asked"]
  /\ UNCHANGED <<traffic, parsing, on_message, connected, reads, writes, at, open, held, ipcCrashed>>

\* A ChildProcess disables both ends when it is made; the parent enables its
\* own after fork(), the child its own when the callback of start() returns.
EnableIpc(e) ==
  /\ Alive(e) /\ at[e] = "loop" /\ e \notin reads \cup writes /\ e \in connected
  /\ reads' = reads \cup {e}
  /\ writes' = writes \cup {e}
  /\ UNCHANGED <<traffic, parsing, asked, at, open, held, ipcCrashed>>

\* The object is destroyed, or its process ends: what it has not written is
\* lost, what is in the kernel is not.
Close(e) ==
  /\ Alive(e)
  /\ open' = open \ {e}
  /\ outgoing' = [outgoing EXCEPT ![e] = <<>>]
  /\ UNCHANGED <<sent, taken, wire, parsing, asked, reads, writes, at, held, ipcCrashed>>

\* A handler drops the last reference to the object whose callback it is in:
\* ipc and its parser are freed, and used when the handler returns.
Drop(e) ==
  /\ Alive(e) /\ at[e] \in {"message", "disconnect"}
  /\ Crash(e)

\* A worker forked meanwhile has inherited the descriptors; it ends.
SiblingEnds ==
  /\ held # {}
  /\ held' = {}
  /\ UNCHANGED <<traffic, parsing, asked, reads, writes, at, open, ipcCrashed>>
-----------------------------------------------------------------------------
(***************************************************************************)
(* The bufferevents.                                                       *)
(***************************************************************************)
WriteOut(e, k) ==
  /\ Alive(e) /\ at[e] = "loop" /\ e \in writes
  /\ Peer(e) \in open \cup held
  /\ k \in 1 .. Len(outgoing[e])
  /\ wire' = [wire EXCEPT ![Peer(e)] = @ \o SubSeq(outgoing[e], 1, k)]
  /\ outgoing' = [outgoing EXCEPT ![e] = SubSeq(@, k + 1, Len(@))]
  /\ UNCHANGED <<sent, taken, parsing, asked, reads, writes, at, open, held, ipcCrashed>>

\* ion_process_ipc_incoming(): all that has been read, k bytes, is parsed.
ReadIn(e, k) ==
  /\ Alive(e) /\ at[e] = "loop" /\ e \in reads
  /\ k \in 1 .. Len(wire[e])
  /\ chunk' = [chunk EXCEPT ![e] = SubSeq(wire[e], 1, k)]
  /\ wire' = [wire EXCEPT ![e] = SubSeq(@, k + 1, Len(@))]
  /\ at' = [at EXCEPT ![e] = "parse"]
  /\ UNCHANGED <<sent, taken, outgoing, frame, frame_body, asked, reads, writes, open, held, ipcCrashed>>

\* ion_process_ipc_notification(), after an end of file or an error, for
\* which the bufferevent has given up reading or writing.
Notified(e) ==
  /\ Alive(e) /\ at[e] = "loop" /\ Peer(e) \notin open \cup held
  /\ \/ /\ e \in reads /\ wire[e] = <<>>
        /\ reads' = reads \ {e} /\ UNCHANGED writes
     \/ /\ e \in writes /\ outgoing[e] # <<>>
        /\ writes' = writes \ {e} /\ UNCHANGED reads
  /\ IF disconnect[e] = "asked"
     THEN /\ disconnect' = [disconnect EXCEPT ![e] = "told"]
          /\ at' = [at EXCEPT ![e] = "disconnect"]
          /\ UNCHANGED connected
     ELSE connected' = connected \ {e} /\ UNCHANGED <<disconnect, at>>
  /\ UNCHANGED <<traffic, parsing, on_message, open, held, ipcCrashed>>

\* The handlers of whenDisconnected() return.
Disconnected(e) ==
  /\ Alive(e) /\ at[e] = "disconnect"
  /\ connected' = connected \ {e}
  /\ at' = [at EXCEPT ![e] = "loop"]
  /\ UNCHANGED <<traffic, parsing, on_message, disconnect, reads, writes, open, held, ipcCrashed>>
-----------------------------------------------------------------------------
(***************************************************************************)
(* websocket_parser_execute() over one chunk.                              *)
(***************************************************************************)
Parsing(e) == Alive(e) /\ at[e] = "parse"
Whole(e) == frame[e].busy /\ frame[e].offset = frame[e].length

\* ion_process_ipc_message_begin(): nothing is allocated for an empty frame,
\* and frame_body stays what it was.
MessageBegin(e) ==
  /\ Parsing(e) /\ ~frame[e].busy /\ chunk[e] # <<>>
  /\ LET n == Size[chunk[e][1].of]
     IN /\ frame' = [frame EXCEPT ![e] = [busy |-> TRUE, length |-> n, offset |-> 0]]
        /\ frame_body' = IF n = 0 THEN frame_body
                         ELSE [frame_body EXCEPT ![e] = [i \in 1 .. n |-> Junk]]
  /\ chunk' = [chunk EXCEPT ![e] = Tail(@)]
  /\ UNCHANGED <<traffic, asked, reads, writes, at, open, held, ipcCrashed>>

\* Mutant: every piece is copied to the start.
PlaceStart(e) == 0

\* ion_process_ipc_message_body(): the piece is copied to its offset.
Place(e) == frame[e].offset

MessageBody(e) ==
  /\ Parsing(e) /\ frame[e].busy /\ ~Whole(e) /\ chunk[e] # <<>>
  /\ LET rest == frame[e].length - frame[e].offset
         n == IF rest < Len(chunk[e]) THEN rest ELSE Len(chunk[e])
     IN /\ frame_body' = [frame_body EXCEPT ![e] =
             [i \in DOMAIN @ |-> IF i \in Place(e) + 1 .. Place(e) + n
                                 THEN chunk[e][i - Place(e)] ELSE @[i]]]
        /\ frame' = [frame EXCEPT ![e].offset = @ + n]
        /\ chunk' = [chunk EXCEPT ![e] = SubSeq(@, n + 1, Len(@))]
  /\ UNCHANGED <<traffic, asked, reads, writes, at, open, held, ipcCrashed>>

\* ion_process_ipc_message_end(): a Message for who listens, then the body is
\* freed; the pointer stays.
MessageEnd(e) ==
  /\ Parsing(e) /\ Whole(e) /\ frame_body[e] \notin {Null, Freed}
  /\ taken' = [taken EXCEPT ![e] = Append(@, Decoded(frame_body[e]))]
  /\ frame' = [frame EXCEPT ![e] = Between]
  /\ frame_body' = [frame_body EXCEPT ![e] = Freed]
  /\ at' = [at EXCEPT ![e] = IF e \in on_message THEN "message" ELSE "parse"]
  /\ UNCHANGED <<sent, outgoing, wire, chunk, asked, reads, writes, open, held, ipcCrashed>>

\* ... of an empty message: what frame_body points to is not there.
EmptyMessage(e) ==
  /\ Parsing(e) /\ Whole(e) /\ frame_body[e] \in {Null, Freed}
  /\ Crash(e)

\* Mutant: what follows the message in the chunk is lost.
MessageHandledLast(e) ==
  /\ Alive(e) /\ at[e] = "message"
  /\ at' = [at EXCEPT ![e] = "loop"]
  /\ chunk' = [chunk EXCEPT ![e] = <<>>]
  /\ UNCHANGED <<traffic, frame, frame_body, asked, reads, writes, open, held, ipcCrashed>>

\* The handlers of a message return; the parser goes on.
MessageHandled(e) ==
  /\ Alive(e) /\ at[e] = "message"
  /\ at' = [at EXCEPT ![e] = "parse"]
  /\ UNCHANGED <<traffic, parsing, asked, reads, writes, open, held, ipcCrashed>>

Parsed(e) ==
  /\ Parsing(e) /\ chunk[e] = <<>> /\ ~Whole(e)
  /\ at' = [at EXCEPT ![e] = "loop"]
  /\ UNCHANGED <<traffic, parsing, asked, reads, writes, open, held, ipcCrashed>>
-----------------------------------------------------------------------------
IpcProgram(e) ==
  \/ \E m \in Messages : Send(e, m)
  \/ WhenIncoming(e) \/ WhenDisconnected(e) \/ EnableIpc(e) \/ Close(e) \/ Drop(e)

IpcMachine(e) ==
  \/ \E k \in 1 .. Len(outgoing[e]) : WriteOut(e, k)
  \/ \E k \in 1 .. Len(wire[e]) : ReadIn(e, k)
  \/ Notified(e) \/ Disconnected(e)
  \/ MessageBegin(e) \/ MessageBody(e) \/ MessageEnd(e) \/ EmptyMessage(e)
  \/ MessageHandled(e) \/ Parsed(e)

\* ion_ipc_create(), for IPC::create() or for a ChildProcess.
IpcInit ==
  /\ sent = [e \in Ends |-> <<>>] /\ taken = [e \in Ends |-> <<>>]
  /\ outgoing = [e \in Ends |-> <<>>] /\ wire = [e \in Ends |-> <<>>]
  /\ chunk = [e \in Ends |-> <<>>]
  /\ frame = [e \in Ends |-> Between]
  /\ frame_body = [e \in Ends |-> Null]
  /\ on_message = {}
  /\ disconnect = [e \in Ends |-> "none"]
  /\ connected = Ends
  /\ \/ reads = Ends /\ held = {}
     \/ reads = {} /\ held \in SUBSET Ends
  /\ writes = reads
  /\ at = [e \in Ends |-> "loop"]
  /\ open = Ends
  /\ ipcCrashed = {}

IpcNext == SiblingEnds \/ \E e \in Ends : IpcProgram(e) \/ IpcMachine(e)

\* The library runs on and handlers return.
IpcFairness == \A e \in Ends : WF_ipcVars(IpcMachine(e))

IpcSpec == IpcInit /\ [][IpcNext]_ipcVars
-----------------------------------------------------------------------------
(***************************************************************************)
(* Properties.                                                             *)
(***************************************************************************)

\* The pair implements a channel: wherever the stream is cut, whatever the
\* handlers send and whoever dies, messages reach an end whole, once and in
\* order, and no end is told of a disconnection that has not happened.
C == INSTANCE Channel WITH told <- {e \in Ends : disconnect[e] = "told"}
IsChannel == C!Spec

\* While both ends live what is sent is received; and an end that asked while
\* connected is told when the other one, and every copy of its descriptor, is
\* gone.
Reachable(e) == e \in reads /\ Alive(e)
Served == \A e \in Ends :
  /\ e \in writes /\ Reachable(Peer(e)) ~>
       \/ taken[Peer(e)] = sent[e]
       \/ ~Alive(e) \/ ~Reachable(Peer(e)) 
  /\ /\ disconnect[e] = "asked" /\ e \in connected /\ Reachable(e)
     /\ Peer(e) \notin open \cup held
     ~> disconnect[e] = "told" \/ ~Alive(e)
=============================================================================
