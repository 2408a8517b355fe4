------------------------------- MODULE Stream -------------------------------
(***************************************************************************)
(* One ION\Stream: src/src/classes/ION/Stream.c and src/src/ion/           *)
(* ion_stream.c over a libevent bufferevent (external).                    *)
(*                                                                         *)
(* A stream hands out at most one deferred per slot (read, flush, connect, *)
(* shutdown) and libevent's callbacks settle them.  Settling a deferred    *)
(* runs its handlers on the spot: user code, which may call any method of  *)
(* the same stream before the callback goes on.  Each activation of a C    *)
(* function that settles deferreds is a record on the stack: the tasks it  *)
(* has left, and whether the handlers of the last deferred are running.    *)
(*                                                                         *)
(* Tokens are one byte long (the search itself is in another module);      *)
(* encryption and the lifetime of the PHP object are left out.             *)
(***************************************************************************)
EXTENDS Integers, Sequences, FiniteSets

CONSTANTS
  Deferreds,   \* the deferred objects
  None,        \* a NULL pointer
  Text, Token, \* bytes: an ordinary one, and the line delimiter
  Origins,     \* how the stream came to be: see Origin
  Lengths,     \* the arguments of read(), get(), and readLine()'s max_length
  Sizes,       \* the arguments of setInputMaxSize()
  Liberties,   \* the unguarded things the program does: see LibertyNames
  MaxIn,       \* bound: bytes in the input buffer
  MaxOut,      \* bound: bytes in the output buffer
  MaxDepth     \* bound: user code at this stack depth calls nothing deeper

LibertyNames == {
  "force",      \* shutdown(true)
  "disable",    \* disable()
  "cancel",     \* cancel() of a deferred of the stream
  "reconnect",  \* connect() while a connect() is pending
  "refill",     \* write(), sendFile() or flush() in the handlers of a flush
  "late",       \* read(), readLine() or readAll() on a closed stream
  "take",       \* get(), getAll() or getLine() while a readLine() is pending
  "resize",     \* setInputMaxSize() after read()
  "append"}     \* appendToInput()

Origin == {"accepted",  \* by a Listener, on a connected descriptor
           "dialed",    \* Stream::socket() with a numeric address
           "named",     \* ... with a host name: no descriptor until it is resolved
           "pair"}      \* Stream::pair(): no descriptor, and callbacks are put off

Slots == {"read", "flush", "connect", "shutdown"}
Bytes == {Text, Token}

ASSUME TokensAssumption ==
  /\ None \notin Deferreds \cup Slots \cup [limit : Nat, offset : Nat]
  /\ Text # Token
ASSUME OriginsAssumption == Origins \subseteq Origin
ASSUME ArgumentsAssumption == Lengths \subseteq Nat \ {0} /\ Sizes \subseteq Nat
ASSUME LibertiesAssumption == Liberties \subseteq LibertyNames
ASSUME BoundsAssumption == MaxIn \in Nat /\ MaxOut \in Nat /\ MaxDepth \in Nat

VARIABLES
  origin,      \* constant after Init
  state,       \* the flags of struct _ion_stream that change
  slot,        \* slot[s]: the deferred in that field, or None
  kind,        \* kind[d]: the slot d was made for while pending, None when not
  length,      \* bytes read() asked for; nothing resets it
  token,       \* None, or [limit, offset] of the readLine() pending
  inputSize,   \* input_size
  incoming,    \* the incoming() sequence exists
  in, out,     \* the bytes in the input buffer; how many are in the output one
  low, high,   \* read watermarks of the bufferevent
  rd, wr,      \* EV_READ and EV_WRITE are enabled
  fd,          \* the bufferevent has a descriptor
  dialing,     \* a connect is in progress
  due,         \* of a pair: the callbacks that libevent has put off
  stack        \* activations, top last

bev == <<in, out, low, high, rd, wr, fd, dialing, due>>
fields == <<state, slot, kind, length, token, inputSize, incoming>>
vars == <<origin, fields, bev, stack>>

Flags == {"FLUSHED", "HAS_DATA", "CLOSE_ON_FLUSH", "ENABLED", "CONNECTED",
          "EOF", "ERROR", "SHUTDOWN", "SUSPENDED"}
Closed == state \cap {"EOF", "ERROR", "SHUTDOWN"} # {}   \* ION_STREAM_STATE_CLOSED

(***************************************************************************)
(* What an activation has left to do.                                      *)
(*   a slot    settle the deferred in it, if there is one                  *)
(*   input     _ion_stream_input() from its start                          *)
(*   hasdata   ... past the read: refresh HAS_DATA                         *)
(*   incoming  ... invoke the incoming() sequence, if it is due            *)
(*   flushed   _ion_stream_output() past the flush                         *)
(*   close     ion_stream_close_fd()                                       *)
(***************************************************************************)
Task == Slots \cup {"input", "hasdata", "incoming", "flushed", "close"}
Activation == [tasks : Seq(Task), user : BOOLEAN]

Top == stack[Len(stack)]
Below == SubSeq(stack, 1, Len(stack) - 1)
Call(tasks) == stack' = Append(stack, [tasks |-> tasks, user |-> FALSE])
Continue(tasks) == stack' = [stack EXCEPT ![Len(stack)] = [tasks |-> tasks, user |-> FALSE]]
RunHandlers(tasks) == stack' = [stack EXCEPT ![Len(stack)] = [tasks |-> tasks, user |-> TRUE]]

AtTask(task) == stack # <<>> /\ ~Top.user /\ Top.tasks # <<>> /\ Head(Top.tasks) = task

\* Some activation is between the handlers of a flush and what follows them.
Flushing == \E k \in DOMAIN stack : "flushed" \in {stack[k].tasks[i] : i \in DOMAIN stack[k].tasks}

\* The destructor of a deferred of slot s: it empties the slot whichever
\* deferred is in it.
SlotFreed(s) == [slot EXCEPT ![s] = None]
TokenFreed(s) == IF s = "read" /\ slot["read"] # None THEN None ELSE token

\* The deferred in slot s is settled: destructor first, then its handlers.
SettleSlot(s, rest) ==
  /\ kind' = [kind EXCEPT ![slot[s]] = None]
  /\ slot' = SlotFreed(s)
  /\ token' = TokenFreed(s)
  /\ RunHandlers(rest)
-----------------------------------------------------------------------------
(***************************************************************************)
(* The search for the delimiter, from offset, up to limit bytes of the     *)
(* buffer when it holds that many; 0 is no limit.                          *)
(***************************************************************************)
Delimiters(offset, limit) ==
  LET end == offset + limit - 1
  IN  {p \in DOMAIN in : /\ in[p] = Token
                         /\ p > offset
                         /\ limit > 0 /\ end < Len(in) - 1 => p <= end}

Found(offset, limit) == offset < Len(in) /\ Delimiters(offset, limit) # {}
Position(offset, limit) ==
  CHOOSE p \in Delimiters(offset, limit) : \A q \in Delimiters(offset, limit) : p <= q

\* ION_STREAM_TOKEN_LIMIT, and the offset the next search starts from; an
\* early return of the search leaves the offset alone.
LimitReached(offset, limit) == limit > 0 /\ offset < Len(in) /\ Len(in) >= limit
Resumed(offset) == IF offset < Len(in) THEN Len(in) ELSE offset

Dropped(n) == SubSeq(in, n + 1, Len(in))
-----------------------------------------------------------------------------
(***************************************************************************)
(* Events: libevent calls back from the loop, so with an empty stack.      *)
(***************************************************************************)
EventLoop == stack = <<>>
UserRuns == stack # <<>> => Top.user

\* Bytes move when the loop finds the descriptor ready.  Those of a pair go
\* over as soon as an end writes or reads, so while user code runs.
Moving == IF origin = "pair" THEN UserRuns ELSE EventLoop /\ fd /\ ~dialing

Callbacks == {"input", "output"}
CallbackTasks(c) == IF c = "input" THEN <<"input">> ELSE <<"flush", "flushed">>

\* libevent calls back; for a pair it only schedules the callback.
CallBack(c) ==
  IF origin = "pair"
  THEN due' = due \cup {c} /\ UNCHANGED stack
  ELSE Call(CallbackTasks(c)) /\ UNCHANGED due

\* ... and later runs it, the input first, whatever the program has done.
PutOff(c) ==
  /\ EventLoop /\ c \in due /\ (c = "output" => "input" \notin due)
  /\ due' = due \ {c}
  /\ Call(CallbackTasks(c))
  /\ UNCHANGED <<origin, fields, in, out, low, high, rd, wr, fd, dialing>>

\* Bytes arrive; the input callback is called from the low watermark on.
Arrive(data) ==
  /\ Moving /\ rd
  /\ Len(in) + Len(data) <= MaxIn
  /\ high = 0 \/ Len(in) + Len(data) <= high
  /\ in' = in \o data
  /\ IF Len(in') >= low THEN CallBack("input") ELSE UNCHANGED <<stack, due>>
  /\ UNCHANGED <<origin, fields, out, low, high, rd, wr, fd, dialing>>

\* Mutant: EOF is not reported to the read.
PeerClosesUnread ==
  /\ EventLoop /\ fd /\ ~dialing /\ rd
  /\ rd' = FALSE
  /\ state' = state \cup {"EOF"}
  /\ Call(<<"shutdown">>)
  /\ UNCHANGED <<origin, slot, kind, length, token, inputSize, incoming,
                 in, out, low, high, wr, fd, dialing, due>>

\* Mutant: EOF is reported to the read only.
PeerClosesQuietly ==
  /\ EventLoop /\ fd /\ ~dialing /\ rd
  /\ rd' = FALSE
  /\ state' = state \cup {"EOF"}
  /\ Call(<<"read">>)
  /\ UNCHANGED <<origin, slot, kind, length, token, inputSize, incoming,
                 in, out, low, high, wr, fd, dialing, due>>

\* EOF: libevent stops reading and notifies.  A readAll() gets the input.
PeerCloses ==
  /\ EventLoop /\ fd /\ ~dialing /\ rd
  /\ rd' = FALSE
  /\ state' = state \cup {"EOF"}
  /\ in' = IF slot["read"] # None /\ token = None /\ length = 0 THEN <<>> ELSE in
  /\ Call(<<"read", "shutdown">>)
  /\ UNCHANGED <<origin, slot, kind, length, token, inputSize, incoming,
                 out, low, high, wr, fd, dialing, due>>

\* An error of the socket, while reading, writing or connecting, or of the
\* lookup of the host name.
Breaks ==
  /\ EventLoop /\ (fd \/ dialing)
  /\ \/ dialing /\ dialing' = FALSE /\ UNCHANGED <<rd, wr>>
     \/ ~dialing /\ rd /\ rd' = FALSE /\ UNCHANGED <<wr, dialing>>
     \/ ~dialing /\ wr /\ out > 0 /\ wr' = FALSE /\ UNCHANGED <<rd, dialing>>
  /\ state' = state \cup {"ERROR"}
  /\ Call(<<"connect", "read", "flush", "shutdown">>)
  /\ UNCHANGED <<origin, slot, kind, length, token, inputSize, incoming,
                 in, out, low, high, fd, due>>

Connected ==
  /\ EventLoop /\ fd /\ dialing
  /\ dialing' = FALSE
  /\ state' = state \cup {"CONNECTED"}
  /\ Call(<<"connect">>)
  /\ UNCHANGED <<origin, slot, kind, length, token, inputSize, incoming,
                 in, out, low, high, rd, wr, fd, due>>

\* The host name is resolved: the connect goes on with a descriptor.
Resolved ==
  /\ EventLoop /\ origin = "named" /\ dialing /\ ~fd
  /\ fd' = TRUE
  /\ UNCHANGED <<origin, fields, stack, in, out, low, high, rd, wr, dialing, due>>

\* n bytes leave; the output callback is called when none is left.
Drain(n) ==
  /\ Moving /\ wr
  /\ n \in 1 .. out
  /\ out' = out - n
  /\ IF out' = 0 THEN CallBack("output") ELSE UNCHANGED <<stack, due>>
  /\ UNCHANGED <<origin, fields, in, low, high, rd, wr, fd, dialing>>

Event ==
  \/ \E b \in Bytes : Arrive(<<b>>) \/ \E c \in Bytes : Arrive(<<b, c>>)
  \/ PeerCloses \/ Breaks \/ Connected \/ Resolved
  \/ \E n \in 1 .. MaxOut : Drain(n)
  \/ \E c \in Callbacks : PutOff(c)
-----------------------------------------------------------------------------
(***************************************************************************)
(* The C functions run on.                                                 *)
(***************************************************************************)
Machine(s) == AtTask(s) /\ UNCHANGED <<origin, inputSize, incoming>>

\* if(stream->slot) ion_promisor_...(stream->slot): done, or failed.
SettleTask(s) ==
  /\ Machine(s)
  /\ slot[s] # None
  /\ SettleSlot(s, Tail(Top.tasks))
  /\ UNCHANGED <<state, length, bev>>

SkipTask(s) ==
  /\ Machine(s)
  /\ slot[s] = None
  /\ Continue(Tail(Top.tasks))
  /\ UNCHANGED <<state, slot, kind, length, token, bev>>

\* _ion_stream_input() without a read.
InputIdle ==
  /\ Machine("input") /\ slot["read"] = None
  /\ state' = state \cup {"HAS_DATA"}
  /\ Continue(<<"incoming">>)
  /\ UNCHANGED <<slot, kind, length, token, bev>>

\* ... with a readLine(): the line with or without its delimiter is taken, or
\* the limit is reached, or the search will go on from where it stopped.
InputLine ==
  /\ Machine("input") /\ slot["read"] # None /\ token # None
  /\ IF Found(token.offset, token.limit)
     THEN \E n \in {Position(token.offset, token.limit)} \cup {Position(token.offset, token.limit) - 1} :
            /\ in' = Dropped(n)
            /\ SettleSlot("read", <<"hasdata", "incoming">>)
     ELSE /\ UNCHANGED in
          /\ IF LimitReached(token.offset, token.limit)
             THEN SettleSlot("read", <<"hasdata", "incoming">>)
             ELSE /\ token' = [token EXCEPT !.offset = Resumed(@)]
                  /\ Continue(<<"hasdata", "incoming">>)
                  /\ UNCHANGED <<slot, kind>>
  /\ UNCHANGED <<state, length, out, low, high, rd, wr, fd, dialing, due>>

\* Mutant: the low watermark of the read stays.
InputReadKeepsLow ==
  /\ Machine("input") /\ slot["read"] # None /\ token = None
  /\ IF length > 0 /\ Len(in) >= length
     THEN /\ in' = Dropped(length)
          /\ high' = inputSize
          /\ SettleSlot("read", <<"hasdata", "incoming">>)
     ELSE /\ Continue(<<"hasdata", "incoming">>)
          /\ UNCHANGED <<slot, kind, token, in, high>>
  /\ UNCHANGED <<state, length, out, low, rd, wr, fd, dialing, due>>

\* ... with a read(), which needs length bytes, or a readAll(), which waits.
InputRead ==
  /\ Machine("input") /\ slot["read"] # None /\ token = None
  /\ IF length > 0 /\ Len(in) >= length
     THEN /\ in' = Dropped(length)
          /\ low' = 0 /\ high' = inputSize
          /\ SettleSlot("read", <<"hasdata", "incoming">>)
     ELSE /\ Continue(<<"hasdata", "incoming">>)
          /\ UNCHANGED <<slot, kind, token, in, low, high>>
  /\ UNCHANGED <<state, length, out, rd, wr, fd, dialing, due>>

\* Mutant: the flag is only ever raised.
HasDataRaised ==
  /\ Machine("hasdata")
  /\ state' = state \cup {"HAS_DATA"}
  /\ Continue(Tail(Top.tasks))
  /\ UNCHANGED <<slot, kind, length, token, bev>>

HasData ==
  /\ Machine("hasdata")
  /\ state' = IF in = <<>> THEN state \ {"HAS_DATA"} ELSE state \cup {"HAS_DATA"}
  /\ Continue(Tail(Top.tasks))
  /\ UNCHANGED <<slot, kind, length, token, bev>>

IncomingDue == /\ slot["read"] = None
               /\ incoming
               /\ "SUSPENDED" \notin state /\ "HAS_DATA" \in state

Incoming ==
  /\ Machine("incoming")
  /\ IF IncomingDue THEN RunHandlers(<<>>) ELSE Continue(<<>>)
  /\ UNCHANGED <<state, slot, kind, length, token, bev>>

\* Mutant: the shutdown that waited is forgotten.
FlushedStaysOpen ==
  /\ Machine("flushed")
  /\ slot' = SlotFreed("flush")
  /\ state' = state \cup {"FLUSHED"}
  /\ Continue(<<>>)
  /\ UNCHANGED <<kind, length, token, bev>>

\* stream->flush = NULL, whatever the handlers have put there; FLUSHED,
\* whatever they have written; and the shutdown that waited for this.
Flushed ==
  /\ Machine("flushed")
  /\ slot' = SlotFreed("flush")
  /\ state' = state \cup {"FLUSHED"}
  /\ Continue(IF "CLOSE_ON_FLUSH" \in state THEN <<"close">> ELSE <<>>)
  /\ UNCHANGED <<kind, length, token, bev>>

\* ion_stream_close_fd(): without a descriptor nobody is told.
CloseFd ==
  /\ Machine("close")
  /\ rd' = FALSE /\ wr' = FALSE
  /\ state' = state \cup {"SHUTDOWN"}
  /\ fd' = FALSE
  /\ dialing' = (dialing /\ ~fd)
  /\ Continue(IF fd THEN <<"shutdown">> ELSE <<>>)
  /\ UNCHANGED <<slot, kind, length, token, in, out, low, high, due>>

\* Handlers return to the function that settled their deferred, or the
\* function returns to its caller.
Return ==
  /\ stack # <<>>
  /\ \/ Top.user /\ Continue(Top.tasks)
     \/ ~Top.user /\ Top.tasks = <<>> /\ stack' = Below
  /\ UNCHANGED <<origin, fields, bev>>

RunOn == \/ \E s \in Slots : SettleTask(s) \/ SkipTask(s)
         \/ InputIdle \/ InputLine \/ InputRead \/ HasData \/ Incoming
         \/ Flushed \/ CloseFd \/ Return
-----------------------------------------------------------------------------
(***************************************************************************)
(* The methods, called by handlers or from elsewhere in the event loop.    *)
(***************************************************************************)
MayCall == UserRuns /\ Len(stack) < MaxDepth
Method == UserRuns /\ UNCHANGED <<origin, stack>>

May(liberty) == liberty \in Liberties

NewDeferred(s) == \E d \in Deferreds :
  /\ kind[d] = None
  /\ kind' = [kind EXCEPT ![d] = s]
  /\ slot' = [slot EXCEPT ![s] = d]

Connect ==
  /\ Method
  /\ "CONNECTED" \notin state
  /\ slot["connect"] = None \/ May("reconnect")
  /\ NewDeferred("connect")
  /\ UNCHANGED <<state, length, token, inputSize, incoming, bev>>

\* The bytes are there (and returned), or a deferred waits for them.
Read(n) ==
  /\ Method
  /\ slot["read"] = None
  /\ Closed => May("late")
  /\ IF Len(in) >= n
     THEN /\ in' = Dropped(n)
          /\ UNCHANGED <<slot, kind, length, low, high>>
     ELSE /\ NewDeferred("read")
          /\ length' = n
          /\ low' = n
          /\ high' = IF inputSize >= n THEN inputSize ELSE n
          /\ UNCHANGED in
  /\ UNCHANGED <<state, token, inputSize, incoming, out, rd, wr, fd, dialing, due>>

ReadLine(limit) ==
  /\ Method
  /\ slot["read"] = None
  /\ Closed => May("late")
  /\ IF Found(0, limit)
     THEN /\ in' = Dropped(Position(0, limit))
          /\ UNCHANGED <<slot, kind, token>>
     ELSE /\ ~LimitReached(0, limit)
          /\ NewDeferred("read")
          /\ token' = [limit |-> limit, offset |-> Resumed(0)]
          /\ UNCHANGED in
  /\ UNCHANGED <<state, length, inputSize, incoming, out, low, high, rd, wr, fd, dialing, due>>

ReadAll ==
  /\ Method
  /\ slot["read"] = None
  /\ Closed => May("late")
  /\ IF state \cap {"EOF", "ERROR"} # {}
     THEN /\ in' = <<>>
          /\ UNCHANGED <<slot, kind, length>>
     ELSE /\ NewDeferred("read")
          /\ length' = 0
          /\ UNCHANGED in
  /\ UNCHANGED <<state, token, inputSize, incoming, out, low, high, rd, wr, fd, dialing, due>>

\* get(), getAll(), getLine() in one of its modes.
Take(n) ==
  /\ Method
  /\ token = None \/ May("take")
  /\ n \in 1 .. Len(in)
  /\ in' = Dropped(n)
  /\ UNCHANGED <<fields, out, low, high, rd, wr, fd, dialing, due>>

\* Mutant: FLUSHED stays.
WriteUnmarked ==
  /\ Method
  /\ ~Closed
  /\ Flushing => May("refill")
  /\ out < MaxOut /\ out' = out + 1
  /\ UNCHANGED <<fields, in, low, high, rd, wr, fd, dialing, due>>

Write ==
  /\ Method
  /\ ~Closed
  /\ Flushing => May("refill")
  /\ out < MaxOut /\ out' = out + 1
  /\ state' = state \ {"FLUSHED"}
  /\ UNCHANGED <<slot, kind, length, token, inputSize, incoming, in, low, high, rd, wr, fd, dialing, due>>

\* appendToInput(): FLUSHED is cleared, nobody is called.
AppendToInput(b) ==
  /\ Method
  /\ ~Closed
  /\ May("append")
  /\ Len(in) < MaxIn /\ in' = Append(in, b)
  /\ state' = state \ {"FLUSHED"}
  /\ UNCHANGED <<slot, kind, length, token, inputSize, incoming, out, low, high, rd, wr, fd, dialing, due>>

\* Mutant: each call makes a deferred of its own.
FlushAgain ==
  /\ Method
  /\ "FLUSHED" \notin state
  /\ Flushing => May("refill")
  /\ Closed => May("late")
  /\ NewDeferred("flush")
  /\ UNCHANGED <<state, length, token, inputSize, incoming, bev>>

\* flush() has no guard on the state of the stream.
Flush ==
  /\ Method
  /\ slot["flush"] = None /\ "FLUSHED" \notin state
  /\ Flushing => May("refill")
  /\ Closed => May("late")
  /\ NewDeferred("flush")
  /\ UNCHANGED <<state, length, token, inputSize, incoming, bev>>

\* Mutant: closes without waiting.
ShutdownNow(force) ==
  /\ MayCall
  /\ ~Closed
  /\ force => May("force")
  /\ Call(<<"close">>)
  /\ UNCHANGED <<origin, fields, bev>>

Shutdown(force) ==
  /\ MayCall
  /\ ~Closed
  /\ force => May("force")
  /\ IF "FLUSHED" \in state \/ force
     THEN /\ Call(<<"close">>)
          /\ UNCHANGED <<fields, rd>>
     ELSE /\ rd' = FALSE
          /\ state' = state \cup {"CLOSE_ON_FLUSH"}
          /\ UNCHANGED <<slot, kind, length, token, inputSize, incoming, stack>>
  /\ UNCHANGED <<origin, in, out, low, high, wr, fd, dialing, due>>

\* closed(): a deferred unless the stream is closed already.
AwaitClosed ==
  /\ Method
  /\ slot["shutdown"] = None /\ ~Closed
  /\ NewDeferred("shutdown")
  /\ UNCHANGED <<state, length, token, inputSize, incoming, bev>>

SetInputMaxSize(n) ==
  /\ Method
  /\ length = 0 \/ May("resize")
  /\ inputSize' = n
  /\ low' = length /\ high' = IF n >= length THEN n ELSE length
  /\ UNCHANGED <<state, slot, kind, length, token, incoming, in, out, rd, wr, fd, dialing, due>>

Enable ==
  /\ Method
  /\ rd' = TRUE /\ wr' = TRUE
  /\ state' = state \cup {"ENABLED"}
  /\ UNCHANGED <<slot, kind, length, token, inputSize, incoming, in, out, low, high, fd, dialing, due>>

Disable ==
  /\ Method
  /\ May("disable")
  /\ rd' = FALSE /\ wr' = FALSE
  /\ state' = state \ {"ENABLED"}
  /\ UNCHANGED <<slot, kind, length, token, inputSize, incoming, in, out, low, high, fd, dialing, due>>

MakeIncoming ==
  /\ Method
  /\ incoming' = TRUE
  /\ UNCHANGED <<state, slot, kind, length, token, inputSize, bev>>

Suspend ==
  /\ Method
  /\ state' = state \cup {"SUSPENDED"}
  /\ UNCHANGED <<slot, kind, length, token, inputSize, incoming, bev>>

Resume ==
  /\ Method
  /\ state' = state \ {"SUSPENDED"}
  /\ UNCHANGED <<slot, kind, length, token, inputSize, incoming, bev>>

\* Deferred::cancel() on a deferred of the stream, wherever it is: the
\* destructor works on the slot, and the handlers run.
CancelDeferred(d) ==
  /\ MayCall
  /\ May("cancel")
  /\ kind[d] # None
  /\ kind' = [kind EXCEPT ![d] = None]
  /\ slot' = SlotFreed(kind[d])
  /\ token' = TokenFreed(kind[d])
  /\ stack' = Append(stack, [tasks |-> <<>>, user |-> TRUE])
  /\ UNCHANGED <<origin, state, length, inputSize, incoming, bev>>

Program ==
  \/ Connect \/ ReadAll \/ Write \/ Flush \/ AwaitClosed
  \/ \E n \in Lengths : Read(n) \/ Take(n)
  \/ \E n \in Lengths \cup {0} : ReadLine(n)
  \/ \E b \in Bytes : AppendToInput(b)
  \/ \E force \in BOOLEAN : Shutdown(force)
  \/ \E n \in Sizes : SetInputMaxSize(n)
  \/ Enable \/ Disable \/ MakeIncoming \/ Suspend \/ Resume
  \/ \E d \in Deferreds : CancelDeferred(d)
-----------------------------------------------------------------------------
\* The flags ion_stream_new_ex() starts with.
InitialFlags(o) == {"FLUSHED", "ENABLED"} \cup IF o \in {"accepted", "pair"} THEN {"CONNECTED"} ELSE {}

Init ==
  /\ origin \in Origins
  /\ state = InitialFlags(origin)
  /\ slot = [s \in Slots |-> None]
  /\ kind = [d \in Deferreds |-> None]
  /\ length = 0 /\ token = None /\ inputSize = 0 /\ incoming = FALSE
  /\ in = <<>> /\ out = 0 /\ low = 0 /\ high = 0
  /\ rd = TRUE /\ wr = TRUE
  /\ fd = (origin \in {"accepted", "dialed"})
  /\ dialing = (origin \in {"dialed", "named"})
  /\ due = {}
  /\ stack = <<>>

Next == Event \/ RunOn \/ Program

Spec == Init /\ [][Next]_vars
-----------------------------------------------------------------------------
(***************************************************************************)
(* Properties.                                                             *)
(***************************************************************************)

\* A deferred that is pending is in its slot, where a callback will find it,
\* and a slot holds a pending deferred: no deferred is orphaned, and none is
\* settled twice.
NoOrphan == \A d \in Deferreds, s \in Slots : kind[d] = s <=> slot[s] = d

\* flush() answers that everything is written only when it is.  (The output
\* callback of a pair may come late, and mark what was written meanwhile.)
FlushedIsEmpty == "FLUSHED" \in state /\ origin # "pair" => out = 0

\* Between two events nobody waits for the shutdown of a closed stream, if it
\* was made on a descriptor.
ClosedAnnounced ==
  EventLoop /\ Closed /\ origin \in {"accepted", "dialed"} => slot["shutdown"] = None

\* Between two events nobody waits for bytes after EOF.
NoReadPastEOF == EventLoop /\ "EOF" \in state => slot["read"] = None

\* Between two events a read() or a readLine() waits only for what is not in
\* the input buffer yet, or is about to be told.
NoOverdueRead ==
  EventLoop /\ due = {} /\ slot["read"] # None =>
    IF token # None THEN Token \notin {in[p] : p \in DOMAIN in} ELSE length > 0 => Len(in) < length

\* The incoming() sequence is invoked only when there are bytes to take,
\* but for a pair: the program may take them before the callback comes.
IncomingHasData == AtTask("incoming") /\ IncomingDue /\ origin # "pair" => in # <<>>

\* Without shutdown(true), the descriptor is closed only when everything that
\* was written has left; a pair, which has none, may be disabled before.
NothingCutOff == AtTask("close") /\ origin # "pair" => out = 0

\* What waits for the output ends: a flush() that is awaited, and a
\* shutdown(), which then has closed the stream.
OutputEnds ==
  /\ slot["flush"] # None ~> slot["flush"] = None
  /\ "CLOSE_ON_FLUSH" \in state ~> Closed

(***************************************************************************)
(* Fairness: the C code runs on, handlers return, and the peer catches up  *)
(* with the program again and again.                                       *)
(***************************************************************************)
Fairness == /\ WF_vars(RunOn)
            /\ SF_vars(Drain(out))
FairSpec == Spec /\ Fairness
=============================================================================
