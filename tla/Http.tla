------------------------------- MODULE Http -------------------------------
(***************************************************************************)
(* ION\HTTP\Request and ION\HTTP\Response: the methods of Message.c,       *)
(* Request.c and Response.c under src/src/classes/ION/HTTP, building and   *)
(* parsing in src/src/ion/ion_http.c.                                      *)
(*                                                                         *)
(* To build, the texts of the head are first collected in an array, the    *)
(* pipe, which is made larger before a header that may not fit; the length *)
(* of the message is summed meanwhile, and then everything is copied to a  *)
(* string of that length.  The library http_parser calls back for the      *)
(* start line, each header and each piece of the body.                     *)
(***************************************************************************)
EXTENDS Uri, SequencesExt

CONSTANTS
  Atoms,           \* items of values, pieces of bodies
  Lower, Camel,    \* of a spelling the lower case name; the spelling that is sent
  LengthHeader, EncodingHeader,   \* content-length, transfer-encoding
  Lists,           \* lists of values the program gives to a header
  TheLength,       \* the value that is the length of the body
  Chunked,         \* the value "chunked"
  Methods, Get, Versions, DefaultVersion,
  Statuses,        \* the codes given to withStatus()
  Reasons,         \* Reasons[code]: the phrases of pion_http_reason()
  Phrases,         \* other phrases
  Bodies,          \* bodies, each a sequence of the pieces it is sent in
  Targets, Uris,   \* request targets, objects given as a URI
  Slash,           \* the path "/"
  Foreign,         \* heads sent by others: sequences of <<spelling, value>>
  PipeSize,        \* the first size of the pipe
  MaxEdits         \* bound: calls of methods

Spellings == DOMAIN Lower
Names == {Lower[s] : s \in Spellings}
Known == DOMAIN Reasons

ASSUME SpellingsAssumption ==
  /\ DOMAIN Camel = Names /\ \A n \in Names : Camel[n] \in Spellings /\ Lower[Camel[n]] = n
  /\ {LengthHeader, EncodingHeader} \subseteq Names
ASSUME PipeAssumption == PipeSize \in Nat /\ PipeSize >= 8 /\ MaxEdits \in Nat
ASSUME NoneAssumption ==
  /\ None \notin Names \cup Methods \cup Versions \cup Targets \cup {Slash} \cup Phrases
  /\ \A path \in Targets \cup {Slash} : [Blank EXCEPT !.path = path] # None
ASSUME InputsAssumption ==
  /\ Lists \cup Bodies \subseteq Seq(Seq(Atoms))
  /\ Foreign \subseteq Seq(Spellings \X Atoms)
  /\ Known \subseteq 100 .. 999
  /\ \A u \in Uris : u = [part \in Parts |-> u[part]] /\ u.port \in 0 .. PortRange - 1

VARIABLES
  message,       \* the object
  want,          \* what the program, or the peer that sent it, has put into it
  odd,           \* history: a code was cut, a phrase dropped, or what no message carries was built
  phase,         \* "factory", "edit", "headers", "built", or for good "stopped", "overrun"
  next_header,   \* the header that is collected next
  pipe,          \* what has been collected
  pipe_size,     \* the slots of the array
  message_size,  \* the length summed
  edits          \* bound: methods called

building == <<next_header, pipe, pipe_size, message_size>>
httpVars == <<message, want, odd, phase, building, edits>>

(***************************************************************************)
(* A value is a sequence of atoms, the items of a comma list; headers are  *)
(* kept in the order of the hash table.                                    *)
(***************************************************************************)
Token(kind, x, width) == [kind |-> kind, of |-> x, width |-> width]
Mark(kind) == Token(kind, None, IF kind \in {"CRLF", ": "} THEN 2 ELSE IF kind = "HTTP" THEN 4 ELSE 1)

Find(headers, name) == SelectInSeq(headers, LAMBDA h : h.name = name)
Delete(headers, name) ==
  IF Find(headers, name) = 0 THEN headers ELSE RemoveAt(headers, Find(headers, name))

\* Mutant: the header is added anew.
AddedAnew(headers, name, values) == Append(headers, [name |-> name, values |-> values])

\* ion_http_message_with_added_header(), and pion_http_header_value().
WithAdded(headers, name, values) ==
  IF Find(headers, name) = 0
  THEN Append(headers, [name |-> name, values |-> values])
  ELSE [headers EXCEPT ![Find(headers, name)].values = @ \o values]

\* ion_http_message_with_header()
WithOnly(headers, name, values) ==
  Append(Delete(headers, name), [name |-> name, values |-> values])

NewMessage(type) ==
  [type |-> type, version |-> None, method |-> None, target |-> None, uri |-> None,
   status |-> 0, reason |-> None, headers |-> <<>>, body |-> <<>>]

\* The program gives no length but the right one, and announces no chunks.
Sensible(name, values) ==
  name # EncodingHeader /\ (name = LengthHeader <=> values = <<<<TheLength>>>>)

\* What getters answer, None for an empty string or no URI; the list of a header
\* is what getHeaderLine() joins.  A default phrase is looked up by the status
\* cast to uint8_t; of the codes that a byte does not hold, none has the last byte
\* of another.
Byte == 256
ASSUME ReasonsAssumption == \A code \in Known : code >= Byte => code % Byte \notin Known
Or(x, default) == IF x = None THEN default ELSE x

GetReasonPhrase(m) ==
  IF m.reason = None /\ m.status % Byte \in Known THEN Reasons[m.status % Byte] ELSE m.reason

GetRequestTarget(m) == m.target

Headers(m) == [n \in {m.headers[k].name : k \in DOMAIN m.headers} |->
                 FlattenSeq(m.headers[Find(m.headers, n)].values)]

Answers(m) ==
  [type |-> m.type, version |-> Or(m.version, DefaultVersion), method |-> Or(m.method, Get),
   target |-> GetRequestTarget(m), uri |-> m.uri, status |-> m.status,
   reason |-> GetReasonPhrase(m), headers |-> Headers(m), body |-> FlattenSeq(m.body)]
-----------------------------------------------------------------------------
(***************************************************************************)
(* Request::factory() and Response::factory() store the options one by     *)
(* one, each given at most once, into a new object.  VERSION, TARGET,      *)
(* METHOD, HEADERS and BODY store what the methods store, and are calls    *)
(* of those in this model.  Without options they are new Request and new   *)
(* Response.                                                               *)
(***************************************************************************)
New(type) ==
  /\ message = NewMessage(type)
  /\ want = Answers(message)
  /\ phase = "factory"

Option(m, w) ==
  /\ phase = "factory"
  /\ message' = m
  /\ want' = w
  /\ UNCHANGED <<phase, building, edits>>

OptionURI(u) ==
  /\ message.type = "request" /\ message.uri = None
  /\ Option([message EXCEPT !.uri = u], [want EXCEPT !.uri = u]) /\ UNCHANGED odd

\* The whole code is kept, but a phrase that was given before it is dropped.
OptionStatus(code) ==
  /\ message.type = "response" /\ message.status = 0 /\ code \in Known
  /\ Option([message EXCEPT !.status = code, !.reason = None],
            [want EXCEPT !.status = code, !.reason = Or(@, Reasons[code])])
  /\ odd' = (odd \/ message.reason # None)

OptionReason(phrase) ==
  /\ message.type = "response" /\ message.reason = None /\ ~odd
  /\ Option([message EXCEPT !.reason = phrase], [want EXCEPT !.reason = phrase]) /\ UNCHANGED odd

\* An option of a wrong type, a code that is not known, an option there is not:
\* the factory throws, and the program gets no object.
FactoryThrows ==
  /\ phase = "factory"
  /\ phase' = "stopped"
  /\ UNCHANGED <<message, want, odd, building, edits>>

FactoryReturns ==
  /\ phase = "factory"
  /\ phase' = "edit"
  /\ UNCHANGED <<message, want, odd, building, edits>>
-----------------------------------------------------------------------------
(***************************************************************************)
(* Methods.                                                                *)
(***************************************************************************)
Edit(m, w) ==
  /\ phase = "edit" /\ edits < MaxEdits
  /\ message' = m
  /\ want' = w
  /\ edits' = edits + 1
  /\ UNCHANGED <<phase, building>>

WithProtocolVersion(v) ==
  Edit([message EXCEPT !.version = v], [want EXCEPT !.version = v]) /\ UNCHANGED odd

WithBody(b) ==
  Edit([message EXCEPT !.body = <<b>>], [want EXCEPT !.body = b]) /\ UNCHANGED odd

WithMethod(x) ==
  /\ message.type = "request"
  /\ Edit([message EXCEPT !.method = x], [want EXCEPT !.method = x]) /\ UNCHANGED odd

WithRequestTarget(t) ==
  /\ message.type = "request"
  /\ Edit([message EXCEPT !.target = t], [want EXCEPT !.target = t]) /\ UNCHANGED odd

\* The code is stored through a cast to uint8_t.
WithStatus(code, phrase) ==
  /\ message.type = "response" /\ code \in Known
  /\ Edit([message EXCEPT !.status = code % Byte, !.reason = phrase],
          [want EXCEPT !.status = code, !.reason = Or(phrase, Reasons[code])])
  /\ odd' = (odd \/ code >= Byte)

Named(name, list) ==
  [n \in DOMAIN want.headers \cup {name} |-> IF n = name THEN list ELSE want.headers[n]]

WithHeader(spelling, values) ==
  /\ Sensible(Lower[spelling], values)
  /\ Edit([message EXCEPT !.headers = WithOnly(@, Lower[spelling], values)],
          [want EXCEPT !.headers = Named(Lower[spelling], FlattenSeq(values))])
  /\ UNCHANGED odd

WithAddedHeader(spelling, values) ==
  LET name == Lower[spelling]
      before == IF name \in DOMAIN want.headers THEN want.headers[name] ELSE <<>>
  IN /\ Sensible(name, values) /\ (name = LengthHeader => before = <<>>)
     /\ Edit([message EXCEPT !.headers = WithAdded(@, name, values)],
             [want EXCEPT !.headers = Named(name, before \o FlattenSeq(values))])
     /\ UNCHANGED odd

WithoutHeader(spelling) ==
  /\ Edit([message EXCEPT !.headers = Delete(@, Lower[spelling])],
          [want EXCEPT !.headers = [n \in DOMAIN @ \ {Lower[spelling]} |-> @[n]]])
  /\ UNCHANGED odd
-----------------------------------------------------------------------------
(***************************************************************************)
(* pion_http_message_build()                                               *)
(***************************************************************************)
RequestLine(m) ==
  IF m.target # None THEN Text(m.target)
  ELSE IF m.uri # None THEN Stringify(m.uri, Parts) ELSE Text(Slash)

\* Here the phrase is looked up by the whole status.
Reason(m) == IF m.reason = None /\ m.status \in Known THEN Reasons[m.status] ELSE m.reason

Target(m) ==
  IF m.target = None /\ m.uri # None
  THEN Token("target", RequestLine(m), Length(m.uri, Parts))
  ELSE Token("target", RequestLine(m), 1)

StartLine(m) ==
  LET version == Token("version", Or(m.version, DefaultVersion), 1)
  IN IF m.type = "response"
     THEN <<Mark("HTTP"), Mark("/"), version, Mark(" "), Token("status", m.status, Digits(m.status)),
            Mark(" "), Token("reason", Reason(m), 1), Mark("CRLF")>>
     ELSE <<Token("method", Or(m.method, Get), 1), Mark(" "), Target(m), Mark(" "),
            Mark("HTTP"), Mark("/"), version, Mark("CRLF")>>

HeadSize(m) ==
  9 + LET h == StartLine(m)
      IN IF m.type = "response" THEN h[3].width + h[5].width + h[7].width
         ELSE h[1].width + h[3].width + h[7].width

\* A status without a phrase is a NULL pointer in the pipe: no such message.
Printable(m) == m.type = "response" => Reason(m) # None

Locates(u) ==
  Regular(u) /\ (u.host = None \/ u.user # None) /\ (u.scheme # None \/ u.path # None)

\* What is built but cannot be read: a header without a value, a chunked
\* body sent whole, a target that is no URI.
Unreadable(m) ==
  \/ \E k \in DOMAIN m.headers : m.headers[k].values = <<>> \/ m.headers[k].name = EncodingHeader
  \/ m.type = "request" /\ m.target = None /\ m.uri # None /\ ~Locates(m.uri)

BuildHead ==
  /\ phase = "edit" /\ Printable(message)
  /\ phase' = "headers"
  /\ pipe' = StartLine(message)
  /\ pipe_size' = PipeSize
  /\ message_size' = HeadSize(message)
  /\ next_header' = 1
  /\ odd' = (odd \/ Unreadable(message))
  /\ UNCHANGED <<message, want, edits>>

\* The slots a header takes; the last comma is replaced by the end of line,
\* and without a value the colon is.
Needs(h) == 2 + 2 * Len(h.values)
ValueWidth(value) == 2 * Len(value) - 1

Line(h) ==
  [k \in 1 .. Needs(h) |->
     IF k = Needs(h) THEN Mark("CRLF")
     ELSE IF k = 1 THEN Token("header", Camel[h.name], 1)
     ELSE IF k = 2 THEN Mark(": ")
     ELSE IF k % 2 = 0 THEN Mark(",")
     ELSE LET value == h.values[(k - 1) \div 2] IN Token("value", value, ValueWidth(value))]

\* As it is summed: name, ": " and the end of line for one value, name and a
\* byte more than the ": " for several.
LineSize(h) ==
  IF Len(h.values) = 1 THEN 1 + 4 + ValueWidth(h.values[1])
  ELSE 1 + 3 + Total([k \in 1 .. Len(h.values) |-> ValueWidth(h.values[k]) + 1])

\* Mutant: the separators are not counted.
GrownLess(h, pos, size) == IF pos + 2 + Len(h.values) > size THEN 2 * size ELSE size

\* The pipe is doubled, once.
Grown(h, pos, size) == IF pos + Needs(h) > size THEN 2 * size ELSE size

BuildHeader ==
  /\ phase = "headers" /\ next_header <= Len(message.headers)
  /\ LET h == message.headers[next_header]
         size == Grown(h, Len(pipe), pipe_size)
     IN /\ pipe' = pipe \o Line(h)
        /\ pipe_size' = size
        /\ message_size' = message_size + LineSize(h)
        /\ phase' = IF Len(pipe) + Needs(h) > size THEN "overrun" ELSE "headers"
  /\ next_header' = next_header + 1
  /\ UNCHANGED <<message, want, odd, edits>>

\* The text is copied: the string has message_size bytes.
BodyTokens(body) == [k \in DOMAIN body |-> Token("body", body[k], Len(body[k]))]

BuildEnd ==
  /\ phase = "headers" /\ next_header > Len(message.headers)
  /\ phase' = "built"
  /\ pipe' = pipe \o <<Mark("CRLF")>> \o BodyTokens(message.body)
  /\ message_size' = message_size + 2 + Len(FlattenSeq(message.body))
  /\ UNCHANGED <<message, want, odd, next_header, pipe_size, edits>>
-----------------------------------------------------------------------------
(***************************************************************************)
(* pion_http_parse_request(), pion_http_parse_response() and the callbacks *)
(* of the parser.                                                          *)
(***************************************************************************)
\* The parser reads a body of the length given, or in chunks; that of a
\* response also to the end of the text, if its status allows one.
HasBody(m) ==
  \/ Find(m.headers, LengthHeader) # 0 \/ Find(m.headers, EncodingHeader) # 0
  \/ m.type = "response" /\ ~(m.status \in 100 .. 199 \cup {204, 304})

\* pion_http_message_body() for each piece.
Buffering(body, piece) == IF body = <<>> THEN <<piece>> ELSE <<body[1] \o piece>>

\* pion_http_header_name(), pion_http_header_value(): a value is over at the
\* end of its line, and joins those of its name.
Nothing == [name |-> None, value |-> <<>>, headers |-> <<>>, body |-> <<>>]
Callback(read, token) ==
  CASE token.kind = "header" -> [read EXCEPT !.name = Lower[token.of], !.value = <<>>]
    [] token.kind = "value"  -> [read EXCEPT !.value = @ \o token.of]
    [] token.kind = "body"   -> [read EXCEPT !.body = Buffering(@, token.of)]
    [] token.kind = "CRLF" /\ read.name # None ->
         [read EXCEPT !.name = None, !.headers = WithAdded(@, read.name, <<read.value>>)]
    [] OTHER -> read

Read(t) ==
  LET upTo[k \in 0 .. Len(t)] == IF k = 0 THEN Nothing ELSE Callback(upTo[k - 1], t[k])
  IN upTo[Len(t)]

ParseText(type, t) ==
  LET start == IF type = "response"
               THEN [NewMessage(type) EXCEPT !.status = t[5].of, !.reason = t[7].of]
               ELSE [NewMessage(type) EXCEPT !.method = t[1].of, !.version = t[7].of,
                       !.uri = IF t[3].of = Text(Slash) THEN [Blank EXCEPT !.path = Slash]
                               ELSE Parse(t[3].of)]
      head == [start EXCEPT !.headers = Read(t).headers]
  IN IF HasBody(head) THEN [head EXCEPT !.body = Read(t).body] ELSE head

\* The request line of a reader is a URI: no target is kept apart.
PathOnly(path) == [Blank EXCEPT !.path = path]
Addressed(w) ==
  IF w.type = "response" THEN None
  ELSE IF w.target # None THEN PathOnly(w.target)
  ELSE Or(w.uri, PathOnly(Slash))

\* The text is read into a new object.  The version of a response is not
\* stored; a request without a length is over before its body.
ParseBuilt ==
  /\ phase = "built" /\ ~odd
  /\ message' = ParseText(message.type, pipe)
  /\ want' = [want EXCEPT !.version = IF message.type = "response" THEN DefaultVersion ELSE @,
                          !.target = None, !.uri = Addressed(want),
                          !.body = IF HasBody(message) THEN @ ELSE <<>>]
  /\ phase' = "edit"
  /\ UNCHANGED <<odd, building, edits>>

\* What the parser makes of a text that no one should send is not modelled.
Discard ==
  /\ phase = "built" /\ odd
  /\ phase' = "stopped"
  /\ UNCHANGED <<message, want, odd, building, edits>>
-----------------------------------------------------------------------------
\* A message as a peer sends it: any spelling, headers repeated, in chunks.
SentLine(x) == <<Token("header", x[1], 1), Mark(": "), Token("value", <<x[2]>>, 1), Mark("CRLF")>>
SentLines(head) == FlattenSeq([k \in DOMAIN head |-> SentLine(head[k])])
Repeated(head, name) ==
  LET upTo[k \in 0 .. Len(head)] ==
        IF k = 0 THEN <<>>
        ELSE IF Lower[head[k][1]] = name THEN Append(upTo[k - 1], head[k][2]) ELSE upTo[k - 1]
  IN upTo[Len(head)]

Sent(type, head, body) ==
  LET start == IF type = "request" THEN [NewMessage(type) EXCEPT !.method = Get]
               ELSE [NewMessage(type) EXCEPT !.status = 200, !.reason = Reasons[200]]
  IN /\ message = ParseText(type, StartLine(start) \o SentLines(head) \o <<Mark("CRLF")>>
                                  \o BodyTokens(body))
     /\ want = [Answers(start) EXCEPT
                  !.uri = Addressed(Answers(start)),
                  !.headers = [n \in {Lower[head[k][1]] : k \in DOMAIN head} |-> Repeated(head, n)],
                  !.body = IF HasBody(message) THEN FlattenSeq(body) ELSE <<>>]
     /\ phase = "edit"

HttpInit ==
  /\ \E type \in {"request", "response"} :
       New(type) \/ \E head \in Foreign, body \in Bodies : Sent(type, head, body)
  /\ odd = FALSE
  /\ next_header = 1 /\ pipe = <<>> /\ pipe_size = PipeSize /\ message_size = 0
  /\ edits = 0

HttpNext ==
  \/ \E u \in Uris : OptionURI(u)
  \/ \E code \in Known : OptionStatus(code)
  \/ \E phrase \in Phrases : OptionReason(phrase)
  \/ FactoryThrows \/ FactoryReturns
  \/ \E v \in Versions : WithProtocolVersion(v)
  \/ \E b \in Bodies : WithBody(FlattenSeq(b))
  \/ \E x \in Methods : WithMethod(x)
  \/ \E t \in Targets : WithRequestTarget(t)
  \/ \E code \in Statuses, phrase \in Phrases \cup {None} : WithStatus(code, phrase)
  \/ \E s \in Spellings, values \in Lists : WithHeader(s, values) \/ WithAddedHeader(s, values)
  \/ \E s \in Spellings : WithoutHeader(s)
  \/ BuildHead \/ BuildHeader \/ BuildEnd \/ ParseBuilt \/ Discard

HttpSpec == HttpInit /\ [][HttpNext]_httpVars
-----------------------------------------------------------------------------
(***************************************************************************)
(* Properties.                                                             *)
(***************************************************************************)

\* Nothing is written behind the pipe, unless a header has more values than
\* one doubling makes room for.
PipeFits == phase = "overrun" => \E k \in DOMAIN message.headers : Needs(message.headers[k]) > PipeSize

\* A status no byte holds is kept by factory() alone; it has no phrase then,
\* until it is built and read.
Unphrased(m) == m.type = "response" /\ m.reason = None /\ m.status >= Byte

\* The getters answer what the program or its peer has put into an object,
\* before and after it has been sent, whatever was replaced, added or spelled
\* differently; and the text fills its string exactly.
HttpReadBack ==
  ~odd =>
    /\ phase = "edit" =>
         Answers(message) = [want EXCEPT !.reason = IF Unphrased(message) THEN None ELSE @]
    /\ phase = "built" =>
         message_size = Total([k \in 1 .. Len(pipe) |-> pipe[k].width])
=============================================================================
