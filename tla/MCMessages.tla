----------------------------- MODULE MCMessages -----------------------------
(***************************************************************************)
(* Small instances of URIs and HTTP messages.                              *)
(***************************************************************************)
EXTENDS Http

CONSTANTS Cookie, cookie, length, encoding, a, b, len

MCTexts == [part \in Strings |->
  IF part \in {"host", "path", "pass"} THEN {<<part, 1>>, <<part, 2>>} ELSE {<<part, 1>>}]

\* Headers in any spelling: two of one header, and the two the parser knows.
MCLower == (cookie :> cookie) @@ (Cookie :> cookie) @@ (length :> length) @@ (encoding :> encoding)
MCCamel == (cookie :> Cookie) @@ (length :> length) @@ (encoding :> encoding)

\* Lists of no, one, two, four and five values: with PipeSize = 10 the pipe
\* is kept, doubled, and overrun.
MCLists == {<<>>, <<<<len>>>>, <<<<a>>>>, <<<<b>>, <<a>>>>, <<<<a>>, <<b>>, <<a>>, <<a>>>>,
            <<<<a>>, <<b>>, <<a>>, <<a>>, <<b>>>>}
MCBodies == {<<<<a>>>>, <<<<a>>, <<b, a>>>>}
MCReasons == [code \in {100, 200, 404} |-> code]
MCSlash == <<"slash">>
MCTargets == {<<"path", 2>>}
MCUris ==
  {[Blank EXCEPT !.path = <<"path", 1>>, !.query = <<"q">>],
   [Blank EXCEPT !.scheme = <<"s">>, !.host = <<"h">>, !.user = <<"u">>, !.port = 8080],
   [Blank EXCEPT !.scheme = <<"s">>, !.host = <<"h">>]}
MCForeign == {<<>>, <<<<Cookie, a>>, <<length, len>>, <<cookie, b>>>>, <<<<encoding, Chunked>>, <<cookie, a>>>>}

\* While another component runs.
UriIdle == uri = Blank /\ wanted = Blank /\ steps = 0
HttpIdle ==
  /\ New("response") /\ odd = FALSE
  /\ next_header = 1 /\ pipe = <<>> /\ pipe_size = PipeSize /\ message_size = 0 /\ edits = 0
=============================================================================
