-------------------------------- MODULE Uri --------------------------------
(***************************************************************************)
(* ION\URI: src/src/classes/ION/URI.c.  An object holds the parts of a     *)
(* URI; with*() makes a changed clone, parse() an object of a string,      *)
(* __toString() a string of an object.  A string is a sequence of          *)
(* separators, numbers and texts; a text holds no separator, which is what *)
(* escaping is for.                                                        *)
(***************************************************************************)
EXTENDS Integers, Sequences, FiniteSets

CONSTANTS
  Texts,      \* Texts[part]: the values the program gives to a part
  Ports,      \* ... and to the port
  None,       \* a part that is not there
  Anonymous,  \* parse() is given URIs with a host and no user
  MaxSteps    \* bound: with*() calls

PortRange == 65536   \* unsigned short
Strings == {"scheme", "user", "pass", "host", "path", "query", "fragment"}
Parts == Strings \cup {"port"}

ASSUME TextsAssumption == DOMAIN Texts = Strings /\ \A part \in Strings : None \notin Texts[part]
ASSUME PortsAssumption == Ports \subseteq Nat /\ MaxSteps \in Nat
ASSUME AnonymousAssumption == Anonymous \in BOOLEAN

VARIABLES
  uri,     \* the object in hand
  wanted,  \* what the program has asked for, part by part
  steps    \* calls made

uriVars == <<uri, wanted, steps>>

Absent(part) == IF part = "port" THEN 0 ELSE None
Blank == [part \in Parts |-> Absent(part)]
Present(u) == {part \in Parts : u[part] # Absent(part)}
-----------------------------------------------------------------------------
(***************************************************************************)
(* ion_uri_stringify(): the length is computed first, then the text is     *)
(* written into a buffer of that length.  A text is one byte long.         *)
(***************************************************************************)
Separator(x) == <<[separator |-> x]>>
Text(x) == <<[text |-> x]>>
Number(n) == <<[number |-> n]>>

\* Mutant: off by one at the boundaries.
PortLengthShort(port) == Cardinality({k \in 0 .. 4 : port > 10 ^ k})

\* As many digits as there are powers of ten up to the port.
PortLength(port) == 1 + Cardinality({k \in 1 .. 4 : port >= 10 ^ k})

Length(u, parts) ==
  LET has == Present(u) \cap parts
      add(part, n) == IF part \in has THEN n ELSE 0
  IN   add("scheme", 4) + add("user", 2) + (IF "user" \in has THEN add("pass", 2) ELSE 0)
     + add("host", 1) + add("port", 1 + PortLength(u.port))
     + add("path", 1) + add("query", 2) + add("fragment", 2)

Stringify(u, parts) ==
  LET has == Present(u) \cap parts
      put(part, seq) == IF part \in has THEN seq ELSE <<>>
  IN put("scheme", Text(u.scheme) \o Separator("://"))
     \o put("user", Text(u.user)
                    \o put("pass", Separator(":") \o Text(u.pass))
                    \o Separator("@"))
     \o put("host", Text(u.host))
     \o put("port", Separator(":") \o Number(u.port))
     \o put("path", Text(u.path))
     \o put("query", Separator("?") \o Text(u.query))
     \o put("fragment", Separator("#") \o Text(u.fragment))

\* What the memcpy()s and the sprintf("%d") of the port have written.
Digits(n) == CHOOSE k \in 1 .. 5 : n < 10 ^ k /\ \A j \in 1 .. k - 1 : n >= 10 ^ j
Width(b) == IF b = [separator |-> "://"] THEN 3
            ELSE IF "number" \in DOMAIN b THEN Digits(b.number) ELSE 1
Total(widths) ==
  LET upTo[k \in 0 .. Len(widths)] == IF k = 0 THEN 0 ELSE upTo[k - 1] + widths[k]
  IN upTo[Len(widths)]
Written(string) == Total([k \in 1 .. Len(string) |-> Width(string[k])])

GetAuthority(u) ==
  IF u.host = None THEN <<>> ELSE Stringify(u, {"user", "pass", "host", "port"})
GetUserInfo(u) ==
  IF u.user = None THEN <<>>
  ELSE Text(u.user) \o (IF u.pass = None THEN <<>> ELSE Separator(":") \o Text(u.pass))
-----------------------------------------------------------------------------
(***************************************************************************)
(* php_url_parse_ex(), as far as it is used here: after a scheme comes the *)
(* authority, without one all that is not a query or a fragment is path.   *)
(***************************************************************************)
UrlParse(string) ==
  LET isText(k) == k \in DOMAIN string /\ "text" \in DOMAIN string[k]
      at(x) == {k \in DOMAIN string : string[k] = [separator |-> x]}
      text(k) == IF isText(k) THEN string[k].text ELSE None
      after(x) == IF at(x) = {} THEN None ELSE text(1 + CHOOSE k \in at(x) : TRUE)
      absolute == at("://") # {}
      user == absolute /\ at("@") # {}
      host == IF ~absolute THEN 0 ELSE IF user THEN 1 + CHOOSE k \in at("@") : TRUE ELSE 3
      ports == {k \in DOMAIN string : "number" \in DOMAIN string[k]}
      port == IF ports = {} THEN host ELSE CHOOSE k \in ports : TRUE
  IN [scheme   |-> IF absolute THEN text(1) ELSE None,
      user     |-> IF user THEN text(3) ELSE None,
      pass     |-> IF user /\ string[4] # [separator |-> "@"] THEN text(5) ELSE None,
      host     |-> text(host),
      port     |-> IF ports = {} THEN 0 ELSE string[port].number,
      path     |-> text(port + 1),
      query    |-> after("?"),
      fragment |-> after("#")]

\* ion_uri_parse(): the host is copied if there is a user.
Parse(string) ==
  LET url == UrlParse(string)
  IN [url EXCEPT !.host = IF url.user = None THEN None ELSE @]
-----------------------------------------------------------------------------
(***************************************************************************)
(* Methods.                                                                *)
(***************************************************************************)
Clone(u) == [part \in Parts |-> u[part]]

Step(new, want) ==
  /\ steps < MaxSteps
  /\ steps' = steps + 1
  /\ uri' = new
  /\ wanted' = want

\* A text is stored as it is given, a port through a cast.
WithText(part, x) == Step([Clone(uri) EXCEPT ![part] = x], [wanted EXCEPT ![part] = x])

WithScheme(x) == WithText("scheme", x)
WithHost(x) == WithText("host", x)
WithPath(x) == WithText("path", x)
WithQuery(x) == WithText("query", x)
WithFragment(x) == WithText("fragment", x)
WithPort(x) ==
  Step([Clone(uri) EXCEPT !.port = x % PortRange], [wanted EXCEPT !.port = x])

\* The password stays when none is given.
WithUserInfo(user, pass) ==
  LET update(u) == [u EXCEPT !.user = user, !.pass = IF pass = None THEN @ ELSE pass]
  IN Step(update(Clone(uri)), update(wanted))

\* URI::factory(): the options are stored into a new object; with an option it
\* does not know it throws, and there is no object to say anything of.
Stored(part, x) == IF part = "port" THEN x % PortRange ELSE x
Factory(options) ==
  /\ uri = [part \in Parts |-> Stored(part, options[part])]
  /\ wanted = options

ParseString(u) ==
  /\ u.host # None => u.user # None \/ Anonymous
  /\ uri = Parse(Stringify(u, Parts))
  /\ wanted = u

\* What a URI is made of: no user, host or port without a scheme, a host with it.
Regular(u) ==
  /\ u.scheme # None <=> u.host # None
  /\ u.host = None => u.user = None /\ u.port = 0
  /\ u.user = None => u.pass = None
  /\ u.port < PortRange

\* Inputs: any parts, each with its first value; the port and what follows
\* from with*() take the other values.
Options ==
  {[part \in Parts |-> IF part = "port" THEN port
                       ELSE IF part \in given THEN CHOOSE x \in Texts[part] : TRUE ELSE None] :
     given \in SUBSET Strings, port \in Ports \cup {0}}

UriInit ==
  /\ steps = 0
  /\ \E u \in Options : Factory(u) \/ (Regular(u) /\ ParseString(u))

UriNext ==
  \/ \E x \in Texts["scheme"] : WithScheme(x)
  \/ \E x \in Texts["host"] : WithHost(x)
  \/ \E x \in Ports : WithPort(x)
  \/ \E x \in Texts["path"] : WithPath(x)
  \/ \E x \in Texts["query"] : WithQuery(x)
  \/ \E x \in Texts["fragment"] : WithFragment(x)
  \/ \E user \in Texts["user"], pass \in Texts["pass"] \cup {None} : WithUserInfo(user, pass)

UriSpec == UriInit /\ [][UriNext]_uriVars
-----------------------------------------------------------------------------
(***************************************************************************)
(* Properties.                                                             *)
(***************************************************************************)

\* Whatever made the object, the string it prints fills its buffer exactly,
\* and a reader of the string finds what the program has asked for.  The
\* authority is the user info, printed by another function, before the host.
UriReadBack ==
  /\ \A parts \in {Parts, {"user", "pass", "host", "port"}} :
       Length(uri, parts) = Written(Stringify(uri, parts))
  /\ uri.host # None =>
       GetAuthority(uri) = (IF uri.user = None THEN <<>> ELSE GetUserInfo(uri) \o Separator("@"))
                             \o Stringify(uri, {"host", "port"})
  /\ Regular(wanted) /\ (wanted.host = None \/ wanted.user # None) =>
       Parse(Stringify(uri, Parts)) = wanted
=============================================================================
