--------------------------- MODULE ServicesProofs ---------------------------
(***************************************************************************)
(* What ION\DNS, ION\FS, ION\Listener and the timers keep for any number   *)
(* of objects.                                                             *)
(*                                                                         *)
(* DNS: for any domains, lookups and answers, who asks for a domain that   *)
(* is being looked up shares a deferred that is still to be answered, and  *)
(* a deferred outlives its request, however lookups are canceled,          *)
(* forgotten and repeated before the library calls back.                   *)
(*                                                                         *)
(* FS: for any paths, watchers, reads and sizes, a watcher lives exactly   *)
(* while the table or the program holds its sequence, no event points to a *)
(* freed one, and readFile() gives all of the part asked for.              *)
(*                                                                         *)
(* Listener: for any connections, each is handed over once, when it leaves *)
(* the queue, by a listener that is enabled.                               *)
(*                                                                         *)
(* Timers: for any timers, names and timeouts, and handlers nested to any  *)
(* depth, libevent holds the event of a timer exactly while the timer      *)
(* exists and does not tick, no freed timer is used, and the table         *)
(* GION(timers) agrees with the timers.                                    *)
(***************************************************************************)
EXTENDS Resolver, Files, Listener, Timers, SequenceTheorems, TLAPS

Outcomes == {"unused", "pending", "done", "failed", "canceled"}

ResolverType ==
  /\ resolvers \in [Domains -> Lookups \cup {NoLookup}]
  /\ state \in [Lookups -> Outcomes]
  /\ domain \in [Lookups -> Domains \cup {NoLookup}]
  /\ request \in [Lookups -> {"none", "asked", "abandoned", "calling", "called"}]
  /\ refs \in [Lookups -> Int]
  /\ holds \in [Lookups -> Nat]

\* A pending deferred is in the table, under its domain, and its request with
\* the library; the table has nothing else.
Pending ==
  /\ \A l \in Lookups : state[l] = "pending" =>
       /\ domain[l] \in Domains /\ resolvers[domain[l]] = l
       /\ request[l] = "asked"
  /\ \A d \in Domains : resolvers[d] # NoLookup =>
       /\ resolvers[d] \in Lookups
       /\ state[resolvers[d]] = "pending" /\ domain[resolvers[d]] = d

\* A request that was not given up has a deferred to settle.
Awaited == \A l \in Lookups : request[l] = "asked" => state[l] = "pending"

\* The callback of the library holds a reference.
Referred ==
  \A l \in Lookups : request[l] \in {"asked", "abandoned", "calling"} => refs[l] > holds[l]

Unharmed == misused # "later"

IInv == ResolverType /\ Pending /\ Awaited /\ Referred /\ Unharmed
-----------------------------------------------------------------------------
LEMMA ResolverInitial == ResolverInit => IInv
BY ResolverAssumption DEF ResolverInit, IInv, ResolverType, Outcomes, Pending, Awaited, Referred, Unharmed

\* Settling a pending deferred takes it, and nothing else, out of the table.
LEMMA SettleStep ==
  ASSUME ResolverType, Pending, NEW l \in Lookups, state[l] = "pending",
         NEW outcome \in Outcomes \ {"pending"}, Settle(l, outcome)
  PROVE  /\ resolvers' \in [Domains -> Lookups \cup {NoLookup}]
         /\ state' \in [Lookups -> Outcomes]
         /\ domain' \in [Lookups -> Domains \cup {NoLookup}]
         /\ \A k \in Lookups : state'[k] = "pending" =>
              /\ k # l /\ state[k] = "pending"
              /\ domain'[k] = domain[k] /\ resolvers'[domain[k]] = k
         /\ \A d \in Domains : resolvers'[d] # NoLookup =>
              /\ resolvers'[d] = resolvers[d] /\ resolvers[d] # l
              /\ state'[resolvers[d]] = "pending" /\ domain'[resolvers[d]] = d
<1> USE ResolverAssumption
<1>1. /\ state' = [state EXCEPT ![l] = outcome]
      /\ domain' = [domain EXCEPT ![l] = NoLookup]
      /\ resolvers' = [d \in Domains |-> IF d = domain[l] THEN NoLookup ELSE resolvers[d]]
  BY DEF Settle, Cleared
<1>2. domain[l] \in Domains /\ resolvers[domain[l]] = l
  BY DEF Pending
<1>3. ASSUME NEW k \in Lookups, state'[k] = "pending"
      PROVE  /\ k # l /\ state[k] = "pending"
             /\ domain'[k] = domain[k] /\ resolvers'[domain[k]] = k
  <2>1. k # l /\ state[k] = "pending"
    BY <1>1, <1>3 DEF ResolverType
  <2>2. domain[k] \in Domains /\ resolvers[domain[k]] = k
    BY <2>1 DEF Pending
  <2> QED
    BY <1>1, <1>2, <2>1, <2>2 DEF ResolverType
<1>4. ASSUME NEW d \in Domains, resolvers'[d] # NoLookup
      PROVE  /\ resolvers'[d] = resolvers[d] /\ resolvers[d] # l
             /\ state'[resolvers[d]] = "pending" /\ domain'[resolvers[d]] = d
  <2>1. d # domain[l] /\ resolvers'[d] = resolvers[d]
    BY <1>1, <1>4
  <2>2. resolvers[d] \in Lookups /\ state[resolvers[d]] = "pending" /\ domain[resolvers[d]] = d
    BY <1>4, <2>1 DEF Pending
  <2> QED
    BY <1>1, <2>1, <2>2 DEF ResolverType
<1> QED
  BY <1>1, <1>3, <1>4 DEF ResolverType

\* While the library may call back, the deferred is not released.
LEMMA Held ==
  ASSUME ResolverType, Referred, NEW l \in Lookups,
         request[l] \in {"asked", "abandoned", "calling"}
  PROVE  refs[l] > holds[l] /\ refs[l] # 0
<1>1. refs[l] \in Int /\ holds[l] \in Nat
  BY DEF ResolverType
<1>2. refs[l] > holds[l]
  BY DEF Referred
<1> QED
  BY <1>1, <1>2

LEMMA ResolverStep == IInv /\ [ResolverNext]_resolverVars => IInv'
<1> SUFFICES ASSUME IInv, [ResolverNext]_resolverVars PROVE IInv'
  OBVIOUS
<1> USE ResolverAssumption
<1>0. ResolverType /\ Pending /\ Awaited /\ Referred /\ Unharmed
  BY DEF IInv
<1>1. CASE UNCHANGED resolverVars
  BY <1>0, <1>1 DEF resolverVars, IInv, ResolverType, Pending, Awaited, Referred, Unharmed
<1>2. ASSUME Misuse("inside") PROVE IInv'
  BY <1>0, <1>2 DEF Misuse, IInv, ResolverType, Pending, Awaited, Referred, Unharmed
<1>3. ASSUME NEW d \in Domains, ResolveFound(d) PROVE IInv'
  <2> DEFINE l == resolvers[d]
  <2>1. l \in Lookups /\ request[l] = "asked"
    BY <1>0, <1>3 DEF ResolveFound, Pending
  <2>2. refs[l] > holds[l] /\ refs[l] # 0
    BY <1>0, <2>1, Held
  <2>3. /\ refs' = [refs EXCEPT ![l] = @ + 1] /\ holds' = [holds EXCEPT ![l] = @ + 1]
        /\ UNCHANGED <<resolvers, state, domain, request, misused>>
    BY <1>3, <2>2 DEF ResolveFound
  <2> QED
    BY <1>0, <2>1, <2>2, <2>3 DEF IInv, ResolverType, Pending, Awaited, Referred, Unharmed
<1>4. ASSUME NEW d \in Domains, NEW l \in Lookups, Resolve(d, l) PROVE IInv'
  <2>1. ResolverType' /\ Referred' /\ Awaited' /\ Unharmed'
    BY <1>0, <1>4 DEF Resolve, ResolverType, Outcomes, Referred, Awaited, Unharmed
  <2>2. Pending'
    BY <1>0, <1>4 DEF Resolve, ResolverType, Pending
  <2> QED
    BY <2>1, <2>2 DEF IInv
<1>5. ASSUME NEW l \in Lookups, CancelLookup(l) PROVE IInv'
  <2>1. state[l] = "pending" /\ Settle(l, "canceled")
        /\ request' = [request EXCEPT ![l] = "abandoned"]
        /\ UNCHANGED <<refs, holds, misused>>
    BY <1>5 DEF CancelLookup
  <2>2. request[l] = "asked"
    BY <1>0, <2>1 DEF Pending
  <2>3. ResolverType' /\ Pending'
    BY <1>0, <2>1, SettleStep DEF ResolverType, Outcomes, Pending
  <2>4. Awaited' /\ Referred' /\ Unharmed'
    BY <1>0, <2>1, <2>2 DEF ResolverType, Awaited, Referred, Unharmed, Settle
  <2> QED
    BY <2>3, <2>4 DEF IInv
<1>6. ASSUME NEW l \in Lookups, ForgetLookup(l) PROVE IInv'
  BY <1>0, <1>6 DEF ForgetLookup, IInv, ResolverType, Pending, Awaited, Referred, Unharmed
<1>7. ASSUME NEW l \in Lookups, NEW outcome \in {"done", "failed"}, Answer(l, outcome) PROVE IInv'
  <2>0. request[l] \in {"asked", "abandoned", "calling"}
    BY <1>7 DEF Answer
  <2>1. refs[l] > holds[l] /\ refs[l] # 0
    BY <1>0, <2>0, Held
  <2>2. outcome = "done" => domain[l] # NoLookup
    BY <1>0, <1>7 DEF Answer, Awaited, Pending
  <2>3. /\ request' = [request EXCEPT ![l] = "calling"]
        /\ UNCHANGED <<refs, holds, misused>>
        /\ state[l] = "pending" => Settle(l, outcome)
        /\ state[l] # "pending" => UNCHANGED <<resolvers, state, domain>>
    BY <1>7, <2>1, <2>2 DEF Answer
  <2>4. CASE state[l] = "pending"
    <3>1. ResolverType' /\ Pending'
      BY <1>0, <2>3, <2>4, SettleStep DEF ResolverType, Outcomes, Pending
    <3>2. Awaited' /\ Referred' /\ Unharmed'
      BY <1>0, <2>1, <2>3, <2>4 DEF ResolverType, Awaited, Referred, Unharmed, Settle
    <3> QED
      BY <3>1, <3>2 DEF IInv
  <2>5. CASE state[l] # "pending"
    BY <1>0, <2>1, <2>3, <2>5 DEF IInv, ResolverType, Pending, Awaited, Referred, Unharmed
  <2> QED
    BY <2>4, <2>5
<1>8. ASSUME NEW l \in Lookups, Answered(l) PROVE IInv'
  <2>0. request[l] = "calling"
    BY <1>8 DEF Answered
  <2>1. refs[l] > holds[l] /\ refs[l] # 0
    BY <1>0, <2>0, Held
  <2>2. /\ request' = [request EXCEPT ![l] = "called"] /\ refs' = [refs EXCEPT ![l] = @ - 1]
        /\ UNCHANGED <<resolvers, state, domain, holds, misused>>
    BY <1>8, <2>1 DEF Answered
  <2>3. refs[l] \in Int /\ refs'[l] \in Int
    BY <1>0, <2>2 DEF ResolverType
  <2>4. ResolverType'
    BY <1>0, <2>2, <2>3 DEF ResolverType
  <2>5. \A k \in Lookups : state[k] = "pending" \/ request'[k] = "asked" =>
                            request'[k] = request[k]
    BY <1>0, <2>0, <2>2 DEF ResolverType, Pending
  <2>6. Pending'
    BY <1>0, <2>2, <2>5 DEF Pending
  <2>7. Awaited'
    BY <1>0, <2>2, <2>5 DEF Awaited
  <2>8. Referred' /\ Unharmed'
    BY <1>0, <2>1, <2>2 DEF ResolverType, Referred, Unharmed
  <2> QED
    BY <2>4, <2>6, <2>7, <2>8 DEF IInv
<1>9. ASSUME NEW d \in Domains, ResolveImmediate(d) PROVE IInv'
  BY <1>2, <1>9 DEF ResolveImmediate
<1> QED
  BY <1>1, <1>3, <1>4, <1>5, <1>6, <1>7, <1>8, <1>9 DEF ResolverNext, Library

\* A domain is looked up once at a time, its deferred is shared only while it
\* can still be answered, and no deferred is released before the library has
\* called back: DNS::resolve(), cancel() and the callback of the library.
THEOREM Shared == ResolverSpec => []LookupsShared
<1>1. IInv => LookupsShared
  BY DEF IInv, LookupsShared, Pending, Referred, Unharmed
<1> QED
  BY <1>1, ResolverInitial, ResolverStep, PTL DEF ResolverSpec
-----------------------------------------------------------------------------
(***************************************************************************)
(* ION\FS                                                                  *)
(***************************************************************************)
ReadType ==
  [state : {"unused", "pending", "done", "failed", "canceled"},
   asked : Nat, part : Nat, size : Nat, sent : Nat, got : Nat,
   one : BOOLEAN, two : BOOLEAN, cut : BOOLEAN]

WatchType ==
  /\ watchers \in [Paths -> Watchers \cup {NoWatcher}]
  /\ life \in [Watchers -> {"unused", "live", "freed"}]
  /\ kept \in [Watchers -> Nat]
  /\ file \in [Paths -> Nat]
  /\ watched \in [Watchers -> [path : Paths \cup {NoWatcher}, file : Nat]]

\* Who is live is held by someone; a listed watcher is the one of its path.
Alive == Live = Listed \cup {w \in Watchers : kept[w] > 0}
Placed == \A p \in Paths : watchers[p] # NoWatcher => watched[watchers[p]].path = p

\* The end that sends closes when all there is has been sent, or when nobody
\* reads; the other end is there while the deferred is pending.
Whole(x) ==
  /\ x.two <=> x.state = "pending"
  /\ x.two /\ ~x.one => x.sent = x.size
  /\ x.got <= x.sent /\ x.sent <= x.size /\ x.size <= x.part /\ x.part <= x.asked
  /\ ~x.cut => x.size = x.part
  /\ x.state = "done" /\ ~x.cut => x.got = x.part

Eventful == changes \subseteq Live
WatchInv == WatchType /\ Alive /\ Placed /\ Eventful
ReadInv == read \in [Reads -> ReadType] /\ \A r \in Reads : Whole(read[r])
-----------------------------------------------------------------------------
(***************************************************************************)
(* readFile().                                                             *)
(***************************************************************************)
\* A step that replaces the record of one call by a sound one.
LEMMA SetRead ==
  ASSUME ReadInv, NEW r \in Reads, NEW x \in ReadType, Whole(x), Set(r, x)
  PROVE  ReadInv' /\ UNCHANGED watching
BY DEF ReadInv, Set

LEMMA ReadFileStep ==
  ASSUME ReadInv, NEW r \in Reads, NEW size \in Nat, NEW offset \in Nat, NEW length \in Int,
         ReadFile(r, size, offset, length)
  PROVE  ReadInv' /\ UNCHANGED watching
<1> DEFINE n == IF length < 0 \/ length > size THEN size ELSE length
<1> DEFINE m == Least(n, size - offset)
<1> DEFINE x == [Unread EXCEPT !.state = "pending", !.asked = n, !.part = m,
                   !.size = m, !.one = TRUE, !.two = TRUE]
<1>1. offset <= size /\ Set(r, x)
  BY DEF ReadFile
<1>2. n \in Nat /\ m \in Nat /\ m <= n
  BY <1>1 DEF Least
<1> HIDE DEF n, m
<1>3. /\ x.state = "pending" /\ x.asked = n /\ x.part = m /\ x.size = m
      /\ x.sent = 0 /\ x.got = 0 /\ x.one /\ x.two /\ ~x.cut
  BY DEF Unread
<1>4. x \in ReadType
  <2>1. Unread \in ReadType
    BY DEF Unread, ReadType
  <2> QED
    BY <1>2, <2>1 DEF ReadType
<1> HIDE DEF x
<1>5. Whole(x)
  BY <1>2, <1>3 DEF Whole
<1> QED
  BY <1>1, <1>4, <1>5, SetRead

LEMMA ReadStep ==
  ASSUME ReadInv, NEW r \in Reads,
         \/ Truncate(r) \/ CancelRead(r) \/ SendEnds(r) \/ ReceiveEnds(r)
         \/ \E k \in 1 .. MaxSize : SendFile(r, k) \/ Receive(r, k)
  PROVE  ReadInv' /\ UNCHANGED watching
<1> DEFINE x == read[r]
<1>1. x \in ReadType /\ Whole(x)
  BY DEF ReadInv
<1>2. CASE Truncate(r)
  <2> DEFINE y == [x EXCEPT !.size = @ - 1, !.cut = TRUE]
  <2>1. x.one /\ x.size > x.sent /\ Set(r, y)
    BY <1>2 DEF Truncate
  <2>2. y \in ReadType /\ Whole(y)
    <3>1. x.size - 1 \in Nat /\ x.sent <= x.size - 1 /\ x.size - 1 <= x.part
      BY <1>1, <2>1 DEF ReadType, Whole
    <3>2. y \in ReadType
      BY <1>1, <3>1 DEF ReadType
    <3>3. /\ y.size = x.size - 1 /\ y.cut /\ y.one
          /\ y.state = x.state /\ y.two = x.two /\ y.asked = x.asked
          /\ y.part = x.part /\ y.sent = x.sent /\ y.got = x.got
      BY <1>1, <2>1 DEF ReadType
    <3> QED
      BY <1>1, <3>1, <3>2, <3>3 DEF Whole
  <2> QED
    BY <2>1, <2>2, SetRead
<1>3. CASE CancelRead(r)
  <2> DEFINE y == [x EXCEPT !.state = "canceled", !.two = FALSE]
  <2>1. Set(r, y)
    BY <1>3 DEF CancelRead
  <2>2. y \in ReadType /\ Whole(y)
    BY <1>1 DEF ReadType, Whole
  <2> QED
    BY <2>1, <2>2, SetRead
<1>4. CASE SendEnds(r)
  <2> DEFINE y == [x EXCEPT !.one = FALSE]
  <2>1. (x.sent = x.asked \/ x.sent = x.size \/ ~x.two) /\ Set(r, y)
    BY <1>4 DEF SendEnds
  <2>2. x.two => x.sent = x.size
    BY <1>1, <2>1 DEF ReadType, Whole
  <2>3. y \in ReadType /\ Whole(y)
    BY <1>1, <2>2 DEF ReadType, Whole
  <2> QED
    BY <2>1, <2>3, SetRead
<1>5. CASE ReceiveEnds(r)
  <2> DEFINE y(s) == [x EXCEPT !.state = s, !.two = FALSE]
  <2>1. CASE x.two /\ ~x.one /\ x.got = x.sent /\ Set(r, y("done"))
    <3>1. y("done") \in ReadType /\ Whole(y("done"))
      BY <1>1, <2>1 DEF ReadType, Whole
    <3> QED
      BY <2>1, <3>1, SetRead
  <2>2. CASE Set(r, y("failed"))
    <3>1. y("failed") \in ReadType /\ Whole(y("failed"))
      BY <1>1 DEF ReadType, Whole
    <3> QED
      BY <2>2, <3>1, SetRead
  <2> QED
    BY <1>5, <2>1, <2>2 DEF ReceiveEnds
<1>6. ASSUME NEW k \in Int, SendFile(r, k) PROVE ReadInv' /\ UNCHANGED watching
  <2> DEFINE y == [x EXCEPT !.sent = @ + k]
  <2>1. x.one /\ x.two /\ k \in 1 .. x.size - x.sent /\ Set(r, y)
    BY <1>6 DEF SendFile
  <2>2. y \in ReadType /\ Whole(y)
    BY <1>1, <2>1 DEF ReadType, Whole
  <2> QED
    BY <2>1, <2>2, SetRead
<1>7. ASSUME NEW k \in Int, Receive(r, k) PROVE ReadInv' /\ UNCHANGED watching
  <2> DEFINE y == [x EXCEPT !.got = @ + k]
  <2>1. x.two /\ k \in 1 .. x.sent - x.got /\ Set(r, y)
    BY <1>7 DEF Receive
  <2>2. y \in ReadType /\ Whole(y)
    BY <1>1, <2>1 DEF ReadType, Whole
  <2> QED
    BY <2>1, <2>2, SetRead
<1> QED
  BY <1>2, <1>3, <1>4, <1>5, <1>6, <1>7
-----------------------------------------------------------------------------
(***************************************************************************)
(* Watchers.                                                               *)
(***************************************************************************)
LEMMA WatchAgainStep ==
  ASSUME WatchInv, NEW p \in Paths, WatchAgain(p)
  PROVE  WatchInv' /\ UNCHANGED read
<1> USE WatchersAssumption
<1> DEFINE w == watchers[p]
<1>1. /\ w \in Watchers /\ w \in Listed
      /\ kept' = [kept EXCEPT ![w] = @ + 1]
      /\ UNCHANGED <<file, watchers, watched, life, changes, speaking, read>>
  BY DEF WatchAgain, WatchInv, WatchType, Listed
<1>2. WatchType' /\ Placed' /\ Eventful'
  BY <1>1 DEF WatchInv, WatchType, Placed, Eventful, Live
<1>3. Alive'
  BY <1>1 DEF WatchInv, WatchType, Alive, Live, Listed
<1> QED
  BY <1>1, <1>2, <1>3 DEF WatchInv

LEMMA WatchStep ==
  ASSUME WatchInv, NEW p \in Paths, NEW w \in Watchers, Watch(p, w)
  PROVE  WatchInv' /\ UNCHANGED read
<1> USE WatchersAssumption
<1>1. w \notin Listed /\ kept[w] = 0 /\ life[w] = "unused" /\ watchers[p] = NoWatcher
  BY DEF Watch, WatchInv, WatchType, Alive, Live
<1>2. /\ watched' = [watched EXCEPT ![w] = [path |-> p, file |-> file[p]]]
      /\ UNCHANGED <<file, changes, speaking, read>>
  BY DEF Watch
<1>3. watched' \in [Watchers -> [path : Paths \cup {NoWatcher}, file : Nat]]
  BY <1>2 DEF WatchInv, WatchType
<1>4. \A x \in Watchers : x # w => watched'[x] = watched[x]
  BY <1>2 DEF WatchInv, WatchType
<1>5. watched'[w].path = p
  BY <1>2 DEF WatchInv, WatchType
<1>6. CASE /\ life' = [life EXCEPT ![w] = "live"]
           /\ watchers' = [watchers EXCEPT ![p] = w]
           /\ kept' = [kept EXCEPT ![w] = 1]
  <2>1. WatchType' /\ Eventful'
    BY <1>2, <1>3, <1>6 DEF WatchInv, WatchType, Eventful, Live
  <2>2. Placed'
    BY <1>1, <1>4, <1>5, <1>6 DEF WatchInv, WatchType, Placed, Listed
  <2>3. Listed' = Listed \cup {w}
    BY <1>1, <1>6 DEF WatchInv, WatchType, Listed
  <2>4. Alive'
    BY <1>1, <1>6, <2>3 DEF WatchInv, WatchType, Alive, Live
  <2> QED
    BY <1>2, <2>1, <2>2, <2>4 DEF WatchInv
<1>7. CASE life' = [life EXCEPT ![w] = "freed"] /\ UNCHANGED <<watchers, kept>>
  <2>1. WatchType' /\ Eventful'
    BY <1>1, <1>2, <1>3, <1>7 DEF WatchInv, WatchType, Eventful, Live
  <2>2. Placed'
    BY <1>1, <1>4, <1>7 DEF WatchInv, WatchType, Placed, Listed
  <2>3. Alive'
    BY <1>1, <1>7 DEF WatchInv, WatchType, Alive, Live, Listed
  <2> QED
    BY <1>2, <2>1, <2>2, <2>3 DEF WatchInv
<1> QED
  BY <1>6, <1>7 DEF Watch

\* Whoever loses the last reference is released, and nobody else is.
LEMMA UnwatchAllStep ==
  ASSUME WatchInv, UnwatchAll
  PROVE  WatchInv' /\ UNCHANGED read
<1> USE WatchersAssumption
<1>1. /\ watchers' = [p \in Paths |-> NoWatcher]
      /\ life' = [w \in Watchers |-> IF w \in Listed /\ kept[w] = 0 THEN "freed" ELSE life[w]]
      /\ changes' = changes \ {w \in Listed : kept[w] = 0}
      /\ UNCHANGED <<file, watched, kept, speaking, read>>
  BY DEF UnwatchAll, Release
<1>2. Listed' = {}
  BY <1>1 DEF Listed
<1>3. WatchType' /\ Placed' /\ Eventful'
  BY <1>1 DEF WatchInv, WatchType, Placed, Eventful, Live
<1>4. Alive'
  BY <1>1, <1>2 DEF WatchInv, WatchType, Alive, Live
<1> QED
  BY <1>1, <1>3, <1>4 DEF WatchInv

LEMMA ForgetStep ==
  ASSUME WatchInv, NEW w \in Watchers, ForgetSequence(w)
  PROVE  WatchInv' /\ UNCHANGED read
<1> DEFINE gone == {x \in {w} : kept[w] = 1 /\ w \notin Listed}
<1>1. /\ kept[w] > 0 /\ kept' = [kept EXCEPT ![w] = @ - 1]
      /\ life' = [x \in Watchers |-> IF x \in gone THEN "freed" ELSE life[x]]
      /\ changes' = changes \ gone
      /\ UNCHANGED <<file, watchers, watched, speaking, read>>
  BY DEF ForgetSequence, Release
<1>2. kept[w] \in Nat /\ kept' \in [Watchers -> Nat] /\ kept'[w] = kept[w] - 1
  BY <1>1 DEF WatchInv, WatchType
<1>3. WatchType' /\ Placed' /\ Eventful'
  BY <1>1, <1>2 DEF WatchInv, WatchType, Placed, Eventful, Live
<1>4. Listed' = Listed
  BY <1>1 DEF Listed
<1>5. \A x \in Watchers : life'[x] = "live" <=> x \in Listed \/ kept'[x] > 0
  BY <1>1, <1>2 DEF WatchInv, WatchType, Alive, Live
<1>6. Alive'
  BY <1>4, <1>5 DEF Alive, Live, Listed
<1> QED
  BY <1>1, <1>3, <1>6 DEF WatchInv

\* A change gives events to those who live and watch, and the callback takes
\* them.
LEMMA EventStep ==
  ASSUME WatchInv,
         \/ Spoken \/ \E p \in Paths : Change(p) \/ Replace(p)
         \/ \E w \in Watchers : WatchCallback(w)
  PROVE  WatchInv' /\ UNCHANGED read
<1>1. /\ UNCHANGED <<watchers, life, kept, watched, read>>
      /\ Eventful'
  BY DEF WatchInv, Spoken, Change, Replace, WatchCallback, Concerned, Eventful, Live
<1>2. file' \in [Paths -> Nat]
  BY DEF WatchInv, WatchType, Spoken, Change, Replace, WatchCallback
<1>3. WatchType' /\ Placed' /\ Alive'
  BY <1>1, <1>2 DEF WatchInv, WatchType, Placed, Alive, Live, Listed
<1> QED
  BY <1>1, <1>3 DEF WatchInv
-----------------------------------------------------------------------------
LEMMA FilesInitial == FilesInit => WatchInv /\ ReadInv
<1> SUFFICES ASSUME FilesInit PROVE WatchInv /\ ReadInv
  OBVIOUS
<1>1. WatchType /\ Placed /\ Eventful
  BY DEF FilesInit, WatchType, Placed, Eventful
<1>2. Alive
  BY WatchersAssumption DEF FilesInit, Alive, Live, Listed
<1>3. ReadInv
  <2>1. Unread \in ReadType /\ Whole(Unread)
    BY DEF Unread, ReadType, Whole
  <2> QED
    BY <2>1 DEF FilesInit, ReadInv
<1> QED
  BY <1>1, <1>2, <1>3 DEF WatchInv

LEMMA FilesInductive == WatchInv /\ ReadInv /\ [FilesNext]_filesVars => WatchInv' /\ ReadInv'
<1> SUFFICES ASSUME WatchInv, ReadInv, [FilesNext]_filesVars PROVE WatchInv' /\ ReadInv'
  OBVIOUS
<1>1. UNCHANGED watching => WatchInv'
  BY DEF watching, WatchInv, WatchType, Alive, Placed, Eventful, Live, Listed
<1>2. UNCHANGED read => ReadInv'
  BY DEF ReadInv
<1>3. CASE UNCHANGED filesVars
  BY <1>1, <1>2, <1>3 DEF filesVars
<1>4. CASE \E p \in Paths : WatchAgain(p) \/ Change(p) \/ Replace(p) \/ \E w \in Watchers : Watch(p, w)
  BY <1>2, <1>4, WatchAgainStep, EventStep, WatchStep
<1>5. CASE UnwatchAll \/ \E w \in Watchers : ForgetSequence(w)
  BY <1>2, <1>5, UnwatchAllStep, ForgetStep
<1>6. CASE Spoken \/ \E w \in Watchers : WatchCallback(w)
  BY <1>2, <1>6, EventStep
<1>7. CASE \E r \in Reads :
             \/ Truncate(r) \/ CancelRead(r) \/ SendEnds(r) \/ ReceiveEnds(r)
             \/ \E k \in 1 .. MaxSize : SendFile(r, k) \/ Receive(r, k)
  BY <1>1, <1>7, ReadStep
<1>8. ASSUME NEW r \in Reads, NEW size \in 0 .. MaxSize, NEW offset \in 0 .. MaxSize,
             NEW length \in -1 .. MaxSize, ReadFile(r, size, offset, length)
      PROVE  WatchInv' /\ ReadInv'
  <2>1. size \in Nat /\ offset \in Nat /\ length \in Int
    BY SizesAssumption
  <2> QED
    BY <1>1, <1>8, <2>1, ReadFileStep
<1> QED
  BY <1>3, <1>4, <1>5, <1>6, <1>7, <1>8 DEF FilesNext, FilesStep

\* A watcher lives while the table of FS::watch() or the program holds its
\* sequence, and the loop has no event of a freed one; readFile() gives the
\* part asked for.
THEOREM Exact == FilesSpec => []FilesExact
<1>1. WatchInv /\ ReadInv => FilesExact
  BY DEF WatchInv, ReadInv, FilesExact, Alive, Placed, Eventful, Whole
<1> QED
  BY <1>1, FilesInitial, FilesInductive, PTL DEF FilesSpec
-----------------------------------------------------------------------------
\* The queue holds each of the queued connections once; a connection whose
\* handlers run has been told; a listening socket is one that is enabled.
ListenerInv ==
  /\ backlog \in Seq(Conns) /\ handling \subseteq Conns
  /\ conn \in [Conns -> {"away", "queued", "reset", "closed", "leaked", "stream", "told", "served"}]
  /\ \A k \in DOMAIN backlog : conn[backlog[k]] = "queued"
  /\ \A j, k \in DOMAIN backlog : backlog[j] = backlog[k] => j = k
  /\ \A c \in handling : conn[c] = "told"
  /\ evlistener = "on" => enabled

Handed ==
  \A c \in Conns :
    /\ conn'[c] = "told" /\ conn[c] # "told" => conn[c] = "queued" /\ enabled
    /\ c \in handling => conn'[c] # "reset"

LEMMA TailOnce ==
  ASSUME NEW S, NEW s \in Seq(S), s # <<>>
  PROVE  /\ Head(s) = s[1] /\ 1 \in DOMAIN s /\ Head(s) \in S /\ Tail(s) \in Seq(S)
         /\ \A k \in DOMAIN Tail(s) : k + 1 \in DOMAIN s /\ k + 1 # 1 /\ Tail(s)[k] = s[k + 1]
<1>1. Len(s) \in Nat /\ DOMAIN s = 1 .. Len(s) /\ Len(s) # 0
  OBVIOUS
<1>2. /\ Head(s) = s[1] /\ Head(s) \in S /\ Tail(s) \in Seq(S) /\ Len(Tail(s)) = Len(s) - 1
      /\ DOMAIN Tail(s) = 1 .. Len(Tail(s))
      /\ \A k \in 1 .. Len(Tail(s)) : Tail(s)[k] = s[k + 1]
  OBVIOUS
<1>3. \A n \in Nat : n # 0 => 1 \in 1 .. n /\ \A k \in 1 .. n - 1 : k + 1 \in 1 .. n /\ k + 1 # 1
  OBVIOUS
<1> QED
  BY <1>1, <1>2, <1>3

\* A connection leaves the queue.
LEMMA TakenKeeps ==
  ASSUME ListenerInv, NEW fate \in {"closed", "leaked", "told"}, Taken(fate),
         handling' = handling \/ (fate = "told" /\ handling' = {Head(backlog)})
  PROVE  ListenerInv' /\ Handed
<1>1. /\ backlog \in Seq(Conns) /\ backlog # <<>> /\ enabled /\ handling = {}
      /\ backlog' = Tail(backlog) /\ evlistener' = evlistener /\ enabled' = enabled
      /\ conn' = [c \in Conns |-> IF c = Head(backlog) THEN fate ELSE conn[c]]
  BY DEF ListenerInv, Taken, Taking, Become
<1>2. /\ Head(backlog) = backlog[1] /\ 1 \in DOMAIN backlog /\ Head(backlog) \in Conns
      /\ Tail(backlog) \in Seq(Conns)
      /\ \A k \in DOMAIN Tail(backlog) :
           k + 1 \in DOMAIN backlog /\ k + 1 # 1 /\ Tail(backlog)[k] = backlog[k + 1]
  BY <1>1, TailOnce
<1>3. conn[Head(backlog)] = "queued"
  BY <1>2 DEF ListenerInv
<1>4. \A k \in DOMAIN backlog' : conn'[backlog'[k]] = "queued"
  <2> TAKE k \in DOMAIN backlog'
  <2>1. /\ k + 1 \in DOMAIN backlog /\ backlog'[k] = backlog[k + 1]
        /\ backlog[k + 1] # backlog[1] /\ backlog[k + 1] \in Conns
    BY <1>1, <1>2 DEF ListenerInv
  <2> QED
    BY <2>1, <1>1, <1>2 DEF ListenerInv
<1>5. \A j, k \in DOMAIN backlog' : backlog'[j] = backlog'[k] => j = k
  <2> TAKE j, k \in DOMAIN backlog'
  <2>1. backlog'[j] = backlog[j + 1] /\ backlog'[k] = backlog[k + 1]
        /\ j + 1 \in DOMAIN backlog /\ k + 1 \in DOMAIN backlog
    BY <1>1, <1>2
  <2>2. j \in Int /\ k \in Int
    BY <1>1, <1>2
  <2>3. backlog'[j] = backlog'[k] => j + 1 = k + 1
    BY <2>1 DEF ListenerInv
  <2> QED
    BY <2>2, <2>3
<1>6. \A c \in handling' : conn'[c] = "told"
  BY <1>1, <1>2
<1>7. Handed
  BY <1>1, <1>3 DEF Handed
<1>8. handling' \subseteq Conns
  BY <1>1, <1>2
<1>9. /\ conn' \in [Conns -> {"away", "queued", "reset", "closed", "leaked", "stream", "told", "served"}]
      /\ backlog' \in Seq(Conns) /\ (evlistener' = "on" => enabled')
  BY <1>1, <1>2 DEF ListenerInv
<1> QED
  BY <1>4, <1>5, <1>6, <1>7, <1>8, <1>9 DEF ListenerInv

\* The kernel queues a connection, or resets it.
LEMMA ConnectKeeps ==
  ASSUME ListenerInv, NEW c \in Conns, Connect(c)
  PROVE  ListenerInv' /\ Handed
<1>1. /\ conn[c] = "away" /\ backlog \in Seq(Conns)
      /\ UNCHANGED <<evlistener, enabled, handling>> /\ c \notin handling
  BY DEF ListenerInv, Connect
<1>2. CASE Listening
  <2>1. /\ backlog' = Append(backlog, c)
        /\ conn' = [x \in Conns |-> IF x = c THEN "queued" ELSE conn[x]]
    BY <1>2 DEF Connect, Become
  <2>2. /\ backlog' \in Seq(Conns) /\ DOMAIN backlog' = 1 .. Len(backlog) + 1
        /\ DOMAIN backlog = 1 .. Len(backlog) /\ Len(backlog) \in Nat
        /\ backlog'[Len(backlog) + 1] = c
        /\ \A k \in 1 .. Len(backlog) : backlog'[k] = backlog[k]
    BY <1>1, <2>1
  <2>3. \A n \in Nat : \A k \in 1 .. n + 1 : k = n + 1 \/ k \in 1 .. n
    OBVIOUS
  <2>4. \A k \in DOMAIN backlog : backlog[k] # c /\ backlog[k] \in Conns
    BY <1>1 DEF ListenerInv
  <2>5. \A k \in DOMAIN backlog' : k = Len(backlog) + 1 \/ k \in DOMAIN backlog
    BY <2>2, <2>3
  <2>6. \A k \in DOMAIN backlog' : conn'[backlog'[k]] = "queued"
    BY <2>1, <2>2, <2>4, <2>5 DEF ListenerInv
  <2>7. \A j, k \in DOMAIN backlog' : backlog'[j] = backlog'[k] => j = k
    BY <2>2, <2>4, <2>5 DEF ListenerInv
  <2>8. Handed
    BY <1>1, <2>1 DEF Handed, ListenerInv
  <2> QED
    BY <1>1, <2>1, <2>2, <2>6, <2>7, <2>8 DEF ListenerInv
<1>3. CASE ~Listening
  <2>1. /\ backlog' = backlog
        /\ conn' = [x \in Conns |-> IF x = c THEN "reset" ELSE conn[x]]
    BY <1>3 DEF Connect, Become
  <2>2. \A k \in DOMAIN backlog : backlog[k] # c /\ backlog[k] \in Conns
    BY <1>1 DEF ListenerInv
  <2> QED
    BY <1>1, <2>1, <2>2 DEF ListenerInv, Handed
<1> QED
  BY <1>2, <1>3

\* The socket is closed: only what is queued is reset.
LEMMA FreedKeeps ==
  ASSUME ListenerInv, FreeSocket, UNCHANGED handling
  PROVE  ListenerInv' /\ Handed
<1>1. /\ backlog' = <<>> /\ DOMAIN backlog' = {} /\ backlog' \in Seq(Conns)
      /\ evlistener' = "gone"
      /\ conn' = [c \in Conns |-> IF c \in Queued THEN "reset" ELSE conn[c]]
  BY DEF FreeSocket, Become
<1>2. \A c \in Queued : conn[c] = "queued"
  BY DEF ListenerInv, Queued
<1> QED
  BY <1>1, <1>2 DEF ListenerInv, Handed

LEMMA ListenerInitial == ListenerInit => ListenerInv
<1>1. <<>> \in Seq(Conns) /\ DOMAIN <<>> = {}
  OBVIOUS
<1> QED
  BY <1>1 DEF ListenerInit, ListenerInv

LEMMA ListenerKeeps == ListenerInv /\ [ListenerNext]_listenerVars => ListenerInv' /\ (Handed \/ UNCHANGED listenerVars)
<1> SUFFICES ASSUME ListenerInv, [ListenerNext]_listenerVars
             PROVE  ListenerInv' /\ (Handed \/ UNCHANGED listenerVars)
  OBVIOUS
<1>1. CASE Refuse \/ Forget \/ Accept
  BY <1>1, TakenKeeps DEF Refuse, Forget, Accept
<1>2. ASSUME NEW c \in Conns, Accepted(c)
      PROVE  ListenerInv' /\ Handed
  <2>1. PICK fate \in {"served", "closed"} : conn' = [x \in Conns |-> IF x = c THEN fate ELSE conn[x]]
    BY <1>2 DEF Accepted, Become
  <2>2. /\ c \in handling /\ conn[c] = "told" /\ handling' = {}
        /\ UNCHANGED <<evlistener, enabled, backlog>>
    BY <1>2 DEF Accepted, ListenerInv
  <2>3. \A k \in DOMAIN backlog : backlog[k] # c /\ backlog[k] \in Conns
    BY <2>2 DEF ListenerInv
  <2> QED
    BY <2>1, <2>2, <2>3 DEF ListenerInv, Handed
<1>3. CASE Shutdown \/ Failed
  BY <1>3, FreedKeeps DEF Shutdown, Failed
<1>4. ASSUME NEW c \in Conns, Connect(c)
      PROVE  ListenerInv' /\ Handed
  BY <1>4, ConnectKeeps
<1>5. ASSUME \/ Construct \/ WhenAccepted \/ EnableListener \/ DisableListener
             \/ \E crypto \in {"good", "bad"} : Encrypt(crypto)
      PROVE  ListenerInv' /\ Handed
  <2>1. UNCHANGED <<backlog, conn, handling>>
    BY <1>5 DEF Construct, WhenAccepted, EnableListener, DisableListener, Encrypt
  <2>2. evlistener' = "on" => enabled'
    BY <1>5 DEF Construct, WhenAccepted, EnableListener, DisableListener, Encrypt, ListenerInv
  <2> QED
    BY <2>1, <2>2 DEF ListenerInv, Handed
<1>6. CASE UNCHANGED listenerVars
  BY <1>6 DEF listenerVars, ListenerInv
<1> QED
  BY <1>1, <1>2, <1>3, <1>4, <1>5, <1>6 DEF ListenerNext, ListenerStep

\* Each connection is handed to the handlers of whenAccepted() once, out of
\* the queue and by an enabled listener, and no shutdown() resets it while its
\* handlers run: the part of Welcomed that is not about the end.
THEOREM Delivered == ListenerSpec => HandedOver
<1>1. ListenerInv /\ [ListenerNext]_listenerVars => [Handed]_listenerVars
  BY ListenerKeeps
<1> QED
  BY <1>1, ListenerInitial, ListenerKeeps, PTL DEF ListenerSpec, HandedOver, Handed
-----------------------------------------------------------------------------
(***************************************************************************)
(* Timers.                                                                 *)
(***************************************************************************)
Names0 == Names \cup {None}

TypeInv ==
  /\ program \in SUBSET LibertyNames
  /\ memory \in [Timers -> {"unused", "live", "freed"}]
  /\ repeat \in SUBSET Timers
  /\ name \in [Timers -> Names0]
  /\ armed \in SUBSET Timers
  /\ table \in [Names -> Timers \cup {None}]
  /\ promise \in [Timers -> {"pending", "done", "failed"}]
  /\ stack \in Seq(Activation)

\* The loop calls a tick when nothing else runs.
Bottom == \A k \in DOMAIN stack : k > 1 => stack[k].at = "cancel"

\* Nobody has heard of a timer that is not created yet.
Fresh == \A t \in Timers : memory[t] = "unused" => promise[t] = "pending" /\ ~Active(t)

\* The deferred is that of await(), and done when its tick runs handlers.
Settled ==
  /\ \A t \in repeat : promise[t] = "pending"
  /\ \A t \in Timers : Ticking(t) /\ t \notin repeat => promise[t] # "pending"

\* Nobody frees a timer during its tick but cancelInterval() in its handlers.
Ticked == \A t \in Timers : Ticking(t) => memory[t] = "live" \/ "own" \in program

\* An entry of the table has its name, and outlives its timer only when the
\* name is a number; every number is the program's liberty.
Entries == \A n \in Names : table[n] # None =>
  /\ name[table[n]] = n /\ memory[table[n]] # "unused"
  /\ memory[table[n]] = "live" \/ n \in Numeric
Numbers == \A t \in Timers : name[t] \in Numeric => "numeric" \in program

\* ... and, but for the liberties, every timer with a name has its entry.
Found == program \cap {"duplicate", "numeric"} = {} =>
  \A t \in Timers : memory[t] = "live" /\ name[t] # None => table[name[t]] = t

StackInv == Bottom /\ Fresh /\ Settled /\ Ticked
TableInv == Entries /\ Numbers /\ Found
TimersInv == TypeInv /\ StackInv /\ TableInv /\ ArmedWhileLive /\ NoCrash
-----------------------------------------------------------------------------
(***************************************************************************)
(* The stack.                                                              *)
(***************************************************************************)
LEMMA PushStep ==
  ASSUME TypeInv, Bottom, NEW at \in {"tick", "cancel"}, NEW t \in Timers, Push(at, t),
         at = "cancel" \/ stack = <<>>
  PROVE  /\ stack' \in Seq(Activation) /\ Bottom'
         /\ \A x \in Timers : Active(x)' <=> Active(x) \/ x = t
         /\ \A x \in Timers : Ticking(x)' <=> Ticking(x) \/ (x = t /\ at = "tick")
<1> DEFINE a == [at |-> at, t |-> t]
<1>1. a \in Activation /\ a.at = at /\ a.t = t
  BY DEF Activation
<1>2. stack \in Seq(Activation) /\ stack' = Append(stack, a)
  BY DEF TypeInv, Push
<1> HIDE DEF a
<1>3. /\ stack' \in Seq(Activation) /\ Len(stack') = Len(stack) + 1
      /\ \A k \in 1 .. Len(stack) : stack'[k] = stack[k]
      /\ stack'[Len(stack) + 1] = a
  BY <1>1, <1>2
<1>4. /\ DOMAIN stack = 1 .. Len(stack) /\ DOMAIN stack' = 1 .. Len(stack) + 1
      /\ Len(stack) \in Nat
  BY <1>2, <1>3
<1>5. Len(stack) = 0 \/ at = "cancel"
  BY <1>2
<1>6. Bottom'
  BY <1>1, <1>3, <1>4, <1>5 DEF Bottom
<1>7. ASSUME NEW x \in Timers PROVE Active(x)' <=> Active(x) \/ x = t
  BY <1>1, <1>3, <1>4 DEF Active
<1>8. ASSUME NEW x \in Timers PROVE Ticking(x)' <=> Ticking(x) \/ (x = t /\ at = "tick")
  BY <1>1, <1>3, <1>4 DEF Ticking
<1> QED
  BY <1>3, <1>6, <1>7, <1>8

LEMMA PopStep ==
  ASSUME TypeInv, Bottom, stack # <<>>, Pop
  PROVE  /\ stack' \in Seq(Activation) /\ Bottom'
         /\ \A x \in Timers : Active(x)' => Active(x)
         /\ \A x \in Timers : Ticking(x)' <=> Ticking(x) /\ Top.at = "cancel"
<1> DEFINE n == Len(stack)
<1>1. stack \in Seq(Activation) /\ stack' = SubSeq(stack, 1, n - 1) /\ n \in Nat \ {0}
  BY DEF TypeInv, Pop
<1>2. /\ stack' \in Seq(Activation) /\ Len(stack') = n - 1
      /\ \A k \in 1 .. n - 1 : stack'[k] = stack[k]
  <2>1. \A k \in 1 .. n - 1 : stack[k] \in Activation
    BY <1>1
  <2> HIDE DEF n
  <2> QED
    BY <1>1, <2>1, SubSeqProperties
<1>3. DOMAIN stack = 1 .. n /\ DOMAIN stack' = 1 .. n - 1
  BY <1>1, <1>2
<1>4. Bottom'
  BY <1>1, <1>2, <1>3 DEF Bottom
<1>5. ASSUME NEW x \in Timers PROVE Active(x)' => Active(x)
  BY <1>1, <1>2, <1>3 DEF Active
<1>6. ASSUME NEW x \in Timers PROVE Ticking(x)' <=> Ticking(x) /\ Top.at = "cancel"
  <2>1. CASE Top.at = "cancel"
    <3>1. ASSUME NEW k \in 1 .. n, stack[k].at \in {"tick", "failing"} PROVE k \in 1 .. n - 1
      <4>1. k # n
        BY <2>1, <3>1 DEF Top
      <4> QED
        BY <1>1, <4>1
    <3>2. \A k \in 1 .. n - 1 : k \in 1 .. n
      BY <1>1
    <3> QED
      BY <1>2, <1>3, <2>1, <3>1, <3>2 DEF Ticking
  <2>2. CASE Top.at # "cancel"
    <3>1. n = 1
      BY <1>1, <1>3, <2>2 DEF Bottom, Top
    <3> QED
      BY <1>3, <2>2, <3>1 DEF Ticking
  <2> QED
    BY <2>1, <2>2
<1> QED
  BY <1>2, <1>4, <1>5, <1>6

LEMMA FailingStep ==
  ASSUME TypeInv, Bottom, TopAt("tick"), stack' = [stack EXCEPT ![Len(stack)].at = "failing"]
  PROVE  /\ stack' \in Seq(Activation) /\ Bottom'
         /\ \A x \in Timers : Active(x)' <=> Active(x)
         /\ \A x \in Timers : Ticking(x)' <=> Ticking(x)
<1> DEFINE n == Len(stack)
<1>1. /\ stack \in Seq(Activation) /\ n \in Nat \ {0} /\ DOMAIN stack = 1 .. n
      /\ stack[n] \in Activation /\ stack[n].at = "tick" /\ n = 1
  <2>1. /\ stack \in Seq(Activation) /\ n \in Nat \ {0} /\ DOMAIN stack = 1 .. n
        /\ stack[n] \in Activation /\ stack[n].at = "tick"
    BY DEF TypeInv, TopAt, Top
  <2> HIDE DEF n
  <2>2. n = 1
    BY <2>1 DEF Bottom
  <2> QED
    BY <2>1, <2>2
<1>2. stack' = [stack EXCEPT ![n] = [stack[n] EXCEPT !.at = "failing"]]
  OBVIOUS
<1>3. [stack[n] EXCEPT !.at = "failing"] \in Activation
  BY <1>1 DEF Activation
<1>4. stack' \in Seq(Activation) /\ DOMAIN stack' = 1 .. n
  BY <1>1, <1>2, <1>3
<1>5. /\ stack'[n].t = stack[n].t /\ stack'[n].at = "failing"
      /\ \A k \in 1 .. n : k # n => stack'[k] = stack[k]
  BY <1>1, <1>2 DEF Activation
<1>6. Bottom'
  BY <1>1, <1>4, <1>5 DEF Bottom
<1>7. ASSUME NEW x \in Timers PROVE Active(x)' <=> Active(x)
  BY <1>1, <1>4, <1>5 DEF Active
<1>8. ASSUME NEW x \in Timers PROVE Ticking(x)' <=> Ticking(x)
  BY <1>1, <1>4, <1>5 DEF Ticking
<1> QED
  BY <1>4, <1>6, <1>7, <1>8

\* A tick that goes on is that of the timer on top.
LEMMA TopTicks ==
  ASSUME TypeInv, TopAt("tick") \/ TopAt("failing")
  PROVE  Top.t \in Timers /\ Ticking(Top.t) /\ stack # <<>> /\ Top.at # "cancel"
<1>1. /\ stack \in Seq(Activation) /\ Len(stack) \in 1 .. Len(stack)
      /\ DOMAIN stack = 1 .. Len(stack) /\ Top = stack[Len(stack)] /\ Top \in Activation
      /\ Top.at \in {"tick", "failing"}
  BY DEF TypeInv, TopAt, Top
<1> QED
  BY <1>1 DEF Ticking, Activation, TopAt

\* Only one timer ticks at a time.
LEMMA OneTicks ==
  ASSUME TypeInv, Bottom, TopAt("tick") \/ TopAt("failing"), NEW x \in Timers, Ticking(x)
  PROVE  x = Top.t
<1>1. /\ stack \in Seq(Activation) /\ Len(stack) \in 1 .. Len(stack)
      /\ DOMAIN stack = 1 .. Len(stack) /\ Top = stack[Len(stack)]
      /\ Top.at \in {"tick", "failing"}
  BY DEF TypeInv, TopAt, Top
<1>2. Len(stack) = 1
  BY <1>1 DEF Bottom
<1> QED
  BY <1>1, <1>2 DEF Ticking
-----------------------------------------------------------------------------
(***************************************************************************)
(* What creates and frees a timer.                                         *)
(***************************************************************************)
\* The table when a timer gets its name, and when that is taken back.
LEMMA TableOps ==
  ASSUME TypeInv, NEW t \in Timers, NEW n \in Names0
  PROVE  /\ Added(t, n) \in [Names -> Timers \cup {None}]
         /\ Deleted(table, n) \in [Names -> Timers \cup {None}]
         /\ Deleted(Added(t, n), n) \in [Names -> Timers \cup {None}]
         /\ \A m \in Names : Added(t, n)[m] = IF m = n /\ table[m] = None THEN t ELSE table[m]
         /\ \A m \in Names : Deleted(table, n)[m] = IF m = n /\ n \notin Numeric THEN None ELSE table[m]
         /\ \A m \in Names : Deleted(Added(t, n), n)[m] =
              IF m = n THEN IF n \notin Numeric THEN None ELSE Added(t, n)[m] ELSE table[m]
BY NoneAssumption DEF TypeInv, Names0, Added, Deleted

LEMMA CreateStep ==
  ASSUME TimersInv, NEW t \in Timers, NEW once \in BOOLEAN, NEW n \in Names0, NEW time,
         Create(t, once, n, time), UNCHANGED program, once => n = None,
         n \in Numeric => "numeric" \in program,
         n # None /\ table[n] # None => "duplicate" \in program
  PROVE  TimersInv'
<1> USE NoneAssumption, NumericAssumption
<1>0. TypeInv /\ Bottom /\ Fresh /\ Settled /\ Ticked /\ Entries /\ Numbers /\ Found
      /\ ArmedWhileLive /\ NoCrash
  BY DEF TimersInv, StackInv, TableInv
<1>1. /\ memory[t] = "unused" /\ promise[t] = "pending" /\ ~Active(t) /\ ~Ticking(t)
      /\ t \notin armed /\ repeat' \in SUBSET Timers
      /\ repeat \subseteq repeat' /\ repeat' \subseteq repeat \cup {t}
  BY <1>0 DEF Create, Fresh, Active, Ticking, ArmedWhileLive, TypeInv
<1>2. /\ name' = [name EXCEPT ![t] = n] /\ UNCHANGED <<program, promise, stack, crashed>>
      /\ name' \in [Timers -> Names0]
  BY <1>0 DEF Create, TypeInv
<1>3. \A x \in Timers : /\ Active(x)' <=> Active(x)
                        /\ Ticking(x)' <=> Ticking(x)
                        /\ x # t => name'[x] = name[x]
  BY <1>0, <1>2 DEF Active, Ticking, TypeInv
<1>4. \A m \in Names : table[m] # t
  BY <1>0, <1>1 DEF Entries
<1>5. NoCrash' /\ Bottom' /\ Numbers'
  BY <1>0, <1>2 DEF NoCrash, Bottom, Numbers, TypeInv
<1>6. Settled'
  BY <1>0, <1>1, <1>2, <1>3 DEF Settled, TypeInv
<1>7. CASE /\ memory' = [memory EXCEPT ![t] = "live"]
           /\ armed' = armed \cup {t}
           /\ table' = Added(t, n)
  <2>1. TypeInv'
    BY <1>0, <1>1, <1>2, <1>7, TableOps DEF TypeInv
  <2>2. Fresh' /\ Ticked' /\ ArmedWhileLive'
    BY <1>0, <1>1, <1>2, <1>3, <1>7 DEF TypeInv, Fresh, Ticked, ArmedWhileLive
  <2>3. \A m \in Names : table'[m] = IF m = n /\ table[m] = None THEN t ELSE table[m]
    BY <1>0, <1>7, TableOps
  <2>4. Entries'
    BY <1>0, <1>2, <1>3, <1>4, <1>7, <2>3 DEF TypeInv, Entries
  <2>5. Found'
    BY <1>0, <1>2, <1>3, <1>7, <2>3 DEF TypeInv, Found, Names0
  <2> QED
    BY <1>5, <1>6, <2>1, <2>2, <2>4, <2>5 DEF TimersInv, StackInv, TableInv
<1>8. CASE /\ memory' = [memory EXCEPT ![t] = "freed"]
           /\ table' = Deleted(Added(t, n), n)
           /\ UNCHANGED armed
  <2>1. TypeInv'
    BY <1>0, <1>1, <1>2, <1>8, TableOps DEF TypeInv
  <2>2. Fresh' /\ Ticked' /\ ArmedWhileLive'
    BY <1>0, <1>1, <1>2, <1>3, <1>8 DEF TypeInv, Fresh, Ticked, ArmedWhileLive
  <2>3. \A m \in Names :
          \/ table'[m] = table[m] /\ (m = n => n \in Numeric)
          \/ m = n /\ n \notin Numeric /\ table'[m] = None
          \/ m = n /\ n \in Numeric /\ table'[m] = t
    BY <1>0, <1>8, TableOps
  <2>4. Entries'
    BY <1>0, <1>2, <1>3, <1>4, <1>8, <2>3 DEF TypeInv, Entries
  <2>5. Found'
    <3> SUFFICES ASSUME program \cap {"duplicate", "numeric"} = {},
                        NEW x \in Timers, memory'[x] = "live", name'[x] # None
                 PROVE  table'[name'[x]] = x
      BY <1>2 DEF Found
    <3>1. x # t /\ memory[x] = "live" /\ name'[x] = name[x] /\ name[x] \in Names
      BY <1>0, <1>3, <1>8 DEF TypeInv, Names0
    <3>2. table[name[x]] = x /\ n \notin Numeric
      BY <1>0, <3>1 DEF Found
    <3>3. name[x] # n
      BY <1>0, <3>1, <3>2 DEF TypeInv
    <3> QED
      BY <2>3, <3>1, <3>2, <3>3
  <2> QED
    BY <1>5, <1>6, <2>1, <2>2, <2>4, <2>5 DEF TimersInv, StackInv, TableInv
<1> QED
  BY <1>7, <1>8 DEF Create

\* What remains true of the table and the fields when a timer is freed.
LEMMA FreeStep ==
  ASSUME TimersInv, NEW t \in Timers, memory[t] = "live", Free(t), UNCHANGED <<program, repeat, name>>
  PROVE  /\ memory' \in [Timers -> {"unused", "live", "freed"}] /\ armed' \in SUBSET Timers
         /\ table' \in [Names -> Timers \cup {None}]
         /\ memory'[t] = "freed" /\ \A x \in Timers : x # t => memory'[x] = memory[x]
         /\ TableInv'
<1> USE NoneAssumption, NumericAssumption
<1>0. TypeInv /\ Entries /\ Numbers /\ Found
  BY DEF TimersInv, TableInv
<1>1. /\ memory' = [memory EXCEPT ![t] = "freed"] /\ armed' = armed \ {t}
      /\ table' = Deleted(table, name[t])
      /\ name[t] \in Names0
  BY <1>0 DEF Free, TypeInv
<1>2. /\ memory' \in [Timers -> {"unused", "live", "freed"}] /\ armed' \in SUBSET Timers
      /\ memory'[t] = "freed" /\ \A x \in Timers : x # t => memory'[x] = memory[x]
  BY <1>0, <1>1 DEF TypeInv
<1>3. table' \in [Names -> Timers \cup {None}]
  BY <1>0, <1>1, TableOps
<1>4. \A m \in Names : table'[m] = IF m = name[t] /\ m \notin Numeric THEN None ELSE table[m]
  BY <1>0, <1>1, TableOps
<1>5. Entries'
  BY <1>0, <1>2, <1>4 DEF TypeInv, Entries
<1>6. Numbers'
  BY <1>0 DEF Numbers
<1>7. Found'
  <2> SUFFICES ASSUME program \cap {"duplicate", "numeric"} = {},
                      NEW x \in Timers, memory'[x] = "live", name[x] # None
               PROVE  table'[name[x]] = x
    BY DEF Found
  <2>1. x # t /\ memory[x] = "live" /\ table[name[x]] = x /\ name[x] \in Names
    BY <1>0, <1>2 DEF Found, TypeInv, Names0
  <2>2. name[x] # name[t]
    BY <1>0, <2>1 DEF Found
  <2> QED
    BY <1>4, <2>1, <2>2
<1> QED
  BY <1>2, <1>3, <1>5, <1>6, <1>7 DEF TableInv
-----------------------------------------------------------------------------
(***************************************************************************)
(* Every step.                                                             *)
(***************************************************************************)
LEMMA CancelIntervalStep ==
  ASSUME TimersInv, NEW n \in Names, CancelInterval(n), UNCHANGED program
  PROVE  TimersInv'
<1> DEFINE t == table[n]
<1>0. TypeInv /\ Bottom /\ Fresh /\ Settled /\ Ticked /\ Entries /\ Numbers /\ Found
      /\ ArmedWhileLive /\ NoCrash
  BY DEF TimersInv, StackInv, TableInv
<1>1. t \in Timers /\ memory[t] # "unused" /\ (Active(t) => "own" \in program)
  BY <1>0 DEF CancelInterval, TypeInv, Entries, May
<1>2. CASE memory[t] = "freed"
  <2>1. n \in Numeric /\ name[t] = n /\ "numeric" \in program
    BY <1>0, <1>1, <1>2 DEF CancelInterval, Entries, Numbers
  <2>2. UNCHANGED <<memory, repeat, name, armed, table, promise, stack>>
    BY <1>2 DEF CancelInterval, Crash, fields
  <2> QED
    BY <1>0, <2>1, <2>2 DEF TimersInv, TypeInv, StackInv, Bottom, Fresh, Active, Settled, Ticked, Ticking,
       TableInv, Entries, Numbers, Found, ArmedWhileLive, NoCrash
<1>3. CASE memory[t] # "freed"
  <2>1. memory[t] = "live" /\ Free(t) /\ UNCHANGED <<repeat, name, promise, stack, crashed>>
    BY <1>0, <1>1, <1>3 DEF CancelInterval, TypeInv, fields
  <2>2. /\ memory' \in [Timers -> {"unused", "live", "freed"}] /\ armed' \in SUBSET Timers
        /\ table' \in [Names -> Timers \cup {None}]
        /\ memory'[t] = "freed" /\ \A x \in Timers : x # t => memory'[x] = memory[x]
        /\ TableInv'
    BY <1>1, <2>1, FreeStep
  <2>3. \A x \in Timers : (Active(x)' <=> Active(x)) /\ (Ticking(x)' <=> Ticking(x))
    BY <2>1 DEF Active, Ticking
  <2>4. TypeInv' /\ Bottom' /\ Settled' /\ NoCrash'
    BY <1>0, <2>1, <2>2, <2>3 DEF TypeInv, Bottom, Settled, NoCrash
  <2>5. Fresh'
    BY <1>0, <2>1, <2>2, <2>3 DEF Fresh
  <2>6. \A x \in Timers : Ticking(x) => Active(x)
    BY DEF Ticking, Active
  <2>7. Ticked'
    BY <1>0, <1>1, <2>1, <2>2, <2>3, <2>6 DEF Ticked
  <2>8. ArmedWhileLive'
    BY <1>0, <2>1, <2>2, <2>3 DEF ArmedWhileLive, Free
  <2> QED
    BY <2>2, <2>4, <2>5, <2>7, <2>8 DEF TimersInv, StackInv
<1> QED
  BY <1>2, <1>3

LEMMA CancelAwaitStep ==
  ASSUME TimersInv, NEW t \in Timers, CancelAwait(t), UNCHANGED program
  PROVE  TimersInv'
<1>0. TypeInv /\ Bottom /\ Fresh /\ Settled /\ Ticked /\ ArmedWhileLive /\ NoCrash
  BY DEF TimersInv, StackInv
<1>1. /\ memory[t] = "live" /\ t \notin repeat /\ promise[t] = "pending" /\ Free(t)
      /\ promise' = [promise EXCEPT ![t] = "failed"]
      /\ Push("cancel", t) /\ UNCHANGED <<repeat, name, crashed>>
  BY DEF CancelAwait, fields
<1>2. /\ memory' \in [Timers -> {"unused", "live", "freed"}] /\ armed' \in SUBSET Timers
      /\ table' \in [Names -> Timers \cup {None}]
      /\ memory'[t] = "freed" /\ \A x \in Timers : x # t => memory'[x] = memory[x]
      /\ TableInv'
  BY <1>1, FreeStep
<1>3. /\ stack' \in Seq(Activation) /\ Bottom'
      /\ \A x \in Timers : Active(x)' <=> Active(x) \/ x = t
      /\ \A x \in Timers : Ticking(x)' <=> Ticking(x)
  BY <1>0, <1>1, PushStep
<1>4. TypeInv' /\ NoCrash'
  BY <1>0, <1>1, <1>2, <1>3 DEF TypeInv, NoCrash
<1>5. Fresh'
  BY <1>0, <1>1, <1>2, <1>3 DEF TypeInv, Fresh
<1>6. ~Ticking(t)
  BY <1>0, <1>1 DEF Settled
<1>7. Settled' /\ Ticked'
  BY <1>0, <1>1, <1>2, <1>3, <1>6 DEF TypeInv, Settled, Ticked
<1>8. ArmedWhileLive'
  BY <1>0, <1>1, <1>2, <1>3 DEF TypeInv, ArmedWhileLive, Free
<1> QED
  BY <1>2, <1>3, <1>4, <1>5, <1>7, <1>8 DEF TimersInv, StackInv

LEMMA TickStep ==
  ASSUME TimersInv, NEW t \in Timers, Tick(t), UNCHANGED program
  PROVE  TimersInv'
<1>0. TypeInv /\ Bottom /\ Fresh /\ Settled /\ Ticked /\ Entries /\ Numbers /\ Found
      /\ ArmedWhileLive /\ NoCrash
  BY DEF TimersInv, StackInv, TableInv
<1>1. /\ stack = <<>> /\ t \in armed /\ armed' = armed \ {t}
      /\ promise' = IF t \in repeat THEN promise ELSE [promise EXCEPT ![t] = "done"]
      /\ Push("tick", t) /\ UNCHANGED <<memory, repeat, name, table, crashed>>
  BY DEF Tick, fields
<1>2. memory[t] = "live" /\ \A x \in Timers : ~Ticking(x)
  BY <1>0, <1>1 DEF ArmedWhileLive, Ticking
<1>3. /\ stack' \in Seq(Activation) /\ Bottom'
      /\ \A x \in Timers : Active(x)' <=> Active(x) \/ x = t
      /\ \A x \in Timers : Ticking(x)' <=> x = t
  BY <1>0, <1>1, <1>2, PushStep
<1>4. promise' \in [Timers -> {"pending", "done", "failed"}]
      /\ (\A x \in Timers : x # t \/ x \in repeat => promise'[x] = promise[x])
      /\ (t \notin repeat => promise'[t] = "done")
  BY <1>0, <1>1 DEF TypeInv
<1>5. TypeInv' /\ NoCrash' /\ TableInv'
  BY <1>0, <1>1, <1>3, <1>4 DEF TypeInv, NoCrash, TableInv, Entries, Numbers, Found
<1>6. Fresh' /\ Settled' /\ Ticked'
  BY <1>0, <1>1, <1>2, <1>3, <1>4 DEF TypeInv, Fresh, Settled, Ticked
<1>7. ArmedWhileLive'
  BY <1>0, <1>1, <1>2, <1>3, <1>4 DEF TypeInv, ArmedWhileLive
<1> QED
  BY <1>3, <1>5, <1>6, <1>7 DEF TimersInv, StackInv

LEMMA RepeatStep ==
  ASSUME TimersInv, Repeat, UNCHANGED program
  PROVE  TimersInv'
<1> DEFINE t == Top.t
<1>0. TypeInv /\ Bottom /\ Fresh /\ Settled /\ Ticked /\ Entries /\ Numbers /\ Found
      /\ ArmedWhileLive /\ NoCrash
  BY DEF TimersInv, StackInv, TableInv
<1>1. /\ TopAt("tick") /\ memory[t] = "live" /\ t \in repeat
      /\ UNCHANGED <<memory, repeat, name, table, promise, crashed>>
  BY DEF Repeat, fields
<1>2. t \in Timers /\ Ticking(t) /\ stack # <<>> /\ Top.at # "cancel"
  BY <1>0, <1>1, TopTicks
<1>3. TableInv' /\ NoCrash'
  BY <1>0, <1>1 DEF TableInv, Entries, Numbers, Found, NoCrash
<1>4. CASE armed' = armed \cup {t} /\ Pop
  <2>1. /\ stack' \in Seq(Activation) /\ Bottom'
        /\ \A x \in Timers : Active(x)' => Active(x)
        /\ \A x \in Timers : ~Ticking(x)'
    BY <1>0, <1>2, <1>4, PopStep
  <2>2. TypeInv' /\ Fresh' /\ Settled' /\ Ticked'
    BY <1>0, <1>1, <1>2, <1>4, <2>1 DEF TypeInv, Fresh, Settled, Ticked
  <2>3. \A x \in Timers : Ticking(x) => x = t
    BY <1>0, <1>1, OneTicks
  <2>4. ArmedWhileLive'
    BY <1>0, <1>1, <1>2, <1>4, <2>1, <2>3 DEF ArmedWhileLive, Settled
  <2> QED
    BY <1>3, <2>1, <2>2, <2>4 DEF TimersInv, StackInv
<1>5. CASE stack' = [stack EXCEPT ![Len(stack)].at = "failing"] /\ UNCHANGED armed
  <2>1. /\ stack' \in Seq(Activation) /\ Bottom'
        /\ \A x \in Timers : Active(x)' <=> Active(x)
        /\ \A x \in Timers : Ticking(x)' <=> Ticking(x)
    BY <1>0, <1>1, <1>5, FailingStep
  <2>2. TypeInv' /\ Fresh' /\ Settled' /\ Ticked' /\ ArmedWhileLive'
    BY <1>0, <1>1, <1>5, <2>1 DEF TypeInv, Fresh, Settled, Ticked, ArmedWhileLive
  <2> QED
    BY <1>3, <2>1, <2>2 DEF TimersInv, StackInv
<1> QED
  BY <1>4, <1>5 DEF Repeat

LEMMA RunOutStep ==
  ASSUME TimersInv, RunOut, UNCHANGED program
  PROVE  TimersInv'
<1> DEFINE t == Top.t
<1>0. TypeInv /\ Bottom /\ Fresh /\ Settled /\ Ticked /\ ArmedWhileLive /\ NoCrash
  BY DEF TimersInv, StackInv
<1>1. /\ TopAt("tick") \/ TopAt("failing")
      /\ memory[t] = "live" /\ Free(t) /\ Pop
      /\ UNCHANGED <<repeat, name, promise, crashed>>
  BY DEF RunOut, fields
<1>2. t \in Timers /\ Ticking(t) /\ stack # <<>> /\ Top.at # "cancel"
  BY <1>0, <1>1, TopTicks
<1>3. /\ memory' \in [Timers -> {"unused", "live", "freed"}] /\ armed' \in SUBSET Timers
      /\ table' \in [Names -> Timers \cup {None}]
      /\ memory'[t] = "freed" /\ \A x \in Timers : x # t => memory'[x] = memory[x]
      /\ TableInv'
  BY <1>1, <1>2, FreeStep
<1>4. /\ stack' \in Seq(Activation) /\ Bottom'
      /\ \A x \in Timers : Active(x)' => Active(x)
      /\ \A x \in Timers : ~Ticking(x)'
  BY <1>0, <1>1, <1>2, PopStep
<1>5. \A x \in Timers : Ticking(x) => x = t
  BY <1>0, <1>1, OneTicks
<1>6. TypeInv' /\ NoCrash'
  BY <1>0, <1>1, <1>3, <1>4 DEF TypeInv, NoCrash
<1>7. Fresh' /\ Settled' /\ Ticked'
  BY <1>0, <1>1, <1>2, <1>3, <1>4 DEF Fresh, Settled, Ticked
<1>8. ArmedWhileLive'
  BY <1>0, <1>1, <1>2, <1>3, <1>4, <1>5 DEF ArmedWhileLive, Free
<1> QED
  BY <1>3, <1>4, <1>6, <1>7, <1>8 DEF TimersInv, StackInv

LEMMA CanceledStep ==
  ASSUME TimersInv, Canceled, UNCHANGED program
  PROVE  TimersInv'
<1>0. TypeInv /\ Bottom /\ Fresh /\ Settled /\ Ticked /\ Entries /\ Numbers /\ Found
      /\ ArmedWhileLive /\ NoCrash
  BY DEF TimersInv, StackInv, TableInv
<1>1. stack # <<>> /\ Top.at = "cancel" /\ Pop
      /\ UNCHANGED <<memory, repeat, name, armed, table, promise, crashed>>
  BY DEF Canceled, TopAt, fields
<1>2. /\ stack' \in Seq(Activation) /\ Bottom'
      /\ \A x \in Timers : Active(x)' => Active(x)
      /\ \A x \in Timers : Ticking(x)' <=> Ticking(x)
  BY <1>0, <1>1, PopStep
<1>3. TypeInv' /\ TableInv' /\ NoCrash'
  BY <1>0, <1>1, <1>2 DEF TypeInv, TableInv, Entries, Numbers, Found, NoCrash
<1>4. Fresh' /\ Settled' /\ Ticked' /\ ArmedWhileLive'
  BY <1>0, <1>1, <1>2 DEF Fresh, Settled, Ticked, ArmedWhileLive
<1> QED
  BY <1>2, <1>3, <1>4 DEF TimersInv, StackInv

\* A use of freed or missing memory happens only to a program with the liberty.
LEMMA CrashStep ==
  ASSUME TimersInv, Crash, UNCHANGED program, program \cap {"numeric", "unnamed", "own"} # {}
  PROVE  TimersInv'
<1>1. UNCHANGED <<memory, repeat, name, armed, table, promise, stack>>
  BY DEF Crash, fields
<1> QED
  BY <1>1 DEF TimersInv, TypeInv, StackInv, Bottom, Fresh, Active, Settled, Ticked, Ticking,
     TableInv, Entries, Numbers, Found, ArmedWhileLive, NoCrash

LEMMA TimersInitial == Init => TimersInv
<1> SUFFICES ASSUME Init PROVE TimersInv
  OBVIOUS
<1>1. TypeInv
  BY ProgramsAssumption DEF Init, TypeInv, Names0
<1>2. \A t \in Timers : ~Active(t) /\ ~Ticking(t)
  <2>1. DOMAIN stack = {}
    BY DEF Init
  <2> QED
    BY <2>1 DEF Active, Ticking
<1>3. StackInv
  BY <1>2 DEF Init, StackInv, Bottom, Fresh, Settled, Ticked
<1>4. TableInv
  BY NoneAssumption, NumericAssumption DEF Init, TableInv, Entries, Numbers, Found
<1>5. ArmedWhileLive /\ NoCrash
  BY <1>2 DEF Init, ArmedWhileLive, NoCrash
<1> QED
  BY <1>1, <1>3, <1>4, <1>5 DEF TimersInv

LEMMA TimersInductive == TimersInv /\ [Next]_vars => TimersInv'
<1> SUFFICES ASSUME TimersInv, [Next]_vars PROVE TimersInv'
  OBVIOUS
<1>0. UNCHANGED program
  BY DEF Next, Running, vars
<1>1. CASE UNCHANGED vars
  BY <1>1 DEF vars, fields, TimersInv, TypeInv, StackInv, Bottom, Fresh, Active, Settled, Ticked, Ticking,
     TableInv, Entries, Numbers, Found, ArmedWhileLive, NoCrash
<1>2. ASSUME NEW t \in Timers, NEW time \in Times, Await(t, time) PROVE TimersInv'
  BY <1>0, <1>2, NumericAssumption, NoneAssumption, CreateStep DEF Await, Names0
<1>3. ASSUME NEW t \in Timers, NEW time \in Times, NEW n \in Names, Interval(t, n, time) PROVE TimersInv'
  BY <1>0, <1>3, NoneAssumption, CreateStep DEF Interval, Names0, May
<1>4. CASE IntervalUnnamed
  BY <1>0, <1>4, CrashStep DEF IntervalUnnamed, May
<1>5. CASE \E n \in Names : CancelInterval(n)
  BY <1>0, <1>5, CancelIntervalStep
<1>6. CASE \E t \in Timers : CancelAwait(t)
  BY <1>0, <1>6, CancelAwaitStep
<1>7. CASE \E t \in Timers : Tick(t)
  BY <1>0, <1>7, TickStep
<1>8. CASE Repeat \/ RunOut \/ Canceled
  BY <1>0, <1>8, RepeatStep, RunOutStep, CanceledStep
<1>9. CASE TickFreed
  <2>1. Top.t \in Timers /\ Ticking(Top.t) /\ memory[Top.t] = "freed" /\ Crash
    BY <1>9, TopTicks DEF TickFreed, TimersInv
  <2>2. "own" \in program
    BY <2>1 DEF TimersInv, StackInv, Ticked
  <2> QED
    BY <1>0, <2>1, <2>2, CrashStep
<1> QED
  BY <1>1, <1>2, <1>3, <1>4, <1>5, <1>6, <1>7, <1>8, <1>9 DEF Next, Program, HandlersReturn

\* libevent holds the event of a timer exactly while the timer exists and its
\* tick is not in progress; a settled await() has no timer left to tick.
THEOREM Armed == Spec => []ArmedWhileLive
<1>1. TimersInv => ArmedWhileLive
  BY DEF TimersInv
<1> QED
  BY <1>1, TimersInitial, TimersInductive, PTL DEF Spec

\* _ion_interval_invoke() and cancelInterval() use no freed timer, unless the
\* program takes a liberty that freeing does not provide for.
THEOREM NeverCrashes == Spec => []NoCrash
<1>1. TimersInv => NoCrash
  BY DEF TimersInv
<1> QED
  BY <1>1, TimersInitial, TimersInductive, PTL DEF Spec

\* GION(timers) has the live intervals under their names, and nothing else.
THEOREM Tabled == Spec => []TableExact
<1>1. TimersInv => TableExact
  BY DEF TimersInv, TypeInv, TableInv, Entries, Numbers, Found, TableExact
<1> QED
  BY <1>1, TimersInitial, TimersInductive, PTL DEF Spec
=============================================================================
