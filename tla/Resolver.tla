----------------------------- MODULE Resolver -----------------------------
(***************************************************************************)
(* ION\DNS: src/src/classes/ION/DNS.c.  A lookup is a deferred and a       *)
(* request to the library; the table GION(resolvers) gives those who ask   *)
(* for the same domain meanwhile the same deferred.  When the deferred is  *)
(* settled, by the answer or by cancel(), its destructor gives the request *)
(* up and clears the table, and then the handlers run.  The library calls  *)
(* back for every request, those given up included.                        *)
(***************************************************************************)
EXTENDS Integers

CONSTANTS
  Domains,
  Immediate,  \* domains the library answers at once: numbers, the hosts file
  Lookups,    \* the deferreds; memory is not reused
  NoLookup,   \* a key that is not in the table, an object that is not set
  MaxHolds    \* bound: the references the program keeps to a deferred

ASSUME ResolverAssumption ==
  Immediate \subseteq Domains /\ NoLookup \notin Lookups \cup Domains /\ MaxHolds \in Nat

VARIABLES
  resolvers,  \* GION(resolvers)
  state,      \* of each deferred: "unused", "pending", "done", "failed" or "canceled"
  domain,     \* the domain of deferred->object
  request,    \* the library: "none", "asked", "abandoned", "calling" or "called"
  refs,       \* the reference count of the deferred
  holds,      \* the references of the program among them
  misused     \* what has used a NULL pointer or freed memory: "none", "inside"
              \* evdns_getaddrinfo(), or "later"

resolverVars == <<resolvers, state, domain, request, refs, holds, misused>>

Misuse(when) == misused' = when /\ UNCHANGED <<resolvers, state, domain, request, refs, holds>>
-----------------------------------------------------------------------------
\* Mutant: the entry stays.
Uncleared(l) == resolvers

\* The entry that ion_dns_request_dtor() deletes.
Cleared(l) == [d \in Domains |-> IF d = domain[l] THEN NoLookup ELSE resolvers[d]]

\* The deferred is settled: the destructor of its object runs.
Settle(l, outcome) ==
  /\ state' = [state EXCEPT ![l] = outcome]
  /\ resolvers' = Cleared(l)
  /\ domain' = [domain EXCEPT ![l] = NoLookup]

\* DNS::resolve(): who comes second gets the same deferred, whatever records
\* it asks for.
ResolveFound(d) ==
  LET l == resolvers[d]
  IN /\ l # NoLookup /\ holds[l] < MaxHolds
     /\ IF refs[l] = 0 THEN Misuse("later")
        ELSE /\ refs' = [refs EXCEPT ![l] = @ + 1]
             /\ holds' = [holds EXCEPT ![l] = @ + 1]
             /\ UNCHANGED <<resolvers, state, domain, request, misused>>

Resolve(d, l) ==
  /\ resolvers[d] = NoLookup /\ d \notin Immediate
  /\ state[l] = "unused"
  /\ state' = [state EXCEPT ![l] = "pending"]
  /\ resolvers' = [resolvers EXCEPT ![d] = l]
  /\ domain' = [domain EXCEPT ![l] = d]
  /\ request' = [request EXCEPT ![l] = "asked"]
  /\ refs' = [refs EXCEPT ![l] = 2]
  /\ holds' = [holds EXCEPT ![l] = 1]
  /\ UNCHANGED misused

\* The callback runs inside evdns_getaddrinfo(), before the deferred has its
\* object: it reads what is not there, or releases the only reference.
ResolveImmediate(d) == resolvers[d] = NoLookup /\ d \in Immediate /\ Misuse("inside")

\* Deferred::cancel()
CancelLookup(l) ==
  /\ holds[l] > 0 /\ state[l] = "pending"
  /\ Settle(l, "canceled")
  /\ request' = [request EXCEPT ![l] = "abandoned"]
  /\ UNCHANGED <<refs, holds, misused>>

\* The program drops a reference.
ForgetLookup(l) ==
  /\ holds[l] > 0
  /\ holds' = [holds EXCEPT ![l] = @ - 1]
  /\ refs' = [refs EXCEPT ![l] = @ - 1]
  /\ UNCHANGED <<resolvers, state, domain, request, misused>>

\* _ion_dns_getaddrinfo_callback(), with an address or an error, and always
\* with an error when the request was given up: ion_promisor_fail() then
\* finds the deferred settled.  Handlers run.
Answer(l, outcome) ==
  /\ request[l] \in {"asked", "abandoned"}
  /\ request[l] = "abandoned" => outcome = "failed"
  /\ IF refs[l] = 0 \/ (outcome = "done" /\ domain[l] = NoLookup) THEN Misuse("later")
     ELSE /\ request' = [request EXCEPT ![l] = "calling"]
          /\ IF state[l] = "pending" THEN Settle(l, outcome) ELSE UNCHANGED <<resolvers, state, domain>>
          /\ UNCHANGED <<refs, holds, misused>>

\* ... and return: the callback drops its reference.
Answered(l) ==
  /\ request[l] = "calling"
  /\ IF refs[l] = 0 THEN Misuse("later")
     ELSE /\ request' = [request EXCEPT ![l] = "called"]
          /\ refs' = [refs EXCEPT ![l] = @ - 1]
          /\ UNCHANGED <<resolvers, state, domain, holds, misused>>
-----------------------------------------------------------------------------
ResolverInit ==
  /\ resolvers = [d \in Domains |-> NoLookup]
  /\ state = [l \in Lookups |-> "unused"]
  /\ domain = [l \in Lookups |-> NoLookup]
  /\ request = [l \in Lookups |-> "none"]
  /\ refs = [l \in Lookups |-> 0]
  /\ holds = [l \in Lookups |-> 0]
  /\ misused = "none"

Library(l) == (\E outcome \in {"done", "failed"} : Answer(l, outcome)) \/ Answered(l)

ResolverNext ==
  /\ misused = "none"
  /\ \/ \E d \in Domains : ResolveFound(d) \/ ResolveImmediate(d) \/ \E l \in Lookups : Resolve(d, l)
     \/ \E l \in Lookups : CancelLookup(l) \/ ForgetLookup(l) \/ Library(l)

ResolverSpec == ResolverInit /\ [][ResolverNext]_resolverVars
-----------------------------------------------------------------------------
(***************************************************************************)
(* Properties.                                                             *)
(***************************************************************************)

\* A domain is looked up once at a time, and who asks meanwhile shares a
\* deferred that is still to be answered; a deferred lives until the library
\* has called back for it, given up or not; and neither the table nor a late
\* answer uses what is gone, the answers inside evdns_getaddrinfo() apart.
LookupsShared ==
  /\ \A l \in Lookups : state[l] = "pending" =>
       /\ domain[l] \in Domains /\ resolvers[domain[l]] = l
       /\ request[l] = "asked"
  /\ \A d \in Domains : resolvers[d] # NoLookup =>
       /\ resolvers[d] \in Lookups
       /\ state[resolvers[d]] = "pending" /\ domain[resolvers[d]] = d
  /\ \A l \in Lookups : request[l] \in {"asked", "abandoned", "calling"} => refs[l] > holds[l]
  /\ misused # "later"
=============================================================================
