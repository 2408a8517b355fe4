------------------------------ MODULE Promisor ------------------------------
(***************************************************************************)
(* The promise core of php-ion: src/src/ion/ion_promisor.c, with the PHP   *)
(* methods of Promise.c, ResolvablePromise.c and Deferred.c that call it.  *)
(*                                                                         *)
(* PHP is single threaded, but ion_promisor_resolve() is re-entrant: it    *)
(* runs user callbacks, coroutine bodies and the handlers of the promise   *)
(* it settles on the C stack, and any of those may call back into any      *)
(* promise.  The state is therefore the fields of struct _ion_promisor     *)
(* and the call stack: each frame is one activation of                     *)
(* ion_promisor_resolve(), stopped at a label of that function.  Only the  *)
(* top frame moves; when it is user code (or when the stack is empty and   *)
(* the event loop dispatches), the program may call any method.            *)
(*                                                                         *)
(* Sequences (prototype promises, cloned at each call) are not in this     *)
(* module.                                                                 *)
(***************************************************************************)
EXTENDS HandlerArray

CONSTANTS
  Promises,    \* the promise objects
  Values,      \* PHP values that are not promises or generators
  Errors,      \* those that are Throwable
  Args,        \* what the program passes to done() and fail()
  None,        \* a NULL pointer
  Generator,   \* a generator object that has not started
  AlreadyRunning, \* PHP's Error "Cannot resume an already running generator"
  Kind,        \* the class of each promise object
  Liberties,   \* the unguarded things the program does: see LibertyNames
  MaxDepth,    \* bound: user code at this stack depth calls nothing deeper
  MaxHandlers  \* bound: user code adds no handler to a longer array

LibertyNames == {
  "resettle",  \* done()/fail() on a promise whose own callback is running
  "recancel",  \* cancel() on a deferred that is awaiting, or is running
  "rechain",   \* then(Promise) with a handler that is in use or a finished container
  "forget",    \* forget(Promise) of a handler that is not awaiting, ...
  "reforget"}  \* ... and of any handler, while the promise notifies too

Plain == Values \cup {Generator, AlreadyRunning}
Data == Plain \cup Promises

ASSUME TokensAssumption ==
  /\ None \notin Data
  /\ Junk \notin Data \cup {None}
  /\ Plain \cap Promises = {}
  /\ AlreadyRunning \notin Values
  /\ Generator \notin Values \cup {AlreadyRunning}
ASSUME ErrorsAssumption == Errors \subseteq Values
ASSUME ArgsAssumption == Args \subseteq Values \cup Promises
ASSUME KindAssumption == Kind \in [Promises -> {"Promise", "Resolvable", "Deferred"}]
ASSUME LibertiesAssumption == Liberties \subseteq LibertyNames
ASSUME BoundsAssumption == MaxDepth \in Nat /\ MaxHandlers \in Nat

VARIABLES
  live,        \* the objects the program has created
  flags,       \* flags[p]: the PROCESSING, DONE and FAILED bits
  canceled,    \* the promises with the CANCELED bit
  cbs,         \* cbs[p]: which of done, fail, canceler are set
  result,      \* result[p]
  await,       \* await[p]: the promise p waits for
  generator,   \* the promises that hold a generator
  handlers,    \* handlers[p]: the array of handlers, freed slots included
  stack,       \* the C stack, top last
  crashed      \* the process has run into undefined behaviour

vars == <<live, flags, canceled, cbs, result, await, generator, handlers,
          stack, crashed>>

Outcome == {"done", "failed"}   \* ION_PROMISOR_FINISHED

Finished(p) == flags[p] \cap Outcome # {}

(***************************************************************************)
(* A frame is stopped at one of the labels of ion_promisor_resolve().      *)
(*   call      the PHP callback of p is running                            *)
(*   body      the generator of p is running; val is what it was resumed   *)
(*             with, None when it has just been started                    *)
(*   watch     at watch_result, with result val and result_type type       *)
(*   resolved  past watch_result with resolved = 1                         *)
(*   notify    about to serve handlers[i]                                  *)
(*   served    the nested resolve of handlers[i] has returned              *)
(***************************************************************************)
Label == {"call", "body", "watch", "resolved", "notify", "served"}

Frame == [at : Label, p : Promises, val : Data \cup {None},
          type : SUBSET Outcome, skip : BOOLEAN, i : Nat]

NewFrame(at, p, val, type) ==
  [at |-> at, p |-> p, val |-> val, type |-> type, skip |-> FALSE, i |-> 1]

Push(s, f) == Append(s, f)
Below(s) == SubSeq(s, 1, Len(s) - 1)
Top == stack[Len(stack)]
TopAt(label) == stack # <<>> /\ Top.at = label
WithTop(s, f) == [s EXCEPT ![Len(s)] = f]
Replace(f) == stack' = WithTop(stack, f)

Running(p) == \E k \in DOMAIN stack :
                stack[k].p = p /\ stack[k].at \in {"call", "body", "watch", "resolved"}
BodyRunning(p) == \E k \in DOMAIN stack : stack[k].p = p /\ stack[k].at = "body"
-----------------------------------------------------------------------------
(***************************************************************************)
(* Entering ion_promisor_resolve(p, v, t) from a caller whose stack is     *)
(* rest.  A finished promise returns at once.  An awaiting promise takes v *)
(* as the outcome of what it awaits, whoever calls.  Otherwise the callback*)
(* for t runs, unless it is unset or v does not fit its parameter.         *)
(***************************************************************************)
Selected(t) == IF "done" \in t THEN {"done"}
               ELSE IF "canceled" \in t THEN {"canceled"} ELSE t

EnterFinished(p, rest) ==
  /\ Finished(p)
  /\ stack' = rest
  /\ UNCHANGED <<flags, await>>

\* Mutant: the promise is woken but still counts as waiting.
StaysAwaiting(p, v, t, rest) ==
  /\ ~Finished(p)
  /\ await[p] # None
  /\ stack' = Push(rest, NewFrame(IF p \in generator THEN "watch" ELSE "resolved",
                                  p, v, t \cap Outcome))
  /\ UNCHANGED <<flags, await>>

EnterAwaiting(p, v, t, rest) ==
  /\ ~Finished(p)
  /\ await[p] # None
  /\ await' = [await EXCEPT ![p] = None]
  /\ stack' = Push(rest, NewFrame(IF p \in generator THEN "watch" ELSE "resolved",
                                  p, v, t \cap Outcome))
  /\ UNCHANGED flags

\* Mutant: the result type keeps the bits that are not an outcome.
EnterUnmasked(p, v, t, rest) ==
  /\ ~Finished(p)
  /\ await[p] = None
  /\ flags' = [flags EXCEPT ![p] = @ \cup {"processing"}]
  /\ stack' = Push(rest, NewFrame("resolved", p, v, t))
  /\ UNCHANGED await

\* Mutant: a finished promise is resolved again.
EnterAgain(p, v, t, rest) ==
  /\ await[p] = None
  /\ flags' = [flags EXCEPT ![p] = @ \cup {"processing"}]
  /\ stack' = Push(rest, NewFrame("resolved", p, v, t \cap Outcome))
  /\ UNCHANGED await

EnterPending(p, v, t, rest) ==
  /\ ~Finished(p)
  /\ await[p] = None
  /\ flags' = [flags EXCEPT ![p] = @ \cup {"processing"}]
  /\ \/ /\ Selected(t) \cap cbs[p] # {}
        /\ stack' = Push(rest, NewFrame("call", p, None, {}))
     \/ stack' = Push(rest, NewFrame("resolved", p, v, t \cap Outcome))
  /\ UNCHANGED await

Enter(p, v, t, rest) ==
  \/ EnterFinished(p, rest)
  \/ EnterAwaiting(p, v, t, rest)
  \/ EnterPending(p, v, t, rest)
-----------------------------------------------------------------------------
(***************************************************************************)
(* What the program may do: user code is on top of the stack, or nothing   *)
(* is and the event loop is about to run a callback.  A guard that throws  *)
(* in the code is a conjunct; a guard on Liberties restricts the program,  *)
(* not the code.                                                           *)
(***************************************************************************)
UserRuns == stack # <<>> => Top.at \in {"call", "body"}
MayCall == UserRuns /\ Len(stack) < MaxDepth

Fresh(p) == p \in Promises \ live /\ Kind[p] = "Promise"

\* ResolvablePromise::done(), ResolvablePromise::fail(), and the same calls
\* made by C code on the deferreds it hands out.
Settle(p, v, t) ==
  /\ MayCall
  /\ p \in live /\ Kind[p] \in {"Resolvable", "Deferred"}
  /\ ~Finished(p)
  /\ await[p] = None /\ p \notin generator
  /\ "resettle" \in Liberties \/ ~Running(p)
  /\ Enter(p, v, t, stack)
  /\ UNCHANGED <<live, canceled, cbs, result, generator, handlers, crashed>>

Done(p, v) == Settle(p, v, {"done"})
Fail(p, v) == Settle(p, v, {"failed"})

\* Deferred::cancel(): the only guard of the code is FINISHED.
Cancel(p, reason) ==
  /\ MayCall
  /\ p \in live /\ Kind[p] = "Deferred"
  /\ ~Finished(p)
  /\ "recancel" \in Liberties \/ (await[p] = None /\ ~Running(p))
  /\ canceled' = canceled \cup {p}
  /\ Enter(p, reason, {"failed", "canceled"}, stack)
  /\ UNCHANGED <<live, cbs, result, generator, handlers, crashed>>

\* Mutant: a handler given to a finished promise is kept for later.
ThenAppends(p, h) ==
  /\ MayCall
  /\ p \in live /\ Fresh(h)
  /\ live' = live \cup {h}
  /\ handlers' = [handlers EXCEPT ![p] = Append(@, h)]
  /\ UNCHANGED <<flags, canceled, cbs, result, await, generator, stack, crashed>>

\* Promise::then($done, $fail), onDone(), onFail(): a new handler h.  On a
\* finished promise it is resolved here and now.
Then(p, h) ==
  /\ MayCall
  /\ p \in live /\ Fresh(h)
  /\ live' = live \cup {h}
  /\ \/ /\ Finished(p)
        /\ Enter(h, result[p], flags[p] \cap Outcome, stack)
        /\ UNCHANGED handlers
     \/ /\ ~Finished(p)
        /\ handlers' = [handlers EXCEPT ![p] = Append(@, h)]
        /\ UNCHANGED <<flags, await, stack>>
  /\ UNCHANGED <<canceled, cbs, result, generator, crashed>>

\* Promise::then(ION\Promise): appended whatever the state of p.
Chain(p, h) ==
  /\ UserRuns
  /\ p \in live /\ p # h
  /\ \/ Fresh(h) /\ ~Finished(p)
     \/ (Fresh(h) \/ h \in live) /\ "rechain" \in Liberties
  /\ Len(handlers[p]) < MaxHandlers
  /\ live' = live \cup {h}
  /\ handlers' = [handlers EXCEPT ![p] = Append(@, h)]
  /\ UNCHANGED <<flags, canceled, cbs, result, await, generator, stack, crashed>>

\* ION::promise(): a new promise, whose done callback is the argument when it
\* is callable, and which is done with the argument v when it is not.
Start(h, v) ==
  /\ MayCall
  /\ Fresh(h)
  /\ cbs[h] = {} \/ (cbs[h] = {"done"} /\ v # Generator)
  /\ live' = live \cup {h}
  /\ Enter(h, v, {"done"}, stack)
  /\ UNCHANGED <<canceled, cbs, result, generator, handlers, crashed>>

\* Mutant (in a module where the loop expects no hole): the slots are emptied.
ForgottenInPlace(s, h) == [k \in DOMAIN s |-> IF s[k] = h THEN None ELSE s[k]]

\* Promise::forget(Promise).
Forgotten(s, h) == Removed(s, h, None)

Forget(p, h) ==
  /\ \/ "reforget" \in Liberties
     \/ /\ "forget" \in Liberties
        /\ await[h] # p /\ \A k \in DOMAIN stack : stack[k].p # p
  /\ UserRuns
  /\ p \in live /\ h \in live
  /\ handlers' = [handlers EXCEPT ![p] = Forgotten(@, h)]
  /\ UNCHANGED <<live, flags, canceled, cbs, result, await, generator, stack, crashed>>
-----------------------------------------------------------------------------
(***************************************************************************)
(* How user code gives control back to ion_promisor_resolve().             *)
(***************************************************************************)
kept == <<live, flags, canceled, cbs, result, await, handlers, crashed>>

\* The callback has returned v: go to watch_result with DONE.  A generator
\* that the callback is the body of runs; one it merely returns is a result.
Return(v, skip) ==
  /\ TopAt("call")
  /\ skip => v = Generator
  /\ Replace([NewFrame("watch", Top.p, v, {"done"}) EXCEPT !.skip = skip])
  /\ UNCHANGED generator /\ UNCHANGED kept

\* The callback has thrown: resolved = 1, without watch_result.
Throw(v) ==
  /\ TopAt("call")
  /\ Replace(NewFrame("resolved", Top.p, v, {"failed"}))
  /\ UNCHANGED generator /\ UNCHANGED kept

\* The generator has yielded v: back to watch_result, with the result_type
\* it was resumed with.
Yield(v) ==
  /\ TopAt("body")
  /\ Top.val = None \/ Top.p \in generator
  /\ Replace([Top EXCEPT !.at = "watch", !.val = v])
  /\ UNCHANGED generator /\ UNCHANGED kept

\* The generator has returned v, or thrown it.
Finish(v, outcome) ==
  /\ TopAt("body")
  /\ Top.p \in generator
  /\ generator' = generator \ {Top.p}
  /\ Replace([Top EXCEPT !.at = "watch", !.val = v, !.type = {outcome},
                         !.skip = @ \/ outcome = "done"])
  /\ UNCHANGED kept

\* Undefined behaviour on the way back: the callback that was running has
\* been freed by ion_promisor_release(), or the generator that was running
\* has been dropped and Generator::valid() is called on NULL.
ReturnIntoFreed ==
  /\ \/ TopAt("call") /\ cbs[Top.p] = {}
     \/ TopAt("body") /\ Top.p \notin generator
  /\ crashed' = TRUE
  /\ UNCHANGED <<live, flags, canceled, cbs, result, await, generator, handlers, stack>>

\* What user code hands back; the bound stops it from registering the same
\* coroutine with the same promise again and again.
Offered == Values \cup {q \in live : Len(handlers[q]) < MaxHandlers}

Leave ==
  \/ \E v \in Offered : Return(v, FALSE) \/ Finish(v, "done")
  \/ \E skip \in BOOLEAN : Return(Generator, skip)
  \/ \E v \in Errors : Throw(v) \/ Finish(v, "failed")
  \/ ReturnIntoFreed
-----------------------------------------------------------------------------
(***************************************************************************)
(* watch_result: a settled promise is replaced by its result, a pending    *)
(* one is awaited, a new generator is started, anything else is the result.*)
(***************************************************************************)
WatchSettled ==
  /\ TopAt("watch") /\ Top.val \in Promises /\ Finished(Top.val)
  /\ Replace([Top EXCEPT !.val = result[Top.val], !.type = flags[Top.val] \cap Outcome])
  /\ UNCHANGED <<live, flags, canceled, cbs, result, await, generator, handlers, crashed>>

\* Mutant: a pending promise is awaited without being told.
WatchUnregistered ==
  /\ TopAt("watch") /\ Top.val \in Promises /\ ~Finished(Top.val)
  /\ await' = [await EXCEPT ![Top.p] = Top.val]
  /\ stack' = Below(stack)
  /\ UNCHANGED <<live, flags, canceled, cbs, result, generator, handlers, crashed>>

\* Mutant: the registration goes to what the awaited promise itself awaits.
WatchShortcut ==
  /\ TopAt("watch") /\ Top.val \in Promises /\ ~Finished(Top.val)
  /\ await' = [await EXCEPT ![Top.p] = Top.val]
  /\ LET q == IF await[Top.val] = None THEN Top.val ELSE await[Top.val]
     IN  handlers' = [handlers EXCEPT ![q] = Append(@, Top.p)]
  /\ stack' = Below(stack)
  /\ UNCHANGED <<live, flags, canceled, cbs, result, generator, crashed>>

WatchPending ==
  /\ TopAt("watch") /\ Top.val \in Promises /\ ~Finished(Top.val)
  /\ await' = [await EXCEPT ![Top.p] = Top.val]
  /\ handlers' = [handlers EXCEPT ![Top.val] = Append(@, Top.p)]
  /\ stack' = Below(stack)
  /\ UNCHANGED <<live, flags, canceled, cbs, result, generator, crashed>>

StartsGenerator == Top.val = Generator /\ ~Top.skip /\ Top.p \notin generator

WatchGenerator ==
  /\ TopAt("watch") /\ StartsGenerator
  /\ generator' = generator \cup {Top.p}
  /\ Replace([Top EXCEPT !.at = "body", !.val = None])
  /\ UNCHANGED <<live, flags, canceled, cbs, result, await, handlers, crashed>>

WatchPlain ==
  /\ TopAt("watch") /\ Top.val \notin Promises /\ ~StartsGenerator
  /\ Replace([Top EXCEPT !.at = "resolved"])
  /\ UNCHANGED <<live, flags, canceled, cbs, result, await, generator, handlers, crashed>>

(***************************************************************************)
(* Past watch_result.  resume_generator: Generator::send() when the type   *)
(* is DONE, Generator::throw() otherwise; PHP refuses to resume a body     *)
(* that is running, and the code takes that for the end of the generator.  *)
(***************************************************************************)
Resume ==
  /\ TopAt("resolved") /\ Top.p \in generator
  /\ IF BodyRunning(Top.p)
     THEN /\ generator' = generator \ {Top.p}
          /\ Replace([Top EXCEPT !.at = "watch", !.val = AlreadyRunning, !.type = {"failed"}])
     ELSE /\ Replace([Top EXCEPT !.at = "body"])
          /\ UNCHANGED generator
  /\ UNCHANGED <<live, flags, canceled, cbs, result, await, handlers, crashed>>

\* The promise takes its result and frees its callbacks (ion_promisor_release).
Settled ==
  /\ TopAt("resolved") /\ Top.p \notin generator
  /\ result' = [result EXCEPT ![Top.p] = Top.val]
  /\ flags' = [flags EXCEPT ![Top.p] = (@ \cup Top.type) \ {"processing"}]
  /\ cbs' = [cbs EXCEPT ![Top.p] = {}]
  /\ Replace([Top EXCEPT !.at = "notify", !.i = 1])
  /\ UNCHANGED <<live, canceled, await, generator, handlers, crashed>>

(***************************************************************************)
(* The notification loop: handler_count and handlers[i] are read again at  *)
(* each turn, and each handler is resolved on the spot.                    *)
(***************************************************************************)
Slot == handlers[Top.p][Top.i]

NotifyHandler ==
  /\ TopAt("notify") /\ Top.i <= Len(handlers[Top.p]) /\ Slot \in Promises
  /\ Enter(Slot, Top.val, Top.type, WithTop(stack, [Top EXCEPT !.at = "served"]))
  /\ UNCHANGED <<live, canceled, cbs, result, generator, handlers, crashed>>

HandlerServed ==
  /\ TopAt("served") /\ Top.i <= Len(handlers[Top.p])
  /\ handlers' = [handlers EXCEPT ![Top.p][Top.i] = None]
  /\ Replace([Top EXCEPT !.at = "notify", !.i = @ + 1])
  /\ UNCHANGED <<live, flags, canceled, cbs, result, await, generator, crashed>>

\* Mutant: the loop may end before its last handler.
LastSkipped ==
  /\ TopAt("notify") /\ Top.i >= Len(handlers[Top.p])
  /\ handlers' = [handlers EXCEPT ![Top.p] = <<>>]
  /\ stack' = Below(stack)
  /\ UNCHANGED <<live, flags, canceled, cbs, result, await, generator, crashed>>

HandlersNotified ==
  /\ TopAt("notify") /\ Top.i > Len(handlers[Top.p])
  /\ handlers' = [handlers EXCEPT ![Top.p] = <<>>]
  /\ stack' = Below(stack)
  /\ UNCHANGED <<live, flags, canceled, cbs, result, await, generator, crashed>>

\* A slot that forget() emptied or moved away under the loop.
NotifyCorrupted ==
  /\ \/ TopAt("notify") /\ Top.i <= Len(handlers[Top.p]) /\ Slot \notin Promises
     \/ TopAt("served") /\ Top.i > Len(handlers[Top.p])
  /\ crashed' = TRUE
  /\ UNCHANGED <<live, flags, canceled, cbs, result, await, generator, handlers, stack>>

Machine ==
  \/ WatchSettled \/ WatchPending \/ WatchGenerator \/ WatchPlain
  \/ Resume \/ Settled
  \/ NotifyHandler \/ HandlerServed \/ HandlersNotified \/ NotifyCorrupted
-----------------------------------------------------------------------------
CallbacksOf(class) == IF class = "Deferred" THEN {"canceled"} ELSE Outcome

Init ==
  /\ live = {p \in Promises : Kind[p] # "Promise"}
  /\ flags = [p \in Promises |-> {}]
  /\ canceled = {}
  /\ cbs \in [Promises -> SUBSET (Outcome \cup {"canceled"})]
  /\ \A p \in Promises : cbs[p] \subseteq CallbacksOf(Kind[p])
  /\ result = [p \in Promises |-> None]
  /\ await = [p \in Promises |-> None]
  /\ generator = {}
  /\ handlers = [p \in Promises |-> <<>>]
  /\ stack = <<>>
  /\ crashed = FALSE

Call ==
  \E p \in Promises :
    \/ \E v \in Args : Done(p, v)
    \/ \E v \in Errors : Fail(p, v) \/ Cancel(p, v)
    \/ \E h \in Promises : Then(p, h) \/ Chain(p, h) \/ Forget(p, h)
    \/ \E v \in Values \cup {Generator} : Start(p, v)

User == Call \/ Leave \/ \E v \in Offered : Yield(v)

Next == ~crashed /\ (User \/ Machine)

Spec == Init /\ [][Next]_vars
-----------------------------------------------------------------------------
(***************************************************************************)
(* Properties.                                                             *)
(***************************************************************************)

\* Every field keeps its type, and the stack holds well-formed frames.
TypeOK ==
  /\ live \subseteq Promises
  /\ flags \in [Promises -> SUBSET (Outcome \cup {"processing"})]
  /\ canceled \subseteq Promises
  /\ cbs \in [Promises -> SUBSET (Outcome \cup {"canceled"})]
  /\ result \in [Promises -> Data \cup {None}]
  /\ await \in [Promises -> Promises \cup {None}]
  /\ generator \subseteq Promises
  /\ handlers \in [Promises -> Seq(Promises \cup {None, Junk})]
  /\ stack \in Seq(Frame)
  /\ crashed \in BOOLEAN

\* While a promise notifies its handlers it is settled, and no activation
\* above its loop is about the same promise: the loop is never nested in
\* itself.  Every activation past its callback has an outcome to deliver.
Notifying == {"notify", "served"}

Disciplined(s) ==
  \A k \in DOMAIN s :
    /\ s[k].at \in Notifying =>
         /\ Finished(s[k].p)
         /\ \A j \in DOMAIN s : k < j => s[j].p # s[k].p
    /\ s[k].at # "call" => s[k].type # {}

StackDiscipline == Disciplined(stack)

\* The loop of frame f has still to serve p.
StillToServe(f, p) ==
  \E j \in DOMAIN handlers[f.p] :
    handlers[f.p][j] = p /\ IF f.at = "notify" THEN j >= f.i ELSE j > f.i

Registered(p, q) == \E j \in DOMAIN handlers[q] : handlers[q][j] = p

\* No wakeup is lost: what an awaiting promise waits for has it among its
\* handlers, and if it is settled its notification loop is running and has
\* yet to reach it - whatever user code did in the meantime.
Covered(p, s) ==
  await[p] # None /\ ~Finished(p) =>
    \/ ~Finished(await[p]) /\ Registered(p, await[p])
    \/ \E k \in DOMAIN s : /\ s[k].at \in Notifying
                           /\ s[k].p = await[p]
                           /\ StillToServe(s[k], p)

NoLostWakeup == \A p \in Promises : Covered(p, stack)

\* Once a promise is settled and its loop has ended nothing is left in its
\* handlers: no handler waits for a notification that has already been given.
DrainedWhenSettled ==
  \A p \in Promises :
    Finished(p) /\ (\A k \in DOMAIN stack : stack[k].p # p) => handlers[p] = <<>>

\* A notification ends a wait only when it comes from the promise awaited: a
\* coroutine is never resumed with the result of another one.
WokenByAwaited ==
  [][\A p \in Promises : TopAt("notify") /\ await[p] # None /\ await'[p] = None =>
       Top.p = await[p]]_vars

\* The loop never meets a slot that is not a promise, and nothing returns
\* into a callback or a generator that has been freed.
NoCrash == ~crashed

\* When the C code runs on and user code returns, a wait on a settled
\* promise ends.
WaitEnds == \A p, q \in Promises :
  (await[p] = q /\ Finished(q)) ~> (await[p] # q)

\* The promises keep the contract of Future.
FutureState == [p \in Promises |->
  IF Finished(p)
  THEN [outcome |-> IF "done" \in flags[p] THEN "done" ELSE "failed", val |-> result[p]]
  ELSE [outcome |-> "pending", val |-> None]]

Contract == INSTANCE Future WITH state <- FutureState, waits <- await
KeepsContract == Contract!Spec

(***************************************************************************)
(* Fairness: the C code does not stop, and user code terminates - it does  *)
(* not call or yield for ever.                                             *)
(***************************************************************************)
Fairness == WF_vars(~crashed /\ Machine) /\ SF_vars(~crashed /\ Leave)
FairSpec == Spec /\ Fairness
=============================================================================
