----------------------------- MODULE Prototypes ----------------------------
(***************************************************************************)
(* Sequences, the promises that may be invoked many times: Sequence.c and  *)
(* the prototype half of src/src/ion/ion_promisor.c.                       *)
(*                                                                         *)
(* A sequence and the handlers that then() puts below it are prototypes:   *)
(* they are never resolved.  An invocation copies the whole tree and       *)
(* resolves the copy.  What was put below a prototype from outside, a      *)
(* coroutine that yields the sequence or a plain promise, is not copied    *)
(* but moves to the copy.  When that leaves a sequence without handlers    *)
(* its release callback runs, in the middle of the copying.                *)
(*                                                                         *)
(* The stack holds the activations of ion_promisor_clone() and             *)
(* ion_promisor_resolve(); user code may run on top of it.                 *)
(***************************************************************************)
EXTENDS HandlerArray, Functions

CONSTANTS
  Roots,        \* Sequence objects
  Releasable,   \* ... made with a release callback (AUTOCLEAN)
  Thens,        \* handlers made by then(callable)
  Coroutines,   \* the prototypes whose callback is a generator function
  Outsiders,    \* plain promises put below a sequence
  Yielders,     \* ... those of coroutines that yield the sequence
  Copies,       \* bound: the memory of what ion_promisor_clone() makes
  MaxCalls,     \* bound: the invocations
  MaxMoves,     \* bound: what the program puts below another object, or forgets
  NoObject,     \* a NULL pointer
  MaxDepth      \* bound: user code at this stack depth calls nothing deeper

Prototypes == Roots \cup Thens
Objects == Prototypes \cup Outsiders \cup Copies

ASSUME DisjointAssumption ==
  /\ Roots \cap Thens = {} /\ Outsiders \cap Copies = {}
  /\ Prototypes \cap (Outsiders \cup Copies) = {}
  /\ NoObject \notin Objects /\ Junk \notin Objects \cup {NoObject}
  /\ Releasable \subseteq Roots /\ Coroutines \subseteq Roots \cup Thens
  /\ Yielders \subseteq Outsiders
ASSUME BoundsAssumption == MaxCalls \in Nat /\ MaxMoves \in Nat /\ MaxDepth \in Nat

VARIABLES
  handlers,  \* handlers[o]: the array of handlers, freed slots included
  awaits,    \* awaits[o]: what the coroutine of outsider o waits for
  used,      \* the copies that exist; who has been put below something once
  origin,    \* origin[c]: the prototype that c is a copy of
  call,      \* call[o]: the invocation that o is, or was, resolved in, or 0
  made,      \* how many invocations there have been
  asleep,    \* the copies whose callback, a generator, waits for something
  stack,     \* activations, top last
  crashed,   \* the process has run into undefined behaviour
  due,       \* history: <<k, o>> when invocation k has still to reach o
  stray,     \* history: <<k, o>> when it reached o though it was not due
  released,  \* history: the sequences released since their last handler left
  moves,     \* bound: how much the program has put and forgotten
  spoiled    \* history: a release callback has used a sequence being copied

objects == <<handlers, awaits, used, origin, call, made>>
history == <<due, stray, released, moves, spoiled>>
prototypesVars == <<objects, asleep, stack, crashed, history>>

(***************************************************************************)
(*   copy     ion_promisor_clone() of o into c, at handlers[i]             *)
(*   invoke   ... the same, for the caller that then resolves c            *)
(*   release  the release callback of o runs                               *)
(*   run      the callback of c runs                                       *)
(*   notify   in the loop over the handlers of c, at handlers[i]           *)
(***************************************************************************)
Frame == [at : {"copy", "invoke", "release", "run", "notify"},
          o : Objects \cup {NoObject}, c : Objects \cup {NoObject},
          i : Nat, moved : Nat, room : Nat]
NewFrame(at, o, c) == [at |-> at, o |-> o, c |-> c, i |-> 1, moved |-> 0, room |-> 0]
CopyFrame(at, o, c) == [NewFrame(at, o, c) EXCEPT !.room = Len(handlers[o])]

Top == stack[Len(stack)]
Below == SubSeq(stack, 1, Len(stack) - 1)
TopAt(label) == stack # <<>> /\ Top.at = label
Advance == [Top EXCEPT !.i = @ + 1]
Copying(f) == f.at \in {"copy", "invoke"}

UserRuns == stack # <<>> => Top.at \in {"release", "run"}
MayCall == UserRuns /\ Len(stack) < MaxDepth


Handled(o) == Range(handlers[o]) \ {NoObject, Junk}

\* The objects below o, o included: those in every set that has o and, with
\* a prototype, its handlers.
Uncopied == Prototypes \cup Outsiders
Closed(S) == \A x \in S \cap Prototypes : Handled(x) \subseteq S
Under(o) ==
  {x \in Uncopied : \A S \in SUBSET Uncopied : o \in S /\ Closed(S) => x \in S}

\* What the copies that are being made have still to read.
ToCopy(f) ==
  UNION {Under(handlers[f.o][k]) : k \in
           {j \in DOMAIN handlers[f.o] : j >= f.i /\ handlers[f.o][j] \in Objects}}
BeingCopied ==
  UNION {{stack[n].o} \cup ToCopy(stack[n]) : n \in {m \in DOMAIN stack : Copying(stack[m])}}

Spoils(S) == spoiled' = (spoiled \/ S \cap BeingCopied # {})
Moves(o) == moves < MaxMoves /\ moves' = moves + 1 /\ Spoils({o})
-----------------------------------------------------------------------------
(***************************************************************************)
(* Copying: the loop of ion_promisor_clone().  handler_count and           *)
(* handlers[i] are read again at each turn.                                *)
(***************************************************************************)
Slot == handlers[Top.o][Top.i]
Looping == stack # <<>> /\ Copying(Top) /\ Top.i <= Len(handlers[Top.o])
LoopDone == stack # <<>> /\ Copying(Top) /\ Top.i > Len(handlers[Top.o])
Reading == Looping /\ Len(handlers[Top.c]) < Top.room
Empty(o) == {k \in DOMAIN handlers[o] : handlers[o][k] = NoObject}

\* Mutant: the coroutine still awaits the prototype.
OutsiderMisled ==
  /\ Reading /\ Slot \in Outsiders
  /\ handlers' = [handlers EXCEPT ![Top.c] = Append(@, Slot), ![Top.o][Top.i] = NoObject]
  /\ stack' = Append(Below, [Advance EXCEPT !.moved = @ + 1])
  /\ UNCHANGED <<awaits, used, origin, call, made, asleep, crashed, history>>

\* Mutant: the outsider is dropped from the prototype and from the copy.
OutsiderLost ==
  /\ Reading /\ Slot \in Outsiders
  /\ handlers' = [handlers EXCEPT ![Top.o][Top.i] = NoObject]
  /\ awaits' = [awaits EXCEPT ![Slot] = NoObject]
  /\ stack' = Append(Below, [Advance EXCEPT !.moved = @ + 1])
  /\ UNCHANGED <<used, origin, call, made, asleep, crashed, history>>

MoveOutsider ==
  /\ Reading /\ Slot \in Outsiders
  /\ handlers' = [handlers EXCEPT ![Top.c] = Append(@, Slot), ![Top.o][Top.i] = NoObject]
  /\ awaits' = [awaits EXCEPT ![Slot] = IF @ = Top.o THEN Top.c ELSE @]
  /\ stack' = Append(Below, [Advance EXCEPT !.moved = @ + 1])
  /\ UNCHANGED <<used, origin, call, made, asleep, crashed, history>>

\* The object that a copy of o is made into, for invocation k.
Allocatable == Copies \ used # {}
NewCopy == CHOOSE c \in Copies \ used : TRUE
Allocate(o, k) ==
  /\ Allocatable
  /\ used' = used \cup {NewCopy}
  /\ origin' = [origin EXCEPT ![NewCopy] = o]
  /\ call' = [call EXCEPT ![NewCopy] = k]

\* A prototype among the handlers is copied in turn.
CopyHandler ==
  /\ Reading /\ Slot \in Prototypes
  /\ Allocate(Slot, call[Top.c])
  /\ handlers' = [handlers EXCEPT ![Top.c] = Append(@, NewCopy)]
  /\ stack' = Append(Append(Below, Advance), CopyFrame("copy", Slot, NewCopy))
  /\ UNCHANGED <<awaits, made, asleep, crashed, history>>

\* Mutant: the release callback is never called.
NeverClean(o, s) == <<>>

\* ion_promisor_autoclean(): the frames of the release callback of o.
Autoclean(o, s) == IF o \in Releasable /\ s = <<>> THEN <<NewFrame("release", o, NoObject)>> ELSE <<>>

\* The copy is ready: the caller resolves it, or goes on with its own loop.
Ready == IF Top.at = "invoke" THEN <<NewFrame("run", NoObject, Top.c)>> ELSE <<>>

\* Reaching o in invocation k; its starter or callback runs.
Reached(k, o) ==
  /\ due' = due \ {<<k, o>>}
  /\ stray' = IF <<k, o>> \in due THEN stray ELSE stray \cup {<<k, o>>}
Reaching == IF Top.at = "invoke" THEN Reached(call[Top.c], Top.o) ELSE UNCHANGED <<due, stray>>

CopyMade ==
  /\ LoopDone /\ Top.moved <= Cardinality(Empty(Top.o))
  /\ LET rest  == Cleaned(handlers[Top.o], {NoObject}, Top.moved)
         clean == IF Top.i = 1 THEN <<>> ELSE Autoclean(Top.o, rest)
     IN  /\ handlers' = [handlers EXCEPT ![Top.o] = rest]
         /\ stack' = Below \o Ready \o clean
         /\ released' = released \cup {f.o : f \in Range(clean)}
  /\ Reaching
  /\ UNCHANGED <<awaits, used, origin, call, made, asleep, crashed, moves, spoiled>>

\* A slot emptied or left unwritten, a copy with more handlers than were
\* allocated for it, or fewer empty slots than have been moved.
CopyCorrupted ==
  /\ \/ Reading /\ Slot \in {NoObject, Junk}
     \/ Looping /\ Len(handlers[Top.c]) >= Top.room
     \/ LoopDone /\ Top.moved > Cardinality(Empty(Top.o))
  /\ crashed' = TRUE
  /\ UNCHANGED <<objects, asleep, stack, history>>
-----------------------------------------------------------------------------
(***************************************************************************)
(* Resolving: ion_promisor_resolve() of a copy, or of an outsider.         *)
(***************************************************************************)
\* The callback has returned or thrown; or it is a generator that waits.
Return ==
  /\ TopAt("run")
  /\ stack' = Append(Below, NewFrame("notify", NoObject, Top.c))
  /\ UNCHANGED <<objects, asleep, crashed, history>>

Suspend ==
  /\ TopAt("run") /\ Top.c \in Copies /\ origin[Top.c] \in Coroutines
  /\ asleep' = asleep \cup {Top.c}
  /\ stack' = Below
  /\ UNCHANGED <<objects, crashed, history>>

\* What the generator waits for has come, in another turn of the loop.
Resume(c) ==
  /\ stack = <<>> /\ c \in asleep
  /\ asleep' = asleep \ {c}
  /\ stack' = <<NewFrame("run", NoObject, c)>>
  /\ UNCHANGED <<objects, crashed, history>>

\* The release callback returns.
Released ==
  /\ TopAt("release")
  /\ stack' = Below
  /\ UNCHANGED <<objects, asleep, crashed, history>>

Listener == handlers[Top.c][Top.i]
Serving == TopAt("notify") /\ Top.i <= Len(handlers[Top.c])

\* A copy or an outsider among the handlers of a copy.
NotifyPlain ==
  /\ Serving /\ Listener \in Copies \cup Outsiders
  /\ stack' = Append(Append(Below, Advance), NewFrame("run", NoObject, Listener))
  /\ call' = [call EXCEPT ![Listener] = call[Top.c]]
  /\ Reached(call[Top.c], IF Listener \in Copies THEN origin[Listener] ELSE Listener)
  /\ awaits' = IF Listener \in Outsiders THEN [awaits EXCEPT ![Listener] = NoObject] ELSE awaits
  /\ UNCHANGED <<handlers, used, origin, made, asleep, crashed, released, moves, spoiled>>

\* Everyone below the sequence is due to hear the invocation.
Invoking(s) ==
  /\ made < MaxCalls
  /\ made' = made + 1
  /\ Allocate(s, made')
  /\ due' = due \cup {<<made', x>> : x \in Under(s)}
  /\ Spoils(Under(s))

\* A sequence among the handlers of a plain promise is invoked, and let go.
NotifyPrototype ==
  /\ Serving /\ Listener \in Prototypes
  /\ Invoking(Listener)
  /\ stack' = Append(Append(Below, Advance), CopyFrame("invoke", Listener, NewCopy))
  /\ UNCHANGED <<handlers, awaits, asleep, crashed, stray, released, moves>>

\* The array is freed after the loop; nobody holds a copy any more.
Notified ==
  /\ TopAt("notify") /\ Top.i > Len(handlers[Top.c])
  /\ handlers' = [handlers EXCEPT ![Top.c] = <<>>]
  /\ stack' = Below
  /\ used' = used \ ({Top.c} \cap Copies)
  /\ call' = IF Top.c \in Copies THEN [call EXCEPT ![Top.c] = 0] ELSE call
  /\ origin' = [c \in Copies |-> IF c = Top.c THEN NoObject ELSE origin[c]]
  /\ UNCHANGED <<awaits, made, asleep, crashed, history>>

Machine ==
  \/ MoveOutsider \/ CopyMade \/ CopyCorrupted
  \/ CopyHandler \/ NotifyPrototype
  \/ NotifyPlain \/ Notified
Leave == Return \/ Suspend \/ Released
-----------------------------------------------------------------------------
(***************************************************************************)
(* What the program does.  Bound: it puts each object below another once,  *)
(* so the handlers are a forest.                                           *)
(***************************************************************************)
\* Promise::then() with callables, on a sequence or a handler of one.
Then(o, h) ==
  /\ UserRuns
  /\ o \in Roots \cup (Thens \cap used) /\ h \in Thens \ used
  /\ used' = used \cup {h}
  /\ handlers' = [handlers EXCEPT ![o] = Append(@, h)]
  /\ released' = released \ {o}
  /\ Moves(o)
  /\ UNCHANGED <<awaits, origin, call, made, asleep, stack, crashed, due, stray>>

\* Promise::then() with a sequence, on a sequence or a pending promise.
Chain(o, s) ==
  /\ UserRuns
  /\ o \in Roots \cup Outsiders /\ s \in Roots \ used /\ o \notin Under(s)
  /\ call[o] = 0
  /\ used' = used \cup {s}
  /\ handlers' = [handlers EXCEPT ![o] = Append(@, s)]
  /\ released' = released \ {o}
  /\ Moves(o)
  /\ UNCHANGED <<awaits, origin, call, made, asleep, stack, crashed, due, stray>>

\* then() with a plain promise; or the coroutine of w yields the sequence.
Join(o, w) ==
  /\ UserRuns
  /\ o \in Roots /\ w \in Outsiders \ used
  /\ used' = used \cup {w}
  /\ handlers' = [handlers EXCEPT ![o] = Append(@, w)]
  /\ awaits' = [awaits EXCEPT ![w] = IF w \in Yielders THEN o ELSE NoObject]
  /\ released' = released \ {o}
  /\ Moves(o)
  /\ UNCHANGED <<origin, call, made, asleep, stack, crashed, due, stray>>

\* Promise::forget(): ion_promisor_remove() and the release callback, which
\* runs again when o is empty already; nothing happens when x is not in o.
Forget(o, x) ==
  /\ MayCall
  /\ o \in Prototypes
  /\ x \in Handled(o) \/ (o \in Releasable /\ handlers[o] = <<>>)
  /\ x \in (Prototypes \cup Outsiders) \ {y \in Outsiders : awaits[y] = o}
  /\ LET left == Removed(handlers[o], x, NoObject)
     IN  /\ handlers' = [handlers EXCEPT ![o] = left]
         /\ stack' = stack \o Autoclean(o, left)
         /\ released' = released \cup {f.o : f \in Range(Autoclean(o, left))}
  /\ Moves(o)
  /\ UNCHANGED <<awaits, used, origin, call, made, asleep, crashed, due, stray>>

\* Sequence::__invoke(), or ion_promisor_done() and fail() of the C code.
Invoke(s) ==
  /\ MayCall
  /\ Invoking(s)
  /\ stack' = Append(stack, CopyFrame("invoke", s, NewCopy))
  /\ UNCHANGED <<handlers, awaits, asleep, crashed, stray, released, moves>>

User ==
  \/ \E o \in Prototypes \cup Outsiders :
       \/ \E h \in Thens : Then(o, h)
       \/ \E s \in Roots : Chain(o, s)
       \/ \E w \in Outsiders : Join(o, w)
       \/ \E x \in Objects : Forget(o, x)
  \/ \E s \in Roots : Invoke(s)
-----------------------------------------------------------------------------
PrototypesInit ==
  /\ handlers = [o \in Objects |-> <<>>]
  /\ awaits = [w \in Outsiders |-> NoObject]
  /\ used = {}
  /\ origin = [c \in Copies |-> NoObject]
  /\ call = [o \in Objects |-> 0] /\ made = 0
  /\ asleep = {} /\ stack = <<>> /\ crashed = FALSE
  /\ due = {} /\ stray = {} /\ released = Roots /\ moves = 0 /\ spoiled = FALSE

\* Bound: once spoiled, the program calls nothing more.
PrototypesNext == ~crashed /\ ((~spoiled /\ User) \/ Machine \/ Leave \/ \E c \in Copies : Resume(c))
PrototypesSpec == PrototypesInit /\ [][PrototypesNext]_prototypesVars
-----------------------------------------------------------------------------
(***************************************************************************)
(* Properties.  A release callback that uses a sequence which is being     *)
(* copied (spoiled) voids the first: the loop reads the array it changes.  *)
(***************************************************************************)

\* An invocation is heard by exactly those who were listening when it was
\* made, once each, whatever they subscribed, left or invoked meanwhile: when
\* it is over nobody is still due, and the arrays were whole on the way.
Running(k) ==
  \/ \E n \in DOMAIN stack : stack[n].c # NoObject /\ call[stack[n].c] = k
  \/ \E c \in asleep : call[c] = k

HeardOnce ==
  ~spoiled => ~crashed /\ stray = {} /\ \A m \in due : Running(m[1])

\* A coroutine is held by the one promise it awaits: a move neither loses it
\* nor leaves it in two arrays.
HeldOnce ==
  \A w \in Outsiders :
    /\ Cardinality({o \in Objects : w \in Handled(o)}) <= 1
    /\ awaits[w] # NoObject => w \in Handled(awaits[w])

\* A sequence that nobody listens to any more has been released.
ReleasedWhenIdle ==
  \A s \in Releasable :
    handlers[s] = <<>> /\ (\A n \in DOMAIN stack : Copying(stack[n]) => stack[n].o # s)
      => s \in released
=============================================================================
