------------------------------- MODULE Timers -------------------------------
(***************************************************************************)
(* ION::await(), ION::interval() and ION::cancelInterval(): the timer part *)
(* of src/src/classes/ION.c.                                               *)
(*                                                                         *)
(* Each timer is a heap object (struct _ion_interval) with a libevent      *)
(* event; the named ones are also in the table GION(timers).  A tick       *)
(* settles a deferred or invokes a sequence: handlers run, and may create  *)
(* and cancel timers, before the tick goes on with the object.  The stack  *)
(* holds those activations.                                                *)
(***************************************************************************)
EXTENDS Integers, Sequences

CONSTANTS
  Timers,     \* the interval objects; memory is not reused
  Names,      \* names of intervals
  Numeric,    \* ... that PHP arrays take for integers ("5")
  None,       \* a NULL pointer
  Times,      \* timeouts: doubles, in parts of a microsecond
  Fine,       \* parts in a microsecond
  Unit,       \* microseconds in a second
  IntMax,     \* INT_MAX
  Programs,   \* sets of LibertyNames: the unguarded things a program does
  MaxDepth    \* bound: user code at this stack depth calls nothing deeper

LibertyNames == {
  "duplicate",  \* interval() with a name that is in use
  "numeric",    \* interval() with a numeric name
  "unnamed",    \* interval() without a name
  "own"}        \* cancelInterval() in a callback of the interval itself

ASSUME NoneAssumption == None \notin Timers \cup Names
ASSUME NumericAssumption == Numeric \subseteq Names
ASSUME ProgramsAssumption == Programs \subseteq SUBSET LibertyNames
ASSUME NumbersAssumption ==
  Times \subseteq Nat /\ {Fine, Unit} \subseteq Nat \ {0} /\ IntMax \in Nat
ASSUME DepthAssumption == MaxDepth \in Nat

VARIABLES
  program,  \* the liberties of this program; it never changes
  memory,   \* memory[t]: "unused", "live" or "freed"
  repeat,   \* the timers made by interval()
  name,     \* name[t], None for those of await()
  asked,    \* the timeout the program asked for
  tv,       \* the timeval made of it
  armed,    \* the timers whose event is pending in libevent
  table,    \* GION(timers)
  promise,  \* the deferred of await(): "pending", "done" or "failed"
  stack,    \* activations with user code on top, top last
  crashed   \* freed memory or a NULL pointer has been used

fields == <<repeat, name, asked, tv>>
vars == <<program, memory, fields, armed, table, promise, stack, crashed>>

\*   tick     in _ion_interval_invoke(), the handlers of the tick run
\*   failing  ... the handlers of the failure to re-arm run
\*   cancel   in Deferred::cancel(), the handlers of the deferred run
Activation == [at : {"tick", "failing", "cancel"}, t : Timers]
Push(at, t) == stack' = Append(stack, [at |-> at, t |-> t])
Top == stack[Len(stack)]
Pop == stack' = SubSeq(stack, 1, Len(stack) - 1)
TopAt(at) == stack # <<>> /\ Top.at = at
Active(t) == \E k \in DOMAIN stack : stack[k].t = t

May(liberty) == liberty \in program
MayCall == Len(stack) < MaxDepth
-----------------------------------------------------------------------------
(***************************************************************************)
(* (int)timeout and (int)(timeout*1000000): a double is cut off.  One that *)
(* no int holds has no defined result: INT_MIN on x86, INT_MAX on ARM.     *)
(* The remainder is that of C, with the sign of what is divided.           *)
(***************************************************************************)
ToInt(whole) == IF whole <= IntMax THEN {whole} ELSE {IntMax, -IntMax - 1}

Remainder(i) == IF i >= 0 THEN i % Unit ELSE -((-i) % Unit)

Timevals(time) ==
  [sec  : ToInt(time \div (Fine * Unit)),
   usec : {Remainder(i) : i \in ToInt(time \div Fine)}]

\* zend_hash_add_ptr(): nothing when the key is there.  zend_symtable_del():
\* a numeric name is looked up as an integer, and not found.
Added(t, n) == IF n # None /\ table[n] = None THEN [table EXCEPT ![n] = t] ELSE table
Deleted(tab, n) == IF n = None \/ n \in Numeric THEN tab ELSE [tab EXCEPT ![n] = None]

\* Mutant: the event is not deleted.
FreedArmed(t) ==
  /\ memory' = [memory EXCEPT ![t] = "freed"]
  /\ table' = Deleted(table, name[t])
  /\ UNCHANGED armed

\* Mutant: the table keeps the pointer.
FreedListed(t) ==
  /\ memory' = [memory EXCEPT ![t] = "freed"]
  /\ armed' = armed \ {t}
  /\ UNCHANGED table

\* _ion_interval_free() on an object that is still there.
Free(t) ==
  /\ memory' = [memory EXCEPT ![t] = "freed"]
  /\ armed' = armed \ {t}
  /\ table' = Deleted(table, name[t])

Crash == crashed' = TRUE /\ UNCHANGED <<memory, fields, armed, table, promise, stack>>
-----------------------------------------------------------------------------
(***************************************************************************)
(* Methods.  event_add() may fail: the object is freed on the spot.        *)
(***************************************************************************)
Create(t, once, n, time) ==
  /\ MayCall /\ memory[t] = "unused"
  /\ repeat' = IF once THEN repeat ELSE repeat \cup {t}
  /\ name' = [name EXCEPT ![t] = n]
  /\ asked' = [asked EXCEPT ![t] = time]
  /\ \E timeval \in Timevals(time) : tv' = [tv EXCEPT ![t] = timeval]
  /\ \/ /\ memory' = [memory EXCEPT ![t] = "live"]
        /\ armed' = armed \cup {t}
        /\ table' = Added(t, n)
     \/ /\ memory' = [memory EXCEPT ![t] = "freed"]
        /\ table' = Deleted(Added(t, n), n)
        /\ UNCHANGED armed
  /\ UNCHANGED <<promise, stack, crashed>>

Await(t, time) == Create(t, TRUE, None, time)

Interval(t, n, time) ==
  /\ table[n] # None => May("duplicate")
  /\ n \in Numeric => May("numeric")
  /\ Create(t, FALSE, n, time)

\* interval() without a name reads the length of a NULL string.
IntervalUnnamed ==
  /\ MayCall
  /\ May("unnamed")
  /\ Crash

\* The entry found may be one that _ion_interval_free() could not delete.
CancelInterval(n) ==
  /\ table[n] # None
  /\ Active(table[n]) => May("own")
  /\ IF memory[table[n]] = "freed"
     THEN Crash
     ELSE Free(table[n]) /\ UNCHANGED <<fields, promise, stack, crashed>>

\* Deferred::cancel() on what await() returned: the timer is freed, the
\* deferred fails, its handlers run.
CancelAwait(t) ==
  /\ MayCall
  /\ memory[t] = "live" /\ t \notin repeat /\ promise[t] = "pending"
  /\ Free(t)
  /\ promise' = [promise EXCEPT ![t] = "failed"]
  /\ Push("cancel", t)
  /\ UNCHANGED <<fields, crashed>>

Program ==
  \/ \E t \in Timers, time \in Times : Await(t, time) \/ \E n \in Names : Interval(t, n, time)
  \/ IntervalUnnamed
  \/ \E n \in Names : CancelInterval(n)
  \/ \E t \in Timers : CancelAwait(t)
-----------------------------------------------------------------------------
(***************************************************************************)
(* _ion_interval_invoke(), called by the event loop: the event is no more  *)
(* pending, the deferred is done or a clone of the sequence runs.          *)
(***************************************************************************)
Tick(t) ==
  /\ stack = <<>> /\ t \in armed
  /\ armed' = armed \ {t}
  /\ promise' = IF t \in repeat THEN promise ELSE [promise EXCEPT ![t] = "done"]
  /\ Push("tick", t)
  /\ UNCHANGED <<memory, fields, table, crashed>>

\* Mutant: an interval is not armed again.
RepeatOnce ==
  /\ TopAt("tick") /\ memory[Top.t] = "live" /\ Top.t \in repeat
  /\ Pop
  /\ UNCHANGED <<memory, fields, armed, table, promise, crashed>>

\* An interval is armed again, or fails: the sequence is told, and freed.
Repeat ==
  /\ TopAt("tick") /\ memory[Top.t] = "live" /\ Top.t \in repeat
  /\ \/ armed' = armed \cup {Top.t} /\ Pop
     \/ stack' = [stack EXCEPT ![Len(stack)].at = "failing"] /\ UNCHANGED armed
  /\ UNCHANGED <<memory, fields, table, promise, crashed>>

\* Mutant: the timer of await() is armed again.
RunOutAgain ==
  /\ \/ TopAt("tick") /\ Top.t \notin repeat
     \/ TopAt("failing")
  /\ memory[Top.t] = "live"
  /\ armed' = armed \cup {Top.t}
  /\ Pop
  /\ UNCHANGED <<memory, table, fields, promise, crashed>>

\* The timer is done with.
RunOut ==
  /\ \/ TopAt("tick") /\ Top.t \notin repeat
     \/ TopAt("failing")
  /\ memory[Top.t] = "live"
  /\ Free(Top.t)
  /\ Pop
  /\ UNCHANGED <<fields, promise, crashed>>

\* The handlers have canceled the interval whose tick goes on.
TickFreed ==
  /\ TopAt("tick") \/ TopAt("failing")
  /\ memory[Top.t] = "freed"
  /\ Crash

Canceled ==
  /\ TopAt("cancel")
  /\ Pop
  /\ UNCHANGED <<memory, fields, armed, table, promise, crashed>>

HandlersReturn == Repeat \/ RunOut \/ TickFreed \/ Canceled
-----------------------------------------------------------------------------
Init ==
  /\ program \in Programs
  /\ memory = [t \in Timers |-> "unused"]
  /\ repeat = {}
  /\ name = [t \in Timers |-> None]
  /\ asked = [t \in Timers |-> 0]
  /\ tv = [t \in Timers |-> [sec |-> 0, usec |-> 0]]
  /\ armed = {}
  /\ table = [n \in Names |-> None]
  /\ promise = [t \in Timers |-> "pending"]
  /\ stack = <<>>
  /\ crashed = FALSE

\* The process runs, and the program is the same.
Running == ~crashed /\ UNCHANGED program

Next == Running /\ (Program \/ (\E t \in Timers : Tick(t)) \/ HandlersReturn)

Spec == Init /\ [][Next]_vars
-----------------------------------------------------------------------------
(***************************************************************************)
(* Properties.                                                             *)
(***************************************************************************)

\* libevent holds the event of a timer exactly while the timer exists and
\* its own tick is not in progress: no event points to freed memory, and no
\* timer has lost its event, whatever handlers create or cancel meanwhile.
\* What an await() has been told cannot change: its timer is gone by then.
Ticking(t) == \E k \in DOMAIN stack : stack[k].t = t /\ stack[k].at \in {"tick", "failing"}
ArmedWhileLive == \A t \in Timers :
  /\ t \in armed <=> memory[t] = "live" /\ ~Ticking(t)
  /\ memory[t] = "live" /\ promise[t] # "pending" => Ticking(t)

\* No freed interval is used, by the table, by libevent or by a tick, unless
\* the program uses what freeing does not clear: a numeric name, no name, or
\* an interval that cancels itself.
NoCrash == crashed => program \cap {"numeric", "unnamed", "own"} # {}

\* The table and the intervals agree: an entry points to an interval of that
\* name, and every interval with a name is found by it, unless names are used
\* twice or are numbers.
TableExact == program \cap {"duplicate", "numeric"} = {} =>
  /\ \A n \in Names : table[n] # None => memory[table[n]] = "live" /\ name[table[n]] = n
  /\ \A t \in Timers : memory[t] = "live" /\ name[t] # None => table[name[t]] = t

\* ION::await(12) is a timer of 12 seconds, says the documentation: a timer
\* is given to libevent with the time asked for, to the microsecond.  The code
\* does not keep this: the product of _ion_timer_ctor() overflows.
TimeKept == \A t \in Timers : tv[t].sec * Unit + tv[t].usec = asked[t] \div Fine

\* An await() ends, unless the process has crashed.
AwaitEnds == \A t \in Timers :
  memory[t] = "live" /\ t \notin repeat ~> memory[t] = "freed" \/ crashed

\* An interval ticks again and again, unless it is canceled.
IntervalTicks == \A t \in Timers :
  memory[t] = "live" /\ t \in repeat ~> Ticking(t) \/ memory[t] = "freed" \/ crashed

(***************************************************************************)
(* Fairness: handlers return, and the loop gets to every timer that is     *)
(* due again and again (libevent runs all the due ones in each turn).      *)
(***************************************************************************)
Fairness == /\ SF_vars(Running /\ HandlersReturn)
            /\ \A t \in Timers : SF_vars(Running /\ Tick(t))
FairSpec == Spec /\ Fairness
=============================================================================
