-------------------------- MODULE PrototypesProofs -------------------------
(***************************************************************************)
(* What sequences keep, for any number of sequences, handlers, coroutines  *)
(* and invocations: a coroutine is held by the one promise it awaits, a    *)
(* sequence that nobody listens to any more is released, and an invocation *)
(* is heard once by each of those who were listening.  The first two hold  *)
(* even when a release callback uses a sequence that is being copied.      *)
(***************************************************************************)
EXTENDS Prototypes, HandlerArrayProofs

(***************************************************************************)
(* The types.  A prototype holds no copy, a copy no prototype, an outsider *)
(* only prototypes; only the outsiders that wait wait for something, which *)
(* is no outsider.                                                         *)
(***************************************************************************)
Slots(o) == IF o \in Copies THEN Copies \cup Outsiders
            ELSE IF o \in Outsiders THEN Prototypes
            ELSE Prototypes \cup Outsiders \cup {NoObject, Junk}

Activation(f) ==
  /\ f.i # 0
  /\ Copying(f) => f.o \in Prototypes /\ f.c \in Copies
  /\ f.at = "release" => f.o \in Releasable /\ f.c = NoObject
  /\ f.at \in {"run", "notify"} => f.c \in Copies \cup Outsiders

Activations == {f \in Frame : Activation(f)}

TypeOK ==
  /\ handlers \in [Objects -> Seq(Objects \cup {NoObject, Junk})]
  /\ \A o \in Objects : \A j \in DOMAIN handlers[o] : handlers[o][j] \in Slots(o)
  /\ awaits \in [Outsiders -> Roots \cup Copies \cup {NoObject}]
  /\ stack \in Seq(Activations)

(***************************************************************************)
(* Who owns a copy: the activation it is made or resolved in, the slot     *)
(* from which it will be resolved, or the generator that it waits for.     *)
(***************************************************************************)
\* No loop has passed slot j of the copy o.
Ahead(o, j) == \A n \in DOMAIN stack :
  stack[n].at = "notify" /\ stack[n].c = o => stack[n].i <= j

\* A copy that an activation above another one makes is not yet to be resolved.
Idle(x, o) ==
  /\ x \in used /\ x \notin asleep
  /\ \A n \in DOMAIN stack : stack[n].c = x =>
       stack[n].at = "copy" /\ n - 1 \in DOMAIN stack /\ stack[n - 1].c = o

ActiveOnce ==
  /\ \A n \in DOMAIN stack : stack[n].c \in Copies => stack[n].c \in used \ asleep
  /\ \A m, n \in DOMAIN stack : stack[m].c = stack[n].c /\ stack[m].c \in Copies => m = n
  /\ asleep \subseteq used \cap Copies

IdleInSlots ==
  \A o \in Copies : \A j \in DOMAIN handlers[o] :
    handlers[o][j] \in Copies /\ Ahead(o, j) => Idle(handlers[o][j], o)

SlotOnce ==
  \A o, p \in Copies : \A j \in DOMAIN handlers[o], k \in DOMAIN handlers[p] :
    handlers[o][j] = handlers[p][k] /\ handlers[o][j] \in Copies
    /\ Ahead(o, j) /\ Ahead(p, k) => o = p /\ j = k

Freed == \A c \in Copies \ used : handlers[c] = <<>>

Owned == ActiveOnce /\ IdleInSlots /\ SlotOnce /\ Freed

(***************************************************************************)
(* An outsider is in one slot at most, in none before it is put there, and *)
(* in a slot ahead of what it waits for.                                   *)
(***************************************************************************)
Unplaced == \A w \in Outsiders \ used : \A o \in Objects :
  \A j \in DOMAIN handlers[o] : handlers[o][j] # w

OneSlot == \A o, p \in Objects : \A j \in DOMAIN handlers[o], k \in DOMAIN handlers[p] :
  handlers[o][j] = handlers[p][k] /\ handlers[o][j] \in Outsiders => o = p /\ j = k

Awaiting == \A w \in Outsiders : awaits[w] # NoObject =>
  \E j \in DOMAIN handlers[awaits[w]] : handlers[awaits[w]][j] = w /\ Ahead(awaits[w], j)

Placed == Unplaced /\ OneSlot /\ Awaiting

(***************************************************************************)
(* An empty sequence has been released, or the activation that will do it  *)
(* is in the middle of copying it.                                         *)
(***************************************************************************)
Releasing == \A s \in Releasable : handlers[s] = <<>> =>
  \/ s \in released
  \/ \E n \in DOMAIN stack : Copying(stack[n]) /\ stack[n].o = s /\ stack[n].i # 1

IInv == TypeOK /\ Owned /\ Placed /\ Releasing
-----------------------------------------------------------------------------
(* What the steps do to the stack.                                         *)

Pops == /\ DOMAIN stack' = DOMAIN stack \ {Len(stack)}
        /\ \A n \in DOMAIN stack' : stack'[n] = stack[n]
Swaps(g) == /\ DOMAIN stack' = DOMAIN stack /\ stack'[Len(stack)] = g
            /\ \A n \in DOMAIN stack \ {Len(stack)} : stack'[n] = stack[n]
Pushes(f) == /\ DOMAIN stack' = DOMAIN stack \cup {Len(stack) + 1}
             /\ stack'[Len(stack) + 1] = f
             /\ \A n \in DOMAIN stack : stack'[n] = stack[n]
SwapsPushes(g, f) ==
  /\ DOMAIN stack' = DOMAIN stack \cup {Len(stack) + 1}
  /\ stack'[Len(stack)] = g /\ stack'[Len(stack) + 1] = f
  /\ \A n \in DOMAIN stack \ {Len(stack)} : stack'[n] = stack[n]

LEMMA Ends == \A n \in Nat : /\ n + 1 \notin 1 .. n
                             /\ \A k \in 1 .. n + 1 : k = n + 1 \/ k \in 1 .. n
                             /\ n # 0 => n \in 1 .. n /\ 1 .. n - 1 = (1 .. n) \ {n}
OBVIOUS

LEMMA StackFacts ==
  ASSUME TypeOK
  PROVE  /\ Len(stack) \in Nat /\ DOMAIN stack = 1 .. Len(stack)
         /\ Len(stack) + 1 \notin DOMAIN stack
         /\ \A n \in DOMAIN stack : stack[n] \in Activations
         /\ stack # <<>> => Len(stack) \in DOMAIN stack /\ Top = stack[Len(stack)]
BY DEF TypeOK, Top

LEMMA StackShapes ==
  ASSUME TypeOK, NEW f \in Activations
  PROVE  /\ stack' = Append(stack, f) => Pushes(f) /\ stack' \in Seq(Activations)
         /\ stack # <<>> =>
              /\ stack' = Below => Pops /\ stack' \in Seq(Activations)
              /\ stack' = Append(Below, f) => Swaps(f) /\ stack' \in Seq(Activations)
              /\ \A g \in Activations : stack' = Append(Append(Below, f), g) =>
                   SwapsPushes(f, g) /\ stack' \in Seq(Activations)
<1>1. stack \in Seq(Activations) /\ Len(stack) \in Nat /\ DOMAIN stack = 1 .. Len(stack)
  BY StackFacts DEF TypeOK
<1>2. stack' = Append(stack, f) => Pushes(f) /\ stack' \in Seq(Activations)
  <2> SUFFICES ASSUME stack' = Append(stack, f)
               PROVE  Pushes(f) /\ stack' \in Seq(Activations)
    OBVIOUS
  <2>1. /\ stack' \in Seq(Activations) /\ DOMAIN stack' = 1 .. Len(stack) + 1
        /\ stack'[Len(stack) + 1] = f /\ \A n \in 1 .. Len(stack) : stack'[n] = stack[n]
    BY <1>1
  <2>2. 1 .. Len(stack) + 1 = (1 .. Len(stack)) \cup {Len(stack) + 1}
    BY <1>1
  <2> QED
    BY <1>1, <2>1, <2>2 DEF Pushes
<1>3. ASSUME stack # <<>>
      PROVE  /\ Below \in Seq(Activations) /\ Len(Below) = Len(stack) - 1
             /\ DOMAIN Below = DOMAIN stack \ {Len(stack)}
             /\ \A n \in DOMAIN Below : Below[n] = stack[n]
             /\ Len(stack) - 1 \in Nat /\ Len(stack) \in DOMAIN stack
  <2>1. Len(stack) # 0
    BY <1>1, <1>3
  <2>2. /\ Below \in Seq(Activations) /\ Len(Below) = Len(stack) - 1
        /\ \A n \in 1 .. Len(stack) - 1 : Below[n] = stack[n]
    BY <1>1, <2>1 DEF Below
  <2>3. DOMAIN Below = 1 .. Len(stack) - 1
    BY <2>2
  <2> QED
    BY <1>1, <2>1, <2>2, <2>3
<1>4. ASSUME stack # <<>>, stack' = Append(Below, f)
      PROVE  Swaps(f) /\ stack' \in Seq(Activations)
  <2>1. /\ stack' \in Seq(Activations) /\ DOMAIN stack' = 1 .. (Len(stack) - 1) + 1
        /\ stack'[(Len(stack) - 1) + 1] = f
        /\ \A n \in 1 .. Len(stack) - 1 : stack'[n] = Below[n]
    BY <1>3, <1>4
  <2>2. (Len(stack) - 1) + 1 = Len(stack) /\ DOMAIN Below = 1 .. Len(stack) - 1
    BY <1>1, <1>3, <1>4
  <2> QED
    BY <1>1, <1>3, <1>4, <2>1, <2>2 DEF Swaps
<1>5. ASSUME stack # <<>>, NEW g \in Activations, stack' = Append(Append(Below, f), g)
      PROVE  SwapsPushes(f, g) /\ stack' \in Seq(Activations)
  <2> DEFINE b == Append(Below, f)
  <2>1. /\ b \in Seq(Activations) /\ Len(b) = (Len(stack) - 1) + 1
        /\ b[(Len(stack) - 1) + 1] = f
        /\ \A n \in 1 .. Len(stack) - 1 : b[n] = Below[n]
    BY <1>3, <1>5
  <2>2. /\ (Len(stack) - 1) + 1 = Len(stack) /\ DOMAIN Below = 1 .. Len(stack) - 1
        /\ 1 .. Len(stack) + 1 = (1 .. Len(stack)) \cup {Len(stack) + 1}
        /\ Len(stack) \in 1 .. Len(stack)
    BY <1>1, <1>3, <1>5
  <2>3. Len(b) = Len(stack) /\ b[Len(stack)] = f
    BY <2>1, <2>2
  <2>4. stack' = Append(b, g)
    BY <1>5
  <2> HIDE DEF b
  <2>5. /\ stack' \in Seq(Activations) /\ DOMAIN stack' = 1 .. Len(stack) + 1
        /\ stack'[Len(stack) + 1] = g
        /\ \A n \in 1 .. Len(stack) : stack'[n] = b[n]
    BY <2>1, <2>3, <2>4
  <2> QED
    BY <1>1, <1>3, <1>5, <2>1, <2>2, <2>3, <2>5 DEF SwapsPushes
<1> QED
  BY <1>2, <1>3, <1>4, <1>5 DEF Pops

\* The activations that the steps make are well formed.
LEMMA Activated ==
  /\ \A c \in Copies \cup Outsiders : \A at \in {"run", "notify"} :
       NewFrame(at, NoObject, c) \in Activations
  /\ \A o \in Releasable : NewFrame("release", o, NoObject) \in Activations
<1>1. Releasable \subseteq Objects /\ Copies \cup Outsiders \subseteq Objects
  BY DisjointAssumption DEF Objects, Prototypes
<1> QED
  BY <1>1 DEF NewFrame, Activations, Activation, Frame, Copying

LEMMA CopyActivated ==
  ASSUME TypeOK, NEW o \in Prototypes, NEW c \in Copies, NEW at \in {"copy", "invoke"}
  PROVE  CopyFrame(at, o, c) \in Activations
<1>1. Len(handlers[o]) \in Nat /\ o \in Objects /\ c \in Objects
  BY DEF TypeOK, Objects
<1> QED
  BY <1>1 DEF CopyFrame, NewFrame, Activations, Activation, Frame, Copying

LEMMA Advanced ==
  ASSUME NEW f \in Activations
  PROVE  /\ f.i \in Nat \ {0} /\ f.i + 1 # 1 /\ f.moved \in Nat
         /\ f.at \in {"copy", "invoke", "release", "run", "notify"}
         /\ Copying(f) => f.o \in Prototypes /\ f.c \in Copies /\ f.at # "notify"
         /\ f.at = "release" => f.o \in Releasable /\ f.c = NoObject
         /\ f.at \in {"run", "notify"} => f.c \in Copies \cup Outsiders /\ ~Copying(f)
<1>1. f \in Frame /\ Activation(f)
  BY DEF Activations
<1> QED
  BY <1>1 DEF Activation, Frame, Copying

LEMMA Advancing ==
  ASSUME TypeOK, stack # <<>>
  PROVE  /\ Advance \in Activations /\ Advance.at = Top.at /\ Advance.c = Top.c
         /\ Advance.o = Top.o /\ Advance.i = Top.i + 1
         /\ LET g == [Advance EXCEPT !.moved = @ + 1]
            IN  /\ g \in Activations /\ g.at = Top.at /\ g.c = Top.c
                /\ g.o = Top.o /\ g.i = Top.i + 1
<1>1. Top \in Activations
  BY StackFacts
<1>2. Top \in Frame /\ Activation(Top) /\ Top.i \in Nat
  BY <1>1 DEF Activations, Frame
<1>3. /\ Advance \in Frame /\ Advance.at = Top.at /\ Advance.c = Top.c
      /\ Advance.o = Top.o /\ Advance.i = Top.i + 1
  BY <1>2 DEF Advance, Frame
<1>4. Top.i + 1 # 0
  BY <1>2
<1>5. Activation(Advance)
  BY <1>2, <1>3, <1>4 DEF Activation, Copying
<1> DEFINE g == [Advance EXCEPT !.moved = @ + 1]
<1>6. g \in Frame /\ g.at = Top.at /\ g.c = Top.c /\ g.o = Top.o /\ g.i = Top.i + 1
  BY <1>3 DEF Frame
<1>7. Activation(g)
  <2> HIDE DEF g
  <2> QED
    BY <1>2, <1>6, <1>4 DEF Activation, Copying
<1> QED
  BY <1>3, <1>5, <1>6, <1>7 DEF Activations
-----------------------------------------------------------------------------
(* Which activations stay, and which slots are still ahead.                *)

Kept(n) ==
  /\ n \in DOMAIN stack /\ stack'[n].c = stack[n].c
  /\ stack[n].at = "copy" => stack'[n].at = "copy"
  /\ n - 1 \in DOMAIN stack => n - 1 \in DOMAIN stack' /\ stack'[n - 1].c = stack[n - 1].c

LEMMA KeptBelow ==
  ASSUME TypeOK, stack # <<>>, Pops
  PROVE  \A n \in DOMAIN stack' : n # Len(stack) /\ Kept(n)
<1>1. Len(stack) \in Nat /\ DOMAIN stack = 1 .. Len(stack)
  BY StackFacts
<1>2. \A l \in Nat : \A n \in (1 .. l) \ {l} : n - 1 \in 1 .. l => n - 1 \in (1 .. l) \ {l}
  OBVIOUS
<1> QED
  BY <1>1, <1>2 DEF Pops, Kept

LEMMA KeptTop ==
  ASSUME TypeOK, stack # <<>>, NEW g, NEW f, Swaps(g) \/ SwapsPushes(g, f)
  PROVE  /\ \A n \in DOMAIN stack' : n # Len(stack) /\ n # Len(stack) + 1 => Kept(n)
         /\ g.c = Top.c /\ (Top.at = "copy" => g.at = "copy") => Kept(Len(stack))
<1>1. /\ Len(stack) \in Nat /\ DOMAIN stack = 1 .. Len(stack) /\ Len(stack) \in DOMAIN stack
      /\ Top = stack[Len(stack)]
  BY StackFacts
<1>2. \A l \in Nat : \A n \in 1 .. l : n - 1 # l
  OBVIOUS
<1>3. \A n \in DOMAIN stack' : n \in DOMAIN stack \/ n = Len(stack) + 1
  BY DEF Swaps, SwapsPushes
<1>4. /\ DOMAIN stack \subseteq DOMAIN stack' /\ stack'[Len(stack)] = g
      /\ \A n \in DOMAIN stack \ {Len(stack)} : stack'[n] = stack[n]
  BY DEF Swaps, SwapsPushes
<1>5. \A n \in DOMAIN stack : n - 1 \in DOMAIN stack =>
        n - 1 \in DOMAIN stack' /\ stack'[n - 1] = stack[n - 1]
  <2>1. \A n \in DOMAIN stack : n - 1 # Len(stack)
    BY <1>1, <1>2
  <2> QED
    BY <1>4, <2>1
<1> QED
  BY <1>1, <1>3, <1>4, <1>5 DEF Kept

LEMMA KeptAll ==
  ASSUME NEW f, Pushes(f)
  PROVE  \A n \in DOMAIN stack : Kept(n)
BY DEF Pushes, Kept

LEMMA AheadBelow ==
  ASSUME TypeOK, stack # <<>>, Pops
  PROVE  \A o, j : /\ Ahead(o, j) => Ahead(o, j)'
                   /\ o # Top.c \/ Top.at # "notify" => (Ahead(o, j)' => Ahead(o, j))
<1>1. Len(stack) \in DOMAIN stack /\ Top = stack[Len(stack)]
  BY StackFacts
<1> QED
  BY <1>1 DEF Pops, Ahead

LEMMA AheadQuiet ==
  ASSUME TypeOK, NEW f, f.at # "notify",
         Pushes(f) \/ (stack # <<>> /\ Top.at # "notify" /\
                         (Swaps(f) \/ \E g : g.at # "notify" /\ SwapsPushes(f, g)))
  PROVE  \A o, j : Ahead(o, j)' <=> Ahead(o, j)
<1>1. stack # <<>> => Len(stack) \in DOMAIN stack /\ Top = stack[Len(stack)]
  BY StackFacts
<1>2. Len(stack) + 1 \notin DOMAIN stack
  BY StackFacts
<1>3. CASE Pushes(f)
  BY <1>2, <1>3 DEF Pushes, Ahead
<1>4. CASE stack # <<>> /\ Top.at # "notify" /\ Swaps(f)
  BY <1>1, <1>4 DEF Swaps, Ahead
<1>5. ASSUME stack # <<>>, Top.at # "notify", NEW g, g.at # "notify", SwapsPushes(f, g)
      PROVE  \A o, j : Ahead(o, j)' <=> Ahead(o, j)
  BY <1>1, <1>2, <1>5 DEF SwapsPushes, Ahead
<1> QED
  BY <1>3, <1>4, <1>5

\* The loop of a copy begins before all of its slots.
LEMMA AheadBegins ==
  ASSUME TypeOK, stack # <<>>, Top.at # "notify", NEW g, g.i = 1, Swaps(g)
  PROVE  \A o : \A j \in Nat \ {0} : /\ Ahead(o, j)' => Ahead(o, j)
                                     /\ Ahead(o, j) => Ahead(o, j)'
<1>1. Len(stack) \in DOMAIN stack /\ Top = stack[Len(stack)]
  BY StackFacts
<1>2. \A j \in Nat \ {0} : 1 <= j
  OBVIOUS
<1> QED
  BY <1>1, <1>2 DEF Swaps, Ahead

\* ... and goes on slot by slot.
LEMMA AheadNext ==
  ASSUME TypeOK, stack # <<>>, Top.at = "notify", NEW g, NEW f, f.at # "notify",
         g.at = "notify", g.c = Top.c, g.i = Top.i + 1, SwapsPushes(g, f)
  PROVE  \A o : \A j \in Nat : /\ Ahead(o, j)' => Ahead(o, j)
                               /\ Ahead(o, j)' => ~(o = Top.c /\ j = Top.i)
                               /\ Ahead(o, j) /\ ~(o = Top.c /\ j = Top.i) => Ahead(o, j)'
<1>1. /\ Len(stack) \in DOMAIN stack /\ Top = stack[Len(stack)] /\ Top.i \in Nat
      /\ Len(stack) + 1 \notin DOMAIN stack
  BY StackFacts, Advanced
<1>2. \A i, j \in Nat : /\ i + 1 <= j => i <= j /\ j # i
                        /\ i <= j /\ j # i => i + 1 <= j
  OBVIOUS
<1>3. /\ DOMAIN stack' = DOMAIN stack \cup {Len(stack) + 1}
      /\ stack'[Len(stack)] = g /\ stack'[Len(stack) + 1] = f
      /\ \A n \in DOMAIN stack \ {Len(stack)} : stack'[n] = stack[n]
  BY DEF SwapsPushes
<1> SUFFICES ASSUME NEW o, NEW j \in Nat
             PROVE  /\ Ahead(o, j)' => Ahead(o, j)
                    /\ Ahead(o, j)' => ~(o = Top.c /\ j = Top.i)
                    /\ Ahead(o, j) /\ ~(o = Top.c /\ j = Top.i) => Ahead(o, j)'
  OBVIOUS
<1>4. Ahead(o, j)' => (o = Top.c => Top.i + 1 <= j)
  BY <1>1, <1>3 DEF Ahead
<1>5. Ahead(o, j) => (o = Top.c => Top.i <= j)
  BY <1>1 DEF Ahead
<1>6. Ahead(o, j)' => Ahead(o, j)
  BY <1>1, <1>2, <1>3, <1>4 DEF Ahead
<1>7. Ahead(o, j) /\ (o = Top.c => Top.i + 1 <= j) => Ahead(o, j)'
  BY <1>1, <1>3 DEF Ahead
<1> QED
  BY <1>1, <1>2, <1>4, <1>5, <1>6, <1>7
-----------------------------------------------------------------------------
(* What a step needs to leave the copies and the outsiders in one place.   *)

AheadOnce(x) ==
  \A o, p \in Copies : \A j \in DOMAIN handlers[o], k \in DOMAIN handlers[p] :
    handlers[o][j] = x /\ handlers[p][k] = x /\ Ahead(o, j) /\ Ahead(p, k) => o = p /\ j = k

\* A copy y may enter the stack at e, a copy z may leave it.
Handing(y, e, z) ==
  /\ \A n \in DOMAIN stack' : stack'[n].c \in Copies =>
       (n = e /\ stack'[n].c = y) \/ (n # e /\ Kept(n) /\ stack[n].c # z)
  /\ \A x \in Copies \ {z} : x \in used => x \in used'
  /\ asleep' \subseteq used' \cap Copies /\ asleep' \subseteq asleep \cup {z} /\ y \notin asleep'
  /\ y \in Copies => y \in used' /\ \A n \in DOMAIN stack : stack[n].c # y
  /\ y \in Copies => AheadOnce(y)'
  /\ \A o \in Copies : \A j \in DOMAIN handlers'[o] :
       handlers'[o][j] \in Copies /\ Ahead(o, j)' =>
         \/ /\ handlers'[o][j] = y
            /\ stack'[e].at = "copy" /\ e - 1 \in DOMAIN stack' /\ stack'[e - 1].c = o
         \/ /\ j \in DOMAIN handlers[o] /\ Ahead(o, j)
            /\ handlers'[o][j] = handlers[o][j] /\ handlers[o][j] \notin {y, z}
  /\ \A c \in Copies \ used' : handlers'[c] = <<>>

LEMMA OwnedStep ==
  ASSUME Owned, NEW y, NEW e, NEW z, Handing(y, e, z)
  PROVE  Owned'
<1> USE DEF Handing
<1>1. ActiveOnce'
  <2>1. \A n \in DOMAIN stack' : stack'[n].c \in Copies => stack'[n].c \in used' \ asleep'
    <3>1. SUFFICES ASSUME NEW n \in DOMAIN stack', stack'[n].c \in Copies
                   PROVE  stack'[n].c \in used' \ asleep'
      OBVIOUS
    <3>2. CASE n = e /\ stack'[n].c = y
      BY <3>1, <3>2
    <3>3. CASE Kept(n) /\ stack[n].c # z
      BY <3>1, <3>3 DEF Kept, Owned, ActiveOnce
    <3> QED
      BY <3>1, <3>2, <3>3
  <2>2. ASSUME NEW m \in DOMAIN stack', NEW n \in DOMAIN stack',
               stack'[m].c = stack'[n].c, stack'[m].c \in Copies
        PROVE  m = n
    BY <2>2 DEF Kept, Owned, ActiveOnce
  <2> QED
    BY <2>1, <2>2 DEF ActiveOnce
<1>2. ASSUME NEW o \in Copies, NEW j \in DOMAIN handlers'[o],
             handlers'[o][j] \in Copies, Ahead(o, j)'
      PROVE  Idle(handlers[o][j], o)'
  <2>1. CASE /\ handlers'[o][j] = y
             /\ stack'[e].at = "copy" /\ e - 1 \in DOMAIN stack' /\ stack'[e - 1].c = o
    <3>1. \A n \in DOMAIN stack' : stack'[n].c = y => n = e
      BY <1>2, <2>1 DEF Kept
    <3> QED
      BY <1>2, <2>1, <3>1 DEF Idle
  <2>2. CASE /\ j \in DOMAIN handlers[o] /\ Ahead(o, j)
             /\ handlers'[o][j] = handlers[o][j] /\ handlers[o][j] \notin {y, z}
    <3> DEFINE x == handlers[o][j]
    <3>1. Idle(x, o) /\ x \in Copies
      BY <1>2, <2>2 DEF Owned, IdleInSlots
    <3>2. x \in used' /\ x \notin asleep'
      BY <2>2, <3>1 DEF Idle
    <3>3. ASSUME NEW n \in DOMAIN stack', stack'[n].c = x
          PROVE  stack'[n].at = "copy" /\ n - 1 \in DOMAIN stack' /\ stack'[n - 1].c = o
      <4>1. Kept(n)
        BY <2>2, <3>1, <3>3
      <4> QED
        BY <3>1, <3>3, <4>1 DEF Kept, Idle
    <3> QED
      BY <2>2, <3>2, <3>3 DEF Idle
  <2> QED
    BY <1>2, <2>1, <2>2
<1>3. SlotOnce'
  <2> SUFFICES ASSUME NEW o \in Copies, NEW p \in Copies,
                      NEW j \in DOMAIN handlers'[o], NEW k \in DOMAIN handlers'[p],
                      handlers'[o][j] = handlers'[p][k], handlers'[o][j] \in Copies,
                      Ahead(o, j)', Ahead(p, k)'
               PROVE  o = p /\ j = k
    BY DEF SlotOnce
  <2>1. CASE handlers'[o][j] = y
    <3>1. handlers'[p][k] = y /\ y \in Copies
      BY <2>1
    <3> QED
      BY <2>1, <3>1 DEF AheadOnce
  <2>2. CASE handlers'[o][j] # y
    BY <2>2 DEF Owned, SlotOnce
  <2> QED
    BY <2>1, <2>2
<1> QED
  BY <1>1, <1>2, <1>3 DEF Owned, IdleInSlots, Freed

\* Outsiders stay in their arrays; a wait may end.
LEMMA PlacedStep ==
  ASSUME Placed, used \cap Outsiders \subseteq used',
         \A o \in Objects : \A j \in DOMAIN handlers'[o] : handlers'[o][j] \in Outsiders =>
           \E i \in DOMAIN handlers[o] : handlers[o][i] = handlers'[o][j],
         \A o \in Objects : \A j, k \in DOMAIN handlers'[o] :
           handlers'[o][j] = handlers'[o][k] /\ handlers'[o][j] \in Outsiders => j = k,
         \A w \in Outsiders : awaits'[w] # NoObject =>
           \E j \in DOMAIN handlers'[awaits'[w]] :
             handlers'[awaits'[w]][j] = w /\ Ahead(awaits[w], j)'
  PROVE  Placed'
<1>1. ASSUME NEW w \in Outsiders, w \notin used', NEW o \in Objects, NEW j \in DOMAIN handlers'[o]
      PROVE  handlers'[o][j] # w
  BY <1>1 DEF Placed, Unplaced
<1>2. ASSUME NEW o \in Objects, NEW p \in Objects,
             NEW j \in DOMAIN handlers'[o], NEW k \in DOMAIN handlers'[p],
             handlers'[o][j] = handlers'[p][k], handlers'[o][j] \in Outsiders
      PROVE  o = p /\ j = k
  <2>1. o = p
    BY <1>2 DEF Placed, OneSlot
  <2> QED
    BY <1>2, <2>1
<1>3. Unplaced'
  BY <1>1 DEF Unplaced
<1>4. OneSlot'
  BY <1>2 DEF OneSlot
<1>5. Awaiting'
  <2>1. \A w \in Outsiders : awaits'[w] # NoObject =>
          \E j \in DOMAIN handlers'[awaits'[w]] :
            handlers'[awaits'[w]][j] = w /\ Ahead(awaits[w], j)'
    OBVIOUS
  <2> QED
    BY <2>1 DEF Awaiting
<1> QED
  BY <1>3, <1>4, <1>5 DEF Placed
-----------------------------------------------------------------------------
(* The kinds of objects, the arrays, and the steps that leave them alone.  *)

LEMMA Kinds ==
  /\ Prototypes \subseteq Objects /\ Outsiders \subseteq Objects /\ Copies \subseteq Objects
  /\ Roots \subseteq Prototypes /\ Thens \subseteq Prototypes /\ Releasable \subseteq Roots
  /\ NoObject \notin Objects /\ Junk \notin Objects /\ Junk # NoObject
  /\ \A x \in Prototypes : x \notin Copies /\ x \notin Outsiders
  /\ \A x \in Outsiders : x \notin Copies /\ x \notin Prototypes
  /\ \A x \in Copies : x \notin Prototypes /\ x \notin Outsiders
BY DisjointAssumption DEF Objects, Prototypes

LEMMA Arrays ==
  ASSUME TypeOK, NEW o \in Objects
  PROVE  /\ handlers[o] \in Seq(Objects \cup {NoObject, Junk})
         /\ Len(handlers[o]) \in Nat /\ DOMAIN handlers[o] = 1 .. Len(handlers[o])
         /\ \A j \in DOMAIN handlers[o] : j \in Nat \ {0} /\ handlers[o][j] \in Slots(o)
BY DEF TypeOK

LEMMA Appended ==
  ASSUME TypeOK, NEW o \in Objects, NEW h \in Objects
  PROVE  /\ Append(handlers[o], h) \in Seq(Objects \cup {NoObject, Junk})
         /\ DOMAIN Append(handlers[o], h) = DOMAIN handlers[o] \cup {Len(handlers[o]) + 1}
         /\ Len(handlers[o]) + 1 \notin DOMAIN handlers[o] /\ Len(handlers[o]) + 1 \in Nat \ {0}
         /\ Append(handlers[o], h)[Len(handlers[o]) + 1] = h
         /\ \A j \in DOMAIN handlers[o] : Append(handlers[o], h)[j] = handlers[o][j]
         /\ Append(handlers[o], h) # <<>>
<1>1. /\ handlers[o] \in Seq(Objects \cup {NoObject, Junk})
      /\ Len(handlers[o]) \in Nat /\ DOMAIN handlers[o] = 1 .. Len(handlers[o])
  BY Arrays
<1>2. \A n \in Nat : /\ 1 .. n + 1 = (1 .. n) \cup {n + 1}
                     /\ n + 1 \notin 1 .. n /\ n + 1 \in Nat \ {0}
  OBVIOUS
<1>3. /\ Append(handlers[o], h) \in Seq(Objects \cup {NoObject, Junk})
      /\ DOMAIN Append(handlers[o], h) = 1 .. Len(handlers[o]) + 1
      /\ Append(handlers[o], h)[Len(handlers[o]) + 1] = h
      /\ \A j \in 1 .. Len(handlers[o]) : Append(handlers[o], h)[j] = handlers[o][j]
      /\ Append(handlers[o], h) # <<>>
  BY <1>1
<1> QED
  BY <1>1, <1>2, <1>3

\* A loop over the handlers is over those of a copy or of an outsider.
LEMMA NoLoop ==
  ASSUME TypeOK, NEW o \in Prototypes, NEW j
  PROVE  Ahead(o, j)
BY StackFacts, Advanced, Kinds DEF Ahead

LEMMA TypedStep ==
  ASSUME TypeOK, awaits' \in [Outsiders -> Roots \cup Copies \cup {NoObject}],
         stack' \in Seq(Activations), handlers' = handlers
  PROVE  TypeOK'
BY DEF TypeOK, Slots

LEMMA OwnedQuiet ==
  ASSUME TypeOK, Owned, asleep' = asleep, used' \cap Copies = used \cap Copies,
         \A n \in DOMAIN stack' : stack'[n].c \in Copies => Kept(n),
         \A o \in Copies : handlers'[o] = handlers[o],
         \A o : \A j \in Nat \ {0} : Ahead(o, j)' => Ahead(o, j)
  PROVE  Owned'
<1>1. NoObject \notin Copies
  BY Kinds
<1>2. 0 \notin DOMAIN stack /\ \A n : Kept(n) => n # 0
  BY StackFacts DEF Kept
<1>3. \A n \in DOMAIN stack' : stack'[n].c \in Copies =>
        (n = 0 /\ stack'[n].c = NoObject) \/ (n # 0 /\ Kept(n) /\ stack[n].c # NoObject)
  BY <1>1, <1>2 DEF Kept
<1>4. /\ \A x \in Copies \ {NoObject} : x \in used => x \in used'
      /\ asleep' \subseteq used' \cap Copies /\ asleep' \subseteq asleep \cup {NoObject}
      /\ NoObject \notin asleep'
  BY <1>1 DEF Owned, ActiveOnce
<1>5. \A o \in Copies : \A j \in DOMAIN handlers'[o] :
        handlers'[o][j] \in Copies /\ Ahead(o, j)' =>
          \/ /\ handlers'[o][j] = NoObject
             /\ stack'[0].at = "copy" /\ 0 - 1 \in DOMAIN stack' /\ stack'[0 - 1].c = o
          \/ /\ j \in DOMAIN handlers[o] /\ Ahead(o, j)
             /\ handlers'[o][j] = handlers[o][j] /\ handlers[o][j] \notin {NoObject, NoObject}
  BY <1>1, Arrays, Kinds
<1>6. \A c \in Copies \ used' : handlers'[c] = <<>>
  BY DEF Owned, Freed
<1>7. /\ NoObject \in Copies => AheadOnce(NoObject)'
      /\ NoObject \in Copies =>
           NoObject \in used' /\ \A n \in DOMAIN stack : stack[n].c # NoObject
  BY <1>1
<1> QED
  <2>1. Handing(NoObject, 0, NoObject)
    BY <1>3, <1>4, <1>5, <1>6, <1>7 DEF Handing
  <2> QED
    BY <2>1, OwnedStep

LEMMA PlacedQuiet ==
  ASSUME TypeOK, Placed, used \cap Outsiders \subseteq used', handlers' = handlers,
         \A w \in Outsiders : awaits'[w] # NoObject =>
           /\ awaits'[w] = awaits[w]
           /\ \A j \in DOMAIN handlers[awaits[w]] :
                handlers[awaits[w]][j] = w /\ Ahead(awaits[w], j) => Ahead(awaits[w], j)'
  PROVE  Placed'
<1>1. ASSUME NEW w \in Outsiders, awaits'[w] # NoObject
      PROVE  \E j \in DOMAIN handlers'[awaits'[w]] :
               handlers'[awaits'[w]][j] = w /\ Ahead(awaits[w], j)'
  <2>1. /\ awaits'[w] = awaits[w]
        /\ \A j \in DOMAIN handlers[awaits[w]] :
             handlers[awaits[w]][j] = w /\ Ahead(awaits[w], j) => Ahead(awaits[w], j)'
    BY <1>1
  <2>2. PICK j \in DOMAIN handlers[awaits[w]] :
          handlers[awaits[w]][j] = w /\ Ahead(awaits[w], j)
    BY <1>1, <2>1 DEF Placed, Awaiting
  <2> QED
    BY <2>1, <2>2
<1>2. \A o \in Objects : \A j, k \in DOMAIN handlers'[o] :
        handlers'[o][j] = handlers'[o][k] /\ handlers'[o][j] \in Outsiders => j = k
  BY DEF Placed, OneSlot
<1> QED
  BY <1>1, <1>2, PlacedStep

LEMMA ReleasingStep ==
  ASSUME Releasing,
         \A s \in Releasable : handlers'[s] = <<>> =>
           s \in released' \/ (handlers[s] = <<>> /\ (s \in released => s \in released')),
         \A n \in DOMAIN stack : Copying(stack[n]) /\ stack[n].i # 1 =>
           \E m \in DOMAIN stack' :
             Copying(stack'[m]) /\ stack'[m].o = stack[n].o /\ stack'[m].i # 1
  PROVE  Releasing'
<1> SUFFICES ASSUME NEW s \in Releasable, handlers'[s] = <<>>, s \notin released'
             PROVE  \E m \in DOMAIN stack' :
                      Copying(stack'[m]) /\ stack'[m].o = s /\ stack'[m].i # 1
  BY DEF Releasing, Copying
<1>1. PICK n \in DOMAIN stack : Copying(stack[n]) /\ stack[n].o = s /\ stack[n].i # 1
  BY DEF Releasing
<1> QED
  BY <1>1

LEMMA CopyingKept ==
  ASSUME TypeOK, NEW g, NEW f,
         \/ Pushes(f)
         \/ stack # <<>> /\ ~Copying(Top) /\ Pops
         \/ /\ stack # <<>> /\ (Swaps(g) \/ SwapsPushes(g, f))
            /\ Copying(Top) => Copying(g) /\ g.o = Top.o /\ g.i # 1
  PROVE  \A n \in DOMAIN stack : Copying(stack[n]) /\ stack[n].i # 1 =>
           \E m \in DOMAIN stack' :
             Copying(stack'[m]) /\ stack'[m].o = stack[n].o /\ stack'[m].i # 1
<1>1. stack # <<>> => Len(stack) \in DOMAIN stack /\ Top = stack[Len(stack)]
  BY StackFacts
<1>2. CASE Pushes(f)
  BY <1>2 DEF Pushes
<1>3. CASE stack # <<>> /\ ~Copying(Top) /\ Pops
  <2>1. \A n \in DOMAIN stack : Copying(stack[n]) => n \in DOMAIN stack' /\ stack'[n] = stack[n]
    BY <1>1, <1>3 DEF Pops
  <2> QED
    BY <2>1
<1>4. CASE /\ stack # <<>> /\ (Swaps(g) \/ SwapsPushes(g, f))
           /\ Copying(Top) => Copying(g) /\ g.o = Top.o /\ g.i # 1
  <2>1. /\ Len(stack) \in DOMAIN stack' /\ stack'[Len(stack)] = g
        /\ \A n \in DOMAIN stack \ {Len(stack)} : n \in DOMAIN stack' /\ stack'[n] = stack[n]
    BY <1>1, <1>4 DEF Swaps, SwapsPushes
  <2> QED
    BY <1>1, <1>4, <2>1
<1> QED
  BY <1>2, <1>3, <1>4
-----------------------------------------------------------------------------
(* The callbacks begin, wait, go on and return.                            *)

LEMMA Unlabelled ==
  ASSUME TypeOK, stack # <<>>
  PROVE  /\ Top.at = "run" => Top.at # "notify" /\ ~Copying(Top) /\ Top.c \in Copies \cup Outsiders
         /\ Top.at = "release" => Top.at # "notify" /\ ~Copying(Top) /\ Top.c \notin Copies
         /\ Top.at = "notify" => ~Copying(Top) /\ Top.c \in Copies \cup Outsiders
         /\ Copying(Top) => /\ Top.at # "notify" /\ Top.at # "run"
                            /\ Top.c \in Copies /\ Top.o \in Prototypes
         /\ Top.i \in Nat \ {0} /\ Top.moved \in Nat
BY StackFacts, Advanced, Kinds DEF Copying

LEMMA CorruptedKeeps == ASSUME IInv, UNCHANGED <<objects, asleep, stack, released>> PROVE IInv'
BY DEF objects, IInv, TypeOK, Slots, Owned, ActiveOnce, IdleInSlots, Idle, SlotOnce, Freed,
   Ahead,
       Placed, Unplaced, OneSlot, Awaiting, Releasing

\* The arrays stay, and no loop passes a slot.
SameAhead == \A o : \A j \in Nat \ {0} :
  (Ahead(o, j)' => Ahead(o, j)) /\ (Ahead(o, j) => Ahead(o, j)')
SameCopying == \A n \in DOMAIN stack : Copying(stack[n]) /\ stack[n].i # 1 =>
  \E m \in DOMAIN stack' : Copying(stack'[m]) /\ stack'[m].o = stack[n].o /\ stack'[m].i # 1

LEMMA QuietStep ==
  ASSUME IInv, UNCHANGED <<handlers, awaits, released>>, used \cap Outsiders \subseteq used',
         stack' \in Seq(Activations), SameAhead, SameCopying
  PROVE  TypeOK' /\ Placed' /\ Releasing'
<1>1. TypeOK /\ Placed /\ Releasing /\ UNCHANGED <<handlers, awaits, released>>
  BY DEF IInv
<1>2. TypeOK'
  <2>1. awaits' \in [Outsiders -> Roots \cup Copies \cup {NoObject}]
    BY <1>1 DEF TypeOK
  <2> QED
    BY <1>1, <2>1, TypedStep
<1>3. Placed'
  <2>1. ASSUME NEW w \in Outsiders, awaits'[w] # NoObject
        PROVE  /\ awaits'[w] = awaits[w]
               /\ \A j \in DOMAIN handlers[awaits[w]] :
                    handlers[awaits[w]][j] = w /\ Ahead(awaits[w], j) => Ahead(awaits[w], j)'
    <3>1. awaits' = awaits /\ awaits[w] \in Objects
      BY <1>1, <2>1, Kinds DEF TypeOK
    <3>2. \A j \in DOMAIN handlers[awaits[w]] : j \in Nat \ {0}
      BY <1>1, <3>1, Arrays
    <3> QED
      BY <3>1, <3>2 DEF SameAhead
  <2> QED
    BY <1>1, <2>1, PlacedQuiet
<1>4. Releasing'
  BY <1>1, ReleasingStep DEF SameCopying
<1> QED
  BY <1>2, <1>3, <1>4

LEMMA ReturnKeeps == ASSUME IInv, Return PROVE IInv'
<1> DEFINE g == NewFrame("notify", NoObject, Top.c)
<1>1. /\ TypeOK /\ Owned /\ stack # <<>> /\ Top.at = "run" /\ stack' = Append(Below, g)
      /\ UNCHANGED <<handlers, awaits, used, asleep, released>>
  BY DEF IInv, Return, TopAt, objects, history
<1>2. Top.at # "notify" /\ ~Copying(Top) /\ Top.c \in Copies \cup Outsiders
  BY <1>1, Unlabelled
<1>3. g \in Activations /\ g.i = 1 /\ g.c = Top.c
  BY <1>2, Activated DEF NewFrame
<1> HIDE DEF g
<1>4. Swaps(g) /\ stack' \in Seq(Activations)
  BY <1>1, <1>3, StackShapes
<1>5. SameAhead
  BY <1>1, <1>2, <1>3, <1>4, AheadBegins DEF SameAhead
<1>6. SameCopying
  BY <1>1, <1>2, <1>4, CopyingKept DEF SameCopying
<1>7. \A n \in DOMAIN stack' : Kept(n)
  <2>1. \A n \in DOMAIN stack' : n # Len(stack) /\ n # Len(stack) + 1 => Kept(n)
    BY <1>1, <1>4, KeptTop
  <2>2. Kept(Len(stack))
    BY <1>1, <1>3, <1>4, KeptTop
  <2>3. \A n \in DOMAIN stack' : n # Len(stack) + 1
    BY <1>1, <1>4, StackFacts DEF Swaps
  <2> QED
    BY <2>1, <2>2, <2>3
<1>8. Owned'
  BY <1>1, <1>5, <1>7, OwnedQuiet DEF SameAhead
<1> QED
  BY <1>1, <1>4, <1>5, <1>6, <1>8, QuietStep DEF IInv

LEMMA ReleasedKeeps == ASSUME IInv, Released PROVE IInv'
<1>1. /\ TypeOK /\ Owned /\ stack # <<>> /\ Top.at = "release" /\ stack' = Below
      /\ UNCHANGED <<handlers, awaits, used, asleep, released>>
  BY DEF IInv, Released, TopAt, objects, history
<1>2. Top.at # "notify" /\ ~Copying(Top) /\ Top \in Activations
  BY <1>1, Unlabelled, StackFacts
<1>3. Pops /\ stack' \in Seq(Activations)
  BY <1>1, <1>2, StackShapes
<1>4. SameAhead
  BY <1>1, <1>2, <1>3, AheadBelow DEF SameAhead
<1>5. SameCopying
  BY <1>1, <1>2, <1>3, CopyingKept DEF SameCopying
<1>6. \A n \in DOMAIN stack' : Kept(n)
  BY <1>1, <1>3, KeptBelow
<1>7. Owned'
  BY <1>1, <1>4, <1>6, OwnedQuiet DEF SameAhead
<1> QED
  BY <1>1, <1>3, <1>4, <1>5, <1>7, QuietStep DEF IInv

\* A generator that waits owns its copy; no slot holds it.
LEMMA SuspendKeeps == ASSUME IInv, Suspend PROVE IInv'
<1> DEFINE z == Top.c
<1>1. /\ TypeOK /\ Owned /\ stack # <<>> /\ Top.at = "run" /\ z \in Copies
      /\ stack' = Below /\ asleep' = asleep \cup {z}
      /\ UNCHANGED <<handlers, awaits, used, released>>
  BY DEF IInv, Suspend, TopAt, objects, history
<1>2. /\ Top.at # "notify" /\ Top.at # "copy" /\ ~Copying(Top) /\ Top \in Activations
      /\ Top = stack[Len(stack)] /\ Len(stack) \in DOMAIN stack
  BY <1>1, Unlabelled, StackFacts DEF Copying
<1>3. Pops /\ stack' \in Seq(Activations)
  BY <1>1, <1>2, StackShapes
<1>4. SameAhead
  BY <1>1, <1>2, <1>3, AheadBelow DEF SameAhead
<1>5. SameCopying
  BY <1>1, <1>2, <1>3, CopyingKept DEF SameCopying
<1>6. \A n \in DOMAIN stack' : n # Len(stack) /\ Kept(n)
  BY <1>1, <1>3, KeptBelow
<1>7. ASSUME NEW o \in Copies, NEW j \in DOMAIN handlers[o], handlers[o][j] \in Copies, Ahead(o, j)'
      PROVE  Ahead(o, j) /\ handlers[o][j] # z
  <2>1. Ahead(o, j)
    BY <1>1, <1>4, <1>7, Arrays, Kinds DEF SameAhead
  <2>2. Idle(handlers[o][j], o)
    BY <1>1, <1>7, <2>1 DEF Owned, IdleInSlots
  <2> QED
    BY <1>2, <2>1, <2>2 DEF Idle
<1> HIDE DEF z
<1>8. Handing(NoObject, 0, z)
  <2>1. \A n \in DOMAIN stack' : stack'[n].c \in Copies => n # 0 /\ Kept(n) /\ stack[n].c # z
    BY <1>1, <1>2, <1>6, StackFacts DEF Kept, Owned, ActiveOnce, z
  <2>2. asleep' \subseteq used' \cap Copies
    BY <1>1, <1>2 DEF Owned, ActiveOnce, z
  <2>3. NoObject \notin Copies /\ NoObject \notin asleep'
    BY <2>2, Kinds
  <2> QED
    BY <1>1, <1>7, <2>1, <2>2, <2>3 DEF Handing, Owned, Freed
<1>9. Owned'
  BY <1>1, <1>8, OwnedStep
<1> QED
  BY <1>1, <1>3, <1>4, <1>5, <1>9, QuietStep DEF IInv

LEMMA ResumeKeeps == ASSUME IInv, NEW c \in Copies, Resume(c) PROVE IInv'
<1> DEFINE f == NewFrame("run", NoObject, c)
<1>1. /\ TypeOK /\ Owned /\ stack = <<>> /\ c \in asleep /\ stack' = <<f>>
      /\ asleep' = asleep \ {c} /\ UNCHANGED <<handlers, awaits, used, released>>
  BY DEF IInv, Resume, objects, history
<1>2. f \in Activations /\ f.at # "notify" /\ f.c = c
  BY Activated DEF NewFrame
<1> HIDE DEF f
<1>3. Len(stack) + 1 = 1 /\ DOMAIN stack = {} /\ stack' = Append(stack, f)
  BY <1>1, <1>2
<1>4. Pushes(f) /\ stack' \in Seq(Activations)
  BY <1>1, <1>2, <1>3, StackShapes
<1>5. SameAhead
  BY <1>1, <1>2, <1>4, AheadQuiet DEF SameAhead
<1>6. SameCopying
  BY <1>3 DEF SameCopying
<1>7. ASSUME NEW o \in Copies, NEW j \in DOMAIN handlers[o], handlers[o][j] \in Copies, Ahead(o, j)'
      PROVE  Ahead(o, j) /\ handlers[o][j] # c
  <2>1. Ahead(o, j)
    BY <1>1, <1>5, <1>7, Arrays, Kinds DEF SameAhead
  <2>2. Idle(handlers[o][j], o)
    BY <1>1, <1>7, <2>1 DEF Owned, IdleInSlots
  <2> QED
    BY <1>1, <2>1, <2>2 DEF Idle
<1>8. Handing(c, 1, NoObject)
  <2>1. \A n \in DOMAIN stack' : n = 1 /\ stack'[n].c = c
    BY <1>2, <1>3, <1>4 DEF Pushes
  <2>2. /\ asleep' \subseteq used' \cap Copies /\ asleep' \subseteq asleep /\ c \notin asleep'
        /\ c \in used'
    BY <1>1 DEF Owned, ActiveOnce
  <2>3. AheadOnce(c)'
    BY <1>1, <1>7 DEF AheadOnce
  <2>4. NoObject \notin Copies
    BY Kinds
  <2> QED
    BY <1>1, <1>3, <1>7, <2>1, <2>2, <2>3, <2>4 DEF Handing, Owned, Freed
<1>9. Owned'
  BY <1>1, <1>8, OwnedStep
<1> QED
  BY <1>1, <1>4, <1>5, <1>6, <1>9, QuietStep DEF IInv
-----------------------------------------------------------------------------
(* New copies, and those that are resolved.                                *)

LEMMA Unowned ==
  ASSUME TypeOK, Owned, NEW c \in Copies, c \notin used
  PROVE  /\ \A n \in DOMAIN stack : stack[n].c # c
         /\ handlers[c] = <<>> /\ c \notin asleep
         /\ \A o \in Copies : \A j \in DOMAIN handlers[o] : Ahead(o, j) => handlers[o][j] # c
BY DEF Owned, ActiveOnce, IdleInSlots, Idle, Freed

LEMMA NewCopyFacts ==
  ASSUME Allocatable
  PROVE  NewCopy \in Copies /\ NewCopy \notin used
BY DEF Allocatable, NewCopy

\* A copy is made for an invocation, at the top of the stack.
LEMMA InvokingOwned ==
  ASSUME TypeOK, Owned, NEW c \in Copies, c \notin used, NEW e, NEW f, f.c = c,
         used' = used \cup {c}, UNCHANGED <<handlers, asleep>>,
         \A o : \A j \in Nat \ {0} : Ahead(o, j)' => Ahead(o, j),
         e \in DOMAIN stack', stack'[e] = f, \A n \in DOMAIN stack' : n # e => Kept(n)
  PROVE  Owned'
<1>1. ASSUME NEW o \in Copies, NEW j \in DOMAIN handlers[o], Ahead(o, j)'
      PROVE  Ahead(o, j) /\ handlers[o][j] # c
  BY <1>1, Arrays, Kinds, Unowned
<1>2. Handing(c, e, NoObject)
  <2>1. \A n \in DOMAIN stack' : stack'[n].c \in Copies =>
          (n = e /\ stack'[n].c = c) \/ (n # e /\ Kept(n) /\ stack[n].c # NoObject)
    BY Kinds DEF Kept
  <2>2. /\ asleep' \subseteq used' \cap Copies /\ asleep' \subseteq asleep /\ c \notin asleep'
        /\ c \in used'
    BY DEF Owned, ActiveOnce
  <2>3. AheadOnce(c)'
    BY <1>1 DEF AheadOnce
  <2>4. NoObject \notin Copies /\ \A n \in DOMAIN stack : stack[n].c # c
    BY Kinds, Unowned
  <2> QED
    BY <1>1, <2>1, <2>2, <2>3, <2>4 DEF Handing, Owned, Freed
<1> QED
  BY <1>2, OwnedStep

LEMMA InvokeKeeps == ASSUME IInv, NEW s \in Roots, Invoke(s) PROVE IInv'
<1>1. PICK c : c = NewCopy
  OBVIOUS
<1> DEFINE f == CopyFrame("invoke", s, c)
<1>2. /\ TypeOK /\ Owned /\ stack' = Append(stack, f) /\ Allocatable /\ used' = used \cup {c}
      /\ UNCHANGED <<handlers, awaits, asleep, released>>
  BY <1>1 DEF IInv, Invoke, Invoking, Allocate
<1>3. c \in Copies /\ c \notin used
  BY <1>1, <1>2, NewCopyFacts
<1>4. f \in Activations /\ f.c = c /\ f.at # "notify"
  <2>1. f \in Activations
    BY <1>2, <1>3, CopyActivated, Kinds
  <2> QED
    BY <2>1 DEF CopyFrame, NewFrame
<1> HIDE DEF f
<1>5. Pushes(f) /\ stack' \in Seq(Activations)
  BY <1>2, <1>4, StackShapes
<1>6. SameAhead
  BY <1>2, <1>4, <1>5, AheadQuiet DEF SameAhead
<1>7. SameCopying
  BY <1>2, <1>5, CopyingKept DEF SameCopying
<1>8. Owned'
  <2>1. Len(stack) + 1 \in DOMAIN stack' /\ stack'[Len(stack) + 1] = f
    BY <1>5 DEF Pushes
  <2>2. \A n \in DOMAIN stack' : n # Len(stack) + 1 => Kept(n)
    BY <1>5, KeptAll DEF Pushes
  <2> QED
    BY <1>2, <1>3, <1>4, <1>6, <2>1, <2>2, InvokingOwned DEF SameAhead
<1> QED
  BY <1>2, <1>5, <1>6, <1>7, <1>8, QuietStep DEF IInv

\* The loop over the handlers passes one slot.
LEMMA ServingStep ==
  ASSUME IInv, Serving, NEW f \in Activations, f.at # "notify",
         stack' = Append(Append(Below, Advance), f),
         UNCHANGED <<handlers, released>>, used \cap Outsiders \subseteq used',
         awaits' \in [Outsiders -> Roots \cup Copies \cup {NoObject}],
         \A w \in Outsiders : awaits'[w] # NoObject => awaits'[w] = awaits[w] /\ w # Listener
  PROVE  /\ TypeOK' /\ Placed' /\ Releasing' /\ stack # <<>> /\ SwapsPushes(Advance, f)
         /\ Top.i \in DOMAIN handlers[Top.c] /\ Top.c \in Copies \cup Outsiders
         /\ \A n \in DOMAIN stack' : n # Len(stack) + 1 => Kept(n)
         /\ \A o : \A j \in Nat : Ahead(o, j)' => Ahead(o, j) /\ ~(o = Top.c /\ j = Top.i)
<1>1. /\ TypeOK /\ Owned /\ Placed /\ Releasing /\ stack # <<>> /\ Top.at = "notify"
      /\ Top.i <= Len(handlers[Top.c])
  BY DEF IInv, Serving, TopAt
<1>2. ~Copying(Top) /\ Top.c \in Copies \cup Outsiders /\ Top.i \in Nat \ {0}
  BY <1>1, Unlabelled
<1>3. Top.i \in DOMAIN handlers[Top.c]
  <2>1. \A m \in Nat : \A n \in Nat \ {0} : n <= m => n \in 1 .. m
    OBVIOUS
  <2> QED
    BY <1>1, <1>2, <2>1, Arrays, Kinds
<1>4. Advance \in Activations /\ Advance.at = "notify" /\ Advance.c = Top.c /\ Advance.i = Top.i + 1
  BY <1>1, Advancing
<1>5. SwapsPushes(Advance, f) /\ stack' \in Seq(Activations)
  BY <1>1, <1>4, StackShapes
<1>6. \A o : \A j \in Nat : /\ Ahead(o, j)' => Ahead(o, j)
                            /\ Ahead(o, j)' => ~(o = Top.c /\ j = Top.i)
                            /\ Ahead(o, j) /\ ~(o = Top.c /\ j = Top.i) => Ahead(o, j)'
  BY <1>1, <1>4, <1>5, AheadNext
<1>7. \A n \in DOMAIN stack' : n # Len(stack) + 1 => Kept(n)
  <2>1. \A n \in DOMAIN stack' : n # Len(stack) /\ n # Len(stack) + 1 => Kept(n)
    BY <1>1, <1>5, KeptTop
  <2>2. Kept(Len(stack))
    <3>1. Top.at # "copy"
      BY <1>1
    <3> QED
      BY <1>1, <1>4, <1>5, <3>1, KeptTop
  <2> QED
    BY <2>1, <2>2
<1>8. TypeOK'
  BY <1>1, <1>5, TypedStep
<1>9. Placed'
  <2>1. ASSUME NEW w \in Outsiders, awaits'[w] # NoObject
        PROVE  /\ awaits'[w] = awaits[w]
               /\ \A j \in DOMAIN handlers[awaits[w]] :
                    handlers[awaits[w]][j] = w /\ Ahead(awaits[w], j) => Ahead(awaits[w], j)'
    <3>1. awaits'[w] = awaits[w] /\ awaits[w] \in Objects /\ w # handlers[Top.c][Top.i]
      BY <1>1, <2>1, Kinds DEF TypeOK, Listener
    <3>2. PICK a : a = awaits[w] /\ a = awaits'[w]
      BY <3>1
    <3>3. \A j \in DOMAIN handlers[a] : j \in Nat
      BY <1>1, <3>1, <3>2, Arrays
    <3>4. \A j \in DOMAIN handlers[a] : handlers[a][j] = w /\ Ahead(a, j) => Ahead(a, j)'
      BY <1>6, <3>1, <3>3
    <3> QED
      BY <3>1, <3>2, <3>4
  <2> QED
    BY <1>1, <2>1, PlacedQuiet
<1>10. Releasing'
  <2>1. SameCopying
    BY <1>1, <1>2, <1>5, CopyingKept DEF SameCopying
  <2> QED
    BY <1>1, <2>1, ReleasingStep DEF SameCopying
<1> QED
  BY <1>1, <1>2, <1>3, <1>5, <1>6, <1>7, <1>8, <1>9, <1>10

LEMMA NotifyPrototypeKeeps == ASSUME IInv, NotifyPrototype PROVE IInv'
<1>1. PICK c, s : c = NewCopy /\ s = Listener
  OBVIOUS
<1> DEFINE f == CopyFrame("invoke", s, c)
<1>2. /\ TypeOK /\ Owned /\ Serving /\ s \in Prototypes
      /\ stack' = Append(Append(Below, Advance), f) /\ Allocatable /\ used' = used \cup {c}
      /\ UNCHANGED <<handlers, awaits, asleep, released>>
  BY <1>1 DEF IInv, NotifyPrototype, Invoking, Allocate
<1>3. c \in Copies /\ c \notin used
  BY <1>1, <1>2, NewCopyFacts
<1>4. f \in Activations /\ f.c = c /\ f.at # "notify"
  <2>1. f \in Activations
    BY <1>2, <1>3, CopyActivated
  <2> QED
    BY <2>1 DEF CopyFrame, NewFrame
<1> HIDE DEF f
<1>5. \A w \in Outsiders : awaits'[w] = awaits[w] /\ w # Listener
  BY <1>1, <1>2, Kinds
<1>6. awaits' \in [Outsiders -> Roots \cup Copies \cup {NoObject}]
  BY <1>2 DEF TypeOK
<1>7. /\ TypeOK' /\ Placed' /\ Releasing' /\ SwapsPushes(Advance, f)
      /\ \A n \in DOMAIN stack' : n # Len(stack) + 1 => Kept(n)
      /\ \A o : \A j \in Nat : Ahead(o, j)' => Ahead(o, j)
  BY <1>2, <1>4, <1>5, <1>6, ServingStep
<1>8. Owned'
  <2>1. Len(stack) + 1 \in DOMAIN stack' /\ stack'[Len(stack) + 1] = f
    BY <1>7 DEF SwapsPushes
  <2> QED
    BY <1>2, <1>3, <1>4, <1>7, <2>1, InvokingOwned
<1> QED
  BY <1>7, <1>8 DEF IInv

\* The copy in the slot has no other owner, and the slot is passed.
LEMMA NotifyPlainKeeps == ASSUME IInv, NotifyPlain PROVE IInv'
<1>1. PICK y, o : y = Listener /\ o = Top.c
  OBVIOUS
<1> DEFINE f == NewFrame("run", NoObject, y)
           e == Len(stack) + 1
<1>2. /\ TypeOK /\ Owned /\ Serving /\ y \in Copies \cup Outsiders
      /\ stack' = Append(Append(Below, Advance), f)
      /\ awaits' = IF y \in Outsiders THEN [awaits EXCEPT ![y] = NoObject] ELSE awaits
      /\ UNCHANGED <<handlers, used, asleep, released>>
  BY <1>1 DEF IInv, NotifyPlain
<1>3. f \in Activations /\ f.c = y /\ f.at # "notify"
  BY <1>2, Activated DEF NewFrame
<1>4. /\ awaits' \in [Outsiders -> Roots \cup Copies \cup {NoObject}]
      /\ \A w \in Outsiders : awaits'[w] # NoObject => awaits'[w] = awaits[w] /\ w # Listener
  BY <1>1, <1>2, Kinds DEF TypeOK
<1> HIDE DEF f
<1>5. /\ TypeOK' /\ Placed' /\ Releasing' /\ stack # <<>> /\ SwapsPushes(Advance, f)
      /\ Top.i \in DOMAIN handlers[o] /\ o \in Copies \cup Outsiders
      /\ \A n \in DOMAIN stack' : n # e => Kept(n)
      /\ \A p : \A j \in Nat : Ahead(p, j)' => Ahead(p, j) /\ ~(p = o /\ j = Top.i)
  <2>1. used \cap Outsiders \subseteq used'
    BY <1>2
  <2> QED
    BY <1>1, <1>2, <1>3, <1>4, <2>1, ServingStep
<1>6. /\ Top = stack[Len(stack)] /\ Len(stack) \in DOMAIN stack /\ e \notin DOMAIN stack
      /\ Len(stack) \in Nat
  BY <1>2, <1>5, StackFacts
<1>7. e \in DOMAIN stack' /\ stack'[e] = f
  BY <1>5 DEF SwapsPushes
<1>8. ASSUME y \in Copies
      PROVE  /\ o \in Copies /\ y \in used /\ y \notin asleep
             /\ \A n \in DOMAIN stack : stack[n].c # y
             /\ \A p \in Copies : \A j \in DOMAIN handlers[p] : Ahead(p, j)' => handlers[p][j] # y
  <2>1. handlers[o][Top.i] = y /\ Top.i \in Nat
    BY <1>1, <1>2, <1>5, Kinds, Arrays DEF Listener
  <2>2. o \in Copies
    BY <1>2, <1>5, <1>8, <2>1, Arrays, Kinds DEF Slots
  <2>3. \A n \in DOMAIN stack : stack[n].c = o => n = Len(stack)
    BY <1>1, <1>2, <1>6, <2>2 DEF Owned, ActiveOnce
  <2>4. Ahead(o, Top.i)
    BY <1>6, <2>1, <2>3 DEF Ahead
  <2>5. Idle(y, o)
    BY <1>2, <1>5, <1>8, <2>1, <2>2, <2>4 DEF Owned, IdleInSlots
  <2>6. \A n \in DOMAIN stack : stack[n].c # y
    <3>1. \A n \in DOMAIN stack : n - 1 # Len(stack)
      <4>1. \A m \in Nat : \A n \in 1 .. m : n - 1 # m
        OBVIOUS
      <4> QED
        BY <1>2, <1>6, <4>1, StackFacts
    <3> QED
      BY <2>3, <2>5, <3>1 DEF Idle
  <2>7. ASSUME NEW p \in Copies, NEW j \in DOMAIN handlers[p], Ahead(p, j)', handlers[p][j] = y
        PROVE  FALSE
    <3>1. Ahead(p, j) /\ ~(p = o /\ j = Top.i)
      BY <1>2, <1>5, <2>7, Arrays, Kinds
    <3> QED
      BY <1>2, <1>5, <1>8, <2>1, <2>2, <2>4, <2>7, <3>1 DEF Owned, SlotOnce
  <2> QED
    BY <2>2, <2>5, <2>6, <2>7 DEF Idle
<1>9. \A p \in Copies : \A j \in DOMAIN handlers[p] : Ahead(p, j)' => Ahead(p, j)
  BY <1>2, <1>5, Arrays, Kinds
<1> HIDE DEF e
<1>10. Handing(y, e, NoObject)
  <2>1. \A n \in DOMAIN stack' : stack'[n].c \in Copies =>
          (n = e /\ stack'[n].c = y) \/ (n # e /\ Kept(n) /\ stack[n].c # NoObject)
    BY <1>3, <1>5, <1>7, Kinds DEF Kept
  <2>2. asleep' \subseteq used' \cap Copies /\ asleep' \subseteq asleep /\ y \notin asleep'
    BY <1>2, <1>8 DEF Owned, ActiveOnce
  <2>3. y \in Copies => AheadOnce(y)'
    BY <1>2, <1>8 DEF AheadOnce
  <2>4. \A p \in Copies : \A j \in DOMAIN handlers'[p] :
          handlers'[p][j] \in Copies /\ Ahead(p, j)' =>
            /\ j \in DOMAIN handlers[p] /\ Ahead(p, j)
            /\ handlers'[p][j] = handlers[p][j] /\ handlers[p][j] \notin {y, NoObject}
    BY <1>2, <1>8, <1>9, Kinds
  <2> QED
    BY <1>2, <1>8, <2>1, <2>2, <2>3, <2>4 DEF Handing, Owned, Freed
<1>11. Owned'
  BY <1>2, <1>10, OwnedStep
<1> QED
  BY <1>5, <1>11 DEF IInv

\* The loop is over: nobody holds the copy, nobody awaits it.
LEMMA NotifiedKeeps == ASSUME IInv, Notified PROVE IInv'
<1>1. PICK z : z = Top.c
  OBVIOUS
<1>2. /\ TypeOK /\ Owned /\ Placed /\ Releasing /\ stack # <<>> /\ Top.at = "notify"
      /\ Top.i > Len(handlers[z]) /\ stack' = Below
      /\ handlers' = [handlers EXCEPT ![z] = <<>>] /\ used' = used \ ({z} \cap Copies)
      /\ UNCHANGED <<awaits, asleep, released>>
  BY <1>1 DEF IInv, Notified, TopAt, history
<1>3. /\ ~Copying(Top) /\ Top.at # "copy" /\ z \in Copies \cup Outsiders /\ Top.i \in Nat
      /\ Top \in Activations /\ Top = stack[Len(stack)] /\ Len(stack) \in DOMAIN stack
      /\ z \in Objects
  BY <1>1, <1>2, Unlabelled, StackFacts, Kinds
<1>4. Pops /\ stack' \in Seq(Activations)
  BY <1>2, <1>3, StackShapes
<1>5. \A n \in DOMAIN stack' : n # Len(stack) /\ Kept(n)
  BY <1>2, <1>4, KeptBelow
<1>6. \A o, j : (Ahead(o, j) => Ahead(o, j)') /\ (o # z => (Ahead(o, j)' => Ahead(o, j)))
  BY <1>1, <1>2, <1>4, AheadBelow
<1>7. /\ handlers'[z] = <<>> /\ DOMAIN handlers'[z] = {}
      /\ \A o \in Objects \ {z} : handlers'[o] = handlers[o]
  BY <1>2, <1>3 DEF TypeOK
<1>8. TypeOK'
  <2>1. handlers' \in [Objects -> Seq(Objects \cup {NoObject, Junk})]
    <3>1. <<>> \in Seq(Objects \cup {NoObject, Junk})
      OBVIOUS
    <3>2. handlers \in [Objects -> Seq(Objects \cup {NoObject, Junk})]
      BY <1>2 DEF TypeOK
    <3> QED
      BY <1>2, <3>1, <3>2, Zenon
  <2>2. \A o \in Objects : \A j \in DOMAIN handlers'[o] : handlers'[o][j] \in Slots(o)
    BY <1>2, <1>7 DEF TypeOK
  <2>3. awaits' \in [Outsiders -> Roots \cup Copies \cup {NoObject}]
    BY <1>2 DEF TypeOK
  <2> QED
    BY <1>4, <2>1, <2>2, <2>3 DEF TypeOK, Slots
<1>9. Handing(NoObject, 0, z)
  <2>1. \A n \in DOMAIN stack' : stack'[n].c \in Copies => n # 0 /\ Kept(n) /\ stack[n].c # z
    BY <1>1, <1>2, <1>3, <1>5, StackFacts DEF Kept, Owned, ActiveOnce
  <2>2. z \in Copies => z \in used /\ z \notin asleep
    BY <1>1, <1>2, <1>3 DEF Owned, ActiveOnce
  <2>3. /\ asleep' \subseteq used' \cap Copies /\ asleep' \subseteq asleep
        /\ NoObject \notin asleep' /\ NoObject \notin Copies
    BY <1>2, <2>2, Kinds DEF Owned, ActiveOnce
  <2>4. ASSUME NEW o \in Copies, NEW j \in DOMAIN handlers'[o],
               handlers'[o][j] \in Copies, Ahead(o, j)'
        PROVE  /\ j \in DOMAIN handlers[o] /\ Ahead(o, j)
               /\ handlers'[o][j] = handlers[o][j] /\ handlers[o][j] \notin {NoObject, z}
    <3>1. /\ o # z /\ handlers'[o] = handlers[o] /\ j \in DOMAIN handlers[o] /\ Ahead(o, j)
      BY <1>6, <1>7, <2>4, Kinds
    <3>2. Idle(handlers[o][j], o)
      BY <1>2, <2>4, <3>1 DEF Owned, IdleInSlots
    <3> QED
      BY <1>1, <1>3, <2>4, <3>1, <3>2, Kinds DEF Idle
  <2>5. \A c \in Copies \ used' : handlers'[c] = <<>>
    BY <1>2, <1>7, Kinds DEF Owned, Freed
  <2> QED
    BY <1>2, <2>1, <2>3, <2>4, <2>5 DEF Handing
<1>10. Owned'
  BY <1>2, <1>9, OwnedStep
<1>11. Placed'
  <2>1. used \cap Outsiders \subseteq used'
    BY <1>2, Kinds
  <2>2. \A o \in Objects : \A j \in DOMAIN handlers'[o] :
          o # z /\ j \in DOMAIN handlers[o] /\ handlers'[o][j] = handlers[o][j]
    BY <1>7
  <2>3. \A o \in Objects : \A j, k \in DOMAIN handlers'[o] :
          handlers'[o][j] = handlers'[o][k] /\ handlers'[o][j] \in Outsiders => j = k
    BY <1>2, <2>2 DEF Placed, OneSlot
  <2>4. ASSUME NEW w \in Outsiders, awaits'[w] # NoObject
        PROVE  \E j \in DOMAIN handlers'[awaits'[w]] :
                 handlers'[awaits'[w]][j] = w /\ Ahead(awaits[w], j)'
    <3>1. PICK a : a = awaits[w] /\ a = awaits'[w] /\ a \in Objects
      BY <1>2, <2>4, Kinds DEF TypeOK
    <3>2. PICK j \in DOMAIN handlers[a] : handlers[a][j] = w /\ Ahead(a, j)
      BY <1>2, <2>4, <3>1 DEF Placed, Awaiting
    <3>3. a # z
      <4>1. ASSUME a = z
            PROVE  FALSE
        <5>1. Top.i <= j
          BY <1>1, <1>2, <1>3, <3>2, <4>1 DEF Ahead
        <5>2. j \in 1 .. Len(handlers[z]) /\ Len(handlers[z]) \in Nat
          BY <1>2, <1>3, <3>2, <4>1, Arrays
        <5> QED
          BY <1>2, <1>3, <5>1, <5>2
      <4> QED
        BY <4>1
    <3>4. j \in DOMAIN handlers'[a] /\ handlers'[a][j] = w /\ Ahead(a, j)'
      BY <1>6, <1>7, <3>1, <3>2, <3>3
    <3> QED
      BY <3>1, <3>4
  <2>5. \A o \in Objects : \A j \in DOMAIN handlers'[o] : handlers'[o][j] \in Outsiders =>
          \E i \in DOMAIN handlers[o] : handlers[o][i] = handlers'[o][j]
    BY <2>2
  <2> QED
    BY <1>2, <2>1, <2>3, <2>4, <2>5, PlacedStep
<1>12. Releasing'
  <2>1. SameCopying
    BY <1>2, <1>3, <1>4, CopyingKept DEF SameCopying
  <2>2. \A s \in Releasable : s # z /\ s \in Objects
    BY <1>3, Kinds
  <2> QED
    BY <1>2, <1>7, <2>1, <2>2, ReleasingStep DEF SameCopying
<1> QED
  BY <1>8, <1>10, <1>11, <1>12 DEF IInv
-----------------------------------------------------------------------------
(* What the program puts below a prototype or an outsider.                 *)

LEMMA PutStep ==
  ASSUME IInv, NEW o \in Prototypes \cup Outsiders, NEW h \in (Prototypes \cup Outsiders) \ used,
         handlers' = [handlers EXCEPT ![o] = Append(@, h)], used' = used \cup {h},
         UNCHANGED <<asleep, stack>>, released' = released \ {o},
         \A w \in Outsiders \ {h} : awaits'[w] = awaits[w],
         awaits' \in [Outsiders -> Roots \cup Copies \cup {NoObject}],
         h \in Outsiders => o \in Prototypes /\ awaits'[h] \in {o, NoObject}
  PROVE  IInv'
<1>1. /\ TypeOK /\ Owned /\ Placed /\ Releasing /\ o \in Objects /\ h \in Objects
      /\ o \notin Copies /\ h \notin Copies /\ h # NoObject
  BY Kinds DEF IInv
<1>2. PICK l : l = Len(handlers[o]) + 1
  OBVIOUS
<1>3. /\ handlers'[o] \in Seq(Objects \cup {NoObject, Junk}) /\ handlers'[o] # <<>>
      /\ DOMAIN handlers'[o] = DOMAIN handlers[o] \cup {l} /\ l \notin DOMAIN handlers[o]
      /\ handlers'[o][l] = h /\ \A j \in DOMAIN handlers[o] : handlers'[o][j] = handlers[o][j]
      /\ l \in Nat \ {0}
  <2>1. handlers'[o] = Append(handlers[o], h)
    BY <1>1 DEF TypeOK
  <2> QED
    BY <1>1, <1>2, <2>1, Appended
<1>4. \A p \in Objects \ {o} : handlers'[p] = handlers[p]
  BY <1>1 DEF TypeOK
<1>5. \A p, j : Ahead(p, j)' <=> Ahead(p, j)
  BY DEF Ahead
<1>6. TypeOK'
  <2>1. handlers' \in [Objects -> Seq(Objects \cup {NoObject, Junk})]
    BY <1>1, <1>3, <1>4 DEF TypeOK
  <2>2. \A p \in Objects : \A j \in DOMAIN handlers'[p] : handlers'[p][j] \in Slots(p)
    <3>1. h \in Slots(o)
      BY <1>1, Kinds DEF Slots
    <3> QED
      BY <1>1, <1>3, <1>4, <3>1, Arrays
  <2> QED
    BY <1>1, <2>1, <2>2 DEF TypeOK, Slots
<1>7. Owned'
  <2>1. \A n \in DOMAIN stack' : Kept(n)
    BY DEF Kept
  <2>2. \A c \in Copies : handlers'[c] = handlers[c]
    BY <1>1, <1>4, Kinds
  <2>3. used' \cap Copies = used \cap Copies
    BY <1>1
  <2> QED
    BY <1>1, <1>5, <2>1, <2>2, <2>3, OwnedQuiet
<1>8. \A p \in Objects : \A j \in DOMAIN handlers'[p] :
        \/ p = o /\ j = l /\ handlers'[p][j] = h
        \/ j \in DOMAIN handlers[p] /\ handlers'[p][j] = handlers[p][j]
  BY <1>3, <1>4
<1>9. h \in Outsiders => \A p \in Objects : \A j \in DOMAIN handlers[p] : handlers[p][j] # h
  BY <1>1 DEF Placed, Unplaced
<1>10. Unplaced'
  <2>1. \A w \in Outsiders \ used' : w # h /\ w \in Outsiders \ used
    OBVIOUS
  <2> QED
    BY <1>1, <1>8, <2>1 DEF Placed, Unplaced
<1>11. OneSlot'
  <2> SUFFICES ASSUME NEW p \in Objects, NEW q \in Objects,
                      NEW j \in DOMAIN handlers'[p], NEW k \in DOMAIN handlers'[q],
                      handlers'[p][j] = handlers'[q][k], handlers'[p][j] \in Outsiders
               PROVE  p = q /\ j = k
    BY DEF OneSlot
  <2> QED
    BY <1>1, <1>8, <1>9 DEF Placed, OneSlot
<1>12. ASSUME NEW w \in Outsiders, awaits'[w] # NoObject
       PROVE  \E j \in DOMAIN handlers'[awaits'[w]] :
                handlers'[awaits'[w]][j] = w /\ Ahead(awaits[w], j)'
  <2>1. CASE w = h
    <3>1. awaits'[w] = o /\ o \in Prototypes /\ Ahead(o, l)
      BY <1>1, <1>12, <2>1, NoLoop
    <3>2. PICK a : a = awaits'[w]
      OBVIOUS
    <3>3. l \in DOMAIN handlers'[a] /\ handlers'[a][l] = w /\ Ahead(a, l)'
      BY <1>3, <1>5, <2>1, <3>1, <3>2
    <3> QED
      BY <3>2, <3>3
  <2>2. CASE w # h
    <3>1. PICK a : a = awaits[w] /\ a = awaits'[w] /\ a \in Objects
      BY <1>1, <1>12, <2>2, Kinds DEF TypeOK
    <3>2. PICK j \in DOMAIN handlers[a] : handlers[a][j] = w /\ Ahead(a, j)
      BY <1>1, <1>12, <3>1 DEF Placed, Awaiting
    <3>3. j \in DOMAIN handlers'[a] /\ handlers'[a][j] = w /\ Ahead(a, j)'
      BY <1>3, <1>4, <1>5, <3>1, <3>2
    <3> QED
      BY <3>1, <3>3
  <2> QED
    BY <2>1, <2>2
<1>13. Awaiting'
  BY <1>12 DEF Awaiting
<1>14. Releasing'
  <2>1. \A s \in Releasable : handlers'[s] = <<>> =>
          handlers[s] = <<>> /\ (s \in released => s \in released')
    BY <1>3, <1>4, Kinds
  <2>2. \A n \in DOMAIN stack : n \in DOMAIN stack' /\ stack'[n] = stack[n]
    OBVIOUS
  <2> QED
    BY <1>1, <2>1, <2>2, ReleasingStep
<1> QED
  BY <1>6, <1>7, <1>10, <1>11, <1>13, <1>14 DEF IInv, Placed

LEMMA ThenKeeps ==
  ASSUME IInv, NEW o \in Prototypes \cup Outsiders, NEW h \in Thens, Then(o, h)
  PROVE  IInv'
<1>1. /\ h \in Prototypes \ used /\ h \notin Outsiders /\ used' = used \cup {h}
      /\ handlers' = [handlers EXCEPT ![o] = Append(@, h)] /\ released' = released \ {o}
      /\ UNCHANGED <<awaits, asleep, stack>>
  BY Kinds DEF Then
<1>2. awaits' \in [Outsiders -> Roots \cup Copies \cup {NoObject}]
  BY <1>1 DEF IInv, TypeOK
<1> QED
  BY <1>1, <1>2, PutStep

LEMMA ChainKeeps ==
  ASSUME IInv, NEW o \in Prototypes \cup Outsiders, NEW s \in Roots, Chain(o, s)
  PROVE  IInv'
<1>1. /\ s \in Prototypes \ used /\ s \notin Outsiders /\ used' = used \cup {s}
      /\ handlers' = [handlers EXCEPT ![o] = Append(@, s)] /\ released' = released \ {o}
      /\ UNCHANGED <<awaits, asleep, stack>>
  BY Kinds DEF Chain
<1>2. awaits' \in [Outsiders -> Roots \cup Copies \cup {NoObject}]
  BY <1>1 DEF IInv, TypeOK
<1> QED
  BY <1>1, <1>2, PutStep

LEMMA JoinKeeps ==
  ASSUME IInv, NEW o \in Prototypes \cup Outsiders, NEW w \in Outsiders, Join(o, w)
  PROVE  IInv'
<1>1. /\ o \in Roots /\ w \in Outsiders \ used /\ used' = used \cup {w}
      /\ handlers' = [handlers EXCEPT ![o] = Append(@, w)] /\ released' = released \ {o}
      /\ awaits' = [awaits EXCEPT ![w] = IF w \in Yielders THEN o ELSE NoObject]
      /\ UNCHANGED <<asleep, stack>>
  BY DEF Join
<1>2. awaits \in [Outsiders -> Roots \cup Copies \cup {NoObject}]
  BY DEF IInv, TypeOK
<1>3. /\ awaits' \in [Outsiders -> Roots \cup Copies \cup {NoObject}]
      /\ awaits'[w] \in {o, NoObject} /\ \A v \in Outsiders \ {w} : awaits'[v] = awaits[v]
  BY <1>1, <1>2
<1>4. o \in Prototypes
  BY <1>1, Kinds
<1> QED
  BY <1>1, <1>3, <1>4, PutStep
-----------------------------------------------------------------------------
(* The loop of a copy.                                                     *)

LEMMA ReadingFacts ==
  ASSUME IInv, Reading
  PROVE  /\ TypeOK /\ Owned /\ Placed /\ Releasing /\ stack # <<>> /\ Copying(Top)
         /\ Top.at # "notify" /\ Top.c \in Copies /\ Top.o \in Prototypes /\ Top.o # Top.c
         /\ Top.i \in DOMAIN handlers[Top.o] /\ Top.c \in used /\ Top.c \notin asleep
         /\ \A n \in DOMAIN stack : stack[n].c = Top.c => n = Len(stack)
         /\ \A j : Ahead(Top.c, j)
<1>1. /\ TypeOK /\ Owned /\ Placed /\ Releasing /\ stack # <<>> /\ Copying(Top)
      /\ Top.i <= Len(handlers[Top.o])
  BY DEF IInv, Reading, Looping
<1>2. /\ Top.at # "notify" /\ Top.c \in Copies /\ Top.o \in Prototypes /\ Top.i \in Nat \ {0}
      /\ Top = stack[Len(stack)] /\ Len(stack) \in DOMAIN stack
  BY <1>1, Unlabelled, StackFacts
<1>3. Top.i \in DOMAIN handlers[Top.o]
  <2>1. \A m \in Nat : \A n \in Nat \ {0} : n <= m => n \in 1 .. m
    OBVIOUS
  <2> QED
    BY <1>1, <1>2, <2>1, Arrays, Kinds
<1>4. /\ Top.c \in used /\ Top.c \notin asleep
      /\ \A n \in DOMAIN stack : stack[n].c = Top.c => n = Len(stack)
  BY <1>1, <1>2 DEF Owned, ActiveOnce
<1>5. \A j : Ahead(Top.c, j)
  BY <1>2, <1>4 DEF Ahead
<1> QED
  BY <1>1, <1>2, <1>3, <1>4, <1>5, Kinds

\* The outsider leaves the prototype for the copy; if it waits, so does its wait.
LEMMA MoveOutsiderKeeps == ASSUME IInv, MoveOutsider PROVE IInv'
<1>1. PICK c, o, w, i, l : /\ c = Top.c /\ o = Top.o /\ w = Slot /\ i = Top.i
                           /\ l = Len(handlers[c]) + 1
  OBVIOUS
<1> DEFINE g == [Advance EXCEPT !.moved = @ + 1]
<1>2. /\ TypeOK /\ Owned /\ Placed /\ Releasing /\ stack # <<>> /\ Copying(Top)
      /\ Top.at # "notify" /\ c \in Copies /\ o \in Prototypes /\ o # c
      /\ i \in DOMAIN handlers[o] /\ c \in used
      /\ \A j : Ahead(c, j)
  BY <1>1, ReadingFacts DEF MoveOutsider
<1>3. /\ w \in Outsiders /\ w = handlers[o][i] /\ stack' = Append(Below, g)
      /\ handlers' = [handlers EXCEPT ![c] = Append(@, w), ![o][i] = NoObject]
      /\ awaits' = [awaits EXCEPT ![w] = IF @ = o THEN c ELSE @]
      /\ UNCHANGED <<used, asleep, released>>
  BY <1>1 DEF MoveOutsider, Slot, history
<1>4. /\ g \in Activations /\ g.at = Top.at /\ g.c = Top.c /\ g.o = Top.o /\ g.i = Top.i + 1
  BY <1>2, Advancing
<1>5. Copying(g) /\ g.at # "notify" /\ g.i # 1
  <2>1. g.i # 1
    BY <1>4, Advanced, StackFacts, <1>2
  <2> HIDE DEF g
  <2> QED
    BY <1>2, <1>4, <2>1 DEF Copying
<1> HIDE DEF g
<1>6. Swaps(g) /\ stack' \in Seq(Activations)
  BY <1>2, <1>3, <1>4, StackShapes
<1>7. \A p, j : Ahead(p, j)' <=> Ahead(p, j)
  BY <1>2, <1>5, <1>6, AheadQuiet
<1>8. SameCopying
  BY <1>2, <1>4, <1>5, <1>6, CopyingKept DEF SameCopying
<1>9. \A n \in DOMAIN stack' : Kept(n)
  <2>1. \A n \in DOMAIN stack' : n # Len(stack) /\ n # Len(stack) + 1 => Kept(n)
    BY <1>2, <1>6, KeptTop
  <2>2. Kept(Len(stack))
    BY <1>2, <1>4, <1>6, KeptTop
  <2>3. \A n \in DOMAIN stack' : n # Len(stack) + 1
    BY <1>2, <1>6, StackFacts DEF Swaps
  <2> QED
    BY <2>1, <2>2, <2>3
<1>10. c \in Objects /\ o \in Objects /\ w \in Objects /\ w # NoObject
  BY <1>2, <1>3, Kinds
<1>11. /\ handlers'[c] \in Seq(Objects \cup {NoObject, Junk})
       /\ DOMAIN handlers'[c] = DOMAIN handlers[c] \cup {l} /\ l \notin DOMAIN handlers[c]
       /\ handlers'[c][l] = w /\ \A j \in DOMAIN handlers[c] : handlers'[c][j] = handlers[c][j]
  <2>1. handlers'[c] = Append(handlers[c], w)
    BY <1>2, <1>3, <1>10 DEF TypeOK
  <2> QED
    BY <1>1, <1>2, <1>10, <2>1, Appended
<1>12. /\ handlers'[o] \in Seq(Objects \cup {NoObject, Junk}) /\ handlers'[o] # <<>>
       /\ DOMAIN handlers'[o] = DOMAIN handlers[o] /\ handlers'[o][i] = NoObject
       /\ \A j \in DOMAIN handlers[o] \ {i} : handlers'[o][j] = handlers[o][j]
  <2>1. handlers'[o] = [handlers[o] EXCEPT ![i] = NoObject]
    BY <1>2, <1>3, <1>10 DEF TypeOK
  <2>2. handlers[o] \in Seq(Objects \cup {NoObject, Junk})
    BY <1>2, <1>10, Arrays
  <2>3. \A S : \A s \in Seq(S) : \A k \in DOMAIN s : \A x \in S :
          [s EXCEPT ![k] = x] \in Seq(S)
    OBVIOUS
  <2>4. handlers'[o] \in Seq(Objects \cup {NoObject, Junk})
    BY <1>2, <2>1, <2>2, <2>3
  <2>5. DOMAIN handlers'[o] = DOMAIN handlers[o]
    BY <2>1
  <2> QED
    BY <1>2, <2>1, <2>2, <2>4, <2>5
<1>13. \A p \in Objects \ {c, o} : handlers'[p] = handlers[p]
  BY <1>2, <1>3, <1>10 DEF TypeOK
<1>14. \A p \in Objects : \A j \in DOMAIN handlers'[p] :
         \/ p = c /\ j = l /\ handlers'[p][j] = w
         \/ p = o /\ j = i /\ handlers'[p][j] = NoObject
         \/ /\ j \in DOMAIN handlers[p] /\ handlers'[p][j] = handlers[p][j]
            /\ ~(p = o /\ j = i)
  BY <1>2, <1>11, <1>12, <1>13
<1>15. TypeOK'
  <2>1. handlers' \in [Objects -> Seq(Objects \cup {NoObject, Junk})]
    <3>1. \A p \in Objects : handlers'[p] \in Seq(Objects \cup {NoObject, Junk})
      BY <1>2, <1>11, <1>12, <1>13, Arrays
    <3>2. handlers' = [p \in Objects |-> handlers'[p]]
      BY <1>2, <1>3 DEF TypeOK
    <3> QED
      BY <3>1, <3>2, Zenon
  <2>2. \A p \in Objects : \A j \in DOMAIN handlers'[p] : handlers'[p][j] \in Slots(p)
    <3>1. w \in Slots(c) /\ NoObject \in Slots(o)
      BY <1>2, <1>3, Kinds DEF Slots
    <3> QED
      BY <1>2, <1>14, <3>1, Arrays
  <2>3. awaits' \in [Outsiders -> Roots \cup Copies \cup {NoObject}]
    BY <1>2, <1>3 DEF TypeOK
  <2> QED
    BY <1>6, <2>1, <2>2, <2>3 DEF TypeOK, Slots
<1>16. Owned'
  <2>1. \A n \in DOMAIN stack' : stack'[n].c \in Copies => n # 0 /\ Kept(n) /\ stack[n].c # NoObject
    BY <1>2, <1>9, StackFacts, Kinds DEF Kept
  <2>2. /\ asleep' \subseteq used' \cap Copies /\ asleep' \subseteq asleep
        /\ NoObject \notin asleep' /\ NoObject \notin Copies
    BY <1>2, <1>3, Kinds DEF Owned, ActiveOnce
  <2>3. ASSUME NEW p \in Copies, NEW j \in DOMAIN handlers'[p],
               handlers'[p][j] \in Copies, Ahead(p, j)'
        PROVE  /\ j \in DOMAIN handlers[p] /\ Ahead(p, j)
               /\ handlers'[p][j] = handlers[p][j] /\ handlers[p][j] \notin {NoObject, NoObject}
    <3>1. p \in Objects /\ w \notin Copies
      BY <1>3, Kinds
    <3>2. j \in DOMAIN handlers[p] /\ handlers'[p][j] = handlers[p][j]
      BY <1>14, <2>2, <2>3, <3>1
    <3>3. Ahead(p, j)
      BY <1>7, <2>3
    <3> QED
      BY <2>2, <2>3, <3>2, <3>3
  <2>4. \A p \in Copies \ used' : handlers'[p] = <<>>
    BY <1>2, <1>3, <1>13, Kinds DEF Owned, Freed
  <2>5. Handing(NoObject, 0, NoObject)
    BY <1>3, <2>1, <2>2, <2>3, <2>4 DEF Handing
  <2> QED
    BY <1>2, <2>5, OwnedStep
<1>17. \A p \in Objects : \A j \in DOMAIN handlers[p] : handlers[p][j] = w => p = o /\ j = i
  BY <1>2, <1>3, <1>10 DEF Placed, OneSlot
<1>18. Unplaced'
  <2>1. w \in used
    BY <1>2, <1>3, <1>10 DEF Placed, Unplaced
  <2>2. used' = used
    BY <1>3
  <2> SUFFICES ASSUME NEW v \in Outsiders, v \notin used, NEW p \in Objects,
                      NEW j \in DOMAIN handlers'[p]
               PROVE  handlers'[p][j] # v
    BY <2>2 DEF Unplaced
  <2>3. v # w /\ v # NoObject /\ \A k \in DOMAIN handlers[p] : handlers[p][k] # v
    BY <1>2, <2>1, Kinds DEF Placed, Unplaced
  <2> QED
    BY <1>14, <2>3
<1>19. OneSlot'
  <2> SUFFICES ASSUME NEW p \in Objects, NEW q \in Objects,
                      NEW j \in DOMAIN handlers'[p], NEW k \in DOMAIN handlers'[q],
                      handlers'[p][j] = handlers'[q][k], handlers'[p][j] \in Outsiders
               PROVE  p = q /\ j = k
    BY DEF OneSlot
  <2>1. \A v \in Outsiders : v # NoObject
    BY Kinds
  <2> QED
    BY <1>2, <1>14, <1>17, <2>1 DEF Placed, OneSlot
<1>20. ASSUME NEW v \in Outsiders, awaits'[v] # NoObject
       PROVE  \E j \in DOMAIN handlers'[awaits'[v]] :
                handlers'[awaits'[v]][j] = v /\ Ahead(awaits[v], j)'
  <2>1. PICK a : a = awaits[v] /\ a \in Objects
    <3>1. awaits[v] # NoObject
      BY <1>2, <1>3, <1>20, Kinds DEF TypeOK
    <3> QED
      BY <1>2, <3>1, Kinds DEF TypeOK
  <2>2. PICK j \in DOMAIN handlers[a] : handlers[a][j] = v /\ Ahead(a, j)
    <3>1. awaits[v] # NoObject
      BY <2>1, Kinds
    <3> QED
      BY <1>2, <2>1, <3>1 DEF Placed, Awaiting
  <2>3. PICK b : b = awaits'[v]
    OBVIOUS
  <2>4. CASE v = w
    <3>1. a = o
      BY <1>17, <2>1, <2>2, <2>4
    <3>2. b = c
      BY <1>2, <1>3, <2>1, <2>3, <2>4, <3>1 DEF TypeOK
    <3>3. l \in DOMAIN handlers'[b] /\ handlers'[b][l] = v /\ Ahead(b, l)'
      BY <1>2, <1>7, <1>11, <2>4, <3>2
    <3> QED
      BY <2>3, <3>3
  <2>5. CASE v # w
    <3>1. b = a
      BY <1>2, <1>3, <2>1, <2>3, <2>5 DEF TypeOK
    <3>2. ~(a = o /\ j = i)
      BY <1>3, <2>2, <2>5
    <3>3. j \in DOMAIN handlers'[a] /\ handlers'[a][j] = v
      BY <1>11, <1>12, <1>13, <2>1, <2>2, <3>2
    <3>4. Ahead(b, j)'
      BY <1>7, <2>2, <3>1
    <3> QED
      BY <2>3, <3>1, <3>3, <3>4
  <2> QED
    BY <2>4, <2>5
<1>21. Awaiting'
  BY <1>20 DEF Awaiting
<1>22. Releasing'
  <2>1. \A s \in Releasable : handlers'[s] = <<>> => handlers[s] = <<>>
    BY <1>2, <1>12, <1>13, Kinds
  <2> QED
    BY <1>2, <1>3, <1>8, <2>1, ReleasingStep DEF SameCopying
<1> QED
  BY <1>15, <1>16, <1>18, <1>19, <1>21, <1>22 DEF IInv, Placed

\* The copy of a handler is put in its slot before it is made.
LEMMA CopyHandlerKeeps == ASSUME IInv, CopyHandler PROVE IInv'
<1>1. PICK c, s, y, l, e : /\ c = Top.c /\ s = Slot /\ y = NewCopy
                           /\ l = Len(handlers[c]) + 1 /\ e = Len(stack) + 1
  OBVIOUS
<1> DEFINE f == CopyFrame("copy", s, y)
<1>2. /\ TypeOK /\ Owned /\ Placed /\ Releasing /\ stack # <<>> /\ Copying(Top)
      /\ Top.at # "notify" /\ c \in Copies /\ c \in used /\ \A j : Ahead(c, j)
  BY <1>1, ReadingFacts DEF CopyHandler
<1>3. /\ s \in Prototypes /\ stack' = Append(Append(Below, Advance), f)
      /\ handlers' = [handlers EXCEPT ![c] = Append(@, y)] /\ used' = used \cup {y}
      /\ y \in Copies /\ y \notin used /\ UNCHANGED <<awaits, asleep, released>>
  BY <1>1, NewCopyFacts DEF CopyHandler, Allocate, history
<1>4. /\ Advance \in Activations /\ Advance.at = Top.at /\ Advance.c = Top.c
      /\ Advance.o = Top.o /\ Advance.i = Top.i + 1 /\ Advance.i # 1
      /\ Copying(Advance) /\ Advance.at # "notify"
  <2>1. /\ Advance \in Activations /\ Advance.at = Top.at /\ Advance.c = Top.c
        /\ Advance.o = Top.o /\ Advance.i = Top.i + 1
    BY <1>2, Advancing
  <2>2. Advance.i # 1
    BY <1>2, <2>1, Advanced, StackFacts
  <2> QED
    BY <1>2, <2>1, <2>2 DEF Copying
<1>5. f \in Activations /\ f.c = y /\ f.at = "copy"
  <2>1. f \in Activations
    BY <1>2, <1>3, CopyActivated
  <2> QED
    BY <2>1 DEF CopyFrame, NewFrame
<1> HIDE DEF f
<1>6. SwapsPushes(Advance, f) /\ stack' \in Seq(Activations)
  BY <1>2, <1>3, <1>4, <1>5, StackShapes
<1>7. \A p, j : Ahead(p, j)' <=> Ahead(p, j)
  <2>1. f.at # "notify"
    BY <1>5
  <2> QED
    BY <1>2, <1>4, <1>6, <2>1, AheadQuiet
<1>8. SameCopying
  BY <1>2, <1>4, <1>6, CopyingKept DEF SameCopying
<1>9. \A n \in DOMAIN stack' : n # e => Kept(n)
  <2>1. \A n \in DOMAIN stack' : n # Len(stack) /\ n # Len(stack) + 1 => Kept(n)
    BY <1>2, <1>6, KeptTop
  <2>2. Kept(Len(stack))
    BY <1>2, <1>4, <1>6, KeptTop
  <2> QED
    BY <1>1, <2>1, <2>2
<1>10. /\ e \in DOMAIN stack' /\ stack'[e] = f /\ e - 1 = Len(stack)
       /\ e - 1 \in DOMAIN stack' /\ stack'[e - 1].c = c
  <2>1. Len(stack) \in Nat /\ Len(stack) \in DOMAIN stack
    BY <1>2, StackFacts
  <2>2. e - 1 = Len(stack)
    BY <1>1, <2>1
  <2> QED
    BY <1>1, <1>4, <1>6, <2>1, <2>2 DEF SwapsPushes
<1>11. c \in Objects /\ y \in Objects /\ y # NoObject /\ y # c /\ y \notin Outsiders
  BY <1>2, <1>3, Kinds
<1>12. /\ handlers'[c] \in Seq(Objects \cup {NoObject, Junk})
       /\ DOMAIN handlers'[c] = DOMAIN handlers[c] \cup {l} /\ l \notin DOMAIN handlers[c]
       /\ handlers'[c][l] = y /\ \A j \in DOMAIN handlers[c] : handlers'[c][j] = handlers[c][j]
  <2>1. handlers'[c] = Append(handlers[c], y)
    BY <1>2, <1>3, <1>11 DEF TypeOK
  <2> QED
    BY <1>1, <1>2, <1>11, <2>1, Appended
<1>13. \A p \in Objects \ {c} : handlers'[p] = handlers[p]
  BY <1>2, <1>3, <1>11 DEF TypeOK
<1>14. \A p \in Objects : \A j \in DOMAIN handlers'[p] :
         \/ p = c /\ j = l /\ handlers'[p][j] = y
         \/ j \in DOMAIN handlers[p] /\ handlers'[p][j] = handlers[p][j]
  BY <1>12, <1>13
<1>15. TypeOK'
  <2>1. handlers' \in [Objects -> Seq(Objects \cup {NoObject, Junk})]
    <3>1. \A p \in Objects : handlers'[p] \in Seq(Objects \cup {NoObject, Junk})
      BY <1>2, <1>12, <1>13, Arrays
    <3>2. handlers' = [p \in Objects |-> handlers'[p]]
      BY <1>2, <1>3 DEF TypeOK
    <3> QED
      BY <3>1, <3>2, Zenon
  <2>2. \A p \in Objects : \A j \in DOMAIN handlers'[p] : handlers'[p][j] \in Slots(p)
    <3>1. y \in Slots(c)
      BY <1>2, <1>3 DEF Slots
    <3> QED
      BY <1>2, <1>14, <3>1, Arrays
  <2>3. awaits' \in [Outsiders -> Roots \cup Copies \cup {NoObject}]
    BY <1>2, <1>3 DEF TypeOK
  <2> QED
    BY <1>6, <2>1, <2>2, <2>3 DEF TypeOK, Slots
<1>16. /\ \A n \in DOMAIN stack : stack[n].c # y
       /\ y \notin asleep /\ handlers[y] = <<>>
       /\ \A p \in Copies : \A j \in DOMAIN handlers[p] : Ahead(p, j) => handlers[p][j] # y
  BY <1>2, <1>3, Unowned
<1>17. Owned'
  <2>1. \A n \in DOMAIN stack' : stack'[n].c \in Copies =>
          (n = e /\ stack'[n].c = y) \/ (n # e /\ Kept(n) /\ stack[n].c # NoObject)
    BY <1>5, <1>9, <1>10, Kinds DEF Kept
  <2>2. /\ asleep' \subseteq used' \cap Copies /\ asleep' \subseteq asleep /\ y \notin asleep'
        /\ y \in used'
    BY <1>2, <1>3, <1>16 DEF Owned, ActiveOnce
  <2>3. ASSUME NEW p \in Copies, NEW j \in DOMAIN handlers'[p],
               handlers'[p][j] \in Copies, Ahead(p, j)'
        PROVE  \/ p = c /\ j = l /\ handlers'[p][j] = y
               \/ /\ j \in DOMAIN handlers[p] /\ Ahead(p, j)
                  /\ handlers'[p][j] = handlers[p][j] /\ handlers[p][j] \notin {y, NoObject}
    <3>1. p \in Objects /\ handlers'[p][j] # NoObject /\ Ahead(p, j)
      BY <1>7, <2>3, Kinds
    <3> QED
      BY <1>14, <1>16, <3>1
  <2>4. AheadOnce(y)'
    <3> SUFFICES ASSUME NEW p \in Copies, NEW q \in Copies,
                        NEW j \in DOMAIN handlers'[p], NEW k \in DOMAIN handlers'[q],
                        handlers'[p][j] = y, handlers'[q][k] = y, Ahead(p, j)', Ahead(q, k)'
                 PROVE  p = q /\ j = k
      BY DEF AheadOnce
    <3> QED
      BY <1>3, <2>3
  <2>5. \A p \in Copies \ used' : handlers'[p] = <<>>
    BY <1>2, <1>3, <1>13, Kinds DEF Owned, Freed
  <2>6. Handing(y, e, NoObject)
    <3>1. NoObject \notin Copies
      BY Kinds
    <3>2. stack'[e].at = "copy"
      BY <1>5, <1>10
    <3> QED
      BY <1>3, <1>10, <1>16, <2>1, <2>2, <2>3, <2>4, <2>5, <3>1, <3>2 DEF Handing
  <2> QED
    BY <1>2, <2>6, OwnedStep
<1>18. Placed'
  <2>1. \A p \in Objects : \A j \in DOMAIN handlers'[p] : handlers'[p][j] \in Outsiders =>
          j \in DOMAIN handlers[p] /\ handlers[p][j] = handlers'[p][j]
    BY <1>11, <1>14
  <2>2. \A p \in Objects : \A j, k \in DOMAIN handlers'[p] :
          handlers'[p][j] = handlers'[p][k] /\ handlers'[p][j] \in Outsiders => j = k
    BY <1>2, <2>1 DEF Placed, OneSlot
  <2>3. ASSUME NEW w \in Outsiders, awaits'[w] # NoObject
        PROVE  \E j \in DOMAIN handlers'[awaits'[w]] :
                 handlers'[awaits'[w]][j] = w /\ Ahead(awaits[w], j)'
    <3>1. PICK a : a = awaits[w] /\ a = awaits'[w] /\ a \in Objects
      BY <1>2, <1>3, <2>3, Kinds DEF TypeOK
    <3>2. PICK j \in DOMAIN handlers[a] : handlers[a][j] = w /\ Ahead(a, j)
      BY <1>2, <2>3, <3>1 DEF Placed, Awaiting
    <3>3. j \in DOMAIN handlers'[a] /\ handlers'[a][j] = w /\ Ahead(a, j)'
      BY <1>7, <1>12, <1>13, <3>1, <3>2
    <3> QED
      BY <3>1, <3>3
  <2>4. used \cap Outsiders \subseteq used'
    BY <1>3
  <2> QED
    BY <1>2, <2>1, <2>2, <2>3, <2>4, PlacedStep
<1>19. Releasing'
  <2>1. \A s1 \in Releasable : handlers'[s1] = handlers[s1]
    BY <1>2, <1>13, Kinds
  <2> QED
    BY <1>2, <1>3, <1>8, <2>1, ReleasingStep DEF SameCopying
<1> QED
  BY <1>15, <1>17, <1>18, <1>19 DEF IInv
-----------------------------------------------------------------------------
(* The arrays that are cleaned, and the release callback.                  *)

LEMMA EmptiedCount ==
  ASSUME NEW S, NEW s \in Seq(S), NEW gone
  PROVE  IsFiniteSet(Emptied(s, gone)) /\ Cardinality(Emptied(s, gone)) \in Nat
<1>1. IsFiniteSet(1 .. Len(s)) /\ Emptied(s, gone) \in SUBSET (1 .. Len(s))
  <2>1. Len(s) \in Int /\ 1 \in Int
    OBVIOUS
  <2> QED
    BY <2>1, FS_Interval DEF Emptied
<1>2. IsFiniteSet(Emptied(s, gone))
  BY <1>1, FS_Subset
<1> QED
  BY <1>2, FS_CardinalityType

LEMMA CleanedArray ==
  ASSUME NEW s \in Seq(Objects \cup {NoObject, Junk}), NEW gone, NEW removed \in Nat,
         removed <= Cardinality(Emptied(s, gone))
  PROVE  LET new == Cleaned(s, gone, removed)
         IN  /\ new \in Seq(Objects \cup {NoObject, Junk})
             /\ \A n \in DOMAIN new : new[n] # Junk => \E j \in DOMAIN s : s[j] = new[n]
             /\ \A m, n \in DOMAIN new : m # n /\ new[m] # Junk /\ new[m] = new[n] =>
                  \E i, j \in DOMAIN s : i # j /\ s[i] = new[m] /\ s[j] = new[m]
             /\ \A j \in DOMAIN s : s[j] \notin gone => \E n \in DOMAIN new : new[n] = s[j]
<1> DEFINE n1 == removed
           new == Cleaned(s, gone, n1)
<1>0. n1 \in Nat /\ n1 <= Cardinality(Emptied(s, gone)) /\ Cardinality(Emptied(s, gone)) \in Nat
  BY EmptiedCount
<1> HIDE DEF n1
<1>1. s \in Seq((Objects \cup {NoObject}) \cup {Junk})
  <2>1. (Objects \cup {NoObject}) \cup {Junk} = Objects \cup {NoObject, Junk}
    OBVIOUS
  <2> QED
    BY <2>1
<1>2. /\ new \in Seq((Objects \cup {NoObject}) \cup {Junk})
      /\ \A n \in DOMAIN new : new[n] # Junk =>
           \E j \in DOMAIN s : n <= j /\ s[j] = new[n]
      /\ \A m, n \in DOMAIN new : m # n /\ new[m] # Junk /\ new[m] = new[n] =>
           \E i, j \in DOMAIN s : /\ i # j /\ m <= i /\ n <= j
                                  /\ s[i] = new[m] /\ s[j] = s[i]
      /\ \A j \in DOMAIN s : s[j] \notin gone => \E n \in DOMAIN new : new[n] = s[j]
  BY <1>0, <1>1, CleanedFacts
<1>3. (Objects \cup {NoObject}) \cup {Junk} = Objects \cup {NoObject, Junk}
  OBVIOUS
<1> HIDE DEF new
<1>4. \A m, n \in DOMAIN new : m # n /\ new[m] # Junk /\ new[m] = new[n] =>
        \E i, j \in DOMAIN s : i # j /\ s[i] = new[m] /\ s[j] = new[m]
  BY <1>2
<1>5. /\ new \in Seq(Objects \cup {NoObject, Junk})
      /\ \A n \in DOMAIN new : new[n] # Junk => \E j \in DOMAIN s : s[j] = new[n]
  BY <1>2, <1>3
<1> QED
  BY <1>2, <1>4, <1>5 DEF new, n1

LEMMA CleanedStep ==
  ASSUME TypeOK, Placed, NEW o \in Prototypes, NEW gone, NEW removed \in Nat,
         removed <= Cardinality(Emptied(handlers[o], gone)),
         handlers' = [handlers EXCEPT ![o] = Cleaned(handlers[o], gone, removed)],
         UNCHANGED <<awaits, used>>, stack' \in Seq(Activations),
         \A w \in Outsiders : awaits[w] = o => w \notin gone,
         \A p, j : Ahead(p, j)' <=> Ahead(p, j)
  PROVE  /\ TypeOK' /\ Placed' /\ handlers'[o] = Cleaned(handlers[o], gone, removed)
         /\ \A p \in Objects \ {o} : handlers'[p] = handlers[p]
<1> DEFINE new == Cleaned(handlers[o], gone, removed)
<1>1. o \in Objects /\ o \notin Copies
  BY Kinds
<1>2. /\ handlers'[o] = new /\ \A p \in Objects \ {o} : handlers'[p] = handlers[p]
      /\ handlers' = [p \in Objects |-> handlers'[p]]
  BY <1>1 DEF TypeOK
<1>4. /\ new \in Seq(Objects \cup {NoObject, Junk})
      /\ \A n \in DOMAIN new : new[n] # Junk =>
           \E j \in DOMAIN handlers[o] : handlers[o][j] = new[n]
      /\ \A m, n \in DOMAIN new : m # n /\ new[m] # Junk /\ new[m] = new[n] =>
           \E i, j \in DOMAIN handlers[o] :
             i # j /\ handlers[o][i] = new[m] /\ handlers[o][j] = new[m]
      /\ \A j \in DOMAIN handlers[o] : handlers[o][j] \notin gone =>
           \E n \in DOMAIN new : new[n] = handlers[o][j]
  <2> DEFINE s == handlers[o]
             r == removed
             t == Cleaned(s, gone, r)
  <2>1. s \in Seq(Objects \cup {NoObject, Junk}) /\ r \in Nat /\ r <= Cardinality(Emptied(s, gone))
    BY <1>1, Arrays
  <2>2. Cardinality(Emptied(s, gone)) \in Nat
    BY <2>1, EmptiedCount
  <2> HIDE DEF s, r
  <2>3. /\ t \in Seq(Objects \cup {NoObject, Junk})
        /\ \A n \in DOMAIN t : t[n] # Junk => \E j \in DOMAIN s : s[j] = t[n]
        /\ \A m, n \in DOMAIN t : m # n /\ t[m] # Junk /\ t[m] = t[n] =>
             \E i, j \in DOMAIN s : i # j /\ s[i] = t[m] /\ s[j] = t[m]
        /\ \A j \in DOMAIN s : s[j] \notin gone => \E n \in DOMAIN t : t[n] = s[j]
    BY <2>1, <2>2, CleanedArray
  <2> QED
    BY <2>3 DEF s, r, t
<1> HIDE DEF new
<1>5. new \in Seq(Objects \cup {NoObject, Junk})
  BY <1>4
<1>6. TypeOK'
  <2>1. handlers' \in [Objects -> Seq(Objects \cup {NoObject, Junk})]
    <3>1. \A p \in Objects : handlers'[p] \in Seq(Objects \cup {NoObject, Junk})
      BY <1>2, <1>5, Arrays
    <3> QED
      BY <1>2, <3>1, Zenon
  <2>2. \A p \in Objects : \A j \in DOMAIN handlers'[p] : handlers'[p][j] \in Slots(p)
    <3>1. Junk \in Slots(o)
      BY <1>1, Kinds DEF Slots
    <3>2. \A n \in DOMAIN new : new[n] \in Slots(o)
      BY <1>1, <1>4, <3>1, Arrays
    <3> QED
      BY <1>2, <3>2, Arrays
  <2> QED
    BY <2>1, <2>2 DEF TypeOK, Slots
<1>7. \A w \in Outsiders : w # Junk /\ w # NoObject
  BY Kinds
<1>8. \A p \in Objects : \A j \in DOMAIN handlers'[p] : handlers'[p][j] \in Outsiders =>
        \E i \in DOMAIN handlers[p] : handlers[p][i] = handlers'[p][j]
  BY <1>2, <1>4, <1>7
<1>9. ASSUME NEW p \in Objects, NEW j \in DOMAIN handlers'[p], NEW k \in DOMAIN handlers'[p],
             handlers'[p][j] = handlers'[p][k], handlers'[p][j] \in Outsiders
      PROVE  j = k
  <2>1. CASE p = o
    <3>1. \A m, n \in DOMAIN handlers[o] :
            handlers[o][m] = handlers[o][n] /\ handlers[o][m] \in Outsiders => m = n
      BY <1>1 DEF Placed, OneSlot
    <3> QED
      BY <1>2, <1>4, <1>7, <1>9, <2>1, <3>1
  <2>2. CASE p # o
    BY <1>2, <1>9, <2>2 DEF Placed, OneSlot
  <2> QED
    BY <2>1, <2>2
<1>10. ASSUME NEW w \in Outsiders, awaits'[w] # NoObject
       PROVE  \E j \in DOMAIN handlers'[awaits'[w]] :
                handlers'[awaits'[w]][j] = w /\ Ahead(awaits[w], j)'
  <2>1. PICK a : a = awaits[w] /\ a = awaits'[w] /\ a \in Objects
    BY <1>10, Kinds DEF TypeOK
  <2>2. PICK j \in DOMAIN handlers[a] : handlers[a][j] = w /\ Ahead(a, j)
    BY <1>10, <2>1 DEF Placed, Awaiting
  <2>3. CASE a = o
    <3>1. PICK n \in DOMAIN new : new[n] = w
      BY <1>4, <2>1, <2>2, <2>3
    <3>2. Ahead(a, n)'
      BY <2>3, NoLoop
    <3> QED
      BY <1>2, <2>1, <2>3, <3>1, <3>2
  <2>4. CASE a # o
    <3>1. j \in DOMAIN handlers'[a] /\ handlers'[a][j] = w /\ Ahead(a, j)'
      BY <1>2, <2>1, <2>2, <2>4
    <3> QED
      BY <2>1, <3>1
  <2> QED
    BY <2>3, <2>4
<1>11. Placed'
  <2>1. used \cap Outsiders \subseteq used'
    OBVIOUS
  <2> QED
    BY <1>8, <1>9, <1>10, <2>1, PlacedStep
<1> QED
  BY <1>2, <1>6, <1>11 DEF new

LEMMA Joined ==
  ASSUME NEW S, NEW s \in Seq(S), NEW f \in S
  PROVE  s \o <<>> = s /\ s \o <<f>> = Append(s, f)
OBVIOUS

\* What the caller of a copy goes on with.
LEMMA MadeStack ==
  ASSUME TypeOK, stack # <<>>, Copying(Top), NEW s, NEW clean,
         clean = <<>> \/ (s \in Releasable /\ clean = <<NewFrame("release", s, NoObject)>>),
         stack' = Below \o Ready \o clean
  PROVE  /\ stack' \in Seq(Activations)
         /\ \A p, j : Ahead(p, j)' <=> Ahead(p, j)
         /\ \A n \in DOMAIN stack' : stack'[n].c \in Copies => Kept(n)
         /\ \A n \in DOMAIN stack \ {Len(stack)} : n \in DOMAIN stack' /\ stack'[n] = stack[n]
         /\ \A n \in DOMAIN stack' :
              \/ n \in DOMAIN stack \ {Len(stack)}
              \/ stack'[n].at = "release" /\ stack'[n].c = NoObject
              \/ Top.at = "invoke" /\ stack'[n].at = "run" /\ stack'[n].c = Top.c
         /\ Top.at = "invoke" =>
              /\ Len(stack) \in DOMAIN stack'
              /\ stack'[Len(stack)].at = "run" /\ stack'[Len(stack)].c = Top.c
<1> DEFINE r == NewFrame("run", NoObject, Top.c)
           f == NewFrame("release", s, NoObject)
<1>1. /\ Top.at # "notify" /\ Top.at # "run" /\ Top.c \in Copies /\ NoObject \notin Copies
      /\ Top \in Activations /\ Len(stack) \in DOMAIN stack /\ Len(stack) + 1 \notin DOMAIN stack
  BY Unlabelled, StackFacts, Kinds
<1>2. /\ r \in Activations /\ r.at = "run" /\ r.at # "notify" /\ r.c = Top.c
      /\ s \in Releasable => f \in Activations
      /\ f.at = "release" /\ f.at # "notify" /\ f.c = NoObject
  BY <1>1, Activated DEF NewFrame
<1>3. Below \in Seq(Activations)
  BY DEF TypeOK, Below
<1>4. Ready = IF Top.at = "invoke" THEN <<r>> ELSE <<>>
  BY DEF Ready
<1>5. clean = <<>> \/ (s \in Releasable /\ clean = <<f>>)
  OBVIOUS
<1> HIDE DEF r, f
<1>6. CASE Top.at # "invoke" /\ clean = <<>>
  <2>1. stack' = Below
    BY <1>3, <1>4, <1>6, Joined
  <2>2. Pops /\ stack' \in Seq(Activations)
    BY <1>1, <2>1, StackShapes
  <2>3. \A n \in DOMAIN stack' : Kept(n)
    BY <2>2, KeptBelow
  <2>4. \A p, j : Ahead(p, j)' <=> Ahead(p, j)
    BY <1>1, <2>2, AheadBelow
  <2> QED
    BY <1>1, <1>6, <2>2, <2>3, <2>4 DEF Pops
<1>7. CASE Top.at # "invoke" /\ s \in Releasable /\ clean = <<f>>
  <2>1. stack' = Append(Below, f)
    BY <1>2, <1>3, <1>4, <1>7, Joined
  <2>2. Swaps(f) /\ stack' \in Seq(Activations)
    BY <1>2, <1>7, <2>1, StackShapes
  <2>3. \A n \in DOMAIN stack' : stack'[n].c \in Copies => Kept(n)
    BY <1>1, <1>2, <2>2, KeptTop DEF Swaps
  <2>4. \A p, j : Ahead(p, j)' <=> Ahead(p, j)
    BY <1>1, <1>2, <2>2, AheadQuiet
  <2> QED
    BY <1>1, <1>2, <1>7, <2>2, <2>3, <2>4 DEF Swaps
<1>8. CASE Top.at = "invoke" /\ clean = <<>>
  <2>1. stack' = Append(Below, r)
    <3>1. stack' = (Below \o <<r>>) \o <<>>
      BY <1>4, <1>8
    <3>2. Below \o <<r>> = Append(Below, r) /\ Append(Below, r) \in Seq(Activations)
      BY <1>2, <1>3, Joined
    <3> QED
      BY <1>2, <3>1, <3>2, Joined
  <2>2. Swaps(r) /\ stack' \in Seq(Activations)
    BY <1>2, <2>1, StackShapes
  <2>3. \A n \in DOMAIN stack' : Kept(n)
    <3>1. Kept(Len(stack))
      BY <1>2, <1>8, <2>2, KeptTop
    <3> QED
      BY <1>1, <2>2, <3>1, KeptTop DEF Swaps
  <2>4. \A p, j : Ahead(p, j)' <=> Ahead(p, j)
    BY <1>1, <1>2, <2>2, AheadQuiet
  <2> QED
    BY <1>1, <1>2, <1>8, <2>2, <2>3, <2>4 DEF Swaps
<1>9. CASE Top.at = "invoke" /\ s \in Releasable /\ clean = <<f>>
  <2>1. stack' = Append(Append(Below, r), f)
    <3>1. stack' = (Below \o <<r>>) \o <<f>>
      BY <1>4, <1>9
    <3>2. Below \o <<r>> = Append(Below, r) /\ Append(Below, r) \in Seq(Activations)
      BY <1>2, <1>3, Joined
    <3> QED
      BY <1>2, <1>9, <3>1, <3>2, Joined
  <2>2. SwapsPushes(r, f) /\ stack' \in Seq(Activations)
    BY <1>2, <1>9, <2>1, StackShapes
  <2>3. \A n \in DOMAIN stack' : stack'[n].c \in Copies => Kept(n)
    <3>1. Kept(Len(stack))
      BY <1>2, <1>9, <2>2, KeptTop
    <3>2. stack'[Len(stack) + 1].c \notin Copies
      BY <1>1, <1>2, <2>2 DEF SwapsPushes
    <3> QED
      BY <2>2, <3>1, <3>2, KeptTop
  <2>4. \A p, j : Ahead(p, j)' <=> Ahead(p, j)
    BY <1>1, <1>2, <2>2, AheadQuiet
  <2> QED
    BY <1>1, <1>2, <1>9, <2>2, <2>3, <2>4 DEF SwapsPushes
<1> QED
  BY <1>5, <1>6, <1>7, <1>8, <1>9

LEMMA CopyMadeKeeps == ASSUME IInv, CopyMade PROVE IInv'
<1>1. PICK o, i : o = Top.o /\ i = Top.i
  OBVIOUS
<1>2. PICK k, rest, clean :
        /\ k = Top.moved /\ k <= Cardinality(Empty(o))
        /\ rest = Cleaned(handlers[o], {NoObject}, k)
        /\ clean = IF i = 1 THEN <<>> ELSE Autoclean(o, rest)
        /\ handlers' = [handlers EXCEPT ![o] = rest] /\ stack' = Below \o Ready \o clean
        /\ released' = released \cup {f.o : f \in Range(clean)}
  BY <1>1 DEF CopyMade
<1>3. /\ TypeOK /\ Owned /\ Placed /\ Releasing /\ stack # <<>> /\ Copying(Top)
      /\ i > Len(handlers[o]) /\ UNCHANGED <<awaits, used, asleep>>
  BY <1>1 DEF IInv, CopyMade, LoopDone
<1>4. /\ o \in Prototypes /\ o \in Objects /\ k \in Nat /\ i \in Nat \ {0}
      /\ Top = stack[Len(stack)] /\ Len(stack) \in DOMAIN stack
      /\ handlers[o] \in Seq(Objects \cup {NoObject, Junk}) /\ Len(handlers[o]) \in Nat
  BY <1>1, <1>2, <1>3, Unlabelled, StackFacts, Kinds, Arrays
<1>5. clean = <<>> \/ (o \in Releasable /\ clean = <<NewFrame("release", o, NoObject)>>)
  BY <1>2 DEF Autoclean
<1>6. /\ stack' \in Seq(Activations)
      /\ \A p, j : Ahead(p, j)' <=> Ahead(p, j)
      /\ \A n \in DOMAIN stack' : stack'[n].c \in Copies => Kept(n)
      /\ \A n \in DOMAIN stack \ {Len(stack)} : n \in DOMAIN stack' /\ stack'[n] = stack[n]
  BY <1>2, <1>3, <1>5, MadeStack
<1>7. /\ TypeOK' /\ Placed' /\ handlers'[o] = rest
      /\ \A p \in Objects \ {o} : handlers'[p] = handlers[p]
  <2>1. Empty(o) = Emptied(handlers[o], {NoObject})
    BY DEF Empty, Emptied
  <2>2. PICK gone : gone = {NoObject}
    OBVIOUS
  <2>3. \A w \in Outsiders : awaits[w] = o => w \notin gone
    BY <2>2, Kinds
  <2>4. k <= Cardinality(Emptied(handlers[o], gone))
    BY <1>2, <2>1, <2>2
  <2>5. /\ handlers' = [handlers EXCEPT ![o] = Cleaned(handlers[o], gone, k)]
        /\ rest = Cleaned(handlers[o], gone, k)
    BY <1>2, <2>2
  <2> QED
    BY <1>3, <1>4, <1>6, <2>3, <2>4, <2>5, CleanedStep
<1>8. Owned'
  <2>1. \A c \in Copies : handlers'[c] = handlers[c]
    BY <1>4, <1>7, Kinds
  <2> QED
    BY <1>3, <1>6, <2>1, OwnedQuiet
<1>9. Releasing'
  <2> SUFFICES ASSUME NEW s \in Releasable, handlers'[s] = <<>>, s \notin released'
               PROVE  \E n \in DOMAIN stack' :
                        Copying(stack'[n]) /\ stack'[n].o = s /\ stack'[n].i # 1
    BY DEF Releasing, Copying
  <2>1. s \notin released /\ s \in Objects
    BY <1>2, Kinds
  <2>2. s = o => i = 1
    <3> SUFFICES ASSUME s = o, i # 1
                 PROVE  FALSE
      OBVIOUS
    <3> DEFINE f == NewFrame("release", o, NoObject)
    <3>1. clean = <<f>>
      BY <1>2, <1>7 DEF Autoclean
    <3>2. f \in Range(clean) /\ f.o = o
      BY <3>1 DEF Range, NewFrame
    <3> HIDE DEF f
    <3> QED
      BY <1>2, <3>2
  <2>3. handlers[s] = <<>>
    <3>1. CASE s = o
      <4>1. Len(handlers[o]) = 0
        BY <1>3, <1>4, <2>2, <3>1
      <4> QED
        BY <1>4, <3>1, <4>1
    <3>2. CASE s # o
      BY <1>7, <2>1, <3>2
    <3> QED
      BY <3>1, <3>2
  <2>4. PICK n \in DOMAIN stack : Copying(stack[n]) /\ stack[n].o = s /\ stack[n].i # 1
    BY <1>3, <2>1, <2>3 DEF Releasing
  <2>5. n # Len(stack)
    BY <1>1, <1>4, <2>2, <2>4
  <2> QED
    BY <1>6, <2>4, <2>5
<1> QED
  BY <1>7, <1>8, <1>9 DEF IInv

\* What the coroutine awaits cannot forget it.
LEMMA ForgetKeeps ==
  ASSUME IInv, NEW o \in Prototypes \cup Outsiders, NEW x \in Objects, Forget(o, x)
  PROVE  IInv'
<1>1. PICK k, gone, rest, clean :
        /\ k = Cardinality({j \in DOMAIN handlers[o] : handlers[o][j] = x})
        /\ gone = {x, NoObject} /\ rest = Cleaned(handlers[o], gone, k)
        /\ clean = Autoclean(o, rest)
  OBVIOUS
<1>2. /\ TypeOK /\ Owned /\ Placed /\ Releasing /\ o \in Prototypes /\ o \in Objects
      /\ x \notin {y \in Outsiders : awaits[y] = o}
      /\ handlers' = [handlers EXCEPT ![o] = rest] /\ stack' = stack \o clean
      /\ released' = released \cup {f.o : f \in Range(clean)}
      /\ UNCHANGED <<awaits, used, asleep>>
  BY <1>1, Kinds DEF IInv, Forget, Removed
<1>3. k \in Nat /\ k <= Cardinality(Emptied(handlers[o], gone))
  <2>1. handlers[o] \in Seq(Objects \cup {NoObject, Junk})
    BY <1>2, Arrays
  <2>2. IsFiniteSet(Emptied(handlers[o], gone))
    BY <2>1, EmptiedCount
  <2>3. {j \in DOMAIN handlers[o] : handlers[o][j] = x} \in SUBSET Emptied(handlers[o], gone)
    BY <1>1 DEF Emptied
  <2> QED
    BY <1>1, <2>2, <2>3, FS_Subset, FS_CardinalityType
<1>4. clean = <<>> \/ (o \in Releasable /\ clean = <<NewFrame("release", o, NoObject)>>)
  BY <1>1 DEF Autoclean
<1>5. /\ stack' \in Seq(Activations)
      /\ \A p, j : Ahead(p, j)' <=> Ahead(p, j)
      /\ \A n \in DOMAIN stack' : stack'[n].c \in Copies => Kept(n)
      /\ \A n \in DOMAIN stack : n \in DOMAIN stack' /\ stack'[n] = stack[n]
  <2>1. CASE clean = <<>>
    <3>1. stack' = stack
      BY <1>2, <2>1, Joined DEF TypeOK
    <3> QED
      BY <1>2, <3>1 DEF TypeOK, Ahead, Kept
  <2>2. CASE o \in Releasable /\ clean = <<NewFrame("release", o, NoObject)>>
    <3> DEFINE f == NewFrame("release", o, NoObject)
    <3>1. f \in Activations /\ f.at # "notify" /\ f.c = NoObject
      BY <2>2, Activated DEF NewFrame
    <3>2. clean = <<f>>
      BY <2>2
    <3> HIDE DEF f
    <3>3. stack' = Append(stack, f)
      BY <1>2, <3>1, <3>2, Joined DEF TypeOK
    <3>4. Pushes(f) /\ stack' \in Seq(Activations)
      BY <1>2, <3>1, <3>3, StackShapes
    <3>5. \A p, j : Ahead(p, j)' <=> Ahead(p, j)
      BY <1>2, <3>1, <3>4, AheadQuiet
    <3>6. \A n \in DOMAIN stack' : stack'[n].c \in Copies => Kept(n)
      BY <3>1, <3>4, KeptAll, Kinds DEF Pushes
    <3> QED
      BY <3>4, <3>5, <3>6 DEF Pushes
  <2> QED
    BY <1>4, <2>1, <2>2
<1>6. /\ TypeOK' /\ Placed' /\ handlers'[o] = rest
      /\ \A p \in Objects \ {o} : handlers'[p] = handlers[p]
  <2>1. \A w \in Outsiders : awaits[w] = o => w \notin gone
    BY <1>1, <1>2, Kinds
  <2>2. /\ handlers' = [handlers EXCEPT ![o] = Cleaned(handlers[o], gone, k)]
        /\ rest = Cleaned(handlers[o], gone, k)
    BY <1>1, <1>2
  <2>3. k \in Nat /\ k <= Cardinality(Emptied(handlers[o], gone)) /\ o \in Prototypes
    BY <1>2, <1>3
  <2>4. TypeOK' /\ Placed' /\ handlers'[o] = Cleaned(handlers[o], gone, k)
        /\ \A p \in Objects \ {o} : handlers'[p] = handlers[p]
    BY <1>2, <1>5, <2>1, <2>2, <2>3, CleanedStep
  <2> QED
    BY <2>2, <2>4
<1>7. Owned'
  <2>1. \A c \in Copies : handlers'[c] = handlers[c]
    BY <1>2, <1>6, Kinds
  <2> QED
    BY <1>2, <1>5, <2>1, OwnedQuiet
<1>8. Releasing'
  <2> SUFFICES ASSUME NEW s \in Releasable, handlers'[s] = <<>>, s \notin released'
               PROVE  \E n \in DOMAIN stack' :
                        Copying(stack'[n]) /\ stack'[n].o = s /\ stack'[n].i # 1
    BY DEF Releasing, Copying
  <2>1. s \notin released /\ s \in Objects
    BY <1>2, Kinds
  <2>2. s # o
    <3> SUFFICES ASSUME s = o
                 PROVE  FALSE
      OBVIOUS
    <3> DEFINE f == NewFrame("release", o, NoObject)
    <3>1. clean = <<f>>
      BY <1>1, <1>6 DEF Autoclean
    <3>2. f \in Range(clean) /\ f.o = o
      BY <3>1 DEF Range, NewFrame
    <3> HIDE DEF f
    <3> QED
      BY <1>2, <3>2
  <2>3. PICK n \in DOMAIN stack : Copying(stack[n]) /\ stack[n].o = s /\ stack[n].i # 1
    BY <1>2, <1>6, <2>1, <2>2 DEF Releasing
  <2> QED
    BY <1>5, <2>3
<1> QED
  BY <1>6, <1>7, <1>8 DEF IInv
-----------------------------------------------------------------------------
LEMMA IInvInit == PrototypesInit => IInv
<1> SUFFICES ASSUME PrototypesInit
             PROVE  IInv
  OBVIOUS
<1>1. /\ handlers = [o \in Objects |-> <<>>] /\ awaits = [w \in Outsiders |-> NoObject]
      /\ used = {} /\ asleep = {} /\ stack = <<>> /\ released = Roots
  BY DEF PrototypesInit
<1>2. \A o \in Objects : DOMAIN handlers[o] = {} /\ handlers[o] = <<>>
  BY <1>1
<1>3. TypeOK
  BY <1>1, <1>2 DEF TypeOK
<1>4. Owned
  BY <1>1, <1>2, Kinds DEF Owned, ActiveOnce, IdleInSlots, SlotOnce, Freed
<1>5. Placed
  BY <1>1, <1>2 DEF Placed, Unplaced, OneSlot, Awaiting
<1>6. Releasing
  BY <1>1, Kinds DEF Releasing
<1> QED
  BY <1>3, <1>4, <1>5, <1>6 DEF IInv

LEMMA UserKeeps == ASSUME IInv, User PROVE IInv'
<1>1. CASE \E s \in Roots : Invoke(s)
  BY <1>1, InvokeKeeps
<1>2. CASE \E o \in Prototypes \cup Outsiders :
             \/ \E h \in Thens : Then(o, h)
             \/ \E s \in Roots : Chain(o, s)
             \/ \E w \in Outsiders : Join(o, w)
             \/ \E x \in Objects : Forget(o, x)
  BY <1>2, ThenKeeps, ChainKeeps, JoinKeeps, ForgetKeeps
<1> QED
  BY <1>1, <1>2 DEF User

LEMMA IInvNext == IInv /\ [PrototypesNext]_prototypesVars => IInv'
<1> SUFFICES ASSUME IInv, [PrototypesNext]_prototypesVars
             PROVE  IInv'
  OBVIOUS
<1>1. CASE User
  BY <1>1, UserKeeps
<1>2. CASE Machine
  <2>1. CASE CopyCorrupted
    BY <2>1, CorruptedKeeps DEF CopyCorrupted, history
  <2> QED
    BY <1>2, <2>1, MoveOutsiderKeeps, CopyMadeKeeps, CopyHandlerKeeps, NotifyPrototypeKeeps,
       NotifyPlainKeeps, NotifiedKeeps DEF Machine
<1>3. CASE Leave
  BY <1>3, ReturnKeeps, SuspendKeeps, ReleasedKeeps DEF Leave
<1>4. CASE \E c \in Copies : Resume(c)
  BY <1>4, ResumeKeeps
<1>5. CASE UNCHANGED prototypesVars
  BY <1>5, CorruptedKeeps DEF prototypesVars, history
<1> QED
  BY <1>1, <1>2, <1>3, <1>4, <1>5 DEF PrototypesNext

THEOREM Invariant == PrototypesSpec => []IInv
<1> QED
  BY IInvInit, IInvNext, PTL DEF PrototypesSpec

(***************************************************************************)
(* HeldOnce: a coroutine is held by the one promise it awaits.             *)
(* ion_promisor_clone() takes it out of the prototype that it copies, puts *)
(* it below the copy and makes it await the copy, in one turn of its loop. *)
(***************************************************************************)
LEMMA HoldersAreOne == IInv => HeldOnce
<1> SUFFICES ASSUME IInv, NEW w \in Outsiders
             PROVE  /\ Cardinality({o \in Objects : w \in Handled(o)}) <= 1
                    /\ awaits[w] # NoObject => w \in Handled(awaits[w])
  BY DEF HeldOnce
<1>1. TypeOK /\ Placed
  BY DEF IInv
<1>2. Cardinality({o \in Objects : w \in Handled(o)}) <= 1
  <2> DEFINE H == {o \in Objects : w \in Handled(o)}
  <2>1. ASSUME NEW o \in H, NEW p \in H
        PROVE  o = p
    <3>1. (\E j \in DOMAIN handlers[o] : handlers[o][j] = w)
          /\ (\E j \in DOMAIN handlers[p] : handlers[p][j] = w)
      BY DEF Handled, Range
    <3> QED
      BY <1>1, <3>1 DEF Placed, OneSlot
  <2>2. H = {} \/ \E o : H = {o}
    BY <2>1
  <2> HIDE DEF H
  <2>3. \A o : Cardinality({o}) = 1
    BY FS_Singleton
  <2>4. Cardinality(H) = 0 \/ Cardinality(H) = 1
    BY <2>2, <2>3, FS_EmptySet
  <2>5. Cardinality(H) <= 1
    BY <2>4
  <2> QED
    BY <2>5 DEF H
<1>3. ASSUME awaits[w] # NoObject
      PROVE  w \in Handled(awaits[w])
  <2>1. PICK j \in DOMAIN handlers[awaits[w]] : handlers[awaits[w]][j] = w
    BY <1>1, <1>3 DEF Placed, Awaiting
  <2>2. w # NoObject /\ w # Junk
    BY Kinds
  <2> QED
    BY <2>1, <2>2 DEF Handled, Range
<1> QED
  BY <1>2, <1>3

THEOREM Held == PrototypesSpec => []HeldOnce
<1> QED
  BY Invariant, HoldersAreOne, PTL

(***************************************************************************)
(* ReleasedWhenIdle: a sequence made with a release callback has been      *)
(* released once nobody listens to it and no copy of it is being made.     *)
(* ion_promisor_autoclean() is called where the last handler can leave.    *)
(***************************************************************************)
LEMMA IdleAreReleased == IInv => ReleasedWhenIdle
BY DEF IInv, Releasing, ReleasedWhenIdle

THEOREM ReleasedOnce == PrototypesSpec => []ReleasedWhenIdle
<1> QED
  BY Invariant, IdleAreReleased, PTL
-----------------------------------------------------------------------------
(***************************************************************************)
(* HeardOnce: what holds of the arrays, the copies and the invocations     *)
(* until a release callback uses a sequence that is being copied.          *)
(*                                                                         *)
(* The prototypes and outsiders are a forest.  Each loop of a copy has     *)
(* read what is before its slot and has its own part of the forest to      *)
(* read.  Each copy has one holder.  And what an invocation still owes is  *)
(* exactly what its loops have to copy, the copies that were not reached   *)
(* and the outsiders in their slots.                                       *)
(***************************************************************************)
Types ==
  /\ origin \in [Copies -> Prototypes \cup {NoObject}] /\ call \in [Objects -> Nat]
  /\ made \in Nat

\* Every object is below one prototype at most, none below itself, and what was
\* never put anywhere is in no array and has nothing below it.
OneParent == \A o, p \in Prototypes : \A j \in DOMAIN handlers[o], k \in DOMAIN handlers[p] :
  handlers[o][j] = handlers[p][k] /\ handlers[o][j] \in Objects => o = p /\ j = k
NoCycle == \A S \in SUBSET Uncopied : S # {} =>
  \E x \in S : \A o \in S \cap Prototypes : x \notin Handled(o)
Fresh == \A x \in Uncopied \ used :
  /\ \A o \in Prototypes : x \notin Handled(o)
  /\ x \in Thens => handlers[x] = <<>>
Forest == OneParent /\ NoCycle /\ Fresh

\* The loop of a copy at level n of the stack is f; what it is at work on.
Makes(n, f) == n \in DOMAIN stack /\ stack[n] = f /\ Copying(f)
Copied(f) == {f.o} \cup ToCopy(f)

\* The loop has filled as many slots of the copy as it has read, counts the
\* slots it has emptied, and no slot it has still to read is empty.
LoopOK(f) ==
  /\ origin[f.c] = f.o
  /\ f.room = Len(handlers[f.o]) /\ Len(handlers[f.c]) = f.i - 1
  /\ f.moved = Cardinality(Empty(f.o))
  /\ \A j \in DOMAIN handlers[f.o] :
       handlers[f.o][j] # Junk /\ (j >= f.i => handlers[f.o][j] # NoObject)
Loops == \A n \in Nat : \A f \in Activations : Makes(n, f) => LoopOK(f)

\* Two loops are at work on different objects.
Apart == \A m, n \in Nat : \A f, g \in Activations :
  Makes(m, f) /\ Makes(n, g) /\ m # n => Copied(f) \cap Copied(g) = {}

\* An array that no loop is reading is whole.
Looped(o) == \E n \in Nat : \E f \in Activations : Makes(n, f) /\ f.o = o
Whole(o) == \A j \in DOMAIN handlers[o] : handlers[o][j] \in Objects
AllWhole == \A o \in Prototypes : Looped(o) \/ Whole(o)
Making == Loops /\ Apart /\ AllWhole

\* A copy belongs to an invocation, the one of the copy in whose array it is.
Calls == \A c \in Copies \cap used : origin[c] \in Prototypes /\ call[c] \in 1 .. made
InSlot(x, o) == \E j \in DOMAIN handlers[o] : handlers[o][j] = x /\ Ahead(o, j)
SameCall == \A o, x \in Copies : InSlot(x, o) => call[x] = call[o]

\* It is in an activation, asleep, or in a slot; and not in a ring of slots, so
\* one of its invocation is in an activation or asleep.
Framed(x) == x \in asleep \/ \E n \in DOMAIN stack : stack[n].c = x /\ stack[n].at # "copy"
HasHolder == \A x \in Copies \cap used : Framed(x) \/ \E o \in Copies : InSlot(x, o)
NoRing == \A S \in SUBSET Copies : S # {} => \E x \in S : \A o \in S : ~InSlot(x, o)
Family == Calls /\ SameCall /\ HasHolder /\ NoRing

\* The callback of a copy has run, or runs; a copy waits for that.
Active(c) == c \in asleep \/ \E n \in DOMAIN stack :
  stack[n].at \in {"run", "notify"} /\ stack[n].c = c
Unreached(c) == c \in used /\ ~Active(c)

\* Two copies that wait in one invocation are of different prototypes, and of
\* none that is still to be copied for it.
ReachedOnce ==
  \A c \in Copies : Unreached(c) =>
    /\ \A d \in Copies : Unreached(d) /\ call[d] = call[c] /\ origin[d] = origin[c] => d = c
    /\ \A n \in Nat : \A f \in Activations :
         Makes(n, f) /\ call[f.c] = call[c] => origin[c] \notin ToCopy(f)

\* What invocation k has still to reach: a prototype whose copy waits, an
\* outsider in a slot of one of its copies, or what has still to be copied.
ByCopy(k, x) == \E c \in Copies : Unreached(c) /\ call[c] = k /\ origin[c] = x
BySlot(k, x) == x \in Outsiders /\ \E c \in Copies : call[c] = k /\ InSlot(x, c)
ByLoop(k, x) == \E n \in Nat : \E f \in Activations :
  Makes(n, f) /\ call[f.c] = k /\ x \in ToCopy(f)
Claim(k, x) == ByCopy(k, x) \/ BySlot(k, x) \/ ByLoop(k, x)
Exact == /\ due \subseteq Nat \X Uncopied
         /\ \A k \in Nat : \A x \in Uncopied : <<k, x>> \in due <=> Claim(k, x)
Owing == ReachedOnce /\ Exact /\ stray = {}

Sound == Types /\ Forest /\ Making /\ Family /\ Owing /\ ~crashed
HInv == IInv /\ (~spoiled => Sound)
-----------------------------------------------------------------------------
(* What is below an object, and how the forest grows and thins.            *)

LEMMA HandledFacts ==
  ASSUME TypeOK, NEW o \in Prototypes
  PROVE  /\ Handled(o) \subseteq Uncopied
         /\ \A x : x \in Handled(o) <=>
              x \in Objects /\ \E j \in DOMAIN handlers[o] : handlers[o][j] = x
         /\ \A j \in DOMAIN handlers[o] : handlers[o][j] \in Objects => handlers[o][j] \in Uncopied
         /\ \A j \in DOMAIN handlers[o] :
              handlers[o][j] \in Objects \/ handlers[o][j] \in {NoObject, Junk}
<1>1. \A j \in DOMAIN handlers[o] :
        handlers[o][j] \in Prototypes \cup Outsiders \cup {NoObject, Junk}
  BY Arrays, Kinds DEF Slots
<1>2. Handled(o) = {handlers[o][j] : j \in DOMAIN handlers[o]} \ {NoObject, Junk}
  BY DEF Handled, Range
<1> QED
  BY <1>1, <1>2, Kinds DEF Uncopied

\* Under(o) is the least set that has o and what is below its prototypes.
LEMMA UnderFacts ==
  ASSUME TypeOK, NEW o \in Uncopied
  PROVE  /\ o \in Under(o) /\ Under(o) \subseteq Uncopied /\ Closed(Under(o))
         /\ \A S \in SUBSET Uncopied : o \in S /\ Closed(S) => Under(o) \subseteq S
<1>1. Closed(Under(o))
  <2> SUFFICES ASSUME NEW x \in Under(o), x \in Prototypes, NEW y \in Handled(x)
               PROVE  y \in Under(o)
    BY DEF Closed
  <2>1. y \in Uncopied
    BY HandledFacts
  <2>2. ASSUME NEW S \in SUBSET Uncopied, o \in S, Closed(S)
        PROVE  y \in S
    <3>1. x \in S
      BY <2>2 DEF Under
    <3> QED
      BY <2>2, <3>1 DEF Closed
  <2> QED
    BY <2>1, <2>2 DEF Under
<1> QED
  BY <1>1 DEF Under

\* An object below o, other than o, is held by another one.
LEMMA UnderHeld ==
  ASSUME TypeOK, NEW o \in Uncopied, NEW z \in Under(o), z # o
  PROVE  \E p \in Under(o) \cap Prototypes : z \in Handled(p)
<1> SUFFICES ASSUME \A p \in Under(o) \cap Prototypes : z \notin Handled(p)
             PROVE  FALSE
  OBVIOUS
<1> DEFINE S == Under(o) \ {z}
<1>1. S \in SUBSET Uncopied /\ o \in S
  BY UnderFacts
<1>2. Closed(S)
  BY UnderFacts DEF Closed
<1> HIDE DEF S
<1>3. Under(o) \subseteq S
  BY <1>1, <1>2, UnderFacts
<1> QED
  BY <1>3 DEF S

\* Below a prototype are its handlers and what is below them.
LEMMA UnderSplit ==
  ASSUME TypeOK, NEW o \in Prototypes
  PROVE  Under(o) = {o} \cup UNION {Under(x) : x \in Handled(o)}
<1> DEFINE S == {o} \cup UNION {Under(x) : x \in Handled(o)}
<1>1. o \in Uncopied /\ Handled(o) \subseteq Uncopied
  BY HandledFacts DEF Uncopied
<1>2. S \in SUBSET Uncopied /\ o \in S
  BY <1>1, UnderFacts
<1>3. Closed(S)
  <2> SUFFICES ASSUME NEW x \in S, x \in Prototypes, NEW y \in Handled(x)
               PROVE  y \in S
    BY DEF Closed
  <2>1. CASE x = o
    BY <1>1, <2>1, UnderFacts
  <2>2. ASSUME NEW z \in Handled(o), x \in Under(z)
        PROVE  y \in Under(z)
    BY <1>1, <2>2, UnderFacts DEF Closed
  <2> QED
    BY <2>1, <2>2
<1>4. ASSUME NEW x \in Handled(o)
      PROVE  Under(x) \subseteq Under(o)
  <2>1. x \in Under(o) /\ Closed(Under(o)) /\ Under(o) \in SUBSET Uncopied
    BY <1>1, <1>4, UnderFacts DEF Closed
  <2> QED
    BY <1>1, <1>4, <2>1, UnderFacts
<1>5. S \subseteq Under(o)
  BY <1>1, <1>4, UnderFacts
<1> HIDE DEF S
<1>6. Under(o) \subseteq S
  BY <1>1, <1>2, <1>3, UnderFacts
<1>7. Under(o) = S
  BY <1>5, <1>6
<1> QED
  BY <1>7 DEF S

\* Nothing is below an outsider.
LEMMA UnderPlain ==
  ASSUME TypeOK, NEW w \in Outsiders
  PROVE  Under(w) = {w}
<1>1. w \in Uncopied /\ {w} \in SUBSET Uncopied /\ Closed({w})
  BY Kinds DEF Uncopied, Closed
<1> QED
  BY <1>1, UnderFacts

\* What is below o changes only with the arrays below o.
LEMMA UnderStays ==
  ASSUME TypeOK, TypeOK', NEW o \in Uncopied,
         \A p \in Under(o) \cap Prototypes : Handled(p)' = Handled(p)
  PROVE  Under(o)' = Under(o)
<1>1. ASSUME NEW S \in SUBSET Uncopied
      PROVE  Closed(S)' <=> \A x \in S \cap Prototypes : Handled(x)' \subseteq S
  BY DEF Closed
<1>2. Under(o)' = {x \in Uncopied : \A S \in SUBSET Uncopied : o \in S /\ Closed(S)' => x \in S}
  BY DEF Under
<1>3. ASSUME NEW x \in Under(o)'
      PROVE  x \in Under(o)
  <2>1. /\ Under(o) \in SUBSET Uncopied /\ o \in Under(o)
        /\ \A p \in Under(o) \cap Prototypes : Handled(p) \subseteq Under(o)
    BY UnderFacts DEF Closed
  <2>2. Closed(Under(o))' <=> \A p \in Under(o)' \cap Prototypes : Handled(p)' \subseteq Under(o)'
    BY DEF Closed
  <2>3. PICK S : S = Under(o)
    OBVIOUS
  <2>4. Closed(S)'
    BY <1>1, <2>1, <2>3
  <2> QED
    BY <1>2, <1>3, <2>1, <2>3, <2>4
<1>4. ASSUME NEW x \in Under(o), NEW S \in SUBSET Uncopied, o \in S, Closed(S)'
      PROVE  x \in S
  <2>1. PICK T : T = S \cap Under(o)
    OBVIOUS
  <2>2. T \in SUBSET Uncopied /\ o \in T
    BY <1>4, <2>1, UnderFacts
  <2>3. Closed(T)
    <3> SUFFICES ASSUME NEW y \in T, y \in Prototypes
                 PROVE  Handled(y) \subseteq T
      BY DEF Closed
    <3>1. Handled(y) \subseteq Under(o)
      BY <2>1, UnderFacts DEF Closed
    <3>2. Handled(y)' \subseteq S
      BY <1>1, <1>4, <2>1
    <3> QED
      BY <2>1, <3>1, <3>2
  <2> QED
    BY <2>1, <2>2, <2>3, UnderFacts
<1>5. ASSUME NEW x \in Under(o)
      PROVE  x \in Under(o)'
  <2>1. x \in Uncopied
    BY UnderFacts
  <2> QED
    BY <1>2, <1>4, <2>1
<1> QED
  BY <1>3, <1>5

\* Nothing is below what it holds.
LEMMA NotUnderItself ==
  ASSUME TypeOK, Forest, NEW o \in Prototypes, NEW a \in Handled(o)
  PROVE  o \notin Under(a)
<1> SUFFICES ASSUME o \in Under(a) PROVE FALSE
  OBVIOUS
<1>1. a \in Uncopied
  BY HandledFacts
<1>2. Under(a) \in SUBSET Uncopied /\ Under(a) # {}
  BY <1>1, UnderFacts
<1>3. PICK x \in Under(a) : \A p \in Under(a) \cap Prototypes : x \notin Handled(p)
  BY <1>2 DEF Forest, NoCycle
<1>4. x = a
  BY <1>1, <1>3, UnderHeld
<1> QED
  BY <1>3, <1>4

\* Who is handled by two prototypes is handled by one.
LEMMA SameHolder ==
  ASSUME TypeOK, Forest, NEW o \in Prototypes, NEW p \in Prototypes, NEW x \in Handled(o),
         x \in Handled(p)
  PROVE  o = p
<1>1. PICK j \in DOMAIN handlers[o], k \in DOMAIN handlers[p] :
        handlers[o][j] = x /\ handlers[p][k] = x /\ x \in Objects
  BY HandledFacts
<1> QED
  BY <1>1 DEF Forest, OneParent

\* Two handlers of one prototype have nothing in common below them.
LEMMA UnderApart ==
  ASSUME TypeOK, Forest, NEW o \in Prototypes, NEW a \in Handled(o), NEW b \in Handled(o), a # b
  PROVE  Under(a) \cap Under(b) = {}
<1>1. /\ a \in Uncopied /\ b \in Uncopied /\ o \notin Under(a) /\ o \notin Under(b)
  BY HandledFacts, NotUnderItself
<1> DEFINE S == Under(a) \ Under(b)
<1>2. a \notin Under(b)
  <2> SUFFICES ASSUME a \in Under(b) PROVE FALSE
    OBVIOUS
  <2>1. PICK p \in Under(b) \cap Prototypes : a \in Handled(p)
    BY <1>1, UnderHeld
  <2>2. p = o
    BY <2>1, SameHolder
  <2> QED
    BY <1>1, <2>1, <2>2
<1>3. a \in S /\ S \in SUBSET Uncopied
  BY <1>1, <1>2, UnderFacts
<1>4. Closed(S)
  <2> SUFFICES ASSUME NEW x \in S, x \in Prototypes, NEW y \in Handled(x)
               PROVE  y \notin Under(b)
    BY <1>1, UnderFacts DEF Closed
  <2> SUFFICES ASSUME y \in Under(b) PROVE FALSE
    OBVIOUS
  <2>1. CASE y = b
    <3>1. x = o
      BY <2>1, SameHolder
    <3> QED
      BY <1>1, <3>1
  <2>2. CASE y # b
    <3>1. PICK p \in Under(b) \cap Prototypes : y \in Handled(p)
      BY <1>1, <2>2, UnderHeld
    <3>2. p = x
      BY <3>1, SameHolder
    <3> QED
      BY <3>1, <3>2
  <2> QED
    BY <2>1, <2>2
<1> HIDE DEF S
<1>5. Under(a) \subseteq S
  BY <1>1, <1>3, <1>4, UnderFacts
<1> QED
  BY <1>5 DEF S

\* Nothing is written twice or anew in the array of p.
Thinned(p) ==
  /\ \A m \in DOMAIN handlers'[p] : handlers'[p][m] \in Objects =>
       \E j \in DOMAIN handlers[p] : handlers[p][j] = handlers'[p][m]
  /\ \A m, n \in DOMAIN handlers'[p] :
       m # n /\ handlers'[p][m] \in Objects /\ handlers'[p][m] = handlers'[p][n] =>
         \E i, j \in DOMAIN handlers[p] :
           i # j /\ handlers[p][i] = handlers'[p][m] /\ handlers[p][j] = handlers'[p][m]

LEMMA ThinnedHandled ==
  ASSUME TypeOK, TypeOK', NEW p \in Prototypes, Thinned(p)
  PROVE  Handled(p)' \subseteq Handled(p)
<1> SUFFICES ASSUME NEW x \in Handled(p)'
             PROVE  x \in Handled(p)
  OBVIOUS
<1>1. Handled(p)' = {handlers'[p][j] : j \in DOMAIN handlers'[p]} \ {NoObject, Junk}
  BY DEF Handled, Range
<1>2. \A j \in DOMAIN handlers'[p] : handlers'[p][j] \in Slots(p)
  BY Kinds DEF TypeOK, Slots
<1>3. PICK j \in DOMAIN handlers'[p] : handlers'[p][j] = x /\ x \notin {NoObject, Junk}
  BY <1>1
<1>4. x \in Objects
  BY <1>2, <1>3, Kinds DEF Slots
<1> QED
  BY <1>3, <1>4, HandledFacts DEF Thinned

\* Arrays that only lose something leave a forest.
LEMMA ForestThins ==
  ASSUME TypeOK, TypeOK', Forest, \A p \in Prototypes : Thinned(p),
         used \cap Uncopied \subseteq used',
         \A h \in Thens \ used' : handlers'[h] = handlers[h] \/ h \in used
  PROVE  Forest'
<1>1. \A p \in Prototypes : Handled(p)' \subseteq Handled(p)
  BY ThinnedHandled
<1>2. OneParent'
  <2> SUFFICES ASSUME NEW o \in Prototypes, NEW p \in Prototypes,
                      NEW m \in DOMAIN handlers'[o], NEW n \in DOMAIN handlers'[p],
                      handlers'[o][m] = handlers'[p][n], handlers'[o][m] \in Objects
               PROVE  o = p /\ m = n
    BY DEF OneParent
  <2>1. PICK i \in DOMAIN handlers[o], j \in DOMAIN handlers[p] :
          handlers[o][i] = handlers'[o][m] /\ handlers[p][j] = handlers'[o][m]
    BY DEF Thinned
  <2>2. o = p
    BY <2>1 DEF Forest, OneParent
  <2> QED
    BY <2>2 DEF Thinned, Forest, OneParent
<1>3. NoCycle'
  BY <1>1 DEF Forest, NoCycle
<1>4. Fresh'
  <2> SUFFICES ASSUME NEW x \in Uncopied \ used'
               PROVE  /\ \A o \in Prototypes : x \notin Handled(o)'
                      /\ x \in Thens => handlers'[x] = <<>>
    BY DEF Fresh
  <2>1. x \in Uncopied \ used
    OBVIOUS
  <2> QED
    BY <1>1, <2>1 DEF Forest, Fresh
<1> QED
  BY <1>2, <1>3, <1>4 DEF Forest

\* So does putting what was in no array below one that is not below it.
LEMMA ForestGrows ==
  ASSUME TypeOK, TypeOK', Forest, NEW o \in Prototypes, NEW h \in Uncopied \ used,
         o \notin Under(h), o \in Thens => o \in used, used' = used \cup {h},
         handlers' = [handlers EXCEPT ![o] = Append(@, h)]
  PROVE  /\ Forest' /\ Handled(o)' = Handled(o) \cup {h}
         /\ \A p \in Prototypes \ {o} : Handled(p)' = Handled(p)
<1>1. PICK l : l = Len(handlers[o]) + 1
  OBVIOUS
<1>2. /\ DOMAIN handlers'[o] = DOMAIN handlers[o] \cup {l} /\ l \notin DOMAIN handlers[o]
      /\ handlers'[o][l] = h /\ \A j \in DOMAIN handlers[o] : handlers'[o][j] = handlers[o][j]
      /\ h \in Objects /\ o \in Objects
  <2>1. o \in Objects /\ h \in Objects
    BY Kinds DEF Uncopied
  <2>2. handlers'[o] = Append(handlers[o], h)
    BY <2>1 DEF TypeOK
  <2> QED
    BY <1>1, <2>1, <2>2, Appended
<1>3. \A p \in Objects \ {o} : handlers'[p] = handlers[p]
  BY <1>2 DEF TypeOK
<1>4. \A p \in Prototypes : \A x : x \in Handled(p)' <=>
        x \notin {NoObject, Junk} /\ \E j \in DOMAIN handlers'[p] : handlers'[p][j] = x
  BY DEF Handled, Range
<1>5. \A p \in Prototypes : \A x : x \in Handled(p) <=>
        x \notin {NoObject, Junk} /\ \E j \in DOMAIN handlers[p] : handlers[p][j] = x
  BY DEF Handled, Range
<1>6. Handled(o)' = Handled(o) \cup {h}
  BY <1>2, <1>4, <1>5, Kinds
<1>7. ASSUME NEW p \in Prototypes \ {o}
      PROVE  Handled(p)' = Handled(p)
  <2>1. handlers'[p] = handlers[p]
    BY <1>3, Kinds
  <2>2. \A x : x \in Handled(p)' <=> x \in Handled(p)
    BY <2>1, <1>4, <1>5
  <2> QED
    BY <2>2
<1>8. \A p \in Prototypes : h \notin Handled(p)
  BY DEF Forest, Fresh
<1>9. OneParent'
  <2> SUFFICES ASSUME NEW q \in Prototypes, NEW p \in Prototypes,
                      NEW m \in DOMAIN handlers'[q], NEW n \in DOMAIN handlers'[p],
                      handlers'[q][m] = handlers'[p][n], handlers'[q][m] \in Objects
               PROVE  q = p /\ m = n
    BY DEF OneParent
  <2>1. \A p1 \in Prototypes : \A j \in DOMAIN handlers'[p1] :
          \/ p1 = o /\ j = l /\ handlers'[p1][j] = h
          \/ j \in DOMAIN handlers[p1] /\ handlers'[p1][j] = handlers[p1][j]
    BY <1>2, <1>3, Kinds
  <2>2. \A p1 \in Prototypes : \A j \in DOMAIN handlers[p1] : handlers[p1][j] # h
    BY <1>2, <1>8, HandledFacts
  <2> QED
    BY <2>1, <2>2 DEF Forest, OneParent
<1>10. NoCycle'
  <2> SUFFICES ASSUME NEW S \in SUBSET Uncopied, S # {}
               PROVE  \E x \in S : \A p \in S \cap Prototypes : x \notin Handled(p)'
    BY DEF NoCycle
  <2>1. PICK x \in S : \A p \in S \cap Prototypes : x \notin Handled(p)
    BY DEF Forest, NoCycle
  <2>2. CASE x # h \/ o \notin S
    BY <1>6, <1>7, <2>1, <2>2
  <2>3. CASE x = h /\ o \in S
    <3>1. PICK T : T = S \ Under(h)
      OBVIOUS
    <3>2. T \in SUBSET Uncopied /\ o \in T
      BY <2>3, <3>1
    <3>3. PICK y \in T : \A p \in T \cap Prototypes : y \notin Handled(p)
      BY <3>2 DEF Forest, NoCycle
    <3>4. y # h
      BY <3>1, UnderFacts
    <3>5. ASSUME NEW p \in S \cap Prototypes, y \in Handled(p)
          PROVE  FALSE
      <4>1. p \in Under(h)
        BY <3>1, <3>3, <3>5
      <4> QED
        BY <3>1, <3>5, <4>1, UnderFacts DEF Closed
    <3>6. \A p \in S \cap Prototypes : y \notin Handled(p)'
      BY <1>6, <1>7, <3>4, <3>5
    <3> QED
      BY <3>1, <3>6
  <2> QED
    BY <2>2, <2>3
<1>11. Fresh'
  <2> SUFFICES ASSUME NEW x \in Uncopied \ used'
               PROVE  /\ \A p \in Prototypes : x \notin Handled(p)'
                      /\ x \in Thens => handlers'[x] = <<>>
    BY DEF Fresh
  <2>1. x \in Uncopied \ used /\ x # h
    OBVIOUS
  <2>2. x \in Thens => x # o /\ x \in Objects
    BY <2>1, Kinds
  <2> QED
    BY <1>3, <1>6, <1>7, <2>1, <2>2 DEF Forest, Fresh
<1> QED
  BY <1>6, <1>7, <1>9, <1>10, <1>11 DEF Forest

\* Cleaning away all that was emptied leaves what stays, and nothing else.
LEMMA CleanedAll ==
  ASSUME NEW S, NEW s \in Seq(S), NEW gone
  PROVE  LET new == Cleaned(s, gone, Cardinality(Emptied(s, gone)))
         IN  \A n \in DOMAIN new : new[n] \notin gone /\ \E j \in DOMAIN s : s[j] = new[n]
<1> DEFINE E == Emptied(s, gone)
           T == Staying(s, gone)
           N == 1 .. Len(s)
           r == Cardinality(E)
           At(n) == CHOOSE k \in T : Place(s, gone, k) = n
           new == [n \in 1 .. Len(s) - r |->
                     IF \E k \in T : Place(s, gone, k) = n THEN s[At(n)] ELSE Junk]
<1>1. DOMAIN s = N /\ Len(s) \in Nat /\ IsFiniteSet(E) /\ r \in Nat
  BY EmptiedCount
<1>2. IsFiniteSet(N) /\ Cardinality(N) = Len(s)
  <2>1. \A n \in Nat : n \in Int /\ 1 \in Int /\ (IF 1 > n THEN 0 ELSE n - 1 + 1) = n
    OBVIOUS
  <2> QED
    BY <1>1, <2>1, FS_Interval
<1>3. N \cap E = E /\ T = N \ E /\ T \subseteq DOMAIN s /\ \A k \in T : s[k] \notin gone
  BY <1>1 DEF Emptied, Staying
<1>4. Cardinality(T) = Len(s) - r
  <2> HIDE DEF N, E, T, r
  <2>1. Cardinality(N \ E) = Cardinality(N) - Cardinality(N \cap E)
    BY <1>2, FS_Difference
  <2> QED
    BY <1>2, <1>3, <2>1 DEF r
<1>5. CASE r = 0
  <2>1. E = {}
    BY <1>1, <1>5, FS_EmptySet
  <2>2. Cleaned(s, gone, r) = s
    BY <1>5 DEF Cleaned
  <2> HIDE DEF r
  <2>3. \A n \in DOMAIN s : s[n] \notin gone /\ \E j \in DOMAIN s : s[j] = s[n]
    BY <2>1 DEF Emptied
  <2> QED
    BY <2>2, <2>3 DEF r
<1>6. CASE r # 0
  <2>1. Cleaned(s, gone, r) = new
    BY <1>6 DEF Cleaned
  <2>2. ASSUME NEW n \in DOMAIN new
        PROVE  new[n] \notin gone /\ \E j \in DOMAIN s : s[j] = new[n]
    <3>1. n \in 1 .. Cardinality(T)
      BY <1>4, <2>2
    <3>2. \E k \in T : Place(s, gone, k) = n
      BY <3>1, PlacesTaken
    <3>3. At(n) \in T
      <4> HIDE DEF T
      <4> QED
        BY <3>2
    <3>4. new[n] = s[At(n)]
      <4> HIDE DEF r, At, T
      <4> QED
        BY <2>2, <3>2
    <3> HIDE DEF At, new, T
    <3> QED
      BY <1>3, <3>3, <3>4
  <2> HIDE DEF new, r
  <2>3. \A n \in DOMAIN Cleaned(s, gone, r) : /\ Cleaned(s, gone, r)[n] \notin gone
                                             /\ \E j \in DOMAIN s : s[j] = Cleaned(s, gone, r)[n]
    BY <2>1, <2>2
  <2> QED
    BY <2>3 DEF r
<1> QED
  BY <1>5, <1>6

\* What the cleaning leaves of an array without junk are objects of it.
LEMMA CleanedWhole ==
  ASSUME NEW s \in Seq(Objects \cup {NoObject, Junk}), NEW gone, NoObject \in gone,
         \A j \in DOMAIN s : s[j] # Junk
  PROVE  LET new == Cleaned(s, gone, Cardinality(Emptied(s, gone)))
         IN  /\ \A n \in DOMAIN new : new[n] \in Objects /\ new[n] \notin gone
             /\ \A n \in DOMAIN new : \E j \in DOMAIN s : s[j] = new[n]
<1> DEFINE new == Cleaned(s, gone, Cardinality(Emptied(s, gone)))
<1>2. \A n \in DOMAIN new : new[n] \notin gone /\ \E j \in DOMAIN s : s[j] = new[n]
  BY CleanedAll
<1>3. \A j \in DOMAIN s : s[j] \in Objects \cup {NoObject, Junk}
  OBVIOUS
<1> HIDE DEF new
<1>4. /\ \A n \in DOMAIN new : new[n] \in Objects /\ new[n] \notin gone
      /\ \A n \in DOMAIN new : \E j \in DOMAIN s : s[j] = new[n]
  BY <1>2, <1>3
<1> QED
  BY <1>4 DEF new

-----------------------------------------------------------------------------
(* What a loop has still to copy.                                          *)

LEMMA ToCopyFacts ==
  ASSUME TypeOK, NEW f \in Activations, Copying(f)
  PROVE  /\ ToCopy(f) \subseteq Uncopied /\ f.o \in Prototypes /\ f.o \in Uncopied /\ f.c \in Copies
         /\ f.i \in Nat \ {0} /\ f.moved \in Nat
         /\ \A x : x \in ToCopy(f) <=> \E j \in DOMAIN handlers[f.o] :
              j >= f.i /\ handlers[f.o][j] \in Objects /\ x \in Under(handlers[f.o][j])
<1>1. f.o \in Prototypes /\ f.c \in Copies /\ f.i \in Nat \ {0} /\ f.moved \in Nat
  BY Advanced
<1>2. \A x : x \in ToCopy(f) <=> \E j \in DOMAIN handlers[f.o] :
        j >= f.i /\ handlers[f.o][j] \in Objects /\ x \in Under(handlers[f.o][j])
  BY DEF ToCopy
<1>3. ToCopy(f) \subseteq Uncopied
  BY <1>1, <1>2, HandledFacts, UnderFacts
<1> QED
  BY <1>1, <1>2, <1>3 DEF Uncopied

\* What is to be copied stays with the rest of the array and what is below.
LEMMA ToCopyStays ==
  ASSUME TypeOK, TypeOK', NEW f \in Activations, Copying(f),
         DOMAIN handlers'[f.o] = DOMAIN handlers[f.o],
         \A j \in DOMAIN handlers[f.o] : j >= f.i => handlers'[f.o][j] = handlers[f.o][j],
         \A p \in ToCopy(f) \cap Prototypes : Handled(p)' = Handled(p)
  PROVE  ToCopy(f)' = ToCopy(f)
<1>1. PICK s : s = handlers[f.o]
  OBVIOUS
<1>2. /\ \A x : x \in ToCopy(f) <=> \E j \in DOMAIN s :
           j >= f.i /\ s[j] \in Objects /\ x \in Under(s[j])
      /\ \A j \in DOMAIN s : s[j] \in Objects => s[j] \in Uncopied
  BY <1>1, ToCopyFacts, HandledFacts
<1>3. \A x : x \in ToCopy(f)' <=> \E j \in DOMAIN s :
        j >= f.i /\ s[j] \in Objects /\ x \in Under(s[j])'
  <2>1. PICK t : t = handlers'[f.o]
    OBVIOUS
  <2>2. \A x : x \in ToCopy(f)' <=> \E j \in DOMAIN t :
          j >= f.i /\ t[j] \in Objects /\ x \in Under(t[j])'
    BY <2>1 DEF ToCopy
  <2>3. DOMAIN t = DOMAIN s /\ \A j \in DOMAIN s : j >= f.i => t[j] = s[j]
    BY <1>1, <2>1
  <2> QED
    BY <2>2, <2>3
<1>4. ASSUME NEW j \in DOMAIN s, j >= f.i, s[j] \in Objects
      PROVE  Under(s[j])' = Under(s[j])
  <2>1. PICK a \in Uncopied : a = s[j]
    BY <1>2, <1>4
  <2>2. \A p \in Under(a) \cap Prototypes : Handled(p)' = Handled(p)
    BY <1>2, <1>4, <2>1
  <2>3. Under(a)' = Under(a)
    BY <2>2, UnderStays
  <2> QED
    BY <2>1, <2>3
<1>5. \A x : x \in ToCopy(f)' <=> x \in ToCopy(f)
  BY <1>2, <1>3, <1>4
<1> QED
  BY <1>5

\* A loop does not come back to the prototype it reads.
LEMMA NotToCopy ==
  ASSUME TypeOK, Forest, NEW f \in Activations, Copying(f)
  PROVE  f.o \notin ToCopy(f)
BY ToCopyFacts, NotUnderItself, HandledFacts

\* A copy that begins has everything below the prototype to make.
LEMMA ToCopyBegins ==
  ASSUME TypeOK, Forest, NEW f \in Activations, Copying(f), f.i = 1
  PROVE  Copied(f) = Under(f.o) /\ f.o \notin ToCopy(f)
<1>1. f.o \in Prototypes
  BY ToCopyFacts
<1>2. \A j \in DOMAIN handlers[f.o] : j >= f.i
  BY <1>1, Arrays, Kinds
<1>3. \A x : x \in ToCopy(f) <=> \E a \in Handled(f.o) : x \in Under(a)
  BY <1>1, <1>2, ToCopyFacts, HandledFacts
<1>4. Under(f.o) = {f.o} \cup UNION {Under(x) : x \in Handled(f.o)}
  BY <1>1, UnderSplit
<1>5. \A x : x \in Copied(f) <=> x \in Under(f.o)
  BY <1>3, <1>4 DEF Copied
<1> QED
  BY <1>5, NotToCopy

\* A turn of the loop takes what is below its slot.
LEMMA ToCopyNext ==
  ASSUME TypeOK, Forest, NEW f \in Activations, NEW g \in Activations, Copying(f), Copying(g),
         g.o = f.o, g.i = f.i + 1, f.i \in DOMAIN handlers[f.o],
         NEW a \in Objects, a = handlers[f.o][f.i]
  PROVE  /\ a \in Uncopied /\ f.o \notin Under(a)
         /\ ToCopy(f) = Under(a) \cup ToCopy(g) /\ Under(a) \cap ToCopy(g) = {}
<1>1. f.o \in Prototypes /\ f.i \in Nat
  BY ToCopyFacts
<1>2. a \in Handled(f.o) /\ a \in Uncopied
  BY <1>1, HandledFacts
<1>3. \A j \in DOMAIN handlers[f.o] : j \in Nat
  BY <1>1, Arrays, Kinds
<1>4. \A j, i \in Nat : j >= i <=> j = i \/ j >= i + 1
  OBVIOUS
<1>5. \A x : x \in ToCopy(f) <=> x \in Under(a) \/ x \in ToCopy(g)
  BY <1>1, <1>3, <1>4, ToCopyFacts
<1>6. ASSUME NEW x \in Under(a), x \in ToCopy(g)
      PROVE  FALSE
  <2>1. PICK j \in DOMAIN handlers[f.o] :
          j >= f.i + 1 /\ handlers[f.o][j] \in Objects /\ x \in Under(handlers[f.o][j])
    BY <1>6, ToCopyFacts
  <2>2. j # f.i
    BY <1>1, <1>3, <2>1
  <2>3. handlers[f.o][j] # a
    BY <1>1, <2>1, <2>2 DEF Forest, OneParent
  <2>4. handlers[f.o][j] \in Handled(f.o)
    BY <1>1, <2>1, HandledFacts
  <2> QED
    BY <1>1, <1>2, <1>6, <2>1, <2>3, <2>4, UnderApart
<1> QED
  BY <1>1, <1>2, <1>5, <1>6, NotUnderItself

-----------------------------------------------------------------------------
(* Steps that leave the loops of the copies as they are.                   *)

SameLoop(f) ==
  /\ handlers'[f.o] = handlers[f.o] /\ handlers'[f.c] = handlers[f.c]
  /\ origin'[f.c] = origin[f.c] /\ call'[f.c] = call[f.c]
  /\ ToCopy(f)' = ToCopy(f)
SameMaking == \A n \in Nat : \A f \in Activations :
  /\ Makes(n, f)' <=> Makes(n, f)
  /\ Makes(n, f) => SameLoop(f)

LEMMA LoopOKStays ==
  ASSUME NEW f \in Activations, LoopOK(f), SameLoop(f)
  PROVE  LoopOK(f)'
BY DEF LoopOK, SameLoop, Empty

LEMMA MakingStays ==
  ASSUME SameMaking, Loops, Apart
  PROVE  /\ Loops' /\ Apart' /\ \A o : Looped(o)' <=> Looped(o)
         /\ \A k, x : ByLoop(k, x)' <=> ByLoop(k, x)
<1>1. Loops'
  BY LoopOKStays DEF Loops, SameMaking
<1>2. \A n \in Nat : \A f \in Activations : Makes(n, f) => Copied(f)' = Copied(f)
  BY DEF SameMaking, SameLoop, Copied
<1>3. Apart'
  BY <1>2 DEF Apart, SameMaking
<1>4. \A o : Looped(o)' <=> Looped(o)
  BY DEF Looped, SameMaking
<1>5. \A k, x : ByLoop(k, x)' <=> ByLoop(k, x)
  BY DEF ByLoop, SameMaking, SameLoop
<1> QED
  BY <1>1, <1>3, <1>4, <1>5

\* The activations that copy nothing come and go.
LEMMA MakesQuiet ==
  ASSUME TypeOK, NEW g, NEW h, ~Copying(g), ~Copying(h),
         \/ Pushes(h)
         \/ stack # <<>> /\ ~Copying(Top) /\ (Pops \/ Swaps(g) \/ SwapsPushes(g, h))
  PROVE  \A n \in Nat : \A f : Makes(n, f)' <=> Makes(n, f)
<1>1. /\ Len(stack) \in Nat /\ Len(stack) + 1 \notin DOMAIN stack
      /\ stack # <<>> => Len(stack) \in DOMAIN stack /\ Top = stack[Len(stack)]
  BY StackFacts
<1>2. CASE Pushes(h)
  BY <1>1, <1>2 DEF Pushes, Makes
<1>3. CASE stack # <<>> /\ ~Copying(Top) /\ Pops
  BY <1>1, <1>3 DEF Pops, Makes
<1>4. CASE stack # <<>> /\ ~Copying(Top) /\ Swaps(g)
  BY <1>1, <1>4 DEF Swaps, Makes
<1>5. CASE stack # <<>> /\ ~Copying(Top) /\ SwapsPushes(g, h)
  BY <1>1, <1>5 DEF SwapsPushes, Makes
<1> QED
  BY <1>2, <1>3, <1>4, <1>5

\* The copy of a loop is in no other frame.
LEMMA MakesFacts ==
  ASSUME IInv
  PROVE  /\ \A n \in Nat : \A f \in Activations : Makes(n, f) =>
              /\ f.o \in Prototypes /\ f.c \in Copies /\ f.c \in used /\ f.c \notin asleep
              /\ f.o \in Objects /\ f.c \in Objects /\ f.i \in Nat \ {0}
              /\ ~Active(f.c)
              /\ \A m \in DOMAIN stack : stack[m].c = f.c => m = n
         /\ \A m, n \in Nat : \A f, g \in Activations :
              Makes(m, f) /\ Makes(n, g) /\ m # n => f.c # g.c
<1>1. TypeOK /\ ActiveOnce
  BY DEF IInv, Owned
<1>2. \A n \in DOMAIN stack : stack[n] \in Activations /\ n \in Nat
  BY <1>1, StackFacts
<1>3. ASSUME NEW n \in Nat, NEW f \in Activations, Makes(n, f)
      PROVE  /\ f.o \in Prototypes /\ f.c \in Copies /\ f.c \in used /\ f.c \notin asleep
             /\ f.o \in Objects /\ f.c \in Objects /\ f.i \in Nat \ {0}
             /\ ~Active(f.c)
             /\ \A m \in DOMAIN stack : stack[m].c = f.c => m = n
  <2>1. Copying(f) /\ n \in DOMAIN stack /\ stack[n] = f
    BY <1>3 DEF Makes
  <2>2. f.o \in Prototypes /\ f.c \in Copies /\ f.i \in Nat \ {0} /\ f.at \notin {"run", "notify"}
    BY <2>1, Advanced DEF Copying
  <2>3. /\ f.c \in used /\ f.c \notin asleep
        /\ \A m \in DOMAIN stack : stack[m].c = f.c => m = n
    BY <1>1, <2>1, <2>2 DEF ActiveOnce
  <2>4. ~Active(f.c)
    BY <2>1, <2>2, <2>3 DEF Active
  <2> QED
    BY <2>2, <2>3, <2>4, Kinds
<1>4. ASSUME NEW m \in Nat, NEW n \in Nat, NEW f \in Activations, NEW g \in Activations,
             Makes(m, f), Makes(n, g), m # n
      PROVE  f.c # g.c
  BY <1>3, <1>4 DEF Makes
<1> QED
  BY <1>3, <1>4

-----------------------------------------------------------------------------
(* Steps that leave the arrays and the copies as they are.                 *)

LEMMA TreeStays ==
  ASSUME TypeOK, TypeOK', Forest, \A p \in Prototypes : handlers'[p] = handlers[p],
         used \cap Uncopied \subseteq used'
  PROVE  /\ Forest' /\ \A o \in Uncopied : Under(o)' = Under(o)
         /\ \A o \in Prototypes : Whole(o)' <=> Whole(o)
         /\ \A f \in Activations : Copying(f) => ToCopy(f)' = ToCopy(f)
<1>1. \A p \in Prototypes : Handled(p)' = Handled(p)
  BY DEF Handled
<1>2. \A p \in Prototypes : Thinned(p)
  BY DEF Thinned
<1>3. \A h \in Thens \ used' : handlers'[h] = handlers[h] \/ h \in used
  BY Kinds
<1>4. Forest'
  BY <1>2, <1>3, ForestThins
<1>5. \A o \in Uncopied : Under(o)' = Under(o)
  BY <1>1, UnderStays
<1>6. \A f \in Activations : Copying(f) => ToCopy(f)' = ToCopy(f)
  BY <1>1, ToCopyStays, ToCopyFacts
<1>7. \A o \in Prototypes : Whole(o)' <=> Whole(o)
  BY DEF Whole
<1> QED
  BY <1>4, <1>5, <1>6, <1>7

\* The slots ahead are the same when the arrays and the loops over them are.
LEMMA SlotsSame ==
  ASSUME TypeOK, \A c \in Copies : handlers'[c] = handlers[c],
         \A o \in Copies : \A j \in Nat \ {0} : Ahead(o, j)' <=> Ahead(o, j)
  PROVE  \A o \in Copies : \A x : InSlot(x, o)' <=> InSlot(x, o)
<1>1. \A o \in Copies : \A j \in DOMAIN handlers[o] : j \in Nat \ {0}
  BY Arrays, Kinds
<1> QED
  BY <1>1 DEF InSlot

\* Who is in a slot ahead exists and has not been reached; so does the holder.
LEMMA SlotUsed ==
  IInv => \A o \in Copies : \A x : InSlot(x, o) =>
            /\ o \in used /\ x \in Copies \cup Outsiders
            /\ x \in Copies => x \in used /\ ~Active(x)
<1> SUFFICES ASSUME IInv, NEW o \in Copies, NEW x, InSlot(x, o)
             PROVE  /\ o \in used /\ x \in Copies \cup Outsiders
                    /\ x \in Copies => x \in used /\ ~Active(x)
  OBVIOUS
<1>1. PICK j \in DOMAIN handlers[o] : handlers[o][j] = x /\ Ahead(o, j)
  BY DEF InSlot
<1>2. /\ TypeOK /\ IdleInSlots /\ Freed
  BY DEF IInv, Owned
<1>3. x \in Copies \cup Outsiders
  BY <1>1, <1>2, Arrays, Kinds DEF Slots
<1>4. o \in used
  BY <1>1, <1>2 DEF Freed
<1>5. x \in Copies => x \in used /\ ~Active(x)
  BY <1>1, <1>2 DEF IdleInSlots, Idle, Active
<1> QED
  BY <1>3, <1>4, <1>5

\* So does one after a step that keeps the invariant.
LEMMA SlotUsedNext ==
  ASSUME IInv'
  PROVE  \A o \in Copies : \A x : InSlot(x, o)' =>
            /\ o \in used' /\ x \in Copies \cup Outsiders
            /\ x \in Copies => x \in used' /\ ~Active(x)'
<1>1. (IInv => \A o \in Copies : \A x : InSlot(x, o) =>
            /\ o \in used /\ x \in Copies \cup Outsiders
            /\ x \in Copies => x \in used /\ ~Active(x))'
  BY SlotUsed, PTL
<1> QED
  BY <1>1

\* No copy is made, and each stays in its activation or its slot.
LEMMA FamilyStays ==
  ASSUME IInv', Family, made \in Nat, made' \in Nat, made <= made', call \in [Objects -> Nat],
         \A c \in Copies : c \in used' =>
           c \in used /\ origin'[c] = origin[c] /\ call'[c] = call[c],
         \A o, x \in Copies : InSlot(x, o)' => InSlot(x, o),
         \A x \in Copies : x \in used' =>
           /\ Framed(x) => Framed(x)'
           /\ \A o \in Copies : InSlot(x, o) => Framed(x)' \/ \E p \in Copies : InSlot(x, p)'
  PROVE  Family'
<1>1. Calls'
  <2>1. ASSUME NEW c \in Copies, c \in used'
        PROVE  origin'[c] \in Prototypes /\ call'[c] \in 1 .. made'
    <3>1. origin'[c] \in Prototypes /\ call'[c] \in 1 .. made
      BY <2>1 DEF Family, Calls
    <3> QED
      BY <3>1
  <2> QED
    BY <2>1 DEF Calls
<1>2. SameCall'
  <2>1. ASSUME NEW o \in Copies, NEW x \in Copies, InSlot(x, o)'
        PROVE  call'[x] = call'[o]
    <3>1. o \in used' /\ x \in used'
      BY <2>1, SlotUsedNext
    <3> QED
      BY <2>1, <3>1 DEF Family, SameCall
  <2> QED
    BY <2>1 DEF SameCall
<1>3. HasHolder'
  BY DEF Family, HasHolder
<1>4. NoRing'
  BY DEF Family, NoRing
<1> QED
  BY <1>1, <1>2, <1>3, <1>4 DEF Family

\* No copy is made, and none that was reached waits again.
LEMMA OwingStays ==
  ASSUME ReachedOnce, SameMaking,
         \A c \in Copies : Unreached(c)' =>
           Unreached(c) /\ call'[c] = call[c] /\ origin'[c] = origin[c]
  PROVE  ReachedOnce'
BY DEF ReachedOnce, SameMaking, SameLoop

\* A step that reaches nobody, copies nothing and moves nothing.
LEMMA SoundStays ==
  ASSUME IInv, IInv', Sound, Types', Forest', AllWhole', SameMaking, ~crashed', due' = due,
         stray' = stray, made' = made,
         \A c \in Copies : c \in used' =>
           c \in used /\ origin'[c] = origin[c] /\ call'[c] = call[c],
         \A c \in Copies : c \in used' =>
           (Active(c)' <=> Active(c)) /\ (Framed(c) => Framed(c)'),
         \A c \in Copies : c \in used \ used' => Active(c),
         \A o \in Copies : \A x : InSlot(x, o)' <=> InSlot(x, o)
  PROVE  Sound'
<1>1. Loops' /\ Apart' /\ \A k, x : ByLoop(k, x)' <=> ByLoop(k, x)
  BY MakingStays DEF Sound, Making
<1>2. Family'
  <2>1. made \in Nat /\ made' \in Nat /\ made <= made' /\ call \in [Objects -> Nat] /\ Family
    BY DEF Sound, Types
  <2>2. \A o, x \in Copies : InSlot(x, o)' => InSlot(x, o)
    OBVIOUS
  <2>3. \A x \in Copies : x \in used' =>
           /\ Framed(x) => Framed(x)'
           /\ \A o \in Copies : InSlot(x, o) => Framed(x)' \/ \E p \in Copies : InSlot(x, p)'
    OBVIOUS
  <2> QED
    BY <2>1, <2>2, <2>3, FamilyStays
<1>3. \A c \in Copies : Unreached(c)' <=> Unreached(c)
  <2> SUFFICES ASSUME NEW c \in Copies
               PROVE  Unreached(c)' <=> Unreached(c)
    OBVIOUS
  <2>1. c \in used' => (Active(c)' <=> Active(c)) /\ c \in used
    OBVIOUS
  <2>2. c \in used /\ c \notin used' => Active(c)
    OBVIOUS
  <2> QED
    BY <2>1, <2>2 DEF Unreached
<1>4. \A c \in Copies : Unreached(c)' => call'[c] = call[c] /\ origin'[c] = origin[c]
  BY DEF Unreached
<1>5. ReachedOnce'
  BY <1>3, <1>4, OwingStays DEF Sound, Owing
<1>6. \A k, x : ByCopy(k, x)' <=> ByCopy(k, x)
  BY <1>3, <1>4 DEF ByCopy
<1>7. \A o \in Copies : \A x : InSlot(x, o)' => call'[o] = call[o]
  <2>1. \A o \in Copies : \A x : InSlot(x, o)' => o \in used'
    BY SlotUsedNext
  <2> QED
    BY <2>1
<1>8. \A k, x : BySlot(k, x)' <=> BySlot(k, x)
  BY <1>7 DEF BySlot
<1>9. Exact'
  BY <1>1, <1>6, <1>8 DEF Sound, Owing, Exact, Claim
<1> QED
  BY <1>1, <1>2, <1>5, <1>9 DEF Sound, Making, Owing

LEMMA QuietMaking ==
  ASSUME IInv, IInv', Sound, \A p \in Prototypes : handlers'[p] = handlers[p],
         used \cap Uncopied \subseteq used',
         \A n \in Nat : \A f : Makes(n, f)' <=> Makes(n, f),
         \A n \in Nat : \A f \in Activations : Makes(n, f) =>
           /\ handlers'[f.c] = handlers[f.c] /\ origin'[f.c] = origin[f.c]
           /\ call'[f.c] = call[f.c]
  PROVE  SameMaking /\ Forest' /\ AllWhole'
<1>1. TypeOK /\ TypeOK' /\ Forest /\ Loops /\ Apart /\ AllWhole
  BY DEF IInv, Sound, Making
<1>2. /\ Forest' /\ \A o \in Prototypes : Whole(o)' <=> Whole(o)
      /\ \A f \in Activations : Copying(f) => ToCopy(f)' = ToCopy(f)
  BY <1>1, TreeStays
<1>3. \A n \in Nat : \A f \in Activations : Makes(n, f) => SameLoop(f)
  BY <1>2, MakesFacts DEF SameLoop, Makes
<1>4. SameMaking
  BY <1>3 DEF SameMaking
<1>5. \A o : Looped(o)' <=> Looped(o)
  BY <1>1, <1>4, MakingStays
<1> QED
  BY <1>1, <1>2, <1>4, <1>5 DEF AllWhole

\* The arrays, the copies and the loops stay; the top of the stack does not.
LEMMA QuietSound ==
  ASSUME IInv, IInv', Sound,
         UNCHANGED <<handlers, used, origin, call, made, crashed, due, stray>>,
         \A n \in Nat : \A f : Makes(n, f)' <=> Makes(n, f),
         \A o : \A j \in Nat \ {0} : Ahead(o, j)' <=> Ahead(o, j),
         \A c \in Copies : c \in used =>
           (Active(c)' <=> Active(c)) /\ (Framed(c) => Framed(c)')
  PROVE  Sound'
<1>1. SameMaking /\ Forest' /\ AllWhole'
  BY QuietMaking
<1>2. TypeOK
  BY DEF IInv
<1>3. \A o \in Copies : \A x : InSlot(x, o)' <=> InSlot(x, o)
  BY <1>2, SlotsSame
<1>4. Types' /\ ~crashed'
  BY DEF Sound, Types
<1> QED
  BY <1>1, <1>3, <1>4, SoundStays

LEMMA ReturnSound == ASSUME IInv, IInv', Sound, Return PROVE Sound'
<1> DEFINE g == NewFrame("notify", NoObject, Top.c)
<1>1. /\ TypeOK /\ stack # <<>> /\ Top.at = "run" /\ stack' = Append(Below, g)
      /\ UNCHANGED <<handlers, used, origin, call, made, asleep, crashed, due, stray>>
  BY DEF IInv, Return, TopAt, objects, history
<1>2. /\ Top.at # "notify" /\ ~Copying(Top) /\ Top.c \in Copies \cup Outsiders
      /\ Top = stack[Len(stack)] /\ Len(stack) \in DOMAIN stack
  BY <1>1, Unlabelled, StackFacts
<1>3. g \in Activations /\ g.i = 1 /\ g.c = Top.c /\ g.at = "notify" /\ ~Copying(g)
  BY <1>2, Activated DEF NewFrame, Copying
<1> HIDE DEF g
<1>4. Swaps(g)
  BY <1>1, <1>3, StackShapes
<1>5. \A o : \A j \in Nat \ {0} : Ahead(o, j)' <=> Ahead(o, j)
  BY <1>1, <1>2, <1>3, <1>4, AheadBegins
<1>6. \A n \in Nat : \A f : Makes(n, f)' <=> Makes(n, f)
  BY <1>1, <1>2, <1>3, <1>4, MakesQuiet
<1>7. \A c : (Active(c)' <=> Active(c)) /\ (Framed(c) => Framed(c)')
  BY <1>1, <1>2, <1>3, <1>4 DEF Swaps, Active, Framed
<1> QED
  BY <1>1, <1>5, <1>6, <1>7, QuietSound

LEMMA ReleasedSound == ASSUME IInv, IInv', Sound, Released PROVE Sound'
<1>1. /\ TypeOK /\ stack # <<>> /\ Top.at = "release" /\ stack' = Below
      /\ UNCHANGED <<handlers, used, origin, call, made, asleep, crashed, due, stray>>
  BY DEF IInv, Released, TopAt, objects, history
<1>2. /\ Top.at # "notify" /\ ~Copying(Top) /\ Top \in Activations /\ Top.c \notin Copies
      /\ Top = stack[Len(stack)] /\ Len(stack) \in DOMAIN stack
  BY <1>1, Unlabelled, StackFacts
<1>3. Pops
  BY <1>1, <1>2, StackShapes
<1>4. \A o, j : Ahead(o, j)' <=> Ahead(o, j)
  BY <1>1, <1>2, <1>3, AheadBelow
<1>5. \A n \in Nat : \A f : Makes(n, f)' <=> Makes(n, f)
  BY <1>1, <1>2, <1>3, MakesQuiet
<1>6. \A c \in Copies : (Active(c)' <=> Active(c)) /\ (Framed(c) => Framed(c)')
  BY <1>1, <1>2, <1>3 DEF Pops, Active, Framed
<1> QED
  BY <1>1, <1>4, <1>5, <1>6, QuietSound

LEMMA SuspendSound == ASSUME IInv, IInv', Sound, Suspend PROVE Sound'
<1>1. /\ TypeOK /\ stack # <<>> /\ Top.at = "run" /\ stack' = Below
      /\ asleep' = asleep \cup {Top.c}
      /\ UNCHANGED <<handlers, used, origin, call, made, crashed, due, stray>>
  BY DEF IInv, Suspend, TopAt, objects, history
<1>2. /\ Top.at # "notify" /\ ~Copying(Top) /\ Top \in Activations
      /\ Top = stack[Len(stack)] /\ Len(stack) \in DOMAIN stack
  BY <1>1, Unlabelled, StackFacts
<1>3. Pops
  BY <1>1, <1>2, StackShapes
<1>4. \A o, j : Ahead(o, j)' <=> Ahead(o, j)
  BY <1>1, <1>2, <1>3, AheadBelow
<1>5. \A n \in Nat : \A f : Makes(n, f)' <=> Makes(n, f)
  BY <1>1, <1>2, <1>3, MakesQuiet
<1>6. \A c : (Active(c)' <=> Active(c)) /\ (Framed(c) => Framed(c)')
  BY <1>1, <1>2, <1>3 DEF Pops, Active, Framed
<1> QED
  BY <1>1, <1>4, <1>5, <1>6, QuietSound

LEMMA ResumeSound == ASSUME IInv, IInv', Sound, NEW z \in Copies, Resume(z) PROVE Sound'
<1> DEFINE f == NewFrame("run", NoObject, z)
<1>1. /\ TypeOK /\ stack = <<>> /\ z \in asleep /\ stack' = <<f>>
      /\ asleep' = asleep \ {z}
      /\ UNCHANGED <<handlers, used, origin, call, made, crashed, due, stray>>
  BY DEF IInv, Resume, objects, history
<1>2. f \in Activations /\ f.at = "run" /\ f.c = z /\ ~Copying(f)
  BY Activated DEF NewFrame, Copying
<1> HIDE DEF f
<1>3. Len(stack) + 1 = 1 /\ DOMAIN stack = {} /\ stack' = Append(stack, f)
  BY <1>1, <1>2
<1>4. Pushes(f)
  BY <1>1, <1>2, <1>3, StackShapes
<1>5. \A o, j : Ahead(o, j)' <=> Ahead(o, j)
  BY <1>1, <1>2, <1>4, AheadQuiet
<1>6. \A n \in Nat : \A g : Makes(n, g)' <=> Makes(n, g)
  BY <1>1, <1>2, <1>4, MakesQuiet
<1>7. \A c : (Active(c)' <=> Active(c)) /\ (Framed(c) => Framed(c)')
  BY <1>1, <1>2, <1>3, <1>4 DEF Pushes, Active, Framed
<1> QED
  BY <1>1, <1>5, <1>6, <1>7, QuietSound

LEMMA NotifiedSound == ASSUME IInv, IInv', Sound, Notified PROVE Sound'
<1>1. PICK z : z = Top.c
  OBVIOUS
<1>2. /\ TypeOK /\ stack # <<>> /\ Top.at = "notify" /\ Top.i > Len(handlers[z])
      /\ stack' = Below /\ handlers' = [handlers EXCEPT ![z] = <<>>]
      /\ used' = used \ ({z} \cap Copies)
      /\ call' = (IF z \in Copies THEN [call EXCEPT ![z] = 0] ELSE call)
      /\ origin' = [c \in Copies |-> IF c = z THEN NoObject ELSE origin[c]]
      /\ UNCHANGED <<made, asleep, crashed, due, stray>>
  BY <1>1 DEF IInv, Notified, TopAt, history
<1>3. /\ ~Copying(Top) /\ z \in Copies \cup Outsiders /\ Top.i \in Nat /\ z \in Objects
      /\ Top \in Activations /\ Top = stack[Len(stack)] /\ Len(stack) \in DOMAIN stack
  BY <1>1, <1>2, Unlabelled, StackFacts, Kinds
<1>4. Pops
  BY <1>2, <1>3, StackShapes
<1>5. \A o, j : (Ahead(o, j) => Ahead(o, j)') /\ (o # z => (Ahead(o, j)' => Ahead(o, j)))
  BY <1>1, <1>2, <1>4, AheadBelow
<1>6. /\ handlers'[z] = <<>> /\ DOMAIN handlers'[z] = {}
      /\ \A o \in Objects \ {z} : handlers'[o] = handlers[o]
  BY <1>2, <1>3 DEF TypeOK
<1>7. /\ Types' /\ \A c \in Copies \ {z} : origin'[c] = origin[c] /\ call'[c] = call[c]
  BY <1>2, <1>3, Kinds DEF Sound, Types
<1>8. \A n \in Nat : \A f : Makes(n, f)' <=> Makes(n, f)
  BY <1>2, <1>3, <1>4, MakesQuiet
<1>9. z \in Copies => Active(z)
  BY <1>1, <1>2, <1>3 DEF Active
<1>10. \A n \in Nat : \A f \in Activations : Makes(n, f) =>
         /\ handlers'[f.c] = handlers[f.c] /\ origin'[f.c] = origin[f.c]
         /\ call'[f.c] = call[f.c]
  BY <1>6, <1>7, <1>9, MakesFacts
<1>11. /\ \A p \in Prototypes : handlers'[p] = handlers[p]
       /\ used \cap Uncopied \subseteq used'
  BY <1>2, <1>3, <1>6, Kinds DEF Uncopied
<1>12. SameMaking /\ Forest' /\ AllWhole'
  BY <1>8, <1>10, <1>11, QuietMaking
<1>13. ASSUME NEW o \in Copies, NEW x
       PROVE  InSlot(x, o)' <=> InSlot(x, o)
  <2>1. CASE o = z
    <3>1. ~InSlot(x, o)'
      BY <1>6, <2>1 DEF InSlot
    <3>2. ASSUME NEW j \in DOMAIN handlers[z], Ahead(z, j)
          PROVE  FALSE
      <4>1. Top.i <= j
        BY <1>1, <1>2, <1>3, <3>2 DEF Ahead
      <4>2. j \in 1 .. Len(handlers[z]) /\ Len(handlers[z]) \in Nat
        BY <1>2, <1>3, <3>2, Arrays
      <4> QED
        BY <1>2, <1>3, <4>1, <4>2
    <3>3. ~InSlot(x, o)
      BY <2>1, <3>2 DEF InSlot
    <3> QED
      BY <3>1, <3>3
  <2>2. CASE o # z
    BY <1>5, <1>6, <2>2, Kinds DEF InSlot
  <2> QED
    BY <2>1, <2>2
<1>14. \A c \in Copies : c \in used' => c \in used /\ c # z
  BY <1>2
<1>15. ASSUME NEW c \in Copies, c \in used'
       PROVE  (Active(c)' <=> Active(c)) /\ (Framed(c) => Framed(c)')
  BY <1>1, <1>2, <1>3, <1>4, <1>14, <1>15 DEF Pops, Active, Framed
<1>16. \A c \in Copies : c \in used \ used' => Active(c)
  BY <1>2, <1>9
<1> QED
  BY <1>2, <1>7, <1>12, <1>13, <1>14, <1>15, <1>16, SoundStays DEF Sound

-----------------------------------------------------------------------------
(* What the program puts and forgets.                                      *)

LEMMA NotCopied ==
  ASSUME TypeOK, NEW o, o \notin BeingCopied
  PROVE  \A n \in Nat : \A f \in Activations : Makes(n, f) => o \notin Copied(f)
BY DEF BeingCopied, Makes, Copied

\* The array of one prototype changes, which no copy is still to read.
LEMMA ArraySound ==
  ASSUME IInv, IInv', Sound, NEW o \in Prototypes, o \notin BeingCopied, Forest',
         \A p \in Objects \ {o} : handlers'[p] = handlers[p], Whole(o) => Whole(o)',
         \A p \in Prototypes \ {o} : Handled(p)' = Handled(p),
         UNCHANGED <<origin, call, made, crashed, due, stray>>,
         \A c \in Copies : c \in used' <=> c \in used,
         \A n \in Nat : \A f : Makes(n, f)' <=> Makes(n, f),
         \A p : \A j \in Nat \ {0} : Ahead(p, j)' <=> Ahead(p, j),
         \A c \in Copies : (Active(c)' <=> Active(c)) /\ (Framed(c) => Framed(c)')
  PROVE  Sound'
<1>1. TypeOK /\ TypeOK' /\ Forest /\ Loops /\ Apart /\ AllWhole
  BY DEF IInv, Sound, Making
<1>2. \A n \in Nat : \A f \in Activations : Makes(n, f) => o \notin Copied(f)
  BY <1>1, NotCopied
<1>3. ASSUME NEW n \in Nat, NEW f \in Activations, Makes(n, f)
      PROVE  SameLoop(f)
  <2>1. o # f.o /\ o \notin ToCopy(f)
    BY <1>2, <1>3 DEF Copied
  <2>2. f.o \in Objects /\ f.c \in Objects /\ f.c # o
    BY <1>3, MakesFacts, Kinds
  <2>3. Copying(f) /\ \A p \in ToCopy(f) \cap Prototypes : Handled(p)' = Handled(p)
    BY <1>3, <2>1 DEF Makes
  <2>4. handlers'[f.o] = handlers[f.o] /\ handlers'[f.c] = handlers[f.c]
    BY <2>1, <2>2
  <2>5. ToCopy(f)' = ToCopy(f)
    BY <1>1, <2>3, <2>4, ToCopyStays
  <2> QED
    BY <2>4, <2>5 DEF SameLoop
<1>4. SameMaking
  BY <1>3 DEF SameMaking
<1>5. \A p : Looped(p)' <=> Looped(p)
  BY <1>1, <1>4, MakingStays
<1>6. AllWhole'
  <2>1. ~Looped(o)
    BY <1>2 DEF Looped, Copied
  <2>2. Whole(o)'
    BY <1>1, <2>1 DEF AllWhole
  <2>3. \A p \in Prototypes \ {o} : Whole(p) => Whole(p)'
    BY Kinds DEF Whole
  <2> QED
    BY <1>1, <1>5, <2>2, <2>3 DEF AllWhole
<1>7. \A c \in Copies : handlers'[c] = handlers[c]
  BY Kinds
<1>8. \A q \in Copies : \A x : InSlot(x, q)' <=> InSlot(x, q)
  BY <1>1, <1>7, SlotsSame
<1>9. Types' /\ ~crashed'
  BY DEF Sound, Types
<1> QED
  BY <1>4, <1>6, <1>8, <1>9, SoundStays

\* The program puts something new below an object that is not being copied.
LEMMA PutSound ==
  ASSUME IInv, IInv', Sound, ~spoiled', NEW o \in Prototypes \cup Outsiders,
         NEW h \in Uncopied \ used, o \in Prototypes => o \notin Under(h),
         o \in Thens => o \in used, Spoils({o}),
         handlers' = [handlers EXCEPT ![o] = Append(@, h)], used' = used \cup {h},
         UNCHANGED <<origin, call, made, asleep, stack, crashed, due, stray>>
  PROVE  Sound'
<1>1. TypeOK /\ TypeOK' /\ Forest /\ o \in Objects /\ h \in Objects /\ h \notin Copies
  BY Kinds DEF IInv, Sound, Uncopied
<1>2. \A p \in Objects \ {o} : handlers'[p] = handlers[p]
  BY <1>1 DEF TypeOK
<1>3. /\ \A n \in Nat : \A f : Makes(n, f)' <=> Makes(n, f)
      /\ \A p : \A j \in Nat \ {0} : Ahead(p, j)' <=> Ahead(p, j)
      /\ \A c \in Copies : (Active(c)' <=> Active(c)) /\ (Framed(c) => Framed(c)')
  BY DEF Makes, Ahead, Active, Framed
<1>4. \A c \in Copies : c \in used' <=> c \in used
  BY <1>1
<1>5. CASE o \in Prototypes
  <2>1. o \notin BeingCopied
    BY DEF Spoils
  <2>2. Forest' /\ \A p \in Prototypes \ {o} : Handled(p)' = Handled(p)
    BY <1>1, <1>5, ForestGrows
  <2>3. Whole(o) => Whole(o)'
    <3>1. handlers'[o] = Append(handlers[o], h)
      BY <1>1 DEF TypeOK
    <3>2. \A j \in DOMAIN handlers'[o] : handlers'[o][j] = h \/
            (j \in DOMAIN handlers[o] /\ handlers'[o][j] = handlers[o][j])
      BY <1>1, <3>1, Appended
    <3> QED
      BY <1>1, <3>2 DEF Whole
  <2> QED
    BY <1>2, <1>3, <1>4, <1>5, <2>1, <2>2, <2>3, ArraySound
<1>6. CASE o \in Outsiders
  <2>1. /\ \A p \in Prototypes \cup Copies : handlers'[p] = handlers[p]
    BY <1>2, <1>6, Kinds
  <2>2. SameMaking /\ Forest' /\ AllWhole'
    BY <1>3, <2>1, MakesFacts, QuietMaking
  <2>3. \A q \in Copies : \A x : InSlot(x, q)' <=> InSlot(x, q)
    BY <1>1, <1>3, <2>1, SlotsSame
  <2>4. Types' /\ ~crashed'
    BY DEF Sound, Types
  <2> QED
    BY <1>3, <1>4, <2>2, <2>3, <2>4, SoundStays
<1> QED
  BY <1>5, <1>6

LEMMA ThenSound ==
  ASSUME IInv, IInv', Sound, ~spoiled', NEW o \in Prototypes \cup Outsiders, NEW h \in Thens,
         Then(o, h)
  PROVE  Sound'
<1>1. /\ h \in Uncopied \ used /\ h \in Prototypes /\ Spoils({o}) /\ used' = used \cup {h}
      /\ o \in Prototypes /\ (o \in Thens => o \in used) /\ o # h
      /\ handlers' = [handlers EXCEPT ![o] = Append(@, h)]
      /\ UNCHANGED <<origin, call, made, asleep, stack, crashed, due, stray>>
  BY Kinds, DisjointAssumption DEF Then, Moves, Uncopied
<1>2. o \notin Under(h)
  <2>1. TypeOK /\ handlers[h] = <<>>
    BY <1>1 DEF IInv, Sound, Forest, Fresh
  <2>2. Handled(h) = {}
    BY <2>1 DEF Handled, Range
  <2>3. Under(h) = {h}
    BY <1>1, <2>1, <2>2, UnderSplit
  <2> QED
    BY <1>1, <2>3
<1> QED
  BY <1>1, <1>2, PutSound

LEMMA ChainSound ==
  ASSUME IInv, IInv', Sound, ~spoiled', NEW o \in Prototypes \cup Outsiders, NEW s \in Roots,
         Chain(o, s)
  PROVE  Sound'
<1>1. /\ s \in Uncopied \ used /\ Spoils({o}) /\ used' = used \cup {s}
      /\ o \notin Under(s) /\ (o \in Thens => o \in used)
      /\ handlers' = [handlers EXCEPT ![o] = Append(@, s)]
      /\ UNCHANGED <<origin, call, made, asleep, stack, crashed, due, stray>>
  BY Kinds, DisjointAssumption DEF Chain, Moves, Uncopied
<1> QED
  BY <1>1, PutSound

LEMMA JoinSound ==
  ASSUME IInv, IInv', Sound, ~spoiled', NEW o \in Prototypes \cup Outsiders, NEW w \in Outsiders,
         Join(o, w)
  PROVE  Sound'
<1>1. /\ w \in Uncopied \ used /\ Spoils({o}) /\ used' = used \cup {w}
      /\ o \in Prototypes /\ (o \in Thens => o \in used)
      /\ handlers' = [handlers EXCEPT ![o] = Append(@, w)]
      /\ UNCHANGED <<origin, call, made, asleep, stack, crashed, due, stray>>
  BY Kinds, DisjointAssumption DEF Join, Moves, Uncopied
<1>2. o \notin Under(w)
  BY <1>1, UnderPlain, Kinds DEF IInv
<1> QED
  BY <1>1, <1>2, PutSound

\* An array is cleaned of all that was emptied in it.
LEMMA CleanedForest ==
  ASSUME TypeOK, TypeOK', Forest, NEW o \in Prototypes, NEW gone, NoObject \in gone,
         \A j \in DOMAIN handlers[o] : handlers[o][j] # Junk,
         handlers' = [handlers EXCEPT ![o] =
                        Cleaned(handlers[o], gone, Cardinality(Emptied(handlers[o], gone)))],
         used' = used
  PROVE  /\ Forest' /\ Whole(o)' /\ \A p \in Objects \ {o} : handlers'[p] = handlers[p]
         /\ Handled(o)' = Handled(o) \ gone
         /\ \A p \in Prototypes \ {o} : Handled(p)' = Handled(p)
<1> DEFINE s == handlers[o]
           r == Cardinality(Emptied(s, gone))
           new == Cleaned(s, gone, r)
<1>1. o \in Objects /\ s \in Seq(Objects \cup {NoObject, Junk})
  BY Arrays, Kinds
<1>2. handlers'[o] = new /\ \A p \in Objects \ {o} : handlers'[p] = handlers[p]
  BY <1>1 DEF TypeOK
<1>3. r \in Nat
  BY <1>1, EmptiedCount
<1>4. r <= Cardinality(Emptied(s, gone))
  BY <1>3
<1>5. /\ \A m, n \in DOMAIN new : m # n /\ new[m] # Junk /\ new[m] = new[n] =>
           \E i, j \in DOMAIN s : i # j /\ s[i] = new[m] /\ s[j] = new[m]
      /\ \A j \in DOMAIN s : s[j] \notin gone => \E n \in DOMAIN new : new[n] = s[j]
  <2>1. r \in Nat /\ r <= Cardinality(Emptied(s, gone)) /\ Cardinality(Emptied(s, gone)) \in Nat
    BY <1>3, <1>4
  <2> HIDE DEF r, s
  <2> QED
    BY <1>1, <2>1, CleanedArray
<1>6. /\ \A n \in DOMAIN new : new[n] \in Objects /\ new[n] \notin gone
      /\ \A n \in DOMAIN new : \E j \in DOMAIN s : s[j] = new[n]
  BY <1>1, CleanedWhole
<1> HIDE DEF new, r
<1>7. \A p \in Prototypes : Thinned(p)
  <2>1. Thinned(o)
    BY <1>2, <1>5, <1>6, Kinds DEF Thinned
  <2>2. ASSUME NEW p \in Prototypes, p # o
        PROVE  Thinned(p)
    BY <1>2, <2>2, Kinds DEF Thinned
  <2> QED
    BY <2>1, <2>2
<1>8. Forest'
  <2>1. \A h \in Thens \ used' : handlers'[h] = handlers[h] \/ h \in used \/ h = o
    BY <1>2, Kinds
  <2>2. o \in Thens \ used' => handlers'[o] = handlers[o]
    <3> SUFFICES ASSUME o \in Thens \ used
                 PROVE  handlers'[o] = handlers[o]
      OBVIOUS
    <3>1. handlers[o] = <<>>
      BY DEF Forest, Fresh, Uncopied, Prototypes
    <3>2. DOMAIN handlers'[o] = {} /\ handlers'[o] \in Seq(Objects \cup {NoObject, Junk})
      BY <1>1, <1>2, <1>6, <3>1 DEF TypeOK
    <3>3. \A S : \A t \in Seq(S) : DOMAIN t = {} => t = <<>>
      <4> SUFFICES ASSUME NEW S, NEW t \in Seq(S), DOMAIN t = {}
                   PROVE  t = <<>>
        OBVIOUS
      <4>1. Len(t) \in Nat /\ DOMAIN t = 1 .. Len(t)
        OBVIOUS
      <4>2. \A n \in Nat : 1 .. n = {} => n = 0
        <5> SUFFICES ASSUME NEW n \in Nat, n # 0
                     PROVE  1 \in 1 .. n
          OBVIOUS
        <5> QED
          OBVIOUS
      <4>3. Len(t) = 0
        BY <4>1, <4>2
      <4> QED
        BY <4>3
    <3> QED
      BY <3>1, <3>2, <3>3
  <2>3. \A h \in Thens \ used' : handlers'[h] = handlers[h] \/ h \in used
    BY <2>1, <2>2
  <2> QED
    BY <1>7, <2>3, ForestThins
<1>9. Whole(o)'
  BY <1>2, <1>6 DEF Whole
<1>10. ASSUME NEW p \in Prototypes \ {o}
       PROVE  Handled(p)' = Handled(p)
  BY <1>2, <1>10, Kinds DEF Handled
<1>11. Handled(o)' = Handled(o) \ gone
  <2>1. \A x : x \in Handled(o)' <=>
          x \notin {NoObject, Junk} /\ \E j \in DOMAIN handlers'[o] : handlers'[o][j] = x
    BY DEF Handled, Range
  <2>2. \A x : x \in Handled(o) <=>
          x \notin {NoObject, Junk} /\ \E j \in DOMAIN handlers[o] : handlers[o][j] = x
    BY DEF Handled, Range
  <2>3. \A x : x \in Handled(o)' <=> x \in Handled(o) \ gone
    BY <1>2, <1>5, <1>6, <2>1, <2>2
  <2> QED
    BY <2>3
<1> QED
  BY <1>2, <1>8, <1>9, <1>10, <1>11

LEMMA ForgetSound ==
  ASSUME IInv, IInv', Sound, ~spoiled', NEW o \in Prototypes \cup Outsiders, NEW x \in Objects,
         Forget(o, x)
  PROVE  Sound'
<1>1. PICK gone, clean :
        gone = {x, NoObject} /\ clean = Autoclean(o, Removed(handlers[o], x, NoObject))
  OBVIOUS
<1>2. /\ TypeOK /\ TypeOK' /\ Forest /\ o \in Prototypes /\ o \in Objects
      /\ handlers' = [handlers EXCEPT ![o] = Removed(handlers[o], x, NoObject)]
      /\ stack' = stack \o clean /\ Spoils({o})
      /\ UNCHANGED <<used, asleep, origin, call, made, crashed, due, stray>>
  BY <1>1, Kinds DEF IInv, Sound, Forget, Moves
<1>3. o \notin BeingCopied
  BY DEF Spoils, Forget, Moves
<1>4. Whole(o)
  BY <1>2, <1>3, NotCopied DEF Sound, Making, AllWhole, Looped, Copied
<1>5. \A j \in DOMAIN handlers[o] : handlers[o][j] # Junk /\ handlers[o][j] # NoObject
  BY <1>4, Kinds DEF Whole
<1>6. Removed(handlers[o], x, NoObject) =
        Cleaned(handlers[o], gone, Cardinality(Emptied(handlers[o], gone)))
  <2>1. {k \in DOMAIN handlers[o] : handlers[o][k] = x} = Emptied(handlers[o], gone)
    BY <1>1, <1>5 DEF Emptied
  <2> QED
    BY <1>1, <2>1 DEF Removed
<1>7. /\ Forest' /\ Whole(o)' /\ \A p \in Objects \ {o} : handlers'[p] = handlers[p]
      /\ \A p \in Prototypes \ {o} : Handled(p)' = Handled(p)
  <2>1. NoObject \in gone
    BY <1>1
  <2> QED
    BY <1>2, <1>5, <1>6, <2>1, CleanedForest
<1>8. /\ \A n \in Nat : \A f : Makes(n, f)' <=> Makes(n, f)
      /\ \A p : \A j \in Nat \ {0} : Ahead(p, j)' <=> Ahead(p, j)
      /\ \A c \in Copies : (Active(c)' <=> Active(c)) /\ (Framed(c) => Framed(c)')
  <2>1. CASE clean = <<>>
    <3>1. stack' = stack
      BY <1>2, <2>1, Joined DEF TypeOK
    <3> QED
      BY <1>2, <3>1 DEF Makes, Ahead, Active, Framed
  <2>2. CASE o \in Releasable /\ clean = <<NewFrame("release", o, NoObject)>>
    <3> DEFINE f == NewFrame("release", o, NoObject)
    <3>1. f \in Activations /\ f.at = "release" /\ f.c = NoObject /\ ~Copying(f)
      BY <2>2, Activated DEF NewFrame, Copying
    <3>2. clean = <<f>>
      BY <2>2
    <3> HIDE DEF f
    <3>3. stack' = Append(stack, f)
      BY <1>2, <3>1, <3>2, Joined DEF TypeOK
    <3>4. Pushes(f)
      BY <1>2, <3>1, <3>3, StackShapes
    <3>5. \A p, j : Ahead(p, j)' <=> Ahead(p, j)
      BY <1>2, <3>1, <3>4, AheadQuiet
    <3>6. \A n \in Nat : \A g : Makes(n, g)' <=> Makes(n, g)
      BY <1>2, <3>1, <3>4, MakesQuiet
    <3>7. \A c \in Copies : (Active(c)' <=> Active(c)) /\ (Framed(c) => Framed(c)')
      BY <1>2, <3>1, <3>4, StackFacts DEF Pushes, Active, Framed
    <3> QED
      BY <3>5, <3>6, <3>7
  <2> QED
    BY <1>1, <2>1, <2>2 DEF Autoclean
<1>9. Whole(o) => Whole(o)'
  BY <1>7
<1> QED
  BY <1>2, <1>3, <1>7, <1>8, <1>9, ArraySound

-----------------------------------------------------------------------------
(* The loop at the top of the stack works apart from the others.           *)

LEMMA TopLoop ==
  ASSUME IInv, Sound, stack # <<>>, Copying(Top)
  PROVE  /\ Len(stack) \in Nat /\ Top \in Activations /\ Makes(Len(stack), Top) /\ LoopOK(Top)
         /\ Top.o \in Prototypes /\ Top.c \in Copies /\ Top.c \in used /\ ~Active(Top.c)
         /\ \A n \in Nat : \A f \in Activations : Makes(n, f) /\ n # Len(stack) =>
              f.c # Top.c /\ Copied(f) \cap Copied(Top) = {}
<1>1. TypeOK /\ Loops /\ Apart
  BY DEF IInv, Sound, Making
<1>2. Len(stack) \in Nat /\ Top \in Activations /\ Makes(Len(stack), Top)
  BY <1>1, StackFacts DEF Makes
<1> QED
  BY <1>1, <1>2, MakesFacts DEF Loops, Apart

\* Only the loop at the top writes, and only what it copies: the others stay.
LEMMA OtherLoops ==
  ASSUME IInv, IInv', Sound, stack # <<>>, Copying(Top),
         \A p \in Prototypes \ {Top.o} : handlers'[p] = handlers[p],
         \A c \in Copies \ {Top.c} : c \in used => handlers'[c] = handlers[c],
         \A c \in Copies : c \in used => origin'[c] = origin[c] /\ call'[c] = call[c]
  PROVE  \A n \in Nat : \A f \in Activations : Makes(n, f) /\ n # Len(stack) => SameLoop(f)
<1> SUFFICES ASSUME NEW n \in Nat, NEW f \in Activations, Makes(n, f), n # Len(stack)
             PROVE  SameLoop(f)
  OBVIOUS
<1>1. TypeOK /\ TypeOK' /\ Copying(f)
  BY DEF IInv, Makes
<1>2. /\ f.c # Top.c /\ f.c \in Copies /\ f.c \in used /\ f.o \in Prototypes
      /\ f.o # Top.o /\ Top.o \notin ToCopy(f)
  BY TopLoop, MakesFacts DEF Copied
<1>3. handlers'[f.o] = handlers[f.o] /\ handlers'[f.c] = handlers[f.c]
  BY <1>2
<1>4. \A p \in ToCopy(f) \cap Prototypes : Handled(p)' = Handled(p)
  BY <1>2 DEF Handled
<1>5. ToCopy(f)' = ToCopy(f)
  BY <1>1, <1>3, <1>4, ToCopyStays
<1> QED
  BY <1>2, <1>3, <1>5 DEF SameLoop

\* The loops after a step that changes or adds an activation, or both.
LEMMA MakesSwapped ==
  ASSUME TypeOK, stack # <<>>, NEW g, Swaps(g)
  PROVE  \A n : \A f : Makes(n, f)' <=>
           \/ n # Len(stack) /\ Makes(n, f)
           \/ n = Len(stack) /\ f = g /\ Copying(g)
BY StackFacts DEF Swaps, Makes

LEMMA MakesPushed ==
  ASSUME TypeOK, NEW f, Pushes(f)
  PROVE  \A n : \A e : Makes(n, e)' <=>
           \/ n # Len(stack) + 1 /\ Makes(n, e)
           \/ n = Len(stack) + 1 /\ e = f /\ Copying(f)
BY StackFacts DEF Pushes, Makes

LEMMA MakesSwappedPushed ==
  ASSUME TypeOK, stack # <<>>, NEW g, NEW h, SwapsPushes(g, h)
  PROVE  \A n : \A f : Makes(n, f)' <=>
           \/ n # Len(stack) /\ n # Len(stack) + 1 /\ Makes(n, f)
           \/ n = Len(stack) /\ f = g /\ Copying(g)
           \/ n = Len(stack) + 1 /\ f = h /\ Copying(h)
<1>1. Len(stack) \in Nat /\ Len(stack) \in DOMAIN stack /\ Len(stack) + 1 \notin DOMAIN stack
  BY StackFacts
<1>2. Len(stack) # Len(stack) + 1
  BY <1>1
<1> QED
  BY <1>1, <1>2 DEF SwapsPushes, Makes

\* A copy is claimed again only if it was; what a loop has to copy shrinks.
LEMMA ReachedLess ==
  ASSUME ReachedOnce,
         \A c \in Copies : Unreached(c)' =>
           Unreached(c) /\ call'[c] = call[c] /\ origin'[c] = origin[c],
         \A n \in Nat : \A f \in Activations : Makes(n, f)' =>
           \E e \in Activations : /\ Makes(n, e) /\ call[e.c] = call'[f.c]
                                  /\ ToCopy(f)' \subseteq ToCopy(e)
  PROVE  ReachedOnce'
<1> SUFFICES ASSUME NEW c \in Copies, Unreached(c)'
             PROVE  /\ \A d \in Copies :
                         Unreached(d)' /\ call'[d] = call'[c] /\ origin'[d] = origin'[c] => d = c
                    /\ \A n \in Nat : \A f \in Activations :
                         Makes(n, f)' /\ call'[f.c] = call'[c] => origin'[c] \notin ToCopy(f)'
  BY DEF ReachedOnce
<1>1. Unreached(c) /\ call'[c] = call[c] /\ origin'[c] = origin[c]
  OBVIOUS
<1>2. \A d \in Copies :
        Unreached(d)' /\ call'[d] = call'[c] /\ origin'[d] = origin'[c] => d = c
  BY <1>1 DEF ReachedOnce
<1>3. ASSUME NEW n \in Nat, NEW f \in Activations, Makes(n, f)', call'[f.c] = call'[c]
      PROVE  origin'[c] \notin ToCopy(f)'
  <2>1. PICK e \in Activations :
          Makes(n, e) /\ call[e.c] = call'[f.c] /\ ToCopy(f)' \subseteq ToCopy(e)
    BY <1>3
  <2> QED
    BY <1>1, <1>3, <2>1 DEF ReachedOnce
<1> QED
  BY <1>2, <1>3

-----------------------------------------------------------------------------
(* One turn of the loop.                                                   *)

LEMMA AdvanceFields ==
  ASSUME TypeOK, stack # <<>>
  PROVE  LET g == [Advance EXCEPT !.moved = @ + 1]
         IN  /\ Advance.room = Top.room /\ Advance.moved = Top.moved
             /\ g.room = Top.room /\ g.moved = Top.moved + 1
<1>1. Top \in Frame /\ Top.i \in Nat
  BY StackFacts DEF Activations, Frame
<1>2. Advance \in Frame /\ Advance.room = Top.room /\ Advance.moved = Top.moved
  BY <1>1 DEF Advance, Frame
<1> QED
  BY <1>2 DEF Frame

\* The arrays after an outsider has moved from the prototype to the copy.
LEMMA MovedArrays ==
  ASSUME IInv, MoveOutsider, NEW c, NEW o, NEW w, NEW i, NEW l,
         c = Top.c, o = Top.o, w = Slot, i = Top.i, l = Len(handlers[c]) + 1
  PROVE  /\ DOMAIN handlers'[c] = DOMAIN handlers[c] \cup {l} /\ l \notin DOMAIN handlers[c]
         /\ handlers'[c][l] = w /\ Len(handlers'[c]) = l
         /\ \A j \in DOMAIN handlers[c] : handlers'[c][j] = handlers[c][j]
         /\ DOMAIN handlers'[o] = DOMAIN handlers[o] /\ handlers'[o][i] = NoObject
         /\ \A j \in DOMAIN handlers[o] \ {i} : handlers'[o][j] = handlers[o][j]
         /\ \A p \in Objects \ {c, o} : handlers'[p] = handlers[p]
<1>1. /\ TypeOK /\ c \in Copies /\ o \in Prototypes /\ o # c /\ i \in DOMAIN handlers[o]
      /\ w \in Outsiders
      /\ handlers' = [handlers EXCEPT ![c] = Append(@, w), ![o][i] = NoObject]
  BY ReadingFacts DEF MoveOutsider
<1>2. c \in Objects /\ o \in Objects /\ w \in Objects
  BY <1>1, Kinds
<1>3. handlers'[c] = Append(handlers[c], w)
  BY <1>1, <1>2 DEF TypeOK
<1>4. /\ DOMAIN handlers'[c] = DOMAIN handlers[c] \cup {l} /\ l \notin DOMAIN handlers[c]
      /\ handlers'[c][l] = w /\ \A j \in DOMAIN handlers[c] : handlers'[c][j] = handlers[c][j]
  <2>1. TypeOK /\ c \in Objects /\ w \in Objects
    BY <1>1, <1>2
  <2> QED
    BY <1>3, <2>1, Appended
<1>5. Len(handlers'[c]) = l
  <2>1. handlers[c] \in Seq(Objects \cup {NoObject, Junk})
    BY <1>1, <1>2, Arrays
  <2>2. \A S : \A t \in Seq(S) : \A x \in S : Len(Append(t, x)) = Len(t) + 1
    OBVIOUS
  <2> QED
    BY <1>2, <1>3, <2>1, <2>2
<1>6. handlers'[o] = [handlers[o] EXCEPT ![i] = NoObject]
  BY <1>1, <1>2 DEF TypeOK
<1>7. /\ DOMAIN handlers'[o] = DOMAIN handlers[o] /\ handlers'[o][i] = NoObject
      /\ \A j \in DOMAIN handlers[o] \ {i} : handlers'[o][j] = handlers[o][j]
  BY <1>1, <1>6
<1>8. \A p \in Objects \ {c, o} : handlers'[p] = handlers[p]
  BY <1>1, <1>2 DEF TypeOK
<1> QED
  BY <1>4, <1>5, <1>7, <1>8

LEMMA MoveOutsiderSound == ASSUME IInv, IInv', Sound, MoveOutsider PROVE Sound'
<1>1. PICK c, o, w, i, l, n0, k0 :
        /\ c = Top.c /\ o = Top.o /\ w = Slot /\ i = Top.i
        /\ l = Len(handlers[c]) + 1 /\ n0 = Len(stack) /\ k0 = call[c]
  OBVIOUS
<1>0. PICK g : g = [Advance EXCEPT !.moved = @ + 1]
  OBVIOUS
<1>2. /\ TypeOK /\ TypeOK' /\ stack # <<>> /\ Copying(Top) /\ Top.at # "notify"
      /\ c \in Copies /\ o \in Prototypes /\ o # c /\ i \in DOMAIN handlers[o] /\ c \in used
      /\ \A j : Ahead(c, j)
  BY <1>1, ReadingFacts DEF MoveOutsider, IInv
<1>3. /\ w \in Outsiders /\ w = handlers[o][i] /\ stack' = Append(Below, g)
      /\ UNCHANGED <<used, asleep, origin, call, made, crashed, due, stray>>
  BY <1>0, <1>1 DEF MoveOutsider, Slot, history
<1>4. /\ g \in Activations /\ g.at = Top.at /\ g.c = c /\ g.o = o /\ g.i = i + 1
      /\ g.room = Top.room /\ g.moved = Top.moved + 1
  BY <1>0, <1>1, <1>2, Advancing, AdvanceFields
<1>5. Copying(g) /\ g.at # "notify"
  BY <1>2, <1>4 DEF Copying
<1>6. Swaps(g)
  BY <1>2, <1>3, <1>4, StackShapes
<1>7. \A p, j : Ahead(p, j)' <=> Ahead(p, j)
  BY <1>2, <1>5, <1>6, AheadQuiet
<1>8. /\ DOMAIN handlers'[c] = DOMAIN handlers[c] \cup {l} /\ l \notin DOMAIN handlers[c]
      /\ handlers'[c][l] = w /\ Len(handlers'[c]) = l
      /\ \A j \in DOMAIN handlers[c] : handlers'[c][j] = handlers[c][j]
      /\ DOMAIN handlers'[o] = DOMAIN handlers[o] /\ handlers'[o][i] = NoObject
      /\ \A j \in DOMAIN handlers[o] \ {i} : handlers'[o][j] = handlers[o][j]
      /\ \A p \in Objects \ {c, o} : handlers'[p] = handlers[p]
  BY <1>1, MovedArrays
<1>9. /\ c \in Objects /\ o \in Objects /\ w \in Objects /\ w \notin Copies
      /\ NoObject \notin Objects /\ Junk # NoObject
  BY <1>2, <1>3, Kinds
<1>11. /\ n0 \in Nat /\ Top \in Activations /\ Makes(n0, Top) /\ LoopOK(Top)
       /\ \A n \in Nat : \A f \in Activations : Makes(n, f) /\ n # n0 =>
            f.c # c /\ Copied(f) \cap Copied(Top) = {}
       /\ ~Active(c) /\ i \in Nat
  BY <1>1, <1>2, TopLoop, ToCopyFacts
<1>12. \A n : \A f : Makes(n, f)' <=> (n # n0 /\ Makes(n, f)) \/ (n = n0 /\ f = g)
  BY <1>1, <1>2, <1>5, <1>6, MakesSwapped
<1>13. \A n \in Nat : \A f \in Activations : Makes(n, f) /\ n # n0 => SameLoop(f)
  <2>1. \A p \in Prototypes \ {o} : handlers'[p] = handlers[p]
    BY <1>2, <1>8, Kinds
  <2>2. \A d \in Copies \ {c} : handlers'[d] = handlers[d]
    BY <1>2, <1>8, Kinds
  <2> QED
    BY <1>1, <1>2, <1>3, <2>1, <2>2, OtherLoops
<1>14. Forest'
  <2>1. \A p \in Prototypes : Thinned(p)
    <3>1. Thinned(o)
      BY <1>8, <1>9 DEF Thinned
    <3>2. ASSUME NEW p \in Prototypes, p # o
          PROVE  Thinned(p)
      BY <1>2, <1>8, <3>2, Kinds DEF Thinned
    <3> QED
      BY <3>1, <3>2
  <2>2. \A h \in Thens \ used' : handlers'[h] = handlers[h] \/ h \in used
    <3>1. o \in Thens => o \in used
      <4>1. DOMAIN <<>> = {}
        OBVIOUS
      <4> QED
        BY <1>2, <4>1, Kinds DEF Sound, Forest, Fresh, Uncopied
    <3> QED
      BY <1>2, <1>3, <1>8, <3>1, Kinds
  <2> QED
    BY <1>2, <1>3, <2>1, <2>2, ForestThins DEF Sound
<1>15. /\ Under(w) = {w} /\ ToCopy(Top) = {w} \cup ToCopy(g) /\ w \notin ToCopy(g)
       /\ o \notin ToCopy(g)
  <2>1. Under(w) = {w}
    BY <1>2, <1>3, UnderPlain
  <2>2. ToCopy(Top) = Under(w) \cup ToCopy(g) /\ Under(w) \cap ToCopy(g) = {}
    BY <1>1, <1>2, <1>3, <1>4, <1>5, <1>9, <1>11, ToCopyNext DEF Sound
  <2>3. o \notin ToCopy(g)
    BY <1>2, <1>4, <1>5, NotToCopy DEF Sound
  <2> QED
    BY <2>1, <2>2, <2>3
<1>16. ToCopy(g)' = ToCopy(g)
  <2>1. \A j \in DOMAIN handlers[o] : j >= i + 1 => j # i
    BY <1>2, <1>9, <1>11, Arrays
  <2>2. \A p \in ToCopy(g) \cap Prototypes : Handled(p)' = Handled(p)
    BY <1>2, <1>8, <1>15, Kinds DEF Handled
  <2>3. /\ DOMAIN handlers'[g.o] = DOMAIN handlers[g.o]
        /\ \A j \in DOMAIN handlers[g.o] : j >= g.i => handlers'[g.o][j] = handlers[g.o][j]
    BY <1>4, <1>8, <2>1
  <2>4. TypeOK /\ TypeOK' /\ g \in Activations /\ Copying(g)
    BY <1>2, <1>4, <1>5
  <2> QED
    BY <2>2, <2>3, <2>4, ToCopyStays
<1>17. LoopOK(g)'
  <2>1. Len(handlers'[o]) = Len(handlers[o])
    <3>1. \A m, n \in Nat : 1 .. m = 1 .. n => m = n
      <4> SUFFICES ASSUME NEW m \in Nat, NEW n \in Nat, m < n
                   PROVE  n \notin 1 .. m /\ n \in 1 .. n
        OBVIOUS
      <4> QED
        OBVIOUS
    <3>2. DOMAIN handlers'[o] = 1 .. Len(handlers'[o]) /\ Len(handlers'[o]) \in Nat
      BY <1>2, <1>9 DEF TypeOK
    <3>3. DOMAIN handlers[o] = 1 .. Len(handlers[o]) /\ Len(handlers[o]) \in Nat
      BY <1>2, <1>9, Arrays
    <3>4. DOMAIN handlers'[o] = DOMAIN handlers[o]
      BY <1>8
    <3> QED
      BY <3>1, <3>2, <3>3, <3>4
  <2>2. Empty(o)' = Empty(o) \cup {i} /\ i \notin Empty(o)
    BY <1>3, <1>8, <1>9, <1>2 DEF Empty
  <2>3. IsFiniteSet(Empty(o)) /\ Cardinality(Empty(o)) \in Nat
    <3>1. handlers[o] \in Seq(Objects \cup {NoObject, Junk})
      BY <1>2, <1>9, Arrays
    <3>2. Empty(o) = Emptied(handlers[o], {NoObject})
      BY DEF Empty, Emptied
    <3> QED
      BY <3>1, <3>2, EmptiedCount
  <2>4. Cardinality(Empty(o)') = Cardinality(Empty(o)) + 1
    BY <2>2, <2>3, FS_AddElement
  <2>5. /\ origin[c] = o /\ Top.room = Len(handlers[o]) /\ Len(handlers[c]) = i - 1
        /\ Top.moved = Cardinality(Empty(o))
        /\ \A j \in DOMAIN handlers[o] :
             handlers[o][j] # Junk /\ (j >= i => handlers[o][j] # NoObject)
    BY <1>1, <1>11 DEF LoopOK
  <2>6. Len(handlers'[c]) = i /\ g.i - 1 = i
    BY <1>1, <1>2, <1>4, <1>8, <1>11, <2>5
  <2>7. \A j \in DOMAIN handlers'[o] :
          handlers'[o][j] # Junk /\ (j >= i + 1 => handlers'[o][j] # NoObject)
    <3>1. \A j \in DOMAIN handlers[o] : j >= i + 1 => j # i /\ j >= i
      BY <1>2, <1>9, <1>11, Arrays
    <3> QED
      BY <1>8, <1>9, <2>5, <3>1
  <2>8. Empty(g.o)' = Empty(o)'
    BY <1>4 DEF Empty
  <2> QED
    BY <1>3, <1>4, <2>1, <2>4, <2>5, <2>6, <2>7, <2>8 DEF LoopOK
<1>18. Making'
  <2>1. Loops'
    BY <1>12, <1>13, <1>17, LoopOKStays DEF Sound, Making, Loops
  <2>2. Copied(g)' \subseteq Copied(Top)
    BY <1>1, <1>4, <1>15, <1>16 DEF Copied
  <2>3. \A n \in Nat : \A f \in Activations : Makes(n, f) /\ n # n0 => Copied(f)' = Copied(f)
    BY <1>13 DEF Copied, SameLoop
  <2>4. Apart'
    <3> SUFFICES ASSUME NEW m \in Nat, NEW n \in Nat, NEW e \in Activations, NEW f \in Activations,
                        Makes(m, e)', Makes(n, f)', m # n
                 PROVE  Copied(e)' \cap Copied(f)' = {}
      BY DEF Apart
    <3>1. CASE m = n0
      <4>1. e = g /\ Makes(n, f) /\ n # n0
        BY <1>12, <3>1
      <4> QED
        BY <1>11, <2>2, <2>3, <4>1
    <3>2. CASE n = n0
      <4>1. f = g /\ Makes(m, e) /\ m # n0
        BY <1>12, <3>2
      <4> QED
        BY <1>11, <2>2, <2>3, <4>1
    <3>3. CASE m # n0 /\ n # n0
      BY <1>12, <2>3, <3>3 DEF Sound, Making, Apart
    <3> QED
      BY <3>1, <3>2, <3>3
  <2>5. AllWhole'
    <3>1. Looped(o)'
      BY <1>4, <1>11, <1>12 DEF Looped
    <3>2. ASSUME NEW p \in Prototypes, p # o
          PROVE  (Looped(p) => Looped(p)') /\ (Whole(p) => Whole(p)')
      <4>1. Looped(p) => Looped(p)'
        BY <1>1, <1>11, <1>12, <3>2 DEF Looped, Makes
      <4>2. handlers'[p] = handlers[p]
        BY <1>2, <1>8, <3>2, Kinds
      <4> QED
        BY <4>1, <4>2 DEF Whole
    <3> QED
      BY <3>1, <3>2 DEF AllWhole, Sound, Making
  <2> QED
    BY <2>1, <2>4, <2>5 DEF Making
<1>19. \A q \in Copies : \A x : InSlot(x, q)' <=> InSlot(x, q) \/ (q = c /\ x = w)
  <2>1. ASSUME NEW q \in Copies, q # c
        PROVE  \A x : InSlot(x, q)' <=> InSlot(x, q)
    <3>1. handlers'[q] = handlers[q]
      BY <1>2, <1>8, <2>1, Kinds
    <3> QED
      BY <1>7, <3>1 DEF InSlot
  <2>2. \A x : InSlot(x, c)' <=> InSlot(x, c) \/ x = w
    BY <1>2, <1>7, <1>8 DEF InSlot
  <2> QED
    BY <2>1, <2>2
<1>20. \A d \in Copies : /\ Active(d)' <=> Active(d)
                         /\ Framed(d) => Framed(d)'
  <2>1. /\ Top = stack[n0] /\ n0 \in DOMAIN stack /\ stack'[n0] = g
        /\ DOMAIN stack' = DOMAIN stack /\ \A n \in DOMAIN stack \ {n0} : stack'[n] = stack[n]
    BY <1>1, <1>2, <1>6, StackFacts DEF Swaps
  <2>2. g.at = Top.at /\ g.c = Top.c
    BY <1>1, <1>4
  <2> QED
    BY <1>3, <2>1, <2>2 DEF Active, Framed
<1>21. \A d \in Copies : Unreached(d)' <=> Unreached(d)
  BY <1>3, <1>20 DEF Unreached
<1>22. Family'
  <2>1. Family /\ made \in Nat /\ made' \in Nat /\ made <= made' /\ call \in [Objects -> Nat]
    BY <1>3 DEF Sound, Types
  <2>2. \A q, x \in Copies : InSlot(x, q)' <=> InSlot(x, q)
    BY <1>9, <1>19
  <2> QED
    BY <1>3, <1>20, <2>1, <2>2, FamilyStays
<1>23. ReachedOnce'
  <2>1. ASSUME NEW n \in Nat, NEW f \in Activations, Makes(n, f)'
        PROVE  \E e \in Activations : /\ Makes(n, e) /\ call[e.c] = call'[f.c]
                                      /\ ToCopy(f)' \subseteq ToCopy(e)
    <3>1. CASE n = n0 /\ f = g
      <4>1. call[Top.c] = call'[g.c] /\ ToCopy(g)' \subseteq ToCopy(Top)
        BY <1>1, <1>3, <1>4, <1>15, <1>16
      <4> QED
        BY <1>11, <3>1, <4>1
    <3>2. CASE n # n0 /\ Makes(n, f)
      BY <1>13, <3>2 DEF SameLoop
    <3> QED
      BY <1>12, <2>1, <3>1, <3>2
  <2>2. \A d \in Copies : Unreached(d)' =>
           Unreached(d) /\ call'[d] = call[d] /\ origin'[d] = origin[d]
    BY <1>3, <1>21
  <2>3. ReachedOnce
    BY DEF Sound, Owing
  <2> QED
    BY <2>1, <2>2, <2>3, ReachedLess
<1>24. \A k, x : ByCopy(k, x)' <=> ByCopy(k, x)
  BY <1>3, <1>21 DEF ByCopy
<1>25. \A k, x : BySlot(k, x)' <=> BySlot(k, x) \/ (k = k0 /\ x = w)
  BY <1>1, <1>2, <1>3, <1>19 DEF BySlot
<1>26. \A k, x : ByLoop(k, x) <=> ByLoop(k, x)' \/ (k = k0 /\ x = w)
  <2>1. ASSUME NEW k, NEW x, ByLoop(k, x)
        PROVE  ByLoop(k, x)' \/ (k = k0 /\ x = w)
    <3>1. PICK n \in Nat, f \in Activations : Makes(n, f) /\ call[f.c] = k /\ x \in ToCopy(f)
      BY <2>1 DEF ByLoop
    <3>2. CASE n # n0
      <4>1. Makes(n, f)' /\ call'[f.c] = k /\ x \in ToCopy(f)'
        BY <1>12, <1>13, <3>1, <3>2 DEF SameLoop
      <4> QED
        BY <4>1 DEF ByLoop
    <3>3. CASE n = n0
      <4>1. f = Top
        BY <1>11, <3>1, <3>3 DEF Makes
      <4>2. k = k0 /\ (x = w \/ x \in ToCopy(g)')
        BY <1>1, <1>15, <1>16, <3>1, <4>1
      <4>3. Makes(n0, g)' /\ call'[g.c] = k0
        BY <1>1, <1>3, <1>4, <1>12
      <4> QED
        BY <1>4, <1>11, <4>2, <4>3 DEF ByLoop
    <3> QED
      BY <3>2, <3>3
  <2>2. ASSUME NEW k, NEW x, ByLoop(k, x)'
        PROVE  ByLoop(k, x)
    <3>1. PICK n \in Nat, f \in Activations : Makes(n, f)' /\ call'[f.c] = k /\ x \in ToCopy(f)'
      BY <2>2 DEF ByLoop
    <3>2. CASE n # n0
      <4>1. Makes(n, f) /\ call[f.c] = k /\ x \in ToCopy(f)
        BY <1>12, <1>13, <3>1, <3>2 DEF SameLoop
      <4> QED
        BY <4>1 DEF ByLoop
    <3>3. CASE n = n0
      <4>1. Makes(n0, Top) /\ call[Top.c] = k /\ x \in ToCopy(Top)
        BY <1>1, <1>3, <1>4, <1>11, <1>12, <1>15, <1>16, <3>1, <3>3
      <4> QED
        BY <1>11, <4>1 DEF ByLoop
    <3> QED
      BY <3>2, <3>3
  <2>3. ByLoop(k0, w)
    BY <1>1, <1>11, <1>15 DEF ByLoop
  <2> QED
    BY <2>1, <2>2, <2>3
<1>27. \A k, x : Claim(k, x)' <=> Claim(k, x)
  BY <1>24, <1>25, <1>26 DEF Claim
<1>28. Owing'
  BY <1>3, <1>23, <1>27 DEF Sound, Owing, Exact
<1>29. Types' /\ ~crashed'
  BY <1>3 DEF Sound, Types
<1> QED
  BY <1>14, <1>18, <1>22, <1>28, <1>29 DEF Sound

\* A copy that begins: nothing has been read, and nothing was emptied.
LEMMA LoopBegins ==
  ASSUME IInv, NEW s \in Prototypes, NEW y \in Copies, y \notin used, NEW h, h.o = s, h.c = y,
         h.i = 1, h.moved = 0, h.room = Len(handlers[s]), Whole(s), handlers'[s] = handlers[s],
         handlers'[y] = handlers[y], origin'[y] = s
  PROVE  LoopOK(h)'
<1>1. handlers[y] = <<>>
  BY Unowned DEF IInv
<1>2. Len(handlers'[y]) = 0
  BY <1>1
<1>3. \A j \in DOMAIN handlers[s] : handlers[s][j] # Junk /\ handlers[s][j] # NoObject
  BY Kinds DEF Whole
<1>4. Empty(s)' = {}
  BY <1>3 DEF Empty
<1>5. Cardinality(Empty(s)') = 0
  BY <1>4, FS_EmptySet
<1>6. Empty(h.o)' = Empty(s)'
  BY DEF Empty
<1> QED
  BY <1>2, <1>3, <1>5, <1>6 DEF LoopOK

\* Who is at work when a copy of s is made for k, at the top or above it.
LEMMA NewFacts ==
  ASSUME IInv, Sound, NEW s \in Prototypes, NEW k \in Nat, Allocate(s, k), NEW y, y = NewCopy
  PROVE  /\ y \in Copies /\ y \notin used /\ used' = used \cup {y} /\ y \in Objects
         /\ origin' \in [Copies -> Prototypes \cup {NoObject}] /\ call' \in [Objects -> Nat]
         /\ origin'[y] = s /\ call'[y] = k
         /\ \A d \in Copies : d # y => origin'[d] = origin[d] /\ call'[d] = call[d]
         /\ handlers[y] = <<>> /\ ~Active(y) /\ \A n \in DOMAIN stack : stack[n].c # y
         /\ \A q \in Copies : ~InSlot(y, q)
         /\ \A x : ~InSlot(x, y)
<1>1. /\ y \in Copies /\ y \notin used /\ used' = used \cup {y}
      /\ origin' = [origin EXCEPT ![y] = s] /\ call' = [call EXCEPT ![y] = k]
  BY NewCopyFacts DEF Allocate
<1>2. /\ y \in Objects /\ origin \in [Copies -> Prototypes \cup {NoObject}]
      /\ call \in [Objects -> Nat]
  BY <1>1, Kinds DEF Sound, Types
<1>3. /\ origin'[y] = s /\ call'[y] = k
      /\ \A d \in Copies : d # y => origin'[d] = origin[d] /\ call'[d] = call[d]
  BY <1>1, <1>2, Kinds
<1>4. /\ \A n \in DOMAIN stack : stack[n].c # y
      /\ handlers[y] = <<>> /\ y \notin asleep
      /\ \A q \in Copies : \A j \in DOMAIN handlers[q] : Ahead(q, j) => handlers[q][j] # y
  BY <1>1, Unowned DEF IInv
<1>5. \A x : ~InSlot(x, y)
  BY <1>4 DEF InSlot
<1> QED
  BY <1>1, <1>2, <1>3, <1>4, <1>5 DEF InSlot, Active

LEMMA CopyHandlerSound == ASSUME IInv, IInv', Sound, CopyHandler PROVE Sound'
<1>1. PICK c, o, s, y, i, l, n0, k0 :
        /\ c = Top.c /\ o = Top.o /\ s = Slot /\ y = NewCopy /\ i = Top.i
        /\ l = Len(handlers[c]) + 1 /\ n0 = Len(stack) /\ k0 = call[c]
  OBVIOUS
<1>2. PICK g, h : g = Advance /\ h = CopyFrame("copy", s, y)
  OBVIOUS
<1>3. /\ TypeOK /\ TypeOK' /\ stack # <<>> /\ Copying(Top) /\ Top.at # "notify"
      /\ c \in Copies /\ o \in Prototypes /\ o # c /\ i \in DOMAIN handlers[o] /\ c \in used
      /\ \A j : Ahead(c, j)
  BY <1>1, ReadingFacts DEF CopyHandler, IInv
<1>4. /\ s \in Prototypes /\ s = handlers[o][i] /\ stack' = Append(Append(Below, g), h)
      /\ handlers' = [handlers EXCEPT ![c] = Append(@, y)] /\ Allocate(s, k0)
      /\ UNCHANGED <<asleep, made, crashed, due, stray>>
  BY <1>1, <1>2 DEF CopyHandler, Slot, history
<1>5. k0 \in Nat /\ k0 \in 1 .. made /\ c \in Objects /\ s \in Objects
  BY <1>1, <1>3, <1>4, Kinds DEF Sound, Types, Family, Calls
<1>6. /\ y \in Copies /\ y \notin used /\ used' = used \cup {y} /\ y \in Objects
      /\ origin' \in [Copies -> Prototypes \cup {NoObject}] /\ call' \in [Objects -> Nat]
      /\ origin'[y] = s /\ call'[y] = k0
      /\ \A d \in Copies : d # y => origin'[d] = origin[d] /\ call'[d] = call[d]
      /\ handlers[y] = <<>> /\ ~Active(y) /\ \A n \in DOMAIN stack : stack[n].c # y
      /\ \A q \in Copies : ~InSlot(y, q)
      /\ \A x : ~InSlot(x, y)
  BY <1>1, <1>4, <1>5, NewFacts
<1>7. /\ g \in Activations /\ g.at = Top.at /\ g.c = c /\ g.o = o /\ g.i = i + 1
      /\ g.room = Top.room /\ g.moved = Top.moved
  BY <1>1, <1>2, <1>3, Advancing, AdvanceFields
<1>8. /\ h \in Activations /\ h.at = "copy" /\ h.o = s /\ h.c = y /\ h.i = 1 /\ h.moved = 0
      /\ h.room = Len(handlers[s])
  <2>1. h \in Activations
    BY <1>2, <1>3, <1>4, <1>6, CopyActivated
  <2> QED
    BY <1>2, <2>1 DEF CopyFrame, NewFrame
<1>9. Copying(g) /\ g.at # "notify" /\ Copying(h) /\ h.at # "notify"
  BY <1>3, <1>7, <1>8 DEF Copying
<1>10. SwapsPushes(g, h)
  BY <1>3, <1>4, <1>7, <1>8, StackShapes
<1>11. \A p, j : Ahead(p, j)' <=> Ahead(p, j)
  BY <1>3, <1>9, <1>10, AheadQuiet
<1>12. /\ handlers'[c] = Append(handlers[c], y)
       /\ \A p \in Objects \ {c} : handlers'[p] = handlers[p]
       /\ y # c
  BY <1>3, <1>4, <1>5, <1>6 DEF TypeOK
<1>13. /\ DOMAIN handlers'[c] = DOMAIN handlers[c] \cup {l} /\ l \notin DOMAIN handlers[c]
       /\ handlers'[c][l] = y /\ \A j \in DOMAIN handlers[c] : handlers'[c][j] = handlers[c][j]
       /\ Len(handlers'[c]) = l
  <2>1. TypeOK /\ c \in Objects /\ y \in Objects /\ handlers'[c] = Append(handlers[c], y)
    BY <1>3, <1>5, <1>6, <1>12
  <2>2. handlers[c] \in Seq(Objects \cup {NoObject, Junk})
    BY <2>1, Arrays
  <2>3. \A S : \A t \in Seq(S) : \A x \in S : Len(Append(t, x)) = Len(t) + 1
    OBVIOUS
  <2>4. Len(handlers'[c]) = l
    BY <1>1, <2>1, <2>2, <2>3
  <2> QED
    BY <1>1, <2>1, <2>4, Appended
<1>14. /\ n0 \in Nat /\ Top \in Activations /\ Makes(n0, Top) /\ LoopOK(Top)
       /\ \A n \in Nat : \A f \in Activations : Makes(n, f) /\ n # n0 =>
            f.c # c /\ Copied(f) \cap Copied(Top) = {}
       /\ n0 + 1 # n0 /\ n0 + 1 \in Nat
  BY <1>1, <1>3, TopLoop
<1>15. /\ \A n : \A f : Makes(n, f)' <=>
            (n # n0 /\ n # n0 + 1 /\ Makes(n, f)) \/ (n = n0 /\ f = g) \/ (n = n0 + 1 /\ f = h)
       /\ \A f : ~Makes(n0 + 1, f)
  <2>1. \A f : ~Makes(n0 + 1, f)
    BY <1>1, <1>3, StackFacts DEF Makes
  <2> QED
    BY <1>1, <1>3, <1>9, <1>10, <2>1, MakesSwappedPushed
<1>16. \A p \in Prototypes : handlers'[p] = handlers[p]
  BY <1>3, <1>12, Kinds
<1>17. \A n \in Nat : \A f \in Activations : Makes(n, f) /\ n # n0 => SameLoop(f)
  <2>1. \A d \in Copies \ {c} : handlers'[d] = handlers[d]
    BY <1>12, Kinds
  <2>2. \A d \in Copies : d \in used => origin'[d] = origin[d] /\ call'[d] = call[d]
    BY <1>6
  <2> QED
    BY <1>1, <1>3, <1>16, <2>1, <2>2, OtherLoops
<1>18. /\ Forest' /\ \A p \in Prototypes : Whole(p)' <=> Whole(p)
       /\ \A f \in Activations : Copying(f) => ToCopy(f)' = ToCopy(f)
  <2>1. used \cap Uncopied \subseteq used' /\ Forest
    BY <1>6 DEF Sound
  <2> QED
    BY <1>3, <1>16, <2>1, TreeStays
<1>19. ToCopy(g)' = ToCopy(g) /\ ToCopy(h)' = ToCopy(h)
  BY <1>7, <1>8, <1>9, <1>18
<1>20. /\ ToCopy(Top) = {s} \cup ToCopy(h) \cup ToCopy(g) /\ s \notin ToCopy(h)
       /\ s \notin ToCopy(g) /\ ToCopy(h) \cap ToCopy(g) = {}
       /\ o \notin ToCopy(g) /\ o \notin ToCopy(h) /\ o # s
  <2>1. /\ o \notin Under(s) /\ ToCopy(Top) = Under(s) \cup ToCopy(g)
        /\ Under(s) \cap ToCopy(g) = {}
    BY <1>1, <1>3, <1>4, <1>5, <1>7, <1>9, <1>14, ToCopyNext DEF Sound
  <2>2. Under(s) = {s} \cup ToCopy(h) /\ s \notin ToCopy(h)
    BY <1>3, <1>8, <1>9, ToCopyBegins DEF Sound, Copied
  <2>3. o \notin ToCopy(g)
    BY <1>3, <1>7, <1>9, NotToCopy DEF Sound
  <2> QED
    BY <2>1, <2>2, <2>3
<1>21. /\ Copied(g)' \subseteq Copied(Top) /\ Copied(h)' \subseteq Copied(Top)
       /\ Copied(g)' \cap Copied(h)' = {}
       /\ \A n \in Nat : \A f \in Activations : Makes(n, f) /\ n # n0 => Copied(f)' = Copied(f)
  <2>1. Copied(g)' = {o} \cup ToCopy(g) /\ Copied(h)' = {s} \cup ToCopy(h)
    BY <1>7, <1>8, <1>19 DEF Copied
  <2>2. Copied(Top) = {o} \cup ToCopy(Top)
    BY <1>1 DEF Copied
  <2>3. \A n \in Nat : \A f \in Activations : Makes(n, f) /\ n # n0 => Copied(f)' = Copied(f)
    BY <1>17 DEF Copied, SameLoop
  <2> QED
    BY <1>20, <2>1, <2>2, <2>3
<1>22. Loops'
  <2>1. LoopOK(g)'
    <3>1. /\ origin[c] = o /\ Top.room = Len(handlers[o]) /\ Len(handlers[c]) = i - 1
          /\ Top.moved = Cardinality(Empty(o))
          /\ \A j \in DOMAIN handlers[o] :
               handlers[o][j] # Junk /\ (j >= i => handlers[o][j] # NoObject)
      BY <1>1, <1>14 DEF LoopOK
    <3>2. i \in Nat /\ \A j \in DOMAIN handlers[o] : j >= i + 1 => j >= i
      BY <1>1, <1>3, Arrays, Kinds
    <3>3. Len(handlers'[c]) = g.i - 1
      BY <1>1, <1>7, <1>13, <3>1, <3>2
    <3>4. handlers'[o] = handlers[o] /\ Empty(g.o)' = Empty(o) /\ origin'[c] = origin[c]
      BY <1>3, <1>6, <1>7, <1>12, <1>16 DEF Empty
    <3> QED
      BY <1>7, <3>1, <3>2, <3>3, <3>4 DEF LoopOK
  <2>2. LoopOK(h)'
    <3>1. ~Looped(s)
      BY <1>1, <1>14, <1>20 DEF Looped, Copied, Makes
    <3>2. Whole(s)
      BY <1>4, <3>1 DEF Sound, Making, AllWhole
    <3>3. handlers'[s] = handlers[s] /\ handlers'[y] = handlers[y]
      BY <1>4, <1>6, <1>12, <1>16
    <3> QED
      BY <1>4, <1>6, <1>8, <3>2, <3>3, LoopBegins
  <2> QED
    BY <1>15, <1>17, <2>1, <2>2, LoopOKStays DEF Sound, Making, Loops
<1>23. Apart'
  <2> SUFFICES ASSUME NEW m \in Nat, NEW n \in Nat, NEW e \in Activations, NEW f \in Activations,
                      Makes(m, e)', Makes(n, f)', m # n
               PROVE  Copied(e)' \cap Copied(f)' = {}
    BY DEF Apart
  <2>1. /\ (m # n0 /\ m # n0 + 1 /\ Makes(m, e)) \/ (m = n0 /\ e = g) \/ (m = n0 + 1 /\ e = h)
        /\ (n # n0 /\ n # n0 + 1 /\ Makes(n, f)) \/ (n = n0 /\ f = g) \/ (n = n0 + 1 /\ f = h)
    BY <1>15
  <2>2. CASE (m = n0 /\ e = g) \/ (m = n0 + 1 /\ e = h)
    <3>1. CASE n # n0 /\ n # n0 + 1 /\ Makes(n, f)
      BY <1>14, <1>21, <2>2, <3>1
    <3>2. CASE (n = n0 /\ f = g) \/ (n = n0 + 1 /\ f = h)
      BY <1>14, <1>21, <2>2, <3>2
    <3> QED
      BY <2>1, <3>1, <3>2
  <2>3. CASE m # n0 /\ m # n0 + 1 /\ Makes(m, e)
    <3>1. CASE n # n0 /\ n # n0 + 1 /\ Makes(n, f)
      BY <1>21, <2>3, <3>1 DEF Sound, Making, Apart
    <3>2. CASE (n = n0 /\ f = g) \/ (n = n0 + 1 /\ f = h)
      BY <1>14, <1>21, <2>3, <3>2
    <3> QED
      BY <2>1, <3>1, <3>2
  <2> QED
    BY <2>1, <2>2, <2>3
<1>24. Making'
  <2>1. ASSUME NEW p, Looped(p)
        PROVE  Looped(p)'
    <3>1. PICK n \in Nat, f \in Activations : Makes(n, f) /\ f.o = p
      BY <2>1 DEF Looped
    <3>2. CASE n = n0
      <4>1. f = Top
        BY <1>14, <3>1, <3>2 DEF Makes
      <4>2. Makes(n0, g)' /\ g.o = p
        BY <1>1, <1>7, <1>15, <3>1, <4>1
      <4> QED
        BY <1>7, <1>14, <4>2 DEF Looped
    <3>3. CASE n # n0
      <4>1. Makes(n, f)'
        BY <1>15, <3>1, <3>3
      <4> QED
        BY <3>1, <4>1 DEF Looped
    <3> QED
      BY <3>2, <3>3
  <2>2. AllWhole'
    BY <1>18, <2>1 DEF AllWhole, Sound, Making
  <2> QED
    BY <1>22, <1>23, <2>2 DEF Making
<1>25. \A q \in Copies : \A x : InSlot(x, q)' <=> InSlot(x, q) \/ (q = c /\ x = y)
  <2>1. ASSUME NEW q \in Copies, q # c
        PROVE  \A x : InSlot(x, q)' <=> InSlot(x, q)
    <3>1. handlers'[q] = handlers[q]
      BY <1>12, <2>1, Kinds
    <3> QED
      BY <1>11, <3>1 DEF InSlot
  <2>2. \A x : InSlot(x, c)' <=> InSlot(x, c) \/ x = y
    BY <1>3, <1>11, <1>13 DEF InSlot
  <2> QED
    BY <2>1, <2>2
<1>26. \A d \in Copies : /\ Active(d)' <=> Active(d)
                         /\ Framed(d) => Framed(d)'
  <2>1. /\ Top = stack[n0] /\ n0 \in DOMAIN stack /\ stack'[n0] = g /\ stack'[n0 + 1] = h
        /\ DOMAIN stack' = DOMAIN stack \cup {n0 + 1}
        /\ \A n \in DOMAIN stack \ {n0} : stack'[n] = stack[n]
        /\ n0 + 1 \notin DOMAIN stack
    BY <1>1, <1>3, <1>10, StackFacts DEF SwapsPushes
  <2>2. g.at = Top.at /\ g.c = Top.c
    BY <1>1, <1>7
  <2>3. \A n \in DOMAIN stack : stack'[n].at = stack[n].at /\ stack'[n].c = stack[n].c
    BY <2>1, <2>2
  <2>4. DOMAIN stack' = DOMAIN stack \cup {n0 + 1} /\ stack'[n0 + 1].at = "copy"
    BY <1>8, <2>1
  <2> QED
    BY <1>4, <2>3, <2>4 DEF Active, Framed
<1>27. \A d \in Copies : Unreached(d)' <=> Unreached(d) \/ d = y
  BY <1>6, <1>26 DEF Unreached
<1>28. Family'
  <2>1. Calls /\ SameCall /\ HasHolder /\ NoRing
    BY DEF Sound, Family
  <2>2. Calls'
    BY <1>4, <1>5, <1>6, <2>1 DEF Calls
  <2>3. SameCall'
    <3> SUFFICES ASSUME NEW q \in Copies, NEW x \in Copies, InSlot(x, q)'
                 PROVE  call'[x] = call'[q]
      BY DEF SameCall
    <3>1. CASE InSlot(x, q)
      BY <1>6, <2>1, <3>1 DEF SameCall
    <3>2. CASE q = c /\ x = y
      BY <1>1, <1>6, <1>12, <3>2
    <3> QED
      BY <1>25, <3>1, <3>2
  <2>4. HasHolder'
    BY <1>3, <1>6, <1>25, <1>26, <2>1 DEF HasHolder
  <2>5. NoRing'
    <3> SUFFICES ASSUME NEW S \in SUBSET Copies, S # {}
                 PROVE  \E x \in S : \A q \in S : ~InSlot(x, q)'
      BY DEF NoRing
    <3>1. CASE S \ {y} = {}
      <4>1. S = {y} /\ ~InSlot(y, y)'
        BY <1>6, <1>12, <1>25, <3>1
      <4> QED
        BY <4>1
    <3>2. CASE S \ {y} # {}
      <4>1. PICK x \in S \ {y} : \A q \in S \ {y} : ~InSlot(x, q)
        <5>1. S \ {y} \in SUBSET Copies
          OBVIOUS
        <5> QED
          BY <2>1, <3>2, <5>1 DEF NoRing
      <4> QED
        BY <1>6, <1>25, <4>1
    <3> QED
      BY <3>1, <3>2
  <2> QED
    BY <2>2, <2>3, <2>4, <2>5 DEF Family
<1>29. \A n \in Nat : \A f \in Activations : Makes(n, f)' =>
         /\ call'[f.c] = k0 => s \notin ToCopy(f)'
         /\ \/ Makes(n, f) /\ call'[f.c] = call[f.c] /\ ToCopy(f)' = ToCopy(f)
            \/ call'[f.c] = k0 /\ ToCopy(f)' \subseteq ToCopy(Top)
  <2>1. ASSUME NEW n \in Nat, NEW f \in Activations, n # n0, Makes(n, f)
        PROVE  /\ s \notin ToCopy(f)' /\ call'[f.c] = call[f.c] /\ ToCopy(f)' = ToCopy(f)
    <3>1. Makes(n, f) /\ call[f.c] = call'[f.c] /\ ToCopy(f)' = ToCopy(f)
      BY <1>17, <2>1 DEF SameLoop
    <3>2. s \notin ToCopy(f)
      BY <1>14, <1>20, <2>1 DEF Copied
    <3> QED
      BY <3>1, <3>2
  <2>2. call'[g.c] = k0 /\ s \notin ToCopy(g)' /\ ToCopy(g)' \subseteq ToCopy(Top)
    BY <1>1, <1>3, <1>6, <1>7, <1>12, <1>19, <1>20
  <2>3. call'[h.c] = k0 /\ s \notin ToCopy(h)' /\ ToCopy(h)' \subseteq ToCopy(Top)
    BY <1>6, <1>8, <1>19, <1>20
  <2> QED
    BY <1>15, <2>1, <2>2, <2>3
<1>30. ReachedOnce'
  <2>1. ReachedOnce /\ \A d \in Copies : d \in used => d # y
    BY <1>6 DEF Sound, Owing
  <2>2. ASSUME NEW d \in Copies, Unreached(d), call[d] = k0
        PROVE  origin[d] \notin ToCopy(Top)
    BY <1>1, <1>14, <2>1, <2>2 DEF ReachedOnce
  <2> SUFFICES ASSUME NEW b \in Copies, Unreached(b)'
               PROVE  /\ \A d \in Copies :
                           Unreached(d)' /\ call'[d] = call'[b] /\ origin'[d] = origin'[b] => d = b
                      /\ \A n \in Nat : \A f \in Activations :
                           Makes(n, f)' /\ call'[f.c] = call'[b] => origin'[b] \notin ToCopy(f)'
    BY DEF ReachedOnce
  <2>3. CASE b = y
    <3>1. \A d \in Copies : Unreached(d)' /\ call'[d] = k0 /\ origin'[d] = s => d = y
      BY <1>6, <1>20, <1>27, <2>2
    <3>2. \A n \in Nat : \A f \in Activations :
            Makes(n, f)' /\ call'[f.c] = k0 => s \notin ToCopy(f)'
      BY <1>29
    <3> QED
      BY <1>6, <2>3, <3>1, <3>2
  <2>4. CASE b # y
    <3>1. Unreached(b) /\ call'[b] = call[b] /\ origin'[b] = origin[b]
      BY <1>6, <1>27, <2>4
    <3>2. \A d \in Copies :
            Unreached(d)' /\ call'[d] = call'[b] /\ origin'[d] = origin'[b] => d = b
      BY <1>6, <1>20, <1>27, <2>1, <2>2, <3>1 DEF ReachedOnce
    <3>3. ASSUME NEW n \in Nat, NEW f \in Activations, Makes(n, f)', call'[f.c] = call'[b]
          PROVE  origin'[b] \notin ToCopy(f)'
      <4>1. CASE Makes(n, f) /\ call[f.c] = call'[f.c] /\ ToCopy(f)' = ToCopy(f)
        BY <2>1, <3>1, <3>3, <4>1 DEF ReachedOnce
      <4>2. CASE call'[f.c] = k0 /\ ToCopy(f)' \subseteq ToCopy(Top)
        BY <2>2, <3>1, <3>3, <4>2
      <4> QED
        BY <1>29, <3>3, <4>1, <4>2
    <3> QED
      BY <3>2, <3>3
  <2> QED
    BY <2>3, <2>4
<1>31. \A k, x : ByCopy(k, x)' <=> ByCopy(k, x) \/ (k = k0 /\ x = s)
  <2>1. \A d \in Copies : Unreached(d) => d # y
    BY <1>6 DEF Unreached
  <2> QED
    BY <1>6, <1>27, <2>1 DEF ByCopy
<1>32. \A k, x : BySlot(k, x)' <=> BySlot(k, x)
  <2>1. \A x \in Outsiders : x # y
    BY <1>6, Kinds
  <2>2. \A q \in Copies : \A x : InSlot(x, q) => call'[q] = call[q]
    BY <1>6
  <2> QED
    BY <1>25, <2>1, <2>2 DEF BySlot
<1>33. \A k, x : ByLoop(k, x) <=> ByLoop(k, x)' \/ (k = k0 /\ x = s)
  <2>1. call'[g.c] = k0 /\ call'[h.c] = k0 /\ Makes(n0, g)' /\ Makes(n0 + 1, h)'
    BY <1>1, <1>3, <1>6, <1>7, <1>8, <1>12, <1>15
  <2>2. \A x \in ToCopy(g) \cup ToCopy(h) : ByLoop(k0, x)'
    BY <1>7, <1>8, <1>14, <1>19, <2>1 DEF ByLoop
  <2>3. ASSUME NEW k, NEW x, ByLoop(k, x)
        PROVE  ByLoop(k, x)' \/ (k = k0 /\ x = s)
    <3>1. PICK n \in Nat, f \in Activations : Makes(n, f) /\ call[f.c] = k /\ x \in ToCopy(f)
      BY <2>3 DEF ByLoop
    <3>2. CASE n # n0
      <4>1. Makes(n, f)' /\ call'[f.c] = k /\ x \in ToCopy(f)'
        BY <1>15, <1>17, <3>1, <3>2 DEF SameLoop
      <4> QED
        BY <4>1 DEF ByLoop
    <3>3. CASE n = n0
      <4>1. f = Top
        BY <1>14, <3>1, <3>3 DEF Makes
      <4> QED
        BY <1>1, <1>20, <2>2, <3>1, <4>1
    <3> QED
      BY <3>2, <3>3
  <2>4. ASSUME NEW k, NEW x, ByLoop(k, x)'
        PROVE  ByLoop(k, x)
    <3>1. PICK n \in Nat, f \in Activations : Makes(n, f)' /\ call'[f.c] = k /\ x \in ToCopy(f)'
      BY <2>4 DEF ByLoop
    <3>2. CASE Makes(n, f) /\ call'[f.c] = call[f.c] /\ ToCopy(f)' = ToCopy(f)
      BY <3>1, <3>2 DEF ByLoop
    <3>3. CASE call'[f.c] = k0 /\ ToCopy(f)' \subseteq ToCopy(Top)
      BY <1>1, <1>14, <3>1, <3>3 DEF ByLoop
    <3> QED
      BY <1>29, <3>1, <3>2, <3>3
  <2>5. ByLoop(k0, s)
    BY <1>1, <1>14, <1>20 DEF ByLoop
  <2> QED
    BY <2>3, <2>4, <2>5
<1>34. \A k, x : Claim(k, x)' <=> Claim(k, x)
  BY <1>31, <1>32, <1>33 DEF Claim
<1>35. Owing'
  BY <1>4, <1>30, <1>34 DEF Sound, Owing, Exact
<1>36. Types' /\ ~crashed'
  BY <1>4, <1>6 DEF Sound, Types
<1> QED
  BY <1>18, <1>24, <1>28, <1>35, <1>36 DEF Sound

-----------------------------------------------------------------------------
(* An invocation begins.                                                   *)

LEMMA InvokingSound ==
  ASSUME IInv, IInv', Sound, ~spoiled', NEW s \in Prototypes, Invoking(s), NEW h,
         h = CopyFrame("invoke", s, NewCopy), NEW m0 \in Nat, \A f : ~Makes(m0, f),
         UNCHANGED <<handlers, asleep, crashed, stray>>,
         \A n \in Nat : \A f : Makes(n, f)' <=> Makes(n, f) \/ (n = m0 /\ f = h),
         \A q \in Copies : \A j \in Nat \ {0} : Ahead(q, j)' <=> Ahead(q, j),
         \A d \in Copies : (Active(d)' <=> Active(d)) /\ (Framed(d) => Framed(d)'),
         Framed(h.c)'
  PROVE  Sound'
<1>1. PICK y, k0 : y = NewCopy /\ k0 = made + 1
  OBVIOUS
<1>2. /\ TypeOK /\ TypeOK' /\ Forest /\ made \in Nat /\ made' = k0 /\ k0 \in Nat /\ Allocate(s, k0)
      /\ due' = due \cup {<<k0, x>> : x \in Under(s)} /\ Under(s) \cap BeingCopied = {}
      /\ \A k \in 1 .. made : k # k0 /\ k \in 1 .. k0
      /\ k0 \in 1 .. k0 /\ s \in Uncopied /\ made <= k0
  <2>1. made \in Nat
    BY DEF Sound, Types
  <2>2. \A n \in Nat : /\ n + 1 \in Nat /\ n + 1 \in 1 .. n + 1 /\ n <= n + 1
                       /\ \A k \in 1 .. n : k # n + 1 /\ k \in 1 .. n + 1
    OBVIOUS
  <2>3. made' = k0 /\ Allocate(s, made') /\ due' = due \cup {<<made', x>> : x \in Under(s)}
    BY <1>1 DEF Invoking
  <2>4. Allocate(s, k0) /\ due' = due \cup {<<k0, x>> : x \in Under(s)}
    BY <2>3
  <2>5. Under(s) \cap BeingCopied = {}
    BY DEF Invoking, Spoils
  <2>6. TypeOK /\ TypeOK' /\ Forest /\ s \in Uncopied
    BY DEF IInv, Sound, Uncopied
  <2> QED
    BY <1>1, <2>1, <2>2, <2>3, <2>4, <2>5, <2>6
<1>3. /\ y \in Copies /\ y \notin used /\ used' = used \cup {y} /\ y \in Objects
      /\ origin' \in [Copies -> Prototypes \cup {NoObject}] /\ call' \in [Objects -> Nat]
      /\ origin'[y] = s /\ call'[y] = k0
      /\ \A d \in Copies : d # y => origin'[d] = origin[d] /\ call'[d] = call[d]
      /\ handlers[y] = <<>> /\ ~Active(y)
      /\ \A q \in Copies : ~InSlot(y, q)
      /\ \A x : ~InSlot(x, y)
  BY <1>1, <1>2, NewFacts
<1>4. /\ h \in Activations /\ h.o = s /\ h.c = y /\ h.i = 1 /\ h.moved = 0
      /\ h.room = Len(handlers[s]) /\ Copying(h)
  <2>1. h \in Activations
    BY <1>1, <1>2, <1>3, CopyActivated
  <2> QED
    BY <1>1, <2>1 DEF CopyFrame, NewFrame, Copying
<1>5. /\ Forest' /\ \A p \in Prototypes : Whole(p)' <=> Whole(p)
      /\ \A f \in Activations : Copying(f) => ToCopy(f)' = ToCopy(f)
  <2>1. used \cap Uncopied \subseteq used' /\ \A p \in Prototypes : handlers'[p] = handlers[p]
    BY <1>3
  <2> QED
    BY <1>2, <2>1, TreeStays
<1>6. /\ Under(s) = {s} \cup ToCopy(h) /\ s \notin ToCopy(h) /\ ToCopy(h)' = ToCopy(h)
      /\ Copied(h)' = Under(s)
  <2>1. Under(s) = {s} \cup ToCopy(h) /\ s \notin ToCopy(h)
    BY <1>2, <1>4, ToCopyBegins DEF Copied
  <2>2. ToCopy(h)' = ToCopy(h)
    BY <1>4, <1>5
  <2> QED
    BY <1>4, <2>1, <2>2 DEF Copied
<1>7. ASSUME NEW n \in Nat, NEW f \in Activations, Makes(n, f)
      PROVE  /\ SameLoop(f) /\ Copied(f)' = Copied(f) /\ Copied(f) \cap Under(s) = {}
             /\ n # m0 /\ call[f.c] # k0 /\ f.c # y
  <2>1. f.c \in Copies /\ f.c \in used /\ f.c # y /\ Copying(f)
    BY <1>3, <1>7, MakesFacts DEF Makes
  <2>2. SameLoop(f)
    BY <1>3, <1>5, <2>1 DEF SameLoop
  <2>3. Copied(f) \cap Under(s) = {}
    BY <1>2, <1>7, NotCopied
  <2>4. call[f.c] # k0
    BY <1>2, <2>1 DEF Sound, Family, Calls
  <2> QED
    BY <1>7, <2>1, <2>2, <2>3, <2>4 DEF SameLoop, Copied
<1>8. Loops'
  <2>1. ~Looped(s)
    BY <1>6, <1>7 DEF Looped, Copied
  <2>2. Whole(s)
    BY <2>1 DEF Sound, Making, AllWhole
  <2>3. LoopOK(h)'
    BY <1>3, <1>4, <2>2, LoopBegins
  <2> QED
    BY <1>7, <2>3, LoopOKStays DEF Sound, Making, Loops
<1>9. Apart'
  BY <1>6, <1>7 DEF Sound, Making, Apart
<1>10. Making'
  <2>1. \A p : Looped(p) => Looped(p)'
    BY DEF Looped
  <2> QED
    BY <1>5, <1>8, <1>9, <2>1 DEF Sound, Making, AllWhole
<1>11. \A q \in Copies : \A x : InSlot(x, q)' <=> InSlot(x, q)
  BY <1>2, SlotsSame
<1>12. \A d \in Copies : Unreached(d)' <=> Unreached(d) \/ d = y
  BY <1>3 DEF Unreached
<1>13. Family'
  <2>1. Calls /\ SameCall /\ HasHolder /\ NoRing
    BY DEF Sound, Family
  <2>2. Calls'
    BY <1>2, <1>3, <2>1 DEF Calls
  <2>3. SameCall'
    BY <1>3, <1>11, <2>1 DEF SameCall
  <2>4. HasHolder'
    BY <1>3, <1>4, <1>11, <2>1 DEF HasHolder
  <2>5. NoRing'
    BY <1>11, <2>1 DEF NoRing
  <2> QED
    BY <2>2, <2>3, <2>4, <2>5 DEF Family
<1>14. \A d \in Copies : Unreached(d) => d # y /\ call[d] # k0
  BY <1>2, <1>3 DEF Unreached, Sound, Family, Calls
<1>15. ReachedOnce'
  <2> SUFFICES ASSUME NEW b \in Copies, Unreached(b)'
               PROVE  /\ \A d \in Copies :
                           Unreached(d)' /\ call'[d] = call'[b] /\ origin'[d] = origin'[b] => d = b
                      /\ \A n \in Nat : \A f \in Activations :
                           Makes(n, f)' /\ call'[f.c] = call'[b] => origin'[b] \notin ToCopy(f)'
    BY DEF ReachedOnce
  <2>1. ReachedOnce
    BY DEF Sound, Owing
  <2>2. CASE b = y
    <3>1. \A d \in Copies : Unreached(d)' /\ call'[d] = k0 => d = y
      BY <1>3, <1>12, <1>14
    <3>2. \A n \in Nat : \A f \in Activations :
            Makes(n, f)' /\ call'[f.c] = k0 => s \notin ToCopy(f)'
      BY <1>3, <1>6, <1>7 DEF SameLoop
    <3> QED
      BY <1>3, <2>2, <3>1, <3>2
  <2>3. CASE b # y
    <3>1. Unreached(b) /\ call'[b] = call[b] /\ origin'[b] = origin[b] /\ call[b] # k0
      BY <1>3, <1>12, <1>14, <2>3
    <3>2. \A d \in Copies :
            Unreached(d)' /\ call'[d] = call'[b] /\ origin'[d] = origin'[b] => d = b
      BY <1>3, <1>12, <2>1, <3>1 DEF ReachedOnce
    <3>3. \A n \in Nat : \A f \in Activations :
            Makes(n, f)' /\ call'[f.c] = call'[b] => origin'[b] \notin ToCopy(f)'
      BY <1>3, <1>4, <1>7, <2>1, <3>1 DEF ReachedOnce, SameLoop
    <3> QED
      BY <3>2, <3>3
  <2> QED
    BY <2>2, <2>3
<1>16. \A k, x : ByCopy(k, x)' <=> ByCopy(k, x) \/ (k = k0 /\ x = s)
  BY <1>3, <1>12, <1>14 DEF ByCopy
<1>17. \A k, x : BySlot(k, x)' <=> BySlot(k, x)
  BY <1>3, <1>11 DEF BySlot
<1>18. \A k, x : ByLoop(k, x)' <=> ByLoop(k, x) \/ (k = k0 /\ x \in ToCopy(h))
  <2>1. ASSUME NEW k, NEW x, ByLoop(k, x)
        PROVE  ByLoop(k, x)'
    BY <1>7, <2>1 DEF ByLoop, SameLoop
  <2>2. \A x \in ToCopy(h) : ByLoop(k0, x)'
    BY <1>3, <1>4, <1>6 DEF ByLoop
  <2>3. ASSUME NEW k, NEW x, ByLoop(k, x)'
        PROVE  ByLoop(k, x) \/ (k = k0 /\ x \in ToCopy(h))
    <3>1. PICK n \in Nat, f \in Activations : Makes(n, f)' /\ call'[f.c] = k /\ x \in ToCopy(f)'
      BY <2>3 DEF ByLoop
    <3>2. CASE Makes(n, f)
      BY <1>7, <3>1, <3>2 DEF ByLoop, SameLoop
    <3>3. CASE f = h
      BY <1>3, <1>4, <1>6, <3>1, <3>3
    <3> QED
      BY <3>1, <3>2, <3>3
  <2> QED
    BY <2>1, <2>2, <2>3
<1>19. \A k, x : Claim(k, x)' <=> Claim(k, x) \/ (k = k0 /\ x \in Under(s))
  BY <1>6, <1>16, <1>17, <1>18 DEF Claim
<1>20. Exact'
  <2>1. due' \subseteq Nat \X Uncopied
    BY <1>2, UnderFacts DEF Sound, Owing, Exact
  <2>2. \A k \in Nat : \A x \in Uncopied :
          <<k, x>> \in due' <=> <<k, x>> \in due \/ (k = k0 /\ x \in Under(s))
    BY <1>2
  <2> QED
    BY <1>19, <2>1, <2>2 DEF Sound, Owing, Exact
<1> QED
  BY <1>2, <1>3, <1>5, <1>10, <1>13, <1>15, <1>20 DEF Sound, Types, Owing

LEMMA InvokeSound ==
  ASSUME IInv, IInv', Sound, ~spoiled', NEW s \in Roots, Invoke(s)
  PROVE  Sound'
<1>1. PICK h : h = CopyFrame("invoke", s, NewCopy)
  OBVIOUS
<1>2. /\ TypeOK /\ stack' = Append(stack, h) /\ Invoking(s) /\ s \in Prototypes
      /\ NewCopy \in Copies /\ UNCHANGED <<handlers, asleep, crashed, stray>>
  BY <1>1, NewCopyFacts, Kinds DEF IInv, Invoke, Invoking, Allocate
<1>3. h \in Activations /\ h.at = "invoke" /\ Copying(h)
  <2>1. h \in Activations
    BY <1>1, <1>2, CopyActivated
  <2> QED
    BY <1>1, <2>1 DEF CopyFrame, NewFrame, Copying
<1>4. Pushes(h)
  BY <1>2, <1>3, StackShapes
<1>5. \A q, j : Ahead(q, j)' <=> Ahead(q, j)
  BY <1>2, <1>3, <1>4, AheadQuiet
<1>6. PICK m0 : m0 = Len(stack) + 1
  OBVIOUS
<1>7. /\ m0 \in Nat /\ \A f : ~Makes(m0, f)
      /\ \A n \in Nat : \A f : Makes(n, f)' <=> Makes(n, f) \/ (n = m0 /\ f = h)
  <2>1. m0 \in Nat /\ \A f : ~Makes(m0, f)
    BY <1>2, <1>6, StackFacts DEF Makes
  <2> QED
    BY <1>2, <1>3, <1>4, <1>6, <2>1, MakesPushed
<1>8. /\ \A d \in Copies : (Active(d)' <=> Active(d)) /\ (Framed(d) => Framed(d)')
      /\ Framed(h.c)'
  <2>1. m0 \notin DOMAIN stack
    BY <1>2, <1>6, StackFacts
  <2> QED
    BY <1>2, <1>3, <1>4, <1>6, <2>1 DEF Pushes, Active, Framed
<1> QED
  BY <1>1, <1>2, <1>5, <1>7, <1>8, InvokingSound

LEMMA NotifyPrototypeSound ==
  ASSUME IInv, IInv', Sound, ~spoiled', NotifyPrototype
  PROVE  Sound'
<1>1. PICK s, h, g : s = Listener /\ h = CopyFrame("invoke", s, NewCopy) /\ g = Advance
  OBVIOUS
<1>2. /\ TypeOK /\ Serving /\ stack # <<>> /\ Top.at = "notify"
      /\ stack' = Append(Append(Below, g), h) /\ Invoking(s) /\ s \in Prototypes
      /\ NewCopy \in Copies /\ UNCHANGED <<handlers, awaits, asleep, crashed, stray>>
  BY <1>1, NewCopyFacts DEF IInv, NotifyPrototype, Serving, TopAt, Invoking, Allocate
<1>3. h \in Activations /\ h.at = "invoke" /\ Copying(h)
  <2>1. h \in Activations
    BY <1>1, <1>2, CopyActivated
  <2> QED
    BY <1>1, <2>1 DEF CopyFrame, NewFrame, Copying
<1>4. /\ g \in Activations /\ g.at = "notify" /\ g.c = Top.c /\ g.i = Top.i + 1 /\ ~Copying(g)
  BY <1>1, <1>2, Advancing DEF Copying
<1>5. SwapsPushes(g, h)
  BY <1>2, <1>3, <1>4, StackShapes
<1>6. /\ Top.c \in Outsiders /\ Top \in Activations /\ ~Copying(Top)
  <2>1. /\ Top.c \in Copies \cup Outsiders /\ Top.i \in Nat \ {0} /\ ~Copying(Top)
        /\ Top \in Activations
    BY <1>2, Unlabelled, StackFacts
  <2>2. Top.i \in DOMAIN handlers[Top.c]
    <3>1. \A m \in Nat : \A n \in Nat \ {0} : n <= m => n \in 1 .. m
      OBVIOUS
    <3> QED
      BY <1>2, <2>1, <3>1, Arrays, Kinds DEF Serving
  <2>3. Top.c \notin Copies
    BY <1>1, <1>2, <2>2, Arrays, Kinds DEF Listener, Slots
  <2> QED
    BY <2>1, <2>3
<1>7. \A q \in Copies : \A j \in Nat \ {0} : Ahead(q, j)' <=> Ahead(q, j)
  <2>1. h.at # "notify"
    BY <1>3
  <2> QED
    BY <1>2, <1>4, <1>5, <1>6, <2>1, Kinds, AheadNext
<1>8. PICK m0 : m0 = Len(stack) + 1
  OBVIOUS
<1>9. /\ Top = stack[Len(stack)] /\ Len(stack) \in DOMAIN stack /\ m0 \notin DOMAIN stack
      /\ m0 \in Nat /\ m0 # Len(stack) /\ Len(stack) \in Nat
  <2>1. \A n \in Nat : n + 1 \in Nat /\ n + 1 # n
    OBVIOUS
  <2> QED
    BY <1>2, <1>8, <2>1, StackFacts
<1>10. /\ \A f : ~Makes(m0, f)
       /\ \A n \in Nat : \A f : Makes(n, f)' <=> Makes(n, f) \/ (n = m0 /\ f = h)
  <2>1. \A f : ~Makes(m0, f) /\ ~Makes(Len(stack), f)
    BY <1>6, <1>9 DEF Makes
  <2>2. \A n : \A f : Makes(n, f)' <=>
           \/ n # Len(stack) /\ n # m0 /\ Makes(n, f)
           \/ n = m0 /\ f = h
    BY <1>2, <1>3, <1>4, <1>5, <1>8, MakesSwappedPushed
  <2> QED
    BY <2>1, <2>2
<1>11. /\ \A d \in Copies : (Active(d)' <=> Active(d)) /\ (Framed(d) => Framed(d)')
       /\ Framed(h.c)'
  <2>1. /\ DOMAIN stack' = DOMAIN stack \cup {m0} /\ stack'[m0] = h
        /\ \A n \in DOMAIN stack : stack'[n].at = stack[n].at /\ stack'[n].c = stack[n].c
    BY <1>2, <1>4, <1>5, <1>8, <1>9 DEF SwapsPushes
  <2> QED
    BY <1>2, <1>3, <2>1 DEF Active, Framed
<1> QED
  BY <1>1, <1>2, <1>7, <1>9, <1>10, <1>11, InvokingSound

-----------------------------------------------------------------------------
(* A copy or an outsider is reached.                                       *)

LEMMA ReachedExact ==
  ASSUME Exact, stray = {}, NEW k0 \in Nat, NEW x0 \in Uncopied, Claim(k0, x0), Reached(k0, x0),
         \A k, x : Claim(k, x)' <=> Claim(k, x) /\ ~(k = k0 /\ x = x0)
  PROVE  Exact' /\ stray' = {}
<1>1. <<k0, x0>> \in due
  BY DEF Exact
<1>2. due' = due \ {<<k0, x0>>} /\ stray' = {}
  BY <1>1 DEF Reached
<1>3. \A k \in Nat : \A x \in Uncopied :
        <<k, x>> \in due' <=> <<k, x>> \in due /\ ~(k = k0 /\ x = x0)
  BY <1>2
<1> QED
  BY <1>2, <1>3 DEF Exact

\* What is still to be copied is in the array of a prototype.
LEMMA ToCopyHeld ==
  ASSUME TypeOK, NEW f \in Activations, Copying(f), NEW x \in ToCopy(f)
  PROVE  \E p \in Prototypes : \E j \in DOMAIN handlers[p] : handlers[p][j] = x
<1>1. f.o \in Prototypes
  BY ToCopyFacts
<1>2. PICK j \in DOMAIN handlers[f.o] :
        handlers[f.o][j] \in Objects /\ x \in Under(handlers[f.o][j])
  BY ToCopyFacts
<1>3. handlers[f.o][j] \in Uncopied
  BY <1>1, <1>2, HandledFacts
<1>4. CASE x # handlers[f.o][j]
  <2>1. PICK p \in Prototypes : x \in Handled(p)
    BY <1>2, <1>3, <1>4, UnderHeld
  <2> QED
    BY <2>1, HandledFacts
<1> QED
  BY <1>1, <1>2, <1>4

LEMMA NotifyPlainSound == ASSUME IInv, IInv', Sound, NotifyPlain PROVE Sound'
<1>1. PICK y, o, i, k0, x0 :
        /\ y = Listener /\ o = Top.c /\ i = Top.i /\ k0 = call[Top.c]
        /\ x0 = IF y \in Copies THEN origin[y] ELSE y
  OBVIOUS
<1>2. PICK g, f : g = Advance /\ f = NewFrame("run", NoObject, y)
  OBVIOUS
<1>3. /\ TypeOK /\ TypeOK' /\ Serving /\ stack # <<>> /\ Top.at = "notify"
      /\ y \in Copies \cup Outsiders
      /\ stack' = Append(Append(Below, g), f)
      /\ call' = [call EXCEPT ![y] = k0] /\ Reached(k0, x0)
      /\ UNCHANGED <<handlers, used, origin, made, asleep, crashed>>
  BY <1>1, <1>2 DEF IInv, NotifyPlain, Serving, TopAt
<1>4. /\ f \in Activations /\ f.c = y /\ f.at = "run" /\ ~Copying(f) /\ f.at # "notify"
  BY <1>2, <1>3, Activated DEF NewFrame, Copying
<1>5. /\ g \in Activations /\ g.at = "notify" /\ g.c = Top.c /\ g.i = Top.i + 1 /\ ~Copying(g)
  BY <1>2, <1>3, Advancing DEF Copying
<1>6. SwapsPushes(g, f)
  BY <1>3, <1>4, <1>5, StackShapes
<1>7. /\ o \in Copies /\ ~Copying(Top) /\ i \in Nat \ {0} /\ i \in DOMAIN handlers[o]
      /\ y = handlers[o][i]
  <2>1. o \in Copies \cup Outsiders /\ i \in Nat \ {0} /\ ~Copying(Top) /\ o \in Objects
    BY <1>1, <1>3, Unlabelled, Kinds
  <2>2. i \in DOMAIN handlers[o]
    <3>1. \A m \in Nat : \A n \in Nat \ {0} : n <= m => n \in 1 .. m
      OBVIOUS
    <3> QED
      BY <1>1, <1>3, <2>1, <3>1, Arrays DEF Serving
  <2>3. y = handlers[o][i]
    BY <1>1 DEF Listener
  <2>4. o \in Copies
    BY <1>3, <2>1, <2>2, <2>3, Arrays, Kinds DEF Slots
  <2> QED
    BY <2>1, <2>2, <2>3, <2>4
<1>8. /\ Top = stack[Len(stack)] /\ Len(stack) \in DOMAIN stack
      /\ Len(stack) + 1 \notin DOMAIN stack
  BY <1>3, StackFacts
<1>9. Ahead(o, i) /\ InSlot(y, o)
  <2>1. \A n \in DOMAIN stack : stack[n].c = o => n = Len(stack)
    BY <1>1, <1>7, <1>8 DEF IInv, Owned, ActiveOnce
  <2>2. Ahead(o, i)
    BY <1>1, <1>7, <1>8, <2>1 DEF Ahead
  <2> QED
    BY <1>7, <2>2 DEF InSlot
<1>10. /\ o \in used
       /\ y \in Copies => (y \in used /\ ~Active(y) /\ call[y] = k0)
  BY <1>1, <1>7, <1>9, SlotUsed DEF Sound, Family, SameCall
<1>11. /\ call' \in [Objects -> Nat] /\ k0 \in 1 .. made /\ k0 \in Nat
       /\ \A d \in Copies : call'[d] = call[d]
  <2>1. call \in [Objects -> Nat] /\ o \in Objects /\ made \in Nat
    BY <1>7, Kinds DEF Sound, Types
  <2>2. k0 \in 1 .. made
    BY <1>1, <1>7, <1>10 DEF Sound, Family, Calls
  <2> QED
    BY <1>1, <1>3, <1>10, <2>1, <2>2, Kinds
<1>12. /\ x0 \in Uncopied /\ (y \notin Copies => x0 = y)
       /\ (y \in Copies => x0 \in Prototypes /\ x0 = origin[y])
  BY <1>1, <1>3, <1>10 DEF Sound, Family, Calls, Uncopied
<1>13. \A q : \A j \in Nat : Ahead(q, j)' <=> Ahead(q, j) /\ ~(q = o /\ j = i)
  BY <1>1, <1>3, <1>4, <1>5, <1>6, AheadNext
<1>14. \A n \in Nat : \A e : Makes(n, e)' <=> Makes(n, e)
  BY <1>3, <1>4, <1>5, <1>6, <1>7, MakesQuiet
<1>15. SameMaking /\ Forest' /\ AllWhole'
  <2>1. \A n \in Nat : \A e \in Activations : Makes(n, e) =>
           /\ handlers'[e.c] = handlers[e.c] /\ origin'[e.c] = origin[e.c]
           /\ call'[e.c] = call[e.c]
    BY <1>3, <1>11, MakesFacts
  <2>2. /\ \A p \in Prototypes : handlers'[p] = handlers[p]
        /\ used \cap Uncopied \subseteq used'
    BY <1>3
  <2> QED
    BY <1>14, <2>1, <2>2, QuietMaking
<1>16. Making' /\ \A k, x : ByLoop(k, x)' <=> ByLoop(k, x)
  BY <1>15, MakingStays DEF Sound, Making
<1>17. \A q \in Copies : \A x : InSlot(x, q)' <=> InSlot(x, q) /\ x # y
  <2>1. \A q \in Copies : \A j \in DOMAIN handlers[q] : j \in Nat
    BY <1>3, Arrays, Kinds
  <2>2. ASSUME NEW q \in Copies, NEW j \in DOMAIN handlers[q], Ahead(q, j), handlers[q][j] = y
        PROVE  q = o /\ j = i
    <3>1. CASE y \in Copies
      BY <1>7, <1>9, <2>2, <3>1 DEF IInv, Owned, SlotOnce
    <3>2. CASE y \in Outsiders
      BY <1>7, <2>2, <3>2, Kinds DEF IInv, Placed, OneSlot
    <3> QED
      BY <1>3, <3>1, <3>2
  <2> SUFFICES ASSUME NEW q \in Copies, NEW x
               PROVE  InSlot(x, q)' <=> InSlot(x, q) /\ x # y
    OBVIOUS
  <2>3. InSlot(x, q)' => InSlot(x, q) /\ x # y
    BY <1>3, <1>13, <2>1, <2>2 DEF InSlot
  <2>4. InSlot(x, q) /\ x # y => InSlot(x, q)'
    BY <1>3, <1>7, <1>13, <2>1 DEF InSlot
  <2> QED
    BY <2>3, <2>4
<1>18. \A d \in Copies : /\ Active(d)' <=> Active(d) \/ d = y
                         /\ Framed(d) \/ d = y => Framed(d)'
  <2>1. /\ DOMAIN stack' = DOMAIN stack \cup {Len(stack) + 1} /\ stack'[Len(stack) + 1] = f
        /\ \A n \in DOMAIN stack : stack'[n].at = stack[n].at /\ stack'[n].c = stack[n].c
    BY <1>3, <1>5, <1>6, <1>8 DEF SwapsPushes
  <2> QED
    BY <1>3, <1>4, <2>1 DEF Active, Framed
<1>19. \A d \in Copies : Unreached(d)' <=> Unreached(d) /\ d # y
  BY <1>3, <1>18 DEF Unreached
<1>20. Family'
  <2>1. Family /\ made \in Nat /\ made' \in Nat /\ made <= made' /\ call \in [Objects -> Nat]
    BY <1>3 DEF Sound, Types
  <2>2. \A q, x \in Copies : InSlot(x, q)' => InSlot(x, q)
    BY <1>17
  <2>3. \A x \in Copies : x \in used' =>
           /\ Framed(x) => Framed(x)'
           /\ \A q \in Copies : InSlot(x, q) => Framed(x)' \/ \E p \in Copies : InSlot(x, p)'
    BY <1>17, <1>18
  <2> QED
    BY <1>3, <1>11, <2>1, <2>2, <2>3, FamilyStays
<1>21. ReachedOnce'
  <2>1. ReachedOnce
    BY DEF Sound, Owing
  <2> QED
    BY <1>3, <1>11, <1>15, <1>19, <2>1, OwingStays
<1>22. Claim(k0, x0) /\ \A k, x : Claim(k, x)' <=> Claim(k, x) /\ ~(k = k0 /\ x = x0)
  <2>1. CASE y \in Copies
    <3>1. Unreached(y) /\ call[y] = k0 /\ origin[y] = x0 /\ x0 \notin Outsiders
      BY <1>10, <1>12, <2>1, Kinds DEF Unreached
    <3>2. \A k, x : ByCopy(k, x)' <=> ByCopy(k, x) /\ ~(k = k0 /\ x = x0)
      <4>1. \A d \in Copies : Unreached(d) /\ call[d] = k0 /\ origin[d] = x0 => d = y
        BY <2>1, <3>1 DEF Sound, Owing, ReachedOnce
      <4> QED
        BY <1>3, <1>11, <1>19, <2>1, <3>1, <4>1 DEF ByCopy
    <3>3. \A k, x : BySlot(k, x)' <=> BySlot(k, x)
      <4>1. \A x \in Outsiders : x # y
        BY <2>1, Kinds
      <4> QED
        BY <1>11, <1>17, <4>1 DEF BySlot
    <3>4. ~BySlot(k0, x0) /\ ~ByLoop(k0, x0) /\ ByCopy(k0, x0)
      BY <2>1, <3>1 DEF BySlot, ByLoop, ByCopy, Sound, Owing, ReachedOnce
    <3> QED
      BY <1>16, <3>2, <3>3, <3>4 DEF Claim
  <2>2. CASE y \in Outsiders
    <3>1. y \notin Copies /\ x0 = y /\ y \notin Prototypes
      BY <1>12, <2>2, Kinds
    <3>2. \A k, x : ByCopy(k, x)' <=> ByCopy(k, x)
      BY <1>3, <1>11, <1>19, <3>1 DEF ByCopy
    <3>3. \A q \in Copies : InSlot(y, q) => q = o
      BY <1>7, <2>2, Kinds DEF InSlot, IInv, Placed, OneSlot
    <3>4. \A k, x : BySlot(k, x)' <=> BySlot(k, x) /\ ~(k = k0 /\ x = x0)
      BY <1>1, <1>11, <1>17, <3>1, <3>3 DEF BySlot
    <3>5. ~ByCopy(k0, y)
      BY <3>1 DEF ByCopy, Unreached, Sound, Family, Calls
    <3>6. ~ByLoop(k0, y)
      <4>1. ASSUME NEW n \in Nat, NEW e \in Activations, Makes(n, e), y \in ToCopy(e)
            PROVE  FALSE
        <5>1. PICK p \in Prototypes : \E j \in DOMAIN handlers[p] : handlers[p][j] = y
          BY <1>3, <4>1, ToCopyHeld DEF Makes
        <5> QED
          BY <1>7, <2>2, <5>1, Kinds DEF IInv, Placed, OneSlot
      <4> QED
        BY <4>1 DEF ByLoop
    <3>7. BySlot(k0, y)
      BY <1>1, <1>7, <1>9, <2>2 DEF BySlot
    <3> QED
      BY <1>16, <3>1, <3>2, <3>4, <3>5, <3>6, <3>7 DEF Claim
  <2> QED
    BY <1>3, <2>1, <2>2
<1>23. Exact' /\ stray' = {}
  <2>1. Exact /\ stray = {}
    BY DEF Sound, Owing
  <2> QED
    BY <1>3, <1>11, <1>12, <1>22, <2>1, ReachedExact
<1> QED
  BY <1>3, <1>11, <1>15, <1>16, <1>20, <1>21, <1>23 DEF Sound, Types, Owing
-----------------------------------------------------------------------------
(* The loop is over.                                                       *)

LEMMA CopyMadeSound == ASSUME IInv, IInv', Sound, CopyMade PROVE Sound'
<1>1. PICK o, c, l, k0, m, clean :
        /\ o = Top.o /\ c = Top.c /\ l = Len(stack) /\ k0 = call[Top.c] /\ m = Top.moved
        /\ clean = IF Top.i = 1 THEN <<>> ELSE Autoclean(o, Cleaned(handlers[o], {NoObject}, m))
  OBVIOUS
<1>2. /\ TypeOK /\ TypeOK' /\ stack # <<>> /\ Copying(Top) /\ Top.i > Len(handlers[o])
      /\ handlers' = [handlers EXCEPT ![o] = Cleaned(handlers[o], {NoObject}, m)]
      /\ stack' = Below \o Ready \o clean /\ Reaching
      /\ UNCHANGED <<used, origin, call, made, asleep, crashed>>
  BY <1>1 DEF IInv, CopyMade, LoopDone
<1>3. clean = <<>> \/ (o \in Releasable /\ clean = <<NewFrame("release", o, NoObject)>>)
  BY <1>1 DEF Autoclean
<1>4. /\ l \in Nat /\ Top \in Activations /\ Makes(l, Top) /\ LoopOK(Top)
      /\ o \in Prototypes /\ c \in Copies /\ c \in used /\ ~Active(c) /\ o \in Objects
      /\ \A n \in Nat : \A f \in Activations : Makes(n, f) /\ n # l =>
           f.c # c /\ Copied(f) \cap Copied(Top) = {}
  BY <1>1, <1>2, TopLoop, Kinds
<1>5. /\ origin[c] = o /\ m = Cardinality(Empty(o))
      /\ \A j \in DOMAIN handlers[o] : handlers[o][j] # Junk
  BY <1>1, <1>4 DEF LoopOK
<1>6. /\ Forest' /\ Whole(o)' /\ \A p \in Objects \ {o} : handlers'[p] = handlers[p]
      /\ \A p \in Prototypes : Handled(p)' = Handled(p)
  <2>1. PICK gone : gone = {NoObject}
    OBVIOUS
  <2>2. Empty(o) = Emptied(handlers[o], gone)
    BY <2>1 DEF Empty, Emptied
  <2>3. handlers' = [handlers EXCEPT ![o] =
                       Cleaned(handlers[o], gone, Cardinality(Emptied(handlers[o], gone)))]
    BY <1>2, <1>5, <2>1, <2>2
  <2>4. NoObject \in gone /\ NoObject \notin Handled(o) /\ Forest
    BY <2>1 DEF Handled, Sound
  <2>5. /\ Forest' /\ Whole(o)' /\ \A p \in Objects \ {o} : handlers'[p] = handlers[p]
        /\ Handled(o)' = Handled(o) \ gone
        /\ \A p \in Prototypes \ {o} : Handled(p)' = Handled(p)
    BY <1>2, <1>4, <1>5, <2>3, <2>4, CleanedForest
  <2> QED
    BY <2>1, <2>4, <2>5
<1>7. /\ \A p, j : Ahead(p, j)' <=> Ahead(p, j)
      /\ \A n \in DOMAIN stack \ {l} : n \in DOMAIN stack' /\ stack'[n] = stack[n]
      /\ \A n \in DOMAIN stack' :
           \/ n \in DOMAIN stack \ {l}
           \/ stack'[n].at = "release" /\ stack'[n].c = NoObject
           \/ Top.at = "invoke" /\ stack'[n].at = "run" /\ stack'[n].c = c
      /\ Top.at = "invoke" => /\ l \in DOMAIN stack'
                              /\ stack'[l].at = "run" /\ stack'[l].c = c
  BY <1>1, <1>2, <1>3, MadeStack
<1>8. l \in DOMAIN stack /\ Top = stack[l]
  BY <1>1, <1>2, StackFacts
<1>9. \A n : \A f : Makes(n, f)' <=> Makes(n, f) /\ n # l
  BY <1>7, <1>8 DEF Makes, Copying
<1>10. \A n \in Nat : \A f \in Activations : Makes(n, f) /\ n # l => SameLoop(f)
  <2>1. \A p \in Prototypes \ {o} : handlers'[p] = handlers[p]
    BY <1>6, Kinds
  <2>2. \A d \in Copies : handlers'[d] = handlers[d]
    BY <1>4, <1>6, Kinds
  <2> QED
    BY <1>1, <1>2, <2>1, <2>2, OtherLoops
<1>11. ToCopy(Top) = {}
  <2>1. /\ Top.i \in Nat \ {0} /\ Len(handlers[o]) \in Nat
        /\ DOMAIN handlers[o] = 1 .. Len(handlers[o])
    BY <1>2, <1>4, Unlabelled, Arrays
  <2>2. \A i, n \in Nat : i > n => \A j \in 1 .. n : ~(j >= i)
    OBVIOUS
  <2>3. \A j \in DOMAIN handlers[o] : ~(j >= Top.i)
    BY <1>2, <2>1, <2>2
  <2> QED
    BY <1>1, <1>2, <1>4, <2>3, ToCopyFacts
<1>12. Loops'
  BY <1>9, <1>10, LoopOKStays DEF Sound, Making, Loops
<1>13. Apart'
  BY <1>9, <1>10 DEF Sound, Making, Apart, Copied, SameLoop
<1>14. AllWhole'
  <2> SUFFICES ASSUME NEW p \in Prototypes, ~Looped(p)', p # o
               PROVE  Whole(p)'
    BY <1>6 DEF AllWhole
  <2>1. ~Looped(p)
    <3> SUFFICES ASSUME NEW n \in Nat, NEW f \in Activations, Makes(n, f), f.o = p
                 PROVE  FALSE
      BY DEF Looped
    <3>1. n # l
      BY <1>1, <1>8 DEF Makes
    <3> QED
      BY <1>9, <3>1 DEF Looped
  <2>2. p \in Objects \ {o}
    BY Kinds
  <2> QED
    BY <1>6, <2>1, <2>2 DEF Sound, Making, AllWhole, Whole
<1>15. \A k, x : ByLoop(k, x)' <=> ByLoop(k, x)
  <2>1. ASSUME NEW k, NEW x, NEW n \in Nat, NEW f \in Activations, Makes(n, f), x \in ToCopy(f)
        PROVE  n # l
    BY <1>8, <1>11, <2>1 DEF Makes
  <2> QED
    BY <1>2, <1>9, <1>10, <2>1 DEF ByLoop, SameLoop
<1>16. \A q \in Copies : \A x : InSlot(x, q)' <=> InSlot(x, q)
  <2>1. \A d \in Copies : handlers'[d] = handlers[d]
    BY <1>4, <1>6, Kinds
  <2>2. \A q \in Copies : \A j \in Nat \ {0} : Ahead(q, j)' <=> Ahead(q, j)
    BY <1>7
  <2> QED
    BY <1>2, <2>1, <2>2, SlotsSame
<1>17. \A d \in Copies : /\ Active(d)' <=> Active(d) \/ (d = c /\ Top.at = "invoke")
                         /\ Framed(d) => Framed(d)'
  <2>1. NoObject \notin Copies /\ Top.at \in {"copy", "invoke"}
    BY <1>2, Kinds DEF Copying
  <2>2. ASSUME NEW d \in Copies
        PROVE  Active(d)' <=> Active(d) \/ (d = c /\ Top.at = "invoke")
    <3>1. Active(d)' => Active(d) \/ (d = c /\ Top.at = "invoke")
      BY <1>2, <1>7, <1>8, <2>1 DEF Active
    <3>2. Active(d) => Active(d)'
      BY <1>2, <1>7, <1>8, <2>1 DEF Active
    <3>3. d = c /\ Top.at = "invoke" => Active(d)'
      BY <1>7 DEF Active
    <3> QED
      BY <3>1, <3>2, <3>3
  <2>3. ASSUME NEW d \in Copies, Framed(d)
        PROVE  Framed(d)'
    <3>1. CASE d \in asleep
      BY <1>2, <3>1 DEF Framed
    <3>2. ASSUME NEW n \in DOMAIN stack, stack[n].c = d, stack[n].at # "copy", n # l
          PROVE  Framed(d)'
      <4>1. n \in DOMAIN stack' /\ stack'[n] = stack[n]
        BY <1>7, <3>2
      <4> QED
        BY <3>2, <4>1 DEF Framed
    <3>3. CASE Top.at = "invoke" /\ c = d
      <4>1. l \in DOMAIN stack' /\ stack'[l].at = "run" /\ stack'[l].c = d
        BY <1>7, <3>3
      <4> QED
        BY <4>1 DEF Framed
    <3> QED
      BY <1>1, <1>8, <2>1, <2>3, <3>1, <3>2, <3>3 DEF Framed
  <2> QED
    BY <2>2, <2>3
<1>18. Types' /\ Family'
  <2>1. Types /\ Family /\ made \in Nat /\ call \in [Objects -> Nat]
    BY DEF Sound, Types
  <2>2. Types' /\ made' \in Nat /\ made <= made'
    BY <1>2, <2>1 DEF Types
  <2>3. \A q, x \in Copies : InSlot(x, q)' <=> InSlot(x, q)
    BY <1>16
  <2> QED
    BY <1>2, <1>17, <2>1, <2>2, <2>3, FamilyStays
<1>19. \A d \in Copies : Unreached(d)' <=> Unreached(d) /\ ~(d = c /\ Top.at = "invoke")
  BY <1>2, <1>17 DEF Unreached
<1>20. ReachedOnce'
  <2>1. \A n \in Nat : \A f \in Activations : Makes(n, f)' =>
          \E e \in Activations : /\ Makes(n, e) /\ call[e.c] = call'[f.c]
                                 /\ ToCopy(f)' \subseteq ToCopy(e)
    BY <1>2, <1>9, <1>10 DEF SameLoop
  <2> QED
    BY <1>2, <1>19, <2>1, ReachedLess DEF Sound, Owing
<1>21. \A k, x : BySlot(k, x)' <=> BySlot(k, x)
  BY <1>2, <1>16 DEF BySlot
<1>22. CASE Top.at # "invoke"
  <2>1. \A k, x : ByCopy(k, x)' <=> ByCopy(k, x)
    BY <1>2, <1>19, <1>22 DEF ByCopy
  <2>2. UNCHANGED <<due, stray>>
    BY <1>2, <1>22 DEF Reaching
  <2>3. Exact' /\ stray' = {}
    BY <1>15, <1>21, <2>1, <2>2 DEF Sound, Owing, Exact, Claim
  <2> QED
    BY <1>2, <1>6, <1>12, <1>13, <1>14, <1>18, <1>20, <2>3 DEF Sound, Making, Owing
<1>23. CASE Top.at = "invoke"
  <2>1. /\ Reached(k0, o) /\ k0 \in Nat /\ o \in Uncopied
    BY <1>1, <1>2, <1>4, <1>23, Kinds DEF Reaching, Sound, Types, Uncopied
  <2>2. Unreached(c) /\ call[c] = k0 /\ origin[c] = o
    BY <1>1, <1>4, <1>5 DEF Unreached
  <2>3. \A k, x : ByCopy(k, x)' <=> ByCopy(k, x) /\ ~(k = k0 /\ x = o)
    <3>1. \A d \in Copies : Unreached(d) /\ call[d] = k0 /\ origin[d] = o => d = c
      BY <1>4, <2>2 DEF Sound, Owing, ReachedOnce
    <3> QED
      BY <1>2, <1>4, <1>19, <1>23, <2>2, <3>1 DEF ByCopy
  <2>4. ~BySlot(k0, o) /\ ~ByLoop(k0, o) /\ ByCopy(k0, o)
    <3>1. o \notin Outsiders
      BY <1>4, Kinds
    <3> QED
      BY <1>4, <2>2, <3>1 DEF BySlot, ByLoop, ByCopy, Sound, Owing, ReachedOnce
  <2>5. Claim(k0, o) /\ \A k, x : Claim(k, x)' <=> Claim(k, x) /\ ~(k = k0 /\ x = o)
    BY <1>15, <1>21, <2>3, <2>4 DEF Claim
  <2>6. Exact' /\ stray' = {}
    BY <2>1, <2>5, ReachedExact DEF Sound, Owing
  <2> QED
    BY <1>2, <1>6, <1>12, <1>13, <1>14, <1>18, <1>20, <2>6 DEF Sound, Making, Owing
<1> QED
  BY <1>22, <1>23
\* A sound copy is never corrupted: what the loop reads is there, there is
\* room for it, and as many slots are empty as it has emptied.
LEMMA NeverCorrupted == ASSUME IInv, Sound PROVE ~CopyCorrupted
<1> SUFFICES ASSUME CopyCorrupted
             PROVE  FALSE
  OBVIOUS
<1>1. TypeOK /\ stack # <<>> /\ Copying(Top)
  BY DEF IInv, CopyCorrupted, Reading, Looping, LoopDone
<1>2. LoopOK(Top) /\ Top.o \in Prototypes /\ Top.o \in Objects /\ Top.i \in Nat \ {0}
  BY <1>1, TopLoop, Unlabelled, Kinds
<1>3. Len(handlers[Top.o]) \in Nat /\ DOMAIN handlers[Top.o] = 1 .. Len(handlers[Top.o])
  BY <1>1, <1>2, Arrays
<1>4. \A n \in Nat : \A i \in Nat \ {0} : i <= n => i \in 1 .. n /\ ~(i - 1 >= n) /\ i >= i
  OBVIOUS
<1>5. Looping => Top.i \in DOMAIN handlers[Top.o]
  BY <1>2, <1>3, <1>4 DEF Looping
<1>6. Looping => Slot \notin {NoObject, Junk}
  BY <1>2, <1>4, <1>5, <1>3 DEF LoopOK, Slot, Looping
<1>7. Looping => ~(Len(handlers[Top.c]) >= Top.room)
  BY <1>2, <1>3, <1>4 DEF LoopOK, Looping
<1>8. LoopDone => ~(Top.moved > Cardinality(Empty(Top.o)))
  <2>1. Top.moved = Cardinality(Empty(Top.o)) /\ Top.moved \in Nat
    BY <1>1, <1>2, Unlabelled DEF LoopOK
  <2> QED
    BY <2>1
<1> QED
  BY <1>6, <1>7, <1>8 DEF CopyCorrupted, Reading

-----------------------------------------------------------------------------
(* HeardOnce.                                                              *)

LEMMA SoundInit == PrototypesInit => Sound
<1> SUFFICES ASSUME PrototypesInit
             PROVE  Sound
  OBVIOUS
<1>1. /\ handlers = [o \in Objects |-> <<>>] /\ used = {}
      /\ origin = [c \in Copies |-> NoObject] /\ call = [o \in Objects |-> 0] /\ made = 0
      /\ asleep = {} /\ stack = <<>> /\ crashed = FALSE /\ due = {} /\ stray = {}
  BY DEF PrototypesInit
<1>2. TypeOK /\ DOMAIN stack = {}
  BY <1>1, IInvInit DEF IInv
<1>3. \A o \in Objects : handlers[o] = <<>> /\ DOMAIN handlers[o] = {}
  BY <1>1
<1>4. Prototypes \subseteq Objects /\ Copies \subseteq Objects
  BY DEF Objects
<1>5. \A o \in Prototypes : Handled(o) = {} /\ DOMAIN handlers[o] = {}
  BY <1>2, <1>3, <1>4, HandledFacts
<1>6. Forest
  BY <1>3, <1>4, <1>5 DEF Forest, OneParent, NoCycle, Fresh, Prototypes
<1>7. \A n, f : ~Makes(n, f)
  BY <1>2 DEF Makes
<1>8. Making
  BY <1>3, <1>4, <1>7 DEF Making, Loops, Apart, AllWhole, Whole
<1>9. \A o \in Copies : \A x : ~InSlot(x, o)
  BY <1>3, <1>4 DEF InSlot
<1>10. Family
  BY <1>1, <1>9 DEF Family, Calls, SameCall, HasHolder, NoRing
<1>11. \A k, x : ~Claim(k, x)
  BY <1>1, <1>7, <1>9 DEF Claim, ByCopy, BySlot, ByLoop, Unreached
<1>12. Owing
  BY <1>1, <1>11 DEF Owing, Exact, ReachedOnce, Unreached
<1>13. Types
  BY <1>1 DEF Types
<1> QED
  BY <1>1, <1>6, <1>8, <1>10, <1>12, <1>13 DEF Sound

LEMMA SoundNext ==
  ASSUME IInv, IInv', Sound, ~spoiled', [PrototypesNext]_prototypesVars
  PROVE  Sound'
<1>1. CASE UNCHANGED prototypesVars
  <2>1. UNCHANGED <<handlers, used, origin, call, made, crashed, due, stray, stack, asleep>>
    BY <1>1 DEF prototypesVars, objects, history
  <2> QED
    BY <2>1, QuietSound DEF Makes, Ahead, Active, Framed
<1>2. CASE Machine
  BY <1>2, MoveOutsiderSound, CopyMadeSound, NeverCorrupted, CopyHandlerSound,
     NotifyPrototypeSound, NotifyPlainSound, NotifiedSound DEF Machine
<1>3. CASE Leave
  BY <1>3, ReturnSound, SuspendSound, ReleasedSound DEF Leave
<1>4. CASE \E c \in Copies : Resume(c)
  BY <1>4, ResumeSound
<1>5. CASE User
  BY <1>5, ThenSound, ChainSound, JoinSound, ForgetSound, InvokeSound DEF User
<1> QED
  BY <1>1, <1>2, <1>3, <1>4, <1>5 DEF PrototypesNext

\* What has spoiled a copy is not undone.
LEMMA SpoiledStays == spoiled /\ [PrototypesNext]_prototypesVars => spoiled'
BY DEF PrototypesNext, prototypesVars, objects, history, User, Then, Chain, Join, Forget, Invoke,
   Moves, Spoils, Machine, MoveOutsider, CopyMade, CopyCorrupted, CopyHandler, NotifyPrototype,
   Invoking, NotifyPlain, Notified, Leave, Return, Suspend, Released, Resume

\* An invocation with something left to reach has an activation or a generator.
LEMMA DueRuns == ASSUME IInv, Sound PROVE HeardOnce
<1> SUFFICES ASSUME NEW d \in due
             PROVE  Running(d[1])
  BY DEF HeardOnce, Sound, Owing
<1>1. PICK k \in Nat, x \in Uncopied : d = <<k, x>> /\ Claim(k, x)
  BY DEF Sound, Owing, Exact
<1>2. PICK S : S = {c \in Copies \cap used : call[c] = k}
  OBVIOUS
<1>3. S # {}
  <2>1. CASE ByCopy(k, x)
    BY <1>2, <2>1 DEF ByCopy, Unreached
  <2>2. CASE BySlot(k, x)
    BY <1>2, <2>2, SlotUsed DEF BySlot
  <2>3. CASE ByLoop(k, x)
    BY <1>2, <2>3, MakesFacts DEF ByLoop
  <2> QED
    BY <1>1, <2>1, <2>2, <2>3 DEF Claim
<1>4. PICK c \in S : \A o \in S : ~InSlot(c, o)
  BY <1>2, <1>3 DEF Sound, Family, NoRing
<1>5. \A o \in Copies : InSlot(c, o) => o \in S
  BY <1>2, SlotUsed DEF Sound, Family, SameCall
<1>6. Framed(c) /\ c # NoObject
  BY <1>2, <1>4, <1>5, Kinds DEF Sound, Family, HasHolder
<1> QED
  BY <1>1, <1>2, <1>6 DEF Framed, Running

(***************************************************************************)
(* HeardOnce: an invocation of a sequence is heard by exactly those who    *)
(* were listening when it was made, once each, whatever they subscribed,   *)
(* left or invoked meanwhile, and no array is read or written outside      *)
(* what it holds (ion_promisor_clone(), ion_promisor_resolve()).           *)
(***************************************************************************)
THEOREM Heard == PrototypesSpec => []HeardOnce
<1>1. PrototypesInit => HInv
  BY IInvInit, SoundInit DEF HInv
<1>2. HInv /\ [PrototypesNext]_prototypesVars => HInv'
  BY IInvNext, SoundNext, SpoiledStays DEF HInv
<1>3. HInv => HeardOnce
  BY DueRuns DEF HInv, HeardOnce
<1> QED
  BY <1>1, <1>2, <1>3, PTL DEF PrototypesSpec
=============================================================================
