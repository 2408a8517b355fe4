--------------------------- MODULE PromisorProofs ---------------------------
(***************************************************************************)
(* What the promise core keeps, for any number of promises, any class of   *)
(* promise and any depth of the stack.  A theorem excludes only those of   *)
(* the program's unguarded calls that really break what it states; TLC     *)
(* shows those breaking it.                                                *)
(*   IInv      the stack is well formed and no wakeup is lost              *)
(*   Ordered   who runs, who waits and who is still to be notified         *)
(*   Intact    the notification loops meet promises only                   *)
(***************************************************************************)
EXTENDS Promisor, HandlerArrayProofs

\* forget() of a promise that notifies makes its loop miss a handler.
WakeupsSafe == "reforget" \notin Liberties => NoLostWakeup

IInv == TypeOK /\ StackDiscipline /\ WakeupsSafe

-----------------------------------------------------------------------------
(* What the stack operations do. *)

LEMMA Positive == \A n \in Nat : n # 0 => n = 1 \/ n > 1
OBVIOUS

LEMMA LastOrBelow == \A n \in Nat : \A k \in 1 .. n : k = n \/ k \in 1 .. n - 1
OBVIOUS

LEMMA LastOrNew == \A n \in Nat : \A k \in 1 .. n + 1 : k = n + 1 \/ k \in 1 .. n
OBVIOUS

LEMMA InRange ==
  ASSUME NEW s \in Seq(Frame)
  PROVE  \A k \in DOMAIN s : s[k] \in Frame /\ s[k].p \in Promises
<1>1. \A k \in DOMAIN s : s[k] \in Frame
  OBVIOUS
<1>2. \A f \in Frame : f.p \in Promises
  BY DEF Frame
<1> QED
  BY <1>1, <1>2

LEMMA PushFacts ==
  ASSUME NEW s \in Seq(Frame), NEW f \in Frame
  PROVE  /\ Push(s, f) \in Seq(Frame)
         /\ Len(s) \in Nat /\ Len(Push(s, f)) = Len(s) + 1
         /\ DOMAIN Push(s, f) = 1 .. Len(s) + 1 /\ DOMAIN s = 1 .. Len(s)
         /\ \A k \in DOMAIN s : k \in DOMAIN Push(s, f) /\ Push(s, f)[k] = s[k]
         /\ \A k \in 1 .. Len(s) : Push(s, f)[k] = s[k]
         /\ Push(s, f)[Len(s) + 1] = f
BY DEF Push

LEMMA AppendHasLast ==
  ASSUME NEW S, NEW s \in Seq(S), NEW e \in S
  PROVE  \E j \in DOMAIN Append(s, e) : Append(s, e)[j] = e
<1>1. Len(s) + 1 \in DOMAIN Append(s, e) /\ Append(s, e)[Len(s) + 1] = e
  OBVIOUS
<1> QED
  BY <1>1

LEMMA SlotFacts ==
  ASSUME NEW S, NEW s \in Seq(S), NEW i \in Nat, NEW e \in S
  PROVE  /\ [s EXCEPT ![i] = e] \in Seq(S)
         /\ DOMAIN [s EXCEPT ![i] = e] = DOMAIN s
         /\ \A j \in DOMAIN s : j # i => [s EXCEPT ![i] = e][j] = s[j]
<1>1. CASE i \in 1 .. Len(s)
  BY <1>1
<1>2. CASE i \notin 1 .. Len(s)
  <2>1. DOMAIN s = 1 .. Len(s) /\ s = [k \in 1 .. Len(s) |-> s[k]]
    OBVIOUS
  <2>2. [s EXCEPT ![i] = e] = s
    BY <1>2, <2>1
  <2> QED
    BY <2>2
<1> QED
  BY <1>1, <1>2

LEMMA TopFacts ==
  ASSUME NEW s \in Seq(Frame), s # <<>>
  PROVE  /\ Len(s) \in Nat /\ Len(s) # 0
         /\ Len(s) \in DOMAIN s /\ DOMAIN s = 1 .. Len(s)
         /\ s[Len(s)] \in Frame
OBVIOUS

LEMMA BelowFacts ==
  ASSUME NEW s \in Seq(Frame), s # <<>>
  PROVE  /\ Below(s) \in Seq(Frame)
         /\ Len(Below(s)) = Len(s) - 1
         /\ DOMAIN Below(s) = 1 .. Len(s) - 1
         /\ \A k \in 1 .. Len(s) - 1 : Below(s)[k] = s[k]
<1>1. CASE Len(s) = 1
  BY <1>1 DEF Below
<1>2. CASE Len(s) > 1
  BY <1>2 DEF Below
<1> QED
  BY <1>1, <1>2, TopFacts, Positive, Zenon

LEMMA WithTopFacts ==
  ASSUME NEW s \in Seq(Frame), s # <<>>, NEW f \in Frame
  PROVE  /\ WithTop(s, f) \in Seq(Frame)
         /\ Len(WithTop(s, f)) = Len(s)
         /\ DOMAIN WithTop(s, f) = 1 .. Len(s)
         /\ \A k \in 1 .. Len(s) - 1 : WithTop(s, f)[k] = s[k]
         /\ WithTop(s, f)[Len(s)] = f
BY DEF WithTop
-----------------------------------------------------------------------------
(* What forget() does to an array of handlers.                             *)

\* The lists of handlers before and after: what stays keeps its order, what was
\* a promise stays one, and nothing that was not there appears.
LEMMA ForgottenFacts ==
  ASSUME NEW s \in Seq(Promises \cup {None, Junk}), NEW h \in Promises
  PROVE  /\ Forgotten(s, h) \in Seq(Promises \cup {None, Junk})
         /\ \A n \in DOMAIN Forgotten(s, h) : Forgotten(s, h)[n] \in Promises =>
              \E j \in DOMAIN s : n <= j /\ s[j] = Forgotten(s, h)[n]
         /\ \A m, n \in DOMAIN Forgotten(s, h) :
              m # n /\ Forgotten(s, h)[m] \in Promises
              /\ Forgotten(s, h)[m] = Forgotten(s, h)[n] =>
              \E i, j \in DOMAIN s : /\ i # j /\ m <= i /\ n <= j
                                     /\ s[i] = Forgotten(s, h)[m] /\ s[j] = s[i]
         /\ \A j \in DOMAIN s : s[j] \in Promises \ {h} =>
              \E n \in DOMAIN Forgotten(s, h) : Forgotten(s, h)[n] = s[j]
         /\ (\A j \in DOMAIN s : s[j] \in Promises) =>
              \A n \in DOMAIN Forgotten(s, h) : Forgotten(s, h)[n] \in Promises
         /\ s = <<>> => Forgotten(s, h) = <<>>
<1> DEFINE R == {k \in DOMAIN s : s[k] = h}
           gone == {h, None}
           n == Cardinality(R)
<1>1. Forgotten(s, h) = Cleaned(s, gone, n)
  BY DEF Forgotten, Removed
<1>2. IsFiniteSet(1 .. Len(s)) /\ Len(s) \in Nat /\ DOMAIN s = 1 .. Len(s)
  <2>1. Len(s) \in Nat /\ Len(s) \in Int /\ 1 \in Int
    OBVIOUS
  <2> QED
    BY <2>1, FS_Interval
<1>3. R \in SUBSET Emptied(s, gone) /\ Emptied(s, gone) \in SUBSET (1 .. Len(s))
  BY DEF Emptied
<1>4. IsFiniteSet(Emptied(s, gone)) /\ IsFiniteSet(R) /\ n <= Cardinality(Emptied(s, gone)) /\ n \in Nat
  <2> HIDE DEF R, gone
  <2>1. IsFiniteSet(Emptied(s, gone))
    BY <1>2, <1>3, FS_Subset
  <2>2. IsFiniteSet(R) /\ Cardinality(R) <= Cardinality(Emptied(s, gone))
    BY <1>3, <2>1, FS_Subset
  <2>3. Cardinality(R) \in Nat
    BY <2>2, FS_CardinalityType
  <2> QED
    BY <2>1, <2>2, <2>3
<1>5. (\A j \in DOMAIN s : s[j] \in Promises) => n = Cardinality(Emptied(s, gone))
  BY TokensAssumption DEF Emptied, Data
<1>6. s = <<>> => n = 0
  <2>1. s = <<>> => R = {}
    OBVIOUS
  <2> HIDE DEF R
  <2> QED
    BY <2>1, FS_EmptySet
<1>7. \A p \in Promises : p # Junk /\ (p # h => p \notin gone)
  BY TokensAssumption DEF Data
<1> DEFINE t == Cleaned(s, gone, n)
<1>8. /\ t \in Seq(Promises \cup {None, Junk})
      /\ n = 0 => t = s
      /\ \A k \in DOMAIN t : t[k] # Junk => \E j \in DOMAIN s : k <= j /\ s[j] = t[k]
      /\ \A k, l \in DOMAIN t : k # l /\ t[k] # Junk /\ t[k] = t[l] =>
           \E i, j \in DOMAIN s : /\ i # j /\ k <= i /\ l <= j
                                  /\ s[i] = t[k] /\ s[j] = s[i]
      /\ \A j \in DOMAIN s : s[j] \notin gone => \E k \in DOMAIN t : t[k] = s[j]
      /\ n = Cardinality(Emptied(s, gone)) =>
           \A k \in DOMAIN t : \E j \in DOMAIN s : s[j] = t[k]
  <2>1. (Promises \cup {None}) \cup {Junk} = Promises \cup {None, Junk}
    OBVIOUS
  <2>2. s \in Seq((Promises \cup {None}) \cup {Junk})
    BY <2>1
  <2> HIDE DEF gone, n
  <2> QED
    BY <1>4, <2>1, <2>2, CleanedFacts
<1> HIDE DEF t, gone, n
<1> QED
  BY <1>1, <1>5, <1>6, <1>7, <1>8 DEF t
-----------------------------------------------------------------------------
(* What the rest of the invariant needs of a step: an awaiting promise     *)
(* stays covered when the arrays of handlers only grow, every notification *)
(* loop stays where it is, and no promise is settled.                      *)

HandlersGrow == \A q \in Promises : \A j \in DOMAIN handlers[q] :
                  j \in DOMAIN handlers'[q] /\ handlers'[q][j] = handlers[q][j]

NoneSettled == \A x \in Promises : Finished(x)' <=> Finished(x)

LEMMA CoveredStays ==
  ASSUME NEW s \in Seq(Frame), NEW x \in Promises, Covered(x, s),
         TypeOK, await'[x] \in {await[x], None}, HandlersGrow, NoneSettled,
         \A k \in DOMAIN s : s[k].at \in Notifying =>
            k \in DOMAIN stack' /\ stack'[k] = s[k]
  PROVE  Covered(x, stack)'
<1> SUFFICES ASSUME await'[x] # None, ~Finished(x)'
             PROVE  \/ ~Finished(await[x])' /\ Registered(x, await[x])'
                    \/ \E k \in DOMAIN stack' : /\ stack'[k].at \in Notifying
                                                /\ stack'[k].p = await'[x]
                                                /\ StillToServe(stack[k], x)'
  BY DEF Covered
<1>1. await'[x] = await[x] /\ await[x] \in Promises /\ ~Finished(x)
  BY DEF TypeOK, NoneSettled
<1>2. CASE ~Finished(await[x]) /\ Registered(x, await[x])
  <2>1. ~Finished(await[x])'
    BY <1>1, <1>2 DEF NoneSettled, Finished
  <2>2. Registered(x, await[x])'
    BY <1>1, <1>2 DEF HandlersGrow, Registered
  <2> QED
    BY <2>1, <2>2
<1>3. ASSUME NEW k \in DOMAIN s, s[k].at \in Notifying, s[k].p = await[x],
             StillToServe(s[k], x)
      PROVE  /\ k \in DOMAIN stack' /\ stack'[k].at \in Notifying
             /\ stack'[k].p = await'[x] /\ StillToServe(stack[k], x)'
  <2>1. k \in DOMAIN stack' /\ stack'[k] = s[k]
    BY <1>3
  <2>2. StillToServe(stack[k], x)'
    BY <2>1, <1>1, <1>3 DEF StillToServe, HandlersGrow
  <2> QED
    BY <2>1, <2>2, <1>3, <1>1
<1> QED
  BY <1>1, <1>2, <1>3 DEF Covered

(* The stack stays disciplined when it loses its top, or its top moves to  *)
(* another label that is not one of a notification loop it was not in.     *)
LEMMA DisciplineStays ==
  ASSUME StackDiscipline, TypeOK, NoneSettled, DOMAIN stack' \subseteq DOMAIN stack,
         \A k \in DOMAIN stack' :
           /\ stack'[k].p = stack[k].p /\ stack[k].p \in Promises
           /\ stack'[k].at \in Notifying => stack[k].at \in Notifying
           /\ stack'[k].at # "call" => stack'[k].type # {}
  PROVE  StackDiscipline'
<1> SUFFICES ASSUME NEW k \in DOMAIN stack'
             PROVE  /\ stack'[k].at \in Notifying =>
                         /\ Finished(stack[k].p)'
                         /\ \A j \in DOMAIN stack' : k < j => stack'[j].p # stack'[k].p
                    /\ stack'[k].at # "call" => stack'[k].type # {}
  BY DEF StackDiscipline, Disciplined
<1>1. ASSUME stack'[k].at \in Notifying
      PROVE  /\ Finished(stack[k].p)
             /\ \A j \in DOMAIN stack : k < j => stack[j].p # stack[k].p
  BY <1>1 DEF StackDiscipline, Disciplined
<1> QED
  BY <1>1 DEF NoneSettled
-----------------------------------------------------------------------------
(* An activation moves inside ion_promisor_resolve() without settling,     *)
(* waiting or notifying.                                                   *)
LEMMA InnerKeeps ==
  ASSUME IInv, stack # <<>>, Top.at \notin Notifying,
         NEW f \in Frame, f.p = Top.p, f.at \notin Notifying, f.type # {},
         Replace(f), generator' \subseteq Promises, UNCHANGED kept
  PROVE  IInv'
<1>0. stack \in Seq(Frame)
  BY DEF IInv, TypeOK
<1>1. /\ Len(stack) \in Nat /\ Len(stack) # 0
      /\ Len(stack) \in DOMAIN stack
      /\ DOMAIN stack = 1 .. Len(stack) /\ Top \in Frame
  BY <1>0, TopFacts DEF Top
<1>2. /\ stack' \in Seq(Frame)
      /\ DOMAIN stack' = 1 .. Len(stack)
      /\ \A k \in 1 .. Len(stack) - 1 : stack'[k] = stack[k]
      /\ stack'[Len(stack)] = f
  BY <1>0, WithTopFacts, Zenon DEF Replace
<1>3. NoneSettled
  BY DEF NoneSettled, Finished, kept
<1>4. TypeOK'
  BY <1>2 DEF IInv, TypeOK, kept
<1>5. StackDiscipline'
  <2>1. \A k \in 1 .. Len(stack) : k = Len(stack) \/ k \in 1 .. Len(stack) - 1
    BY <1>1, LastOrBelow, Zenon
  <2>2. ASSUME NEW k \in DOMAIN stack'
        PROVE  /\ stack'[k].p = stack[k].p /\ stack[k].p \in Promises
               /\ stack'[k].at \in Notifying => stack[k].at \in Notifying
               /\ stack'[k].at # "call" => stack'[k].type # {}
    <3>1. CASE k = Len(stack)
      BY <3>1, <1>1, <1>2 DEF Top, Frame
    <3>2. CASE k \in 1 .. Len(stack) - 1
      <4>1. stack'[k] = stack[k] /\ k \in DOMAIN stack /\ stack[k] \in Frame
        BY <3>2, <1>0, <1>1, <1>2
      <4> QED
        BY <4>1 DEF IInv, StackDiscipline, Disciplined, Frame
    <3> QED
      BY <2>1, <2>2, <3>1, <3>2, <1>2
  <2> QED
    BY <1>1, <1>2, <1>3, <2>2, DisciplineStays DEF IInv
<1>6. WakeupsSafe'
  <2> SUFFICES ASSUME "reforget" \notin Liberties
               PROVE  NoLostWakeup'
    BY DEF WakeupsSafe
  <2>1. HandlersGrow
    BY DEF HandlersGrow, kept
  <2>2. ASSUME NEW k \in DOMAIN stack, stack[k].at \in Notifying
        PROVE  k \in DOMAIN stack' /\ stack'[k] = stack[k]
    BY <2>2, <1>1, <1>2 DEF Top
  <2>3. ASSUME NEW x \in Promises
        PROVE  Covered(x, stack)'
    <3>1. Covered(x, stack) /\ await'[x] \in {await[x], None} /\ TypeOK
      BY DEF IInv, WakeupsSafe, NoLostWakeup, kept
    <3> QED
      BY <3>1, <1>0, <1>3, <2>1, <2>2, CoveredStays
  <2> QED
    BY <2>3 DEF NoLostWakeup
<1> QED
  BY <1>4, <1>5, <1>6 DEF IInv
-----------------------------------------------------------------------------
(* ion_promisor_resolve(p, v, t) is entered from a stack that is           *)
(* disciplined and covers every waiting promise but p, which this call     *)
(* wakes.                                                                  *)
LEMMA EnterKeeps ==
  ASSUME TypeOK, NEW rest \in Seq(Frame), Disciplined(rest),
         NEW p \in Promises,
         "reforget" \notin Liberties => \A x \in Promises : x = p \/ Covered(x, rest),
         NEW v \in Data \cup {None}, NEW t, t \cap Outcome # {},
         Enter(p, v, t, rest), HandlersGrow
  PROVE  /\ flags' \in [Promises -> SUBSET (Outcome \cup {"processing"})]
         /\ await' \in [Promises -> Promises \cup {None}]
         /\ stack' \in Seq(Frame) /\ StackDiscipline' /\ WakeupsSafe'
<1> DEFINE Settling == stack' = rest
           Pushing == \E f \in Frame : /\ stack' = Push(rest, f) /\ f.p = p
                                       /\ f.at \in {"call", "watch", "resolved"}
                                       /\ f.at # "call" => f.type # {}
<1>1. /\ flags' \in [Promises -> SUBSET (Outcome \cup {"processing"})]
      /\ await' \in [Promises -> Promises \cup {None}]
      /\ \A x \in Promises : await'[x] \in {await[x], None}
      /\ await'[p] = None \/ Finished(p)
      /\ NoneSettled
  BY DEF Enter, EnterFinished, EnterAwaiting, EnterPending, TypeOK, NoneSettled,
         Finished, Outcome
<1>2. Settling \/ (~Finished(p) /\ Pushing)
  <2>1. CASE EnterFinished(p, rest)
    BY <2>1 DEF EnterFinished
  <2>2. CASE EnterAwaiting(p, v, t, rest)
    <3> DEFINE f == NewFrame(IF p \in generator THEN "watch" ELSE "resolved", p, v, t \cap Outcome)
    <3>1. /\ f \in Frame /\ f.p = p /\ f.at \in {"call", "watch", "resolved"}
          /\ f.type # {}
      BY DEF NewFrame, Frame, Label
    <3> QED
      BY <2>2, <3>1 DEF EnterAwaiting
  <2>3. CASE EnterPending(p, v, t, rest)
    <3>1. NewFrame("call", p, None, {}) \in Frame
      BY DEF NewFrame, Frame, Label
    <3>2. NewFrame("resolved", p, v, t \cap Outcome) \in Frame
      BY DEF NewFrame, Frame, Label
    <3> QED
      BY <2>3, <3>1, <3>2 DEF EnterPending, NewFrame
  <2> QED
    BY <2>1, <2>2, <2>3 DEF Enter
<1>3. stack' \in Seq(Frame) /\ \A k \in DOMAIN rest : k \in DOMAIN stack' /\ stack'[k] = rest[k]
  <2>1. CASE Settling
    BY <2>1
  <2>2. CASE Pushing
    <3>1. PICK f \in Frame : stack' = Push(rest, f)
      BY <2>2
    <3>2. /\ Push(rest, f) \in Seq(Frame)
          /\ \A k \in DOMAIN rest : k \in DOMAIN Push(rest, f) /\ Push(rest, f)[k] = rest[k]
      BY PushFacts
    <3> QED
      BY <3>1, <3>2
  <2> QED
    BY <1>2, <2>1, <2>2
<1>4. StackDiscipline'
  <2>1. CASE Settling
    <3>1. stack' = rest
      BY <2>1
    <3>2. \A k \in DOMAIN rest : rest[k] \in Frame /\ rest[k].p \in Promises
      BY InRange
    <3> QED
      BY <3>1, <3>2, <1>1 DEF StackDiscipline, Disciplined, NoneSettled
  <2>2. CASE ~Finished(p) /\ Pushing
    <3>1. PICK f \in Frame : /\ stack' = Push(rest, f) /\ f.p = p
                             /\ f.at \in {"call", "watch", "resolved"}
                             /\ f.at # "call" => f.type # {}
      BY <2>2
    <3>2. /\ DOMAIN stack' = 1 .. Len(rest) + 1 /\ DOMAIN rest = 1 .. Len(rest)
          /\ \A k \in 1 .. Len(rest) : stack'[k] = rest[k]
          /\ stack'[Len(rest) + 1] = f
          /\ Len(rest) \in Nat
      <4>1. /\ DOMAIN Push(rest, f) = 1 .. Len(rest) + 1 /\ DOMAIN rest = 1 .. Len(rest)
            /\ \A k \in 1 .. Len(rest) : Push(rest, f)[k] = rest[k]
            /\ Push(rest, f)[Len(rest) + 1] = f
            /\ Len(rest) \in Nat
        BY PushFacts
      <4> QED
        BY <3>1, <4>1
    <3>3. \A k \in 1 .. Len(rest) + 1 : k = Len(rest) + 1 \/ k \in 1 .. Len(rest)
      BY <3>2, LastOrNew, Zenon
    <3>4. \A k \in 1 .. Len(rest) : rest[k] \in Frame /\ rest[k].p \in Promises
      BY <3>2, InRange
    <3> SUFFICES ASSUME NEW k \in 1 .. Len(rest) + 1
                 PROVE  /\ stack'[k].at \in Notifying =>
                             /\ Finished(stack[k].p)'
                             /\ \A j \in 1 .. Len(rest) + 1 :
                                  k < j => stack'[j].p # stack'[k].p
                        /\ stack'[k].at # "call" => stack'[k].type # {}
      BY <3>2 DEF StackDiscipline, Disciplined
    <3>5. CASE k = Len(rest) + 1
      BY <3>1, <3>2, <3>5 DEF Notifying
    <3>6. CASE k \in 1 .. Len(rest)
      <4>1. /\ stack'[k].at # "call" => stack'[k].type # {}
            /\ stack'[k].at \in Notifying =>
                 /\ Finished(stack'[k].p)
                 /\ \A j \in 1 .. Len(rest) : k < j => stack'[j].p # stack'[k].p
        BY <3>2, <3>6 DEF Disciplined
      <4>2. stack'[k].at \in Notifying => Finished(stack[k].p)'
        BY <4>1, <1>1, <3>2, <3>4, <3>6 DEF NoneSettled
      <4>3. stack'[k].at \in Notifying => stack'[Len(rest) + 1].p # stack'[k].p
        BY <4>1, <3>1, <3>2, <2>2
      <4> QED
        BY <4>1, <4>2, <4>3, <3>3
    <3> QED
      BY <3>3, <3>5, <3>6
  <2> QED
    BY <1>2, <2>1, <2>2
<1>5. WakeupsSafe'
  <2> SUFFICES ASSUME "reforget" \notin Liberties
               PROVE  NoLostWakeup'
    BY DEF WakeupsSafe
  <2>1. ASSUME NEW x \in Promises, x # p
        PROVE  Covered(x, stack)'
    <3>1. Covered(x, rest)
      BY <2>1
    <3> QED
      BY <3>1, <1>1, <1>3, CoveredStays
  <2>2. Covered(p, stack)'
    BY <1>1 DEF Covered, NoneSettled
  <2> QED
    BY <2>1, <2>2 DEF NoLostWakeup
<1> QED
  BY <1>1, <1>3, <1>4, <1>5
-----------------------------------------------------------------------------
(* The actions of the program.                                             *)

LEMMA Unwound ==
  ASSUME IInv
  PROVE  /\ stack \in Seq(Frame) /\ Disciplined(stack) /\ TypeOK
         /\ "reforget" \notin Liberties => \A x \in Promises : Covered(x, stack)
BY DEF IInv, TypeOK, StackDiscipline, WakeupsSafe, NoLostWakeup

(* A call that enters ion_promisor_resolve() and touches nothing else.     *)
LEMMA CallKeeps ==
  ASSUME IInv, NEW p \in Promises, NEW v \in Data \cup {None},
         NEW t, t \cap Outcome # {}, Enter(p, v, t, stack),
         canceled' \subseteq Promises, live' \subseteq Promises,
         UNCHANGED <<cbs, result, generator, handlers, crashed>>
  PROVE  IInv'
<1>1. HandlersGrow
  BY DEF HandlersGrow
<1>2. /\ flags' \in [Promises -> SUBSET (Outcome \cup {"processing"})]
      /\ await' \in [Promises -> Promises \cup {None}]
      /\ stack' \in Seq(Frame) /\ StackDiscipline' /\ WakeupsSafe'
  BY <1>1, Unwound, EnterKeeps
<1> QED
  BY <1>2 DEF IInv, TypeOK

LEMMA SettleKeeps ==
  ASSUME IInv, NEW p \in Promises, NEW v \in Data, NEW o \in Outcome,
         Settle(p, v, {o})
  PROVE  IInv'
<1>1. {o} \cap Outcome # {}
  OBVIOUS
<1>2. live' \subseteq Promises /\ canceled' \subseteq Promises
  BY DEF Settle, IInv, TypeOK
<1> QED
  BY <1>1, <1>2, CallKeeps DEF Settle

LEMMA CancelKeeps ==
  ASSUME IInv, NEW p \in Promises, NEW v \in Data, Cancel(p, v)
  PROVE  IInv'
<1>1. {"failed", "canceled"} \cap Outcome # {}
  BY DEF Outcome
<1>2. live' \subseteq Promises /\ canceled' \subseteq Promises
  BY DEF Cancel, IInv, TypeOK
<1> QED
  BY <1>1, <1>2, CallKeeps DEF Cancel

LEMMA StartKeeps ==
  ASSUME IInv, NEW h \in Promises, NEW v \in Data, Start(h, v)
  PROVE  IInv'
<1>1. {"done"} \cap Outcome # {}
  BY DEF Outcome
<1>2. live' \subseteq Promises /\ canceled' \subseteq Promises
  BY DEF Start, IInv, TypeOK
<1> QED
  BY <1>1, <1>2, CallKeeps DEF Start

(* A handler is added at the end of an array.                              *)
LEMMA AppendKeeps ==
  ASSUME IInv, NEW p \in Promises, NEW h \in Promises,
         handlers' = [handlers EXCEPT ![p] = Append(@, h)],
         live' \subseteq Promises,
         UNCHANGED <<flags, canceled, cbs, result, await, generator, stack, crashed>>
  PROVE  IInv'
<1>1. handlers' \in [Promises -> Seq(Promises \cup {None, Junk})]
  BY DEF IInv, TypeOK
<1>2. HandlersGrow
  BY DEF HandlersGrow, IInv, TypeOK
<1>3. NoneSettled
  BY DEF NoneSettled, Finished
<1>4. TypeOK'
  BY <1>1 DEF IInv, TypeOK
<1>5. StackDiscipline'
  BY DEF IInv, StackDiscipline, Disciplined, Finished
<1>6. WakeupsSafe'
  <2> SUFFICES ASSUME "reforget" \notin Liberties
               PROVE  NoLostWakeup'
    BY DEF WakeupsSafe
  <2>1. ASSUME NEW x \in Promises
        PROVE  Covered(x, stack)'
    <3>1. await'[x] \in {await[x], None}
      OBVIOUS
    <3>2. \A k \in DOMAIN stack : k \in DOMAIN stack' /\ stack'[k] = stack[k]
      OBVIOUS
    <3> QED
      BY <3>1, <3>2, <1>2, <1>3, Unwound, CoveredStays
  <2> QED
    BY <2>1 DEF NoLostWakeup
<1> QED
  BY <1>4, <1>5, <1>6 DEF IInv

LEMMA ThenKeeps ==
  ASSUME IInv, NEW p \in Promises, NEW h \in Promises, Then(p, h)
  PROVE  IInv'
<1>1. live' \subseteq Promises /\ canceled' \subseteq Promises
  BY DEF Then, IInv, TypeOK
<1>2. CASE Finished(p) /\ Enter(h, result[p], flags[p] \cap Outcome, stack)
           /\ UNCHANGED handlers
  <2>1. (flags[p] \cap Outcome) \cap Outcome # {} /\ result[p] \in Data \cup {None}
    BY <1>2 DEF Finished, IInv, TypeOK
  <2> QED
    BY <1>1, <1>2, <2>1, CallKeeps DEF Then
<1>3. CASE ~Finished(p)
  BY <1>1, <1>3, AppendKeeps DEF Then
<1> QED
  BY <1>2, <1>3 DEF Then

LEMMA ChainKeeps ==
  ASSUME IInv, NEW p \in Promises, NEW h \in Promises, Chain(p, h)
  PROVE  IInv'
<1>1. live' \subseteq Promises
  BY DEF Chain, IInv, TypeOK
<1> QED
  BY <1>1, AppendKeeps DEF Chain

(* A handler leaves an array: forget() of the promise it waits for, or of  *)
(* one that is being notified, is not among what the program does.         *)
LEMMA ForgetKeeps ==
  ASSUME IInv, NEW p \in Promises, NEW h \in Promises, Forget(p, h)
  PROVE  IInv'
<1>1. /\ handlers \in [Promises -> Seq(Promises \cup {None, Junk})]
      /\ handlers' = [handlers EXCEPT ![p] = Forgotten(handlers[p], h)]
      /\ UNCHANGED <<live, flags, canceled, cbs, result, await, generator, stack, crashed>>
  BY DEF Forget, IInv, TypeOK
<1>2. /\ handlers[p] \in Seq(Promises \cup {None, Junk})
      /\ Forgotten(handlers[p], h) \in Seq(Promises \cup {None, Junk})
      /\ \A j \in DOMAIN handlers[p] : handlers[p][j] \in Promises \ {h} =>
           \E n \in DOMAIN Forgotten(handlers[p], h) :
             Forgotten(handlers[p], h)[n] = handlers[p][j]
  BY <1>1, ForgottenFacts
<1>3. TypeOK'
  BY <1>1, <1>2 DEF IInv, TypeOK
<1>4. StackDiscipline'
  BY <1>1 DEF IInv, StackDiscipline, Disciplined, Finished
<1>5. WakeupsSafe'
  <2> SUFFICES ASSUME "reforget" \notin Liberties
               PROVE  NoLostWakeup'
    BY DEF WakeupsSafe
  <2>1. await[h] # p /\ \A k \in DOMAIN stack : stack[k].p # p
    BY DEF Forget
  <2>2. ASSUME NEW x \in Promises, await[x] # None, ~Finished(x)
        PROVE  \/ ~Finished(await[x])' /\ Registered(x, await[x])'
               \/ \E k \in DOMAIN stack : /\ stack[k].at \in Notifying
                                          /\ stack[k].p = await[x]
                                          /\ StillToServe(stack[k], x)'
    <3>1. await[x] \in Promises
      BY <2>2 DEF IInv, TypeOK
    <3>2. CASE ~Finished(await[x]) /\ Registered(x, await[x])
      <4>1. Registered(x, await[x])'
        <5>1. CASE await[x] = p
          <6>1. x # h /\ \E j \in DOMAIN handlers[p] : handlers[p][j] = x
            BY <2>1, <3>2, <5>1 DEF Registered
          <6>2. \E n \in DOMAIN handlers'[p] : handlers'[p][n] = x
            BY <1>1, <1>2, <6>1
          <6> QED
            BY <1>1, <5>1, <6>2 DEF Registered
        <5>2. CASE await[x] # p
          BY <1>1, <3>1, <3>2, <5>2 DEF Registered
        <5> QED
          BY <5>1, <5>2
      <4> QED
        BY <1>1, <3>2, <4>1 DEF Finished
    <3>3. ASSUME NEW k \in DOMAIN stack, stack[k].at \in Notifying,
                 stack[k].p = await[x], StillToServe(stack[k], x)
          PROVE  StillToServe(stack[k], x)'
      BY <1>1, <2>1, <3>1, <3>3 DEF StillToServe
    <3> QED
      BY <2>2, <3>2, <3>3 DEF IInv, WakeupsSafe, NoLostWakeup, Covered
  <2>3. ASSUME NEW x \in Promises
        PROVE  Covered(x, stack)'
    <3>1. await'[x] = await[x] /\ (Finished(x)' <=> Finished(x)) /\ stack' = stack
      BY <1>1 DEF Finished
    <3> QED
      BY <2>2, <3>1 DEF Covered
  <2> QED
    BY <2>3 DEF NoLostWakeup
<1> QED
  BY <1>3, <1>4, <1>5 DEF IInv
-----------------------------------------------------------------------------
(* The actions that move an activation from label to label.                *)

LEMMA TopTyped ==
  ASSUME IInv, NEW l, TopAt(l)
  PROVE  /\ stack \in Seq(Frame) /\ stack # <<>> /\ Top \in Frame /\ Top.at = l
         /\ Top.p \in Promises /\ Top.val \in Data \cup {None}
         /\ Top.type \subseteq Outcome /\ Top.i \in Nat
         /\ l # "call" => Top.type # {}
         /\ l \in Notifying => Finished(Top.p)
         /\ Len(stack) \in Nat /\ Len(stack) \in DOMAIN stack
         /\ DOMAIN stack = 1 .. Len(stack)
<1>1. stack \in Seq(Frame) /\ stack # <<>> /\ Top.at = l
  BY DEF TopAt, IInv, TypeOK
<1>2. /\ Len(stack) \in Nat /\ Len(stack) \in DOMAIN stack
      /\ DOMAIN stack = 1 .. Len(stack) /\ Top \in Frame
  BY <1>1, TopFacts DEF Top
<1>3. /\ l # "call" => Top.type # {}
      /\ l \in Notifying => Finished(Top.p)
  BY <1>1, <1>2 DEF IInv, StackDiscipline, Disciplined, Top
<1> QED
  BY <1>1, <1>2, <1>3 DEF Frame

LEMMA ReturnKeeps ==
  ASSUME IInv, NEW v \in Data, NEW skip \in BOOLEAN, Return(v, skip)
  PROVE  IInv'
<1> DEFINE f == [NewFrame("watch", Top.p, v, {"done"}) EXCEPT !.skip = skip]
<1>1. TopAt("call") /\ Replace(f) /\ UNCHANGED generator /\ UNCHANGED kept
  BY DEF Return
<1>0. stack # <<>> /\ Top \in Frame /\ Top.at = "call" /\ (Top.at # "call" => Top.type # {})
  BY <1>1, TopTyped
<1>2. /\ f \in Frame /\ f.p = Top.p /\ f.at \notin Notifying /\ f.type # {}
      /\ stack # <<>> /\ Top.at \notin Notifying
  BY <1>0 DEF NewFrame, Frame, Label, Outcome, Notifying
<1>3. generator' \subseteq Promises
  BY <1>1 DEF IInv, TypeOK
<1> QED
  BY <1>1, <1>2, <1>3, InnerKeeps

LEMMA ThrowKeeps ==
  ASSUME IInv, NEW v \in Data, Throw(v)
  PROVE  IInv'
<1> DEFINE f == NewFrame("resolved", Top.p, v, {"failed"})
<1>1. TopAt("call") /\ Replace(f) /\ UNCHANGED generator /\ UNCHANGED kept
  BY DEF Throw
<1>0. stack # <<>> /\ Top \in Frame /\ Top.at = "call" /\ (Top.at # "call" => Top.type # {})
  BY <1>1, TopTyped
<1>2. /\ f \in Frame /\ f.p = Top.p /\ f.at \notin Notifying /\ f.type # {}
      /\ stack # <<>> /\ Top.at \notin Notifying
  BY <1>0 DEF NewFrame, Frame, Label, Outcome, Notifying
<1>3. generator' \subseteq Promises
  BY <1>1 DEF IInv, TypeOK
<1> QED
  BY <1>1, <1>2, <1>3, InnerKeeps

LEMMA YieldKeeps ==
  ASSUME IInv, NEW v \in Data, Yield(v)
  PROVE  IInv'
<1> DEFINE f == [Top EXCEPT !.at = "watch", !.val = v]
<1>1. TopAt("body") /\ Replace(f) /\ UNCHANGED generator /\ UNCHANGED kept
  BY DEF Yield
<1>0. stack # <<>> /\ Top \in Frame /\ Top.at = "body" /\ (Top.at # "call" => Top.type # {})
  BY <1>1, TopTyped
<1>2. /\ f \in Frame /\ f.p = Top.p /\ f.at \notin Notifying /\ f.type # {}
      /\ stack # <<>> /\ Top.at \notin Notifying
  BY <1>0 DEF Frame, Label, Notifying
<1>3. generator' \subseteq Promises
  BY <1>1 DEF IInv, TypeOK
<1> QED
  BY <1>1, <1>2, <1>3, InnerKeeps

LEMMA FinishKeeps ==
  ASSUME IInv, NEW v \in Data, NEW o \in Outcome, Finish(v, o)
  PROVE  IInv'
<1> DEFINE f == [Top EXCEPT !.at = "watch", !.val = v, !.type = {o},
                            !.skip = @ \/ o = "done"]
<1>1. TopAt("body") /\ Replace(f) /\ generator' = generator \ {Top.p} /\ UNCHANGED kept
  BY DEF Finish
<1>0. stack # <<>> /\ Top \in Frame /\ Top.at = "body" /\ (Top.at # "call" => Top.type # {})
  BY <1>1, TopTyped
<1>2. /\ f \in Frame /\ f.p = Top.p /\ f.at \notin Notifying /\ f.type # {}
      /\ stack # <<>> /\ Top.at \notin Notifying
  BY <1>0 DEF Frame, Label, Notifying
<1>3. generator' \subseteq Promises
  BY <1>1 DEF IInv, TypeOK
<1> QED
  BY <1>1, <1>2, <1>3, InnerKeeps

LEMMA WatchSettledKeeps ==
  ASSUME IInv, WatchSettled
  PROVE  IInv'
<1> DEFINE f == [Top EXCEPT !.val = result[Top.val], !.type = flags[Top.val] \cap Outcome]
<1>1. TopAt("watch") /\ Replace(f) /\ UNCHANGED generator /\ UNCHANGED kept
  BY DEF WatchSettled, kept
<1>2. Top.val \in Promises /\ flags[Top.val] \cap Outcome # {} /\ result[Top.val] \in Data \cup {None}
  BY DEF WatchSettled, Finished, IInv, TypeOK
<1>0. stack # <<>> /\ Top \in Frame /\ Top.at = "watch" /\ (Top.at # "call" => Top.type # {})
  BY <1>1, TopTyped
<1>3. /\ f \in Frame /\ f.p = Top.p /\ f.at \notin Notifying /\ f.type # {}
      /\ stack # <<>> /\ Top.at \notin Notifying
  BY <1>0, <1>2 DEF Frame, Label, Notifying
<1>4. generator' \subseteq Promises
  BY <1>1 DEF IInv, TypeOK
<1> QED
  BY <1>1, <1>3, <1>4, InnerKeeps

LEMMA WatchGeneratorKeeps ==
  ASSUME IInv, WatchGenerator
  PROVE  IInv'
<1> DEFINE f == [Top EXCEPT !.at = "body", !.val = None]
<1>1. TopAt("watch") /\ Replace(f) /\ UNCHANGED kept
  BY DEF WatchGenerator, kept
<1>0. stack # <<>> /\ Top \in Frame /\ Top.at = "watch" /\ (Top.at # "call" => Top.type # {})
  BY <1>1, TopTyped
<1>2. /\ f \in Frame /\ f.p = Top.p /\ f.at \notin Notifying /\ f.type # {}
      /\ stack # <<>> /\ Top.at \notin Notifying
  BY <1>0 DEF Frame, Label, Notifying
<1>3. generator' \subseteq Promises
  BY <1>1, TopTyped DEF WatchGenerator, IInv, TypeOK
<1> QED
  BY <1>1, <1>2, <1>3, InnerKeeps

LEMMA WatchPlainKeeps ==
  ASSUME IInv, WatchPlain
  PROVE  IInv'
<1> DEFINE f == [Top EXCEPT !.at = "resolved"]
<1>1. TopAt("watch") /\ Replace(f) /\ UNCHANGED generator /\ UNCHANGED kept
  BY DEF WatchPlain, kept
<1>0. stack # <<>> /\ Top \in Frame /\ Top.at = "watch" /\ (Top.at # "call" => Top.type # {})
  BY <1>1, TopTyped
<1>2. /\ f \in Frame /\ f.p = Top.p /\ f.at \notin Notifying /\ f.type # {}
      /\ stack # <<>> /\ Top.at \notin Notifying
  BY <1>0 DEF Frame, Label, Notifying
<1>3. generator' \subseteq Promises
  BY <1>1 DEF IInv, TypeOK
<1> QED
  BY <1>1, <1>2, <1>3, InnerKeeps

LEMMA ResumeKeeps ==
  ASSUME IInv, Resume
  PROVE  IInv'
<1> DEFINE refused == [Top EXCEPT !.at = "watch", !.val = AlreadyRunning, !.type = {"failed"}]
           resumed == [Top EXCEPT !.at = "body"]
<1>1. TopAt("resolved") /\ (Replace(refused) \/ Replace(resumed)) /\ UNCHANGED kept
  BY DEF Resume, kept
<1>0. stack # <<>> /\ Top \in Frame /\ Top.at = "resolved" /\ (Top.at # "call" => Top.type # {})
  BY <1>1, TopTyped
<1>2. /\ refused \in Frame /\ refused.p = Top.p /\ refused.at \notin Notifying
      /\ refused.type # {}
      /\ resumed \in Frame /\ resumed.p = Top.p /\ resumed.at \notin Notifying
      /\ resumed.type # {}
      /\ stack # <<>> /\ Top.at \notin Notifying
  BY <1>0 DEF Frame, Label, Notifying, Outcome, Data, Plain
<1>3. generator' \subseteq Promises
  BY DEF Resume, IInv, TypeOK
<1> QED
  BY <1>1, <1>2, <1>3, InnerKeeps
-----------------------------------------------------------------------------
(* The actions that wait, settle and notify.                               *)

LEMMA WatchPendingKeeps ==
  ASSUME IInv, WatchPending
  PROVE  IInv'
<1>p. PICK p \in Promises : p = Top.p
  BY TopTyped DEF WatchPending
<1>q. PICK q \in Promises : q = Top.val
  BY DEF WatchPending
<1>0. /\ TopAt("watch") /\ ~Finished(q)
      /\ await' = [await EXCEPT ![p] = q]
      /\ handlers' = [handlers EXCEPT ![q] = Append(@, p)]
      /\ stack' = Below(stack)
      /\ UNCHANGED <<live, flags, canceled, cbs, result, generator, crashed>>
  BY <1>p, <1>q DEF WatchPending
<1>1. /\ stack \in Seq(Frame) /\ stack # <<>> /\ Top.at \notin Notifying
      /\ Len(stack) \in Nat /\ DOMAIN stack = 1 .. Len(stack)
  BY <1>0, TopTyped DEF Notifying
<1>2. /\ stack' \in Seq(Frame)
      /\ DOMAIN stack' = 1 .. Len(stack) - 1
      /\ \A k \in 1 .. Len(stack) - 1 : stack'[k] = stack[k]
  BY <1>0, <1>1, BelowFacts
<1>3. \A k \in 1 .. Len(stack) : k = Len(stack) \/ k \in 1 .. Len(stack) - 1
  BY <1>1, LastOrBelow, Zenon
<1>4. NoneSettled
  BY <1>0 DEF NoneSettled, Finished
<1>5. HandlersGrow
  BY <1>0, <1>1 DEF HandlersGrow, IInv, TypeOK
<1>6. TypeOK'
  BY <1>0, <1>1, <1>2 DEF IInv, TypeOK
<1>7. StackDiscipline'
  <2>1. DOMAIN stack' \subseteq DOMAIN stack
    BY <1>1, <1>2
  <2>2. ASSUME NEW k \in DOMAIN stack'
        PROVE  /\ stack'[k].p = stack[k].p /\ stack[k].p \in Promises
               /\ stack'[k].at \in Notifying => stack[k].at \in Notifying
               /\ stack'[k].at # "call" => stack'[k].type # {}
    <3>1. stack'[k] = stack[k] /\ k \in DOMAIN stack /\ stack[k].p \in Promises
      BY <1>1, <1>2, <2>1, InRange
    <3> QED
      BY <3>1 DEF IInv, StackDiscipline, Disciplined
  <2> QED
    BY <1>4, <2>1, <2>2, DisciplineStays DEF IInv
<1>8. WakeupsSafe'
  <2> SUFFICES ASSUME "reforget" \notin Liberties
               PROVE  NoLostWakeup'
    BY DEF WakeupsSafe
  <2>1. ASSUME NEW k \in DOMAIN stack, stack[k].at \in Notifying
        PROVE  k \in DOMAIN stack' /\ stack'[k] = stack[k]
    BY <2>1, <1>1, <1>2, <1>3 DEF Top
  <2>2. ASSUME NEW x \in Promises, x # p
        PROVE  Covered(x, stack)'
    <3>1. await'[x] \in {await[x], None}
      BY <1>0, <2>2 DEF IInv, TypeOK
    <3> QED
      BY <3>1, <1>1, <1>4, <1>5, <2>1, Unwound, CoveredStays
  <2>3. Covered(p, stack)'
    <3>1. await'[p] = q
      BY <1>0, <1>1 DEF IInv, TypeOK
    <3>2. ~Finished(q)'
      BY <1>0 DEF Finished
    <3>3. \E j \in DOMAIN handlers'[q] : handlers'[q][j] = p
      <4>1. handlers'[q] = Append(handlers[q], p)
            /\ handlers[q] \in Seq(Promises \cup {None, Junk})
        BY <1>0 DEF IInv, TypeOK
      <4> QED
        BY <4>1, AppendHasLast
    <3>4. await'[p] # None => ~Finished(await[p])' /\ Registered(p, await[p])'
      BY <3>1, <3>2, <3>3 DEF Finished, Registered
    <3> QED
      BY <3>4 DEF Covered
  <2> QED
    BY <2>2, <2>3 DEF NoLostWakeup
<1> QED
  BY <1>6, <1>7, <1>8 DEF IInv

LEMMA SettledKeeps ==
  ASSUME IInv, Settled
  PROVE  IInv'
<1>p. PICK p \in Promises : p = Top.p
  BY TopTyped DEF Settled
<1>f. PICK f \in Frame : f = [Top EXCEPT !.at = "notify", !.i = 1]
  <2>1. Top \in Frame
    BY TopTyped DEF Settled
  <2>2. [Top EXCEPT !.at = "notify", !.i = 1] \in Frame
    BY <2>1 DEF Frame, Label
  <2> QED
    BY <2>2
<1>0. /\ stack \in Seq(Frame) /\ stack # <<>> /\ Top \in Frame /\ Top.at = "resolved"
      /\ Top.p = p /\ Top.type # {} /\ Top.type \subseteq Outcome
      /\ Top.val \in Data \cup {None}
      /\ Len(stack) \in Nat /\ Len(stack) \in DOMAIN stack
      /\ DOMAIN stack = 1 .. Len(stack)
  BY <1>p, TopTyped DEF Settled
<1>1. f.at = "notify" /\ f.p = p /\ f.type = Top.type /\ f.i = 1
  BY <1>0, <1>f DEF Frame
<1>2. /\ result' = [result EXCEPT ![p] = Top.val]
      /\ flags' = [flags EXCEPT ![p] = (@ \cup Top.type) \ {"processing"}]
      /\ cbs' = [cbs EXCEPT ![p] = {}]
      /\ UNCHANGED <<live, canceled, await, generator, handlers, crashed>>
  BY <1>p DEF Settled
<1>3. /\ stack' \in Seq(Frame)
      /\ DOMAIN stack' = 1 .. Len(stack)
      /\ \A k \in 1 .. Len(stack) - 1 : stack'[k] = stack[k]
      /\ stack'[Len(stack)] = f
  <2>1. stack' = WithTop(stack, f)
    BY <1>f DEF Settled, Replace
  <2> QED
    BY <2>1, <1>0, WithTopFacts
<1>4. \A k \in 1 .. Len(stack) : k = Len(stack) \/ k \in 1 .. Len(stack) - 1
  BY <1>0, LastOrBelow, Zenon
<1>5. /\ Finished(p)'
      /\ \A x \in Promises : Finished(x) => Finished(x)'
      /\ \A x \in Promises : x # p => (Finished(x)' <=> Finished(x))
  <2>1. "processing" \notin Outcome
    BY DEF Outcome
  <2> QED
    BY <1>0, <1>2, <2>1 DEF Finished, IInv, TypeOK
<1>6. TypeOK'
  BY <1>0, <1>2, <1>3 DEF IInv, TypeOK
<1>7. StackDiscipline'
  <2> SUFFICES ASSUME NEW k \in 1 .. Len(stack)
               PROVE  /\ stack'[k].at \in Notifying =>
                           /\ Finished(stack[k].p)'
                           /\ \A j \in 1 .. Len(stack) : k < j => stack'[j].p # stack'[k].p
                      /\ stack'[k].at # "call" => stack'[k].type # {}
    BY <1>3 DEF StackDiscipline, Disciplined
  <2>1. CASE k = Len(stack)
    BY <2>1, <1>0, <1>1, <1>3, <1>5
  <2>2. CASE k \in 1 .. Len(stack) - 1
    <3>1. stack'[k] = stack[k] /\ k \in DOMAIN stack /\ stack[k].p \in Promises
      BY <2>2, <1>0, <1>3, InRange
    <3>2. \A j \in 1 .. Len(stack) : stack'[j].p = stack[j].p
      BY <1>0, <1>1, <1>3, <1>4 DEF Top
    <3>3. /\ stack[k].at \in Notifying =>
               /\ Finished(stack[k].p)
               /\ \A j \in DOMAIN stack : k < j => stack[j].p # stack[k].p
          /\ stack[k].at # "call" => stack[k].type # {}
      BY <3>1 DEF IInv, StackDiscipline, Disciplined
    <3> QED
      BY <3>1, <3>2, <3>3, <1>0, <1>5
  <2> QED
    BY <2>1, <2>2, <1>4
<1>8. WakeupsSafe'
  <2> SUFFICES ASSUME "reforget" \notin Liberties
               PROVE  NoLostWakeup'
    BY DEF WakeupsSafe
  <2>1. ASSUME NEW x \in Promises, await[x] # None, ~Finished(x)'
        PROVE  \/ ~Finished(await[x])' /\ Registered(x, await[x])'
               \/ \E k \in 1 .. Len(stack) : /\ stack'[k].at \in Notifying
                                             /\ stack'[k].p = await[x]
                                             /\ StillToServe(stack[k], x)'
    <3>1. await[x] \in Promises /\ ~Finished(x) /\ await'[x] = await[x]
      BY <2>1, <1>2, <1>5 DEF IInv, TypeOK
    <3>2. CASE ~Finished(await[x]) /\ Registered(x, await[x]) /\ await[x] = p
      <4>1. \E j \in DOMAIN handlers'[p] : handlers'[p][j] = x /\ j >= 1
        BY <3>2, <1>2 DEF Registered, IInv, TypeOK
      <4>2. StillToServe(stack[Len(stack)], x)'
        BY <4>1, <1>0, <1>1, <1>3 DEF StillToServe
      <4> QED
        BY <4>2, <3>2, <1>0, <1>1, <1>3 DEF Notifying
    <3>3. CASE ~Finished(await[x]) /\ Registered(x, await[x]) /\ await[x] # p
      BY <3>1, <3>3, <1>2, <1>5 DEF Registered, Finished
    <3>4. ASSUME NEW k \in DOMAIN stack, stack[k].at \in Notifying,
                 stack[k].p = await[x], StillToServe(stack[k], x)
          PROVE  /\ k \in 1 .. Len(stack) /\ stack'[k].at \in Notifying
                 /\ stack'[k].p = await[x] /\ StillToServe(stack[k], x)'
      <4>1. stack'[k] = stack[k]
        BY <3>4, <1>0, <1>3, <1>4 DEF Top, Notifying
      <4> QED
        BY <3>4, <4>1, <1>0, <1>2 DEF StillToServe
    <3> QED
      BY <3>1, <3>2, <3>3, <3>4, <2>1 DEF IInv, WakeupsSafe, NoLostWakeup, Covered
  <2>2. ASSUME NEW x \in Promises
        PROVE  Covered(x, stack)'
    <3>1. await'[x] = await[x]
      BY <1>2
    <3> QED
      BY <3>1, <2>1, <1>3 DEF Covered
  <2> QED
    BY <2>2 DEF NoLostWakeup
<1> QED
  BY <1>6, <1>7, <1>8 DEF IInv

LEMMA NotifyHandlerKeeps ==
  ASSUME IInv, NotifyHandler
  PROVE  IInv'
<1>p. PICK p \in Promises : p = Top.p
  BY TopTyped DEF NotifyHandler
<1>h. PICK h \in Promises : h = handlers[p][Top.i]
  BY <1>p DEF NotifyHandler, Slot
<1>f. PICK f \in Frame : f = [Top EXCEPT !.at = "served"]
  <2>1. Top \in Frame
    BY TopTyped DEF NotifyHandler
  <2>2. [Top EXCEPT !.at = "served"] \in Frame
    BY <2>1 DEF Frame, Label
  <2> QED
    BY <2>2
<1>0. /\ stack \in Seq(Frame) /\ stack # <<>> /\ Top \in Frame /\ Top.at = "notify"
      /\ Top.p = p /\ Top.type # {} /\ Top.type \subseteq Outcome
      /\ Top.val \in Data \cup {None} /\ Top.i \in Nat
      /\ Len(stack) \in Nat /\ Len(stack) \in DOMAIN stack
      /\ DOMAIN stack = 1 .. Len(stack) /\ Finished(p)
  BY <1>p, TopTyped DEF NotifyHandler, Notifying
<1>1. f.at = "served" /\ f.p = p /\ f.type = Top.type /\ f.i = Top.i
  BY <1>0, <1>f DEF Frame
<1>2. PICK rest \in Seq(Frame) :
        /\ rest = WithTop(stack, f)
        /\ DOMAIN rest = 1 .. Len(stack)
        /\ \A k \in 1 .. Len(stack) - 1 : rest[k] = stack[k]
        /\ rest[Len(stack)] = f
  BY <1>0, WithTopFacts
<1>3. /\ Enter(h, Top.val, Top.type, rest)
      /\ UNCHANGED <<live, canceled, cbs, result, generator, handlers, crashed>>
  BY <1>p, <1>h, <1>f, <1>2 DEF NotifyHandler, Slot
<1>4. \A k \in 1 .. Len(stack) : k = Len(stack) \/ k \in 1 .. Len(stack) - 1
  BY <1>0, LastOrBelow, Zenon
<1>5. Disciplined(rest)
  <2>1. ASSUME NEW k \in 1 .. Len(stack)
        PROVE  /\ rest[k].p = stack[k].p /\ rest[k].type = stack[k].type
               /\ rest[k].at \in Notifying <=> stack[k].at \in Notifying
               /\ rest[k].at # "call" <=> stack[k].at # "call"
    BY <1>0, <1>1, <1>2, <1>4 DEF Top, Notifying
  <2> QED
    BY <2>1, <1>0, <1>2 DEF IInv, StackDiscipline, Disciplined
<1>6. ASSUME "reforget" \notin Liberties, NEW x \in Promises, x # h
      PROVE  Covered(x, rest)
  <2> SUFFICES ASSUME await[x] # None, ~Finished(x)
               PROVE  \/ ~Finished(await[x]) /\ Registered(x, await[x])
                      \/ \E k \in 1 .. Len(stack) : /\ rest[k].at \in Notifying
                                                    /\ rest[k].p = await[x]
                                                    /\ StillToServe(rest[k], x)
    BY <1>2 DEF Covered
  <2>1. ASSUME NEW k \in 1 .. Len(stack), stack[k].at \in Notifying,
               stack[k].p = await[x], StillToServe(stack[k], x)
        PROVE  /\ rest[k].at \in Notifying /\ rest[k].p = await[x]
               /\ StillToServe(rest[k], x)
    <3>1. CASE k = Len(stack)
      <4>1. PICK j \in DOMAIN handlers[p] : handlers[p][j] = x /\ j >= Top.i
        BY <2>1, <3>1, <1>0 DEF StillToServe, Top
      <4>2. j # Top.i /\ j \in Nat
        BY <4>1, <1>6, <1>h DEF IInv, TypeOK
      <4>3. j > Top.i
        BY <4>1, <4>2, <1>0
      <4> QED
        BY <4>1, <4>3, <3>1, <2>1, <1>0, <1>1, <1>2 DEF StillToServe, Notifying, Top
    <3>2. CASE k \in 1 .. Len(stack) - 1
      BY <3>2, <2>1, <1>2
    <3> QED
      BY <3>1, <3>2, <1>4
  <2> QED
    BY <1>6, <2>1, <1>0 DEF IInv, WakeupsSafe, NoLostWakeup, Covered
<1>7. HandlersGrow
  BY <1>3 DEF HandlersGrow
<1>8. /\ flags' \in [Promises -> SUBSET (Outcome \cup {"processing"})]
      /\ await' \in [Promises -> Promises \cup {None}]
      /\ stack' \in Seq(Frame) /\ StackDiscipline' /\ WakeupsSafe'
  <2>1. Top.type \cap Outcome # {}
    BY <1>0
  <2>2. TypeOK
    BY DEF IInv
  <2> QED
    BY <2>1, <2>2, <1>0, <1>3, <1>5, <1>6, <1>7, EnterKeeps
<1> QED
  BY <1>3, <1>8 DEF IInv, TypeOK

LEMMA HandlerServedKeeps ==
  ASSUME IInv, HandlerServed
  PROVE  IInv'
<1>p. PICK p \in Promises : p = Top.p
  BY TopTyped DEF HandlerServed
<1>f. PICK f \in Frame : f = [Top EXCEPT !.at = "notify", !.i = @ + 1]
  <2>1. Top \in Frame /\ Top.i + 1 \in Nat
    BY TopTyped DEF HandlerServed
  <2>2. [Top EXCEPT !.at = "notify", !.i = Top.i + 1] \in Frame
    BY <2>1 DEF Frame, Label
  <2> QED
    BY <2>2
<1>0. /\ stack \in Seq(Frame) /\ stack # <<>> /\ Top \in Frame /\ Top.at = "served"
      /\ Top.p = p /\ Top.type # {} /\ Top.type \subseteq Outcome
      /\ Top.i \in Nat
      /\ Len(stack) \in Nat /\ Len(stack) \in DOMAIN stack
      /\ DOMAIN stack = 1 .. Len(stack) /\ Finished(p)
  BY <1>p, TopTyped DEF HandlerServed, Notifying
<1>1. f.at = "notify" /\ f.p = p /\ f.type = Top.type /\ f.i = Top.i + 1
  BY <1>0, <1>f DEF Frame
<1>2. /\ handlers' = [handlers EXCEPT ![p][Top.i] = None]
      /\ UNCHANGED <<live, flags, canceled, cbs, result, await, generator, crashed>>
  BY <1>p DEF HandlerServed
<1>3. /\ stack' \in Seq(Frame)
      /\ DOMAIN stack' = 1 .. Len(stack)
      /\ \A k \in 1 .. Len(stack) - 1 : stack'[k] = stack[k]
      /\ stack'[Len(stack)] = f
  <2>1. stack' = WithTop(stack, f)
    BY <1>f DEF HandlerServed, Replace
  <2> QED
    BY <2>1, <1>0, WithTopFacts
<1>4. \A k \in 1 .. Len(stack) : k = Len(stack) \/ k \in 1 .. Len(stack) - 1
  BY <1>0, LastOrBelow, Zenon
<1>5. NoneSettled
  BY <1>2 DEF NoneSettled, Finished
<1>6. /\ handlers' \in [Promises -> Seq(Promises \cup {None, Junk})]
      /\ \A q \in Promises : q # p => handlers'[q] = handlers[q]
      /\ DOMAIN handlers'[p] = DOMAIN handlers[p]
      /\ \A j \in DOMAIN handlers[p] : j # Top.i => handlers'[p][j] = handlers[p][j]
  <2>1. handlers \in [Promises -> Seq(Promises \cup {None, Junk})]
    BY DEF IInv, TypeOK
  <2>2. handlers' = [handlers EXCEPT ![p] = [handlers[p] EXCEPT ![Top.i] = None]]
    BY <1>2
  <2>3. /\ [handlers[p] EXCEPT ![Top.i] = None] \in Seq(Promises \cup {None, Junk})
        /\ DOMAIN [handlers[p] EXCEPT ![Top.i] = None] = DOMAIN handlers[p]
        /\ \A j \in DOMAIN handlers[p] :
             j # Top.i => [handlers[p] EXCEPT ![Top.i] = None][j] = handlers[p][j]
    BY <2>1, <1>0, SlotFacts
  <2> QED
    BY <2>1, <2>2, <2>3
<1>7. TypeOK'
  BY <1>2, <1>3, <1>6 DEF IInv, TypeOK
<1>8. StackDiscipline'
  <2>1. ASSUME NEW k \in DOMAIN stack'
        PROVE  /\ stack'[k].p = stack[k].p /\ stack[k].p \in Promises
               /\ stack'[k].at \in Notifying => stack[k].at \in Notifying
               /\ stack'[k].at # "call" => stack'[k].type # {}
    <3>1. CASE k = Len(stack)
      BY <3>1, <1>0, <1>1, <1>3 DEF Top, Notifying
    <3>2. CASE k \in 1 .. Len(stack) - 1
      <4>1. stack'[k] = stack[k] /\ k \in DOMAIN stack /\ stack[k].p \in Promises
        BY <3>2, <1>0, <1>3, InRange
      <4> QED
        BY <4>1 DEF IInv, StackDiscipline, Disciplined
    <3> QED
      BY <3>1, <3>2, <1>3, <1>4
  <2> QED
    BY <2>1, <1>0, <1>3, <1>5, DisciplineStays DEF IInv
<1>9. WakeupsSafe'
  <2> SUFFICES ASSUME "reforget" \notin Liberties
               PROVE  NoLostWakeup'
    BY DEF WakeupsSafe
  <2>1. ASSUME NEW x \in Promises, await[x] # None, ~Finished(x)
        PROVE  \/ ~Finished(await[x])' /\ Registered(x, await[x])'
               \/ \E k \in 1 .. Len(stack) : /\ stack'[k].at \in Notifying
                                             /\ stack'[k].p = await[x]
                                             /\ StillToServe(stack[k], x)'
    <3>1. await[x] \in Promises /\ await'[x] = await[x]
      BY <2>1, <1>2 DEF IInv, TypeOK
    <3>2. CASE ~Finished(await[x]) /\ Registered(x, await[x])
      <4>1. await[x] # p
        BY <3>2, <1>0
      <4> QED
        BY <4>1, <3>1, <3>2, <1>2, <1>6 DEF Registered, Finished
    <3>3. ASSUME NEW k \in 1 .. Len(stack), stack[k].at \in Notifying,
                 stack[k].p = await[x], StillToServe(stack[k], x)
          PROVE  /\ stack'[k].at \in Notifying /\ stack'[k].p = await[x]
                 /\ StillToServe(stack[k], x)'
      <4>1. CASE k = Len(stack)
        <5>1. PICK j \in DOMAIN handlers[p] : handlers[p][j] = x /\ j > Top.i
          BY <3>3, <4>1, <1>0 DEF StillToServe, Top
        <5>2. j \in DOMAIN handlers'[p] /\ handlers'[p][j] = x /\ j >= Top.i + 1
          BY <5>1, <1>0, <1>6 DEF IInv, TypeOK
        <5>3. stack'[k].at = "notify" /\ stack'[k].p = p /\ stack'[k].i = Top.i + 1
          BY <4>1, <1>1, <1>3
        <5>4. StillToServe(stack[k], x)'
          BY <5>2, <5>3 DEF StillToServe
        <5> QED
          BY <5>3, <5>4, <3>3, <4>1, <1>0 DEF Notifying, Top
      <4>2. CASE k \in 1 .. Len(stack) - 1
        <5>1. stack[Len(stack)].p # stack[k].p
          BY <4>2, <3>3, <1>0 DEF IInv, StackDiscipline, Disciplined
        <5>2. stack[k].p # p /\ stack[k].p \in Promises
          BY <5>1, <3>1, <3>3, <1>0 DEF Top
        <5>3. handlers'[stack[k].p] = handlers[stack[k].p] /\ stack'[k] = stack[k]
          BY <5>2, <4>2, <1>3, <1>6
        <5> QED
          BY <5>3, <3>3 DEF StillToServe
      <4> QED
        BY <4>1, <4>2, <1>4
    <3> QED
      BY <3>2, <3>3, <2>1, <1>0 DEF IInv, WakeupsSafe, NoLostWakeup, Covered
  <2>2. ASSUME NEW x \in Promises
        PROVE  Covered(x, stack)'
    <3>1. await'[x] = await[x] /\ (Finished(x)' <=> Finished(x))
      BY <1>2, <1>5 DEF NoneSettled
    <3> QED
      BY <3>1, <2>1, <1>3 DEF Covered
  <2> QED
    BY <2>2 DEF NoLostWakeup
<1> QED
  BY <1>7, <1>8, <1>9 DEF IInv

LEMMA HandlersNotifiedKeeps ==
  ASSUME IInv, HandlersNotified
  PROVE  IInv'
<1>p. PICK p \in Promises : p = Top.p
  BY TopTyped DEF HandlersNotified
<1>0. /\ stack \in Seq(Frame) /\ stack # <<>> /\ Top \in Frame /\ Top.at = "notify"
      /\ Top.p = p /\ Top.i \in Nat /\ Top.i > Len(handlers[p])
      /\ Len(stack) \in Nat /\ Len(stack) \in DOMAIN stack
      /\ DOMAIN stack = 1 .. Len(stack) /\ Finished(p)
  BY <1>p, TopTyped DEF HandlersNotified, Notifying
<1>1. /\ handlers' = [handlers EXCEPT ![p] = <<>>]
      /\ stack' = Below(stack)
      /\ UNCHANGED <<live, flags, canceled, cbs, result, await, generator, crashed>>
  BY <1>p DEF HandlersNotified
<1>2. /\ stack' \in Seq(Frame)
      /\ DOMAIN stack' = 1 .. Len(stack) - 1
      /\ \A k \in 1 .. Len(stack) - 1 : stack'[k] = stack[k]
  BY <1>0, <1>1, BelowFacts
<1>3. \A k \in 1 .. Len(stack) : k = Len(stack) \/ k \in 1 .. Len(stack) - 1
  BY <1>0, LastOrBelow, Zenon
<1>4. NoneSettled
  BY <1>1 DEF NoneSettled, Finished
<1>5. /\ handlers' \in [Promises -> Seq(Promises \cup {None, Junk})]
      /\ \A q \in Promises : q # p => handlers'[q] = handlers[q]
  BY <1>1 DEF IInv, TypeOK
<1>6. TypeOK'
  BY <1>1, <1>2, <1>5 DEF IInv, TypeOK
<1>7. StackDiscipline'
  <2>1. ASSUME NEW k \in DOMAIN stack'
        PROVE  /\ k \in DOMAIN stack
               /\ stack'[k].p = stack[k].p /\ stack[k].p \in Promises
               /\ stack'[k].at \in Notifying => stack[k].at \in Notifying
               /\ stack'[k].at # "call" => stack'[k].type # {}
    <3>1. stack'[k] = stack[k] /\ k \in DOMAIN stack /\ stack[k].p \in Promises
      BY <1>0, <1>2, InRange
    <3> QED
      BY <3>1 DEF IInv, StackDiscipline, Disciplined
  <2> QED
    BY <2>1, <1>4, DisciplineStays DEF IInv
<1>8. WakeupsSafe'
  <2> SUFFICES ASSUME "reforget" \notin Liberties
               PROVE  NoLostWakeup'
    BY DEF WakeupsSafe
  <2>1. ASSUME NEW x \in Promises, await[x] # None, ~Finished(x)
        PROVE  \/ ~Finished(await[x])' /\ Registered(x, await[x])'
               \/ \E k \in 1 .. Len(stack) - 1 : /\ stack'[k].at \in Notifying
                                                 /\ stack'[k].p = await[x]
                                                 /\ StillToServe(stack[k], x)'
    <3>1. await[x] \in Promises /\ await'[x] = await[x]
      BY <2>1, <1>1 DEF IInv, TypeOK
    <3>2. CASE ~Finished(await[x]) /\ Registered(x, await[x])
      <4>1. await[x] # p
        BY <3>2, <1>0
      <4> QED
        BY <4>1, <3>1, <3>2, <1>1, <1>5 DEF Registered, Finished
    <3>3. ASSUME NEW k \in DOMAIN stack, stack[k].at \in Notifying,
                 stack[k].p = await[x], StillToServe(stack[k], x)
          PROVE  /\ k \in 1 .. Len(stack) - 1
                 /\ stack'[k].at \in Notifying /\ stack'[k].p = await[x]
                 /\ StillToServe(stack[k], x)'
      <4>1. k # Len(stack)
        <5>1. SUFFICES ASSUME k = Len(stack)
                       PROVE  FALSE
          OBVIOUS
        <5>2. PICK j \in DOMAIN handlers[p] : j >= Top.i
          BY <5>1, <3>3, <1>0 DEF StillToServe, Top
        <5>3. j \in Nat /\ j <= Len(handlers[p]) /\ Len(handlers[p]) \in Nat
          BY <5>2 DEF IInv, TypeOK
        <5> QED
          BY <5>2, <5>3, <1>0
      <4>2. k \in 1 .. Len(stack) - 1
        BY <4>1, <1>0, <1>3
      <4>3. stack[Len(stack)].p # stack[k].p
        BY <4>2, <3>3, <1>0 DEF IInv, StackDiscipline, Disciplined
      <4>4. stack[k].p # p /\ stack[k].p \in Promises
        BY <4>3, <3>1, <3>3, <1>0 DEF Top
      <4>5. handlers'[stack[k].p] = handlers[stack[k].p] /\ stack'[k] = stack[k]
        BY <4>2, <4>4, <1>2, <1>5
      <4> QED
        BY <4>2, <4>5, <3>3 DEF StillToServe
    <3> QED
      BY <3>2, <3>3, <2>1 DEF IInv, WakeupsSafe, NoLostWakeup, Covered
  <2>2. ASSUME NEW x \in Promises
        PROVE  Covered(x, stack)'
    <3>1. await'[x] = await[x] /\ (Finished(x)' <=> Finished(x))
      BY <1>1, <1>4 DEF NoneSettled
    <3> QED
      BY <3>1, <2>1, <1>2 DEF Covered
  <2> QED
    BY <2>2 DEF NoLostWakeup
<1> QED
  BY <1>6, <1>7, <1>8 DEF IInv

(* Undefined behaviour ends the run where it is. *)
LEMMA CrashKeeps ==
  ASSUME IInv, crashed' = TRUE,
         UNCHANGED <<live, flags, canceled, cbs, result, await, generator, handlers, stack>>
  PROVE  IInv'
BY DEF IInv, TypeOK, StackDiscipline, Disciplined, WakeupsSafe, NoLostWakeup, Covered,
       Registered, StillToServe, Finished
-----------------------------------------------------------------------------
LEMMA InitEstablishes == ASSUME Init PROVE IInv
<1>1. TypeOK
  <2>1. live \subseteq Promises
    BY DEF Init
  <2>2. \A S : <<>> \in Seq(S)
    OBVIOUS
  <2>3. handlers \in [Promises -> Seq(Promises \cup {None, Junk})] /\ stack \in Seq(Frame)
    BY <2>2 DEF Init
  <2>4. /\ flags \in [Promises -> SUBSET (Outcome \cup {"processing"})]
        /\ canceled \subseteq Promises /\ generator \subseteq Promises
        /\ result \in [Promises -> Data \cup {None}]
        /\ await \in [Promises -> Promises \cup {None}]
        /\ cbs \in [Promises -> SUBSET (Outcome \cup {"canceled"})]
        /\ crashed \in BOOLEAN
    BY DEF Init
  <2> QED
    BY <2>1, <2>3, <2>4 DEF TypeOK
<1>2. StackDiscipline
  BY DEF Init, StackDiscipline, Disciplined
<1>3. NoLostWakeup
  BY DEF Init, NoLostWakeup, Covered
<1>4. WakeupsSafe
  BY <1>3 DEF WakeupsSafe
<1> QED
  BY <1>1, <1>2, <1>4 DEF IInv

LEMMA NextKeeps ==
  ASSUME IInv, [Next]_vars
  PROVE  IInv'
<1> USE DEF Outcome
<1>0. Values \subseteq Data /\ Errors \subseteq Data /\ Args \subseteq Data /\ Generator \in Data
  BY ErrorsAssumption, ArgsAssumption DEF Data, Plain
<1>1. ASSUME NEW p \in Promises, NEW v \in Args, Done(p, v)
      PROVE  IInv'
  BY <1>0, <1>1, SettleKeeps DEF Done
<1>2. ASSUME NEW p \in Promises, NEW v \in Errors, Fail(p, v)
      PROVE  IInv'
  BY <1>0, <1>2, SettleKeeps DEF Fail
<1>3. ASSUME NEW p \in Promises, NEW v \in Errors, Cancel(p, v)
      PROVE  IInv'
  BY <1>0, <1>3, CancelKeeps
<1>4. ASSUME NEW p \in Promises, NEW h \in Promises, Then(p, h)
      PROVE  IInv'
  BY <1>4, ThenKeeps
<1>5. ASSUME NEW p \in Promises, NEW h \in Promises, Chain(p, h)
      PROVE  IInv'
  BY <1>5, ChainKeeps
<1>6. ASSUME NEW p \in Promises, NEW h \in Promises, Forget(p, h)
      PROVE  IInv'
  BY <1>6, ForgetKeeps
<1>7. ASSUME NEW p \in Promises, NEW v \in Values \cup {Generator}, Start(p, v)
      PROVE  IInv'
  BY <1>0, <1>7, StartKeeps
<1>8. CASE Call
  BY <1>8, <1>1, <1>2, <1>3, <1>4, <1>5, <1>6, <1>7 DEF Call
<1>9. Offered \subseteq Data
  BY <1>0 DEF Offered, Data, IInv, TypeOK
<1>10. CASE Leave
  <2>1. ASSUME NEW v \in Offered, Return(v, FALSE) \/ Finish(v, "done")
        PROVE  IInv'
    BY <1>9, <2>1, ReturnKeeps, FinishKeeps
  <2>2. ASSUME NEW skip \in BOOLEAN, Return(Generator, skip)
        PROVE  IInv'
    BY <1>0, <2>2, ReturnKeeps
  <2>3. ASSUME NEW v \in Errors, Throw(v) \/ Finish(v, "failed")
        PROVE  IInv'
    BY <1>0, <2>3, ThrowKeeps, FinishKeeps
  <2>4. CASE ReturnIntoFreed
    BY <2>4, CrashKeeps DEF ReturnIntoFreed
  <2> QED
    BY <1>10, <2>1, <2>2, <2>3, <2>4 DEF Leave
<1>11. ASSUME NEW v \in Offered, Yield(v)
       PROVE  IInv'
  BY <1>9, <1>11, YieldKeeps
<1>12. CASE Machine
  <2>1. CASE NotifyCorrupted
    BY <2>1, CrashKeeps DEF NotifyCorrupted
  <2> QED
    BY <1>12, <2>1, WatchSettledKeeps, WatchPendingKeeps, WatchGeneratorKeeps,
       WatchPlainKeeps, ResumeKeeps, SettledKeeps, NotifyHandlerKeeps,
       HandlerServedKeeps, HandlersNotifiedKeeps DEF Machine
<1>13. CASE UNCHANGED vars
  BY <1>13 DEF vars, IInv, TypeOK, StackDiscipline, Disciplined, WakeupsSafe, NoLostWakeup,
     Covered, Registered, StillToServe, Finished
<1> QED
  BY <1>8, <1>10, <1>11, <1>12, <1>13 DEF Next, User

(***************************************************************************)
(* The fields and the call stack are always well formed, for any number of *)
(* promises and any depth of re-entrancy.                                  *)
(***************************************************************************)
THEOREM Typed == Spec => []TypeOK
<1>1. Init => IInv
  BY InitEstablishes
<1>2. IInv /\ [Next]_vars => IInv'
  BY NextKeeps
<1>3. IInv => TypeOK
  BY DEF IInv
<1> QED
  BY <1>1, <1>2, <1>3, PTL DEF Spec

(***************************************************************************)
(* The notification loop of a promise only runs once it is settled, and is *)
(* never entered again from a handler it runs, whatever is re-entered.     *)
(***************************************************************************)
THEOREM Discipline == Spec => []StackDiscipline
<1>1. Init => IInv
  BY InitEstablishes
<1>2. IInv /\ [Next]_vars => IInv'
  BY NextKeeps
<1>3. IInv => StackDiscipline
  BY DEF IInv
<1> QED
  BY <1>1, <1>2, <1>3, PTL DEF Spec

(***************************************************************************)
(* No wakeup is lost: a promise that waits is registered with the promise  *)
(* it waits for, or the loop that will serve it is on the stack.           *)
(***************************************************************************)
THEOREM WakeupsKept == ASSUME "reforget" \notin Liberties PROVE Spec => []NoLostWakeup
<1>1. Init => IInv
  BY InitEstablishes
<1>2. IInv /\ [Next]_vars => IInv'
  BY NextKeeps
<1>3. IInv => NoLostWakeup
  BY DEF IInv, WakeupsSafe
<1> QED
  BY <1>1, <1>2, <1>3, PTL DEF Spec
(***************************************************************************)
(* The order of the activations and of the handlers, when the program does *)
(* not settle, cancel or chain behind its own back.                        *)
(***************************************************************************)
Orderly == Liberties \cap {"resettle", "recancel", "rechain"} = {}

\* An activation of p runs its callback, its generator, or the code between.
Runs(s, p) == \E k \in DOMAIN s : s[k].p = p /\ s[k].at \notin Notifying

\* The notification loop of q is on the stack.
Loops(s, q) == \E k \in DOMAIN s : s[k].p = q /\ s[k].at \in Notifying

\* The slot that a loop reads next, and the slots of q that one has to read.
Goes(f) == IF f.at = "notify" THEN f.i ELSE f.i + 1
Ahead(s, q, j) ==
  \A k \in DOMAIN s : s[k].p = q /\ s[k].at \in Notifying => Goes(s[k]) <= j

\* A handler that is still to be notified.
Due(s, q, j) == j \in DOMAIN handlers[q] /\ handlers[q][j] \in Promises /\ Ahead(s, q, j)

\* One activation at most runs a promise.  Its callback or its generator is
\* there when it is returned into, and a value when it is delivered.
RunsOnce(s) == \A j, k \in DOMAIN s :
  s[j].p = s[k].p /\ s[j].at \notin Notifying /\ s[k].at \notin Notifying => j = k

Ready(f) == /\ f.at = "call" => cbs[f.p] # {}
            /\ f.at = "body" => f.p \in generator
            /\ f.at \notin {"call", "body"} => f.val \in Data
            /\ f.at \in Notifying => f.i # 0

Sound(s) == RunsOnce(s) /\ \A k \in DOMAIN s : Ready(s[k])

\* What runs is pending and waits for nothing.
RunsPending(s) == \A p \in Promises :
  Runs(s, p) => p \in live /\ ~Finished(p) /\ await[p] = None

\* A handler to be notified waits for this promise, or has never been resolved.
Waits(s, q, p) ==
  /\ p \in live /\ ~Finished(p) /\ ~Runs(s, p)
  /\ await[p] = q \/ (await[p] = None /\ Kind[p] = "Promise")

DuePending(s) == \A q \in Promises : \A j \in DOMAIN handlers[q] :
  Due(s, q, j) => Waits(s, q, handlers[q][j])

DueOnce(s) == \A q, x \in Promises : \A i \in DOMAIN handlers[q], j \in DOMAIN handlers[x] :
  Due(s, q, i) /\ Due(s, x, j) /\ handlers[q][i] = handlers[x][j] => q = x /\ i = j

InOrder(s) == Sound(s) /\ RunsPending(s) /\ DuePending(s) /\ DueOnce(s)

\* A promise that does not exist yet is pending; a settled one has a result.
Unborn == \A p \in Promises \ live : ~Finished(p) /\ await[p] = None
Results == \A p \in Promises : Finished(p) => result[p] \in Data

Ordered == InOrder(stack) /\ Unborn /\ Results

\* A settled promise has no handler left, or a loop that will remove them.
Drained == \A q \in Promises : Finished(q) => handlers[q] = <<>> \/ Loops(stack, q)

\* The loops meet promises only.
Whole(s) ==
  /\ \A q \in Promises : \A j \in DOMAIN handlers[q] :
       Ahead(s, q, j) => handlers[q][j] \in Promises
  /\ \A k \in DOMAIN s : s[k].at = "served" => s[k].i \in DOMAIN handlers[s[k].p]

Intact == Whole(stack) /\ ~crashed
-----------------------------------------------------------------------------
(* What the stack operations do to what runs, what loops and what is due.  *)

\* A callback, a generator or the code past them is entered.
LEMMA PushOrder ==
  ASSUME NEW s \in Seq(Frame), NEW f \in Frame, f.at \notin Notifying
  PROVE  /\ \A x : Runs(Push(s, f), x) <=> Runs(s, x) \/ x = f.p
         /\ \A q : Loops(Push(s, f), q) <=> Loops(s, q)
         /\ \A q, j : Ahead(Push(s, f), q, j) <=> Ahead(s, q, j)
         /\ Sound(s) /\ Ready(f) /\ ~Runs(s, f.p) => Sound(Push(s, f))
<1> DEFINE t == Push(s, f)
           n == Len(s) + 1
<1>1. /\ n \in DOMAIN t /\ t[n] = f
      /\ \A k \in DOMAIN s : k \in DOMAIN t /\ t[k] = s[k]
      /\ \A k \in DOMAIN t : k = n \/ k \in DOMAIN s
  <2>1. \A k \in 1 .. Len(s) + 1 : k = Len(s) + 1 \/ k \in 1 .. Len(s)
    BY LastOrNew, PushFacts, Zenon
  <2>2. Len(s) + 1 \in 1 .. Len(s) + 1
    BY PushFacts
  <2>3. /\ DOMAIN t = 1 .. Len(s) + 1 /\ DOMAIN s = 1 .. Len(s)
        /\ \A k \in DOMAIN s : k \in DOMAIN t /\ t[k] = s[k]
        /\ t[Len(s) + 1] = f
    BY PushFacts
  <2> QED
    BY <2>1, <2>2, <2>3, Zenon
<1> HIDE DEF t, n
<1>2. \A x : Runs(t, x) <=> Runs(s, x) \/ x = f.p
  BY <1>1 DEF Runs
<1>3. \A q : Loops(t, q) <=> Loops(s, q)
  BY <1>1 DEF Loops
<1>4. \A q, j : Ahead(t, q, j) <=> Ahead(s, q, j)
  BY <1>1 DEF Ahead
<1>5. ASSUME Sound(s), Ready(f), ~Runs(s, f.p)
      PROVE  Sound(t)
  <2>1. \A k \in DOMAIN t : Ready(t[k])
    BY <1>1, <1>5 DEF Sound
  <2>2. RunsOnce(t)
    BY <1>1, <1>5 DEF Sound, RunsOnce, Runs
  <2> QED
    BY <2>1, <2>2 DEF Sound
<1> QED
  BY <1>2, <1>3, <1>4, <1>5 DEF t

\* The top is about the same promise afterwards.
LEMMA TopSplit ==
  ASSUME NEW s \in Seq(Frame), s # <<>>, NEW f \in Frame
  PROVE  /\ Len(s) \in DOMAIN s /\ DOMAIN WithTop(s, f) = DOMAIN s
         /\ WithTop(s, f)[Len(s)] = f
         /\ \A k \in DOMAIN s : k = Len(s) \/ WithTop(s, f)[k] = s[k]
<1>1. \A k \in 1 .. Len(s) : k = Len(s) \/ k \in 1 .. Len(s) - 1
  BY TopFacts, LastOrBelow, Zenon
<1>2. /\ Len(s) \in DOMAIN s /\ DOMAIN s = 1 .. Len(s)
      /\ DOMAIN WithTop(s, f) = 1 .. Len(s)
      /\ \A k \in 1 .. Len(s) - 1 : WithTop(s, f)[k] = s[k]
      /\ WithTop(s, f)[Len(s)] = f
  BY TopFacts, WithTopFacts
<1> QED
  BY <1>1, <1>2, Zenon

\* An activation goes from label to label.
LEMMA InnerOrder ==
  ASSUME NEW s \in Seq(Frame), s # <<>>, NEW f \in Frame, f.p = s[Len(s)].p,
         s[Len(s)].at \notin Notifying, f.at \notin Notifying
  PROVE  /\ \A x : Runs(WithTop(s, f), x) <=> Runs(s, x)
         /\ \A q : Loops(WithTop(s, f), q) <=> Loops(s, q)
         /\ \A q, j : Ahead(WithTop(s, f), q, j) <=> Ahead(s, q, j)
         /\ RunsOnce(s) => RunsOnce(WithTop(s, f))
<1> DEFINE t == WithTop(s, f)
<1>1. /\ Len(s) \in DOMAIN s /\ DOMAIN t = DOMAIN s /\ t[Len(s)] = f
      /\ \A k \in DOMAIN s : k = Len(s) \/ t[k] = s[k]
  BY TopSplit
<1> HIDE DEF t
<1>2. \A x : Runs(t, x) <=> Runs(s, x)
  BY <1>1 DEF Runs
<1>3. \A q : Loops(t, q) <=> Loops(s, q)
  BY <1>1 DEF Loops
<1>4. \A q, j : Ahead(t, q, j) <=> Ahead(s, q, j)
  BY <1>1 DEF Ahead
<1>5. RunsOnce(s) => RunsOnce(t)
  BY <1>1 DEF RunsOnce
<1> QED
  BY <1>2, <1>3, <1>4, <1>5 DEF t

\* A promise that was running starts to notify.
LEMMA SettleOrder ==
  ASSUME NEW s \in Seq(Frame), s # <<>>, NEW f \in Frame, f.p = s[Len(s)].p,
         s[Len(s)].at \notin Notifying, f.at = "notify", f.i = 1, RunsOnce(s)
  PROVE  /\ \A x : Runs(WithTop(s, f), x) <=> Runs(s, x) /\ x # f.p
         /\ \A q : Loops(WithTop(s, f), q) <=> Loops(s, q) \/ q = f.p
         /\ \A q : \A j \in Nat \ {0} : Ahead(WithTop(s, f), q, j) <=> Ahead(s, q, j)
         /\ RunsOnce(WithTop(s, f))
<1> DEFINE t == WithTop(s, f)
<1>1. /\ Len(s) \in DOMAIN s /\ DOMAIN t = DOMAIN s /\ t[Len(s)] = f
      /\ \A k \in DOMAIN s : k = Len(s) \/ t[k] = s[k]
  BY TopSplit
<1> HIDE DEF t
<1>2. \A x : Runs(t, x) <=> Runs(s, x) /\ x # f.p
  BY <1>1 DEF Runs, RunsOnce, Notifying
<1>3. \A q : Loops(t, q) <=> Loops(s, q) \/ q = f.p
  BY <1>1 DEF Loops, Notifying
<1>4. ASSUME NEW q, NEW j \in Nat \ {0}
      PROVE  Ahead(t, q, j) <=> Ahead(s, q, j)
  <2>1. Goes(f) <= j
    BY DEF Goes
  <2> QED
    BY <1>1, <2>1 DEF Ahead
<1>5. RunsOnce(t)
  BY <1>1 DEF RunsOnce, Notifying
<1> QED
  BY <1>2, <1>3, <1>4, <1>5 DEF t

\* A loop resolves a handler, which is then no longer due.
LEMMA ServeOrder ==
  ASSUME NEW s \in Seq(Frame), s # <<>>, NEW f \in Frame, Disciplined(s),
         s[Len(s)].at = "notify", f = [s[Len(s)] EXCEPT !.at = "served"]
  PROVE  /\ \A x : Runs(WithTop(s, f), x) <=> Runs(s, x)
         /\ \A q : Loops(WithTop(s, f), q) <=> Loops(s, q)
         /\ \A q : \A j \in Nat : Ahead(WithTop(s, f), q, j) => Ahead(s, q, j)
         /\ Ahead(s, f.p, f.i) /\ ~Ahead(WithTop(s, f), f.p, f.i)
         /\ RunsOnce(s) => RunsOnce(WithTop(s, f))
<1> DEFINE t == WithTop(s, f)
<1>1. /\ Len(s) \in DOMAIN s /\ DOMAIN t = DOMAIN s /\ t[Len(s)] = f
      /\ \A k \in DOMAIN s : k = Len(s) \/ t[k] = s[k]
  BY TopSplit
<1>2. /\ f.at = "served" /\ f.p = s[Len(s)].p /\ f.i = s[Len(s)].i /\ f.i \in Nat
      /\ \A k \in DOMAIN s : /\ WithTop(s, f)[k].p = s[k].p
                             /\ WithTop(s, f)[k].at \in Notifying <=> s[k].at \in Notifying
  <2>1. s[Len(s)] \in Frame
    BY TopFacts
  <2>2. f.at = "served" /\ f.p = s[Len(s)].p /\ f.i = s[Len(s)].i /\ f.i \in Nat
    BY <2>1 DEF Frame
  <2> QED
    BY <1>1, <2>2 DEF Notifying
<1> HIDE DEF t
<1>3. \A x : Runs(t, x) <=> Runs(s, x)
  BY <1>1, <1>2 DEF Runs, t
<1>4. \A q : Loops(t, q) <=> Loops(s, q)
  BY <1>1, <1>2 DEF Loops, t
<1>5. ASSUME NEW q, NEW j \in Nat, Ahead(t, q, j)
      PROVE  Ahead(s, q, j)
  <2>1. Goes(f) <= j => Goes(s[Len(s)]) <= j
    BY <1>2 DEF Goes
  <2> QED
    BY <1>1, <1>2, <1>5, <2>1 DEF Ahead, t
<1>6. Ahead(s, f.p, f.i)
  <2>1. Goes(s[Len(s)]) <= f.i
    BY <1>2 DEF Goes
  <2>2. \A k \in DOMAIN s : k # Len(s) => k < Len(s)
    OBVIOUS
  <2>3. \A k \in DOMAIN s : s[k].p = f.p /\ s[k].at \in Notifying => k = Len(s)
    BY <1>1, <1>2, <2>2 DEF Disciplined
  <2> QED
    BY <2>1, <2>3 DEF Ahead
<1>7. ~Ahead(t, f.p, f.i)
  <2>1. ~(Goes(f) <= f.i) /\ f.at \in Notifying
    BY <1>2 DEF Goes, Notifying
  <2> QED
    BY <1>1, <2>1 DEF Ahead
<1>8. RunsOnce(s) => RunsOnce(t)
  BY <1>1, <1>2 DEF RunsOnce, Notifying
<1> QED
  BY <1>3, <1>4, <1>5, <1>6, <1>7, <1>8 DEF t

\* The loop goes on: the slot that is now emptied was no longer due.
LEMMA ServedOrder ==
  ASSUME NEW s \in Seq(Frame), s # <<>>, NEW f \in Frame, f.p = s[Len(s)].p,
         s[Len(s)].at = "served", f.at = "notify", f.i = s[Len(s)].i + 1
  PROVE  /\ \A x : Runs(WithTop(s, f), x) <=> Runs(s, x)
         /\ \A q : Loops(WithTop(s, f), q) <=> Loops(s, q)
         /\ \A q, j : Ahead(WithTop(s, f), q, j) <=> Ahead(s, q, j)
         /\ ~Ahead(s, f.p, s[Len(s)].i)
         /\ RunsOnce(s) => RunsOnce(WithTop(s, f))
<1> DEFINE t == WithTop(s, f)
<1>1. /\ Len(s) \in DOMAIN s /\ DOMAIN t = DOMAIN s /\ t[Len(s)] = f
      /\ \A k \in DOMAIN s : k = Len(s) \/ t[k] = s[k]
  BY TopSplit
<1>2. s[Len(s)].i \in Nat
  <2>1. s[Len(s)] \in Frame
    BY TopFacts
  <2> QED
    BY <2>1 DEF Frame
<1> HIDE DEF t
<1>3. \A x : Runs(t, x) <=> Runs(s, x)
  BY <1>1 DEF Runs, Notifying
<1>4. \A q : Loops(t, q) <=> Loops(s, q)
  BY <1>1 DEF Loops, Notifying
<1>5. \A q, j : Ahead(t, q, j) <=> Ahead(s, q, j)
  <2>1. Goes(f) = Goes(s[Len(s)])
    BY DEF Goes
  <2> QED
    BY <1>1, <2>1 DEF Ahead, Notifying
<1>6. ~Ahead(s, f.p, s[Len(s)].i)
  <2>1. ~(Goes(s[Len(s)]) <= s[Len(s)].i)
    BY <1>2 DEF Goes
  <2> QED
    BY <1>1, <2>1 DEF Ahead, Notifying
<1>7. RunsOnce(s) => RunsOnce(t)
  BY <1>1 DEF RunsOnce, Notifying
<1> QED
  BY <1>3, <1>4, <1>5, <1>6, <1>7 DEF t

\* An activation ends.
LEMMA BelowOrder ==
  ASSUME NEW s \in Seq(Frame), s # <<>>
  PROVE  /\ s[Len(s)].at \in Notifying => \A x : Runs(Below(s), x) <=> Runs(s, x)
         /\ s[Len(s)].at \notin Notifying /\ RunsOnce(s) =>
              \A x : Runs(Below(s), x) <=> Runs(s, x) /\ x # s[Len(s)].p
         /\ s[Len(s)].at \notin Notifying => \A q : Loops(Below(s), q) <=> Loops(s, q)
         /\ \A q : q # s[Len(s)].p => (Loops(Below(s), q) <=> Loops(s, q))
         /\ s[Len(s)].at \notin Notifying => \A q, j : Ahead(Below(s), q, j) <=> Ahead(s, q, j)
         /\ \A q, j : q # s[Len(s)].p => (Ahead(Below(s), q, j) <=> Ahead(s, q, j))
         /\ Sound(s) => Sound(Below(s))
<1> DEFINE t == Below(s)
<1>1. /\ Len(s) \in DOMAIN s /\ Len(s) \notin DOMAIN t
      /\ \A k \in DOMAIN t : k \in DOMAIN s /\ t[k] = s[k]
      /\ \A k \in DOMAIN s : k = Len(s) \/ k \in DOMAIN t
  <2>1. \A k \in 1 .. Len(s) : k = Len(s) \/ k \in 1 .. Len(s) - 1
    BY TopFacts, LastOrBelow, Zenon
  <2>2. Len(s) \notin 1 .. Len(s) - 1 /\ \A k \in 1 .. Len(s) - 1 : k \in 1 .. Len(s)
    BY TopFacts
  <2> QED
    BY <2>1, <2>2, TopFacts, BelowFacts
<1> HIDE DEF t
<1>2. /\ s[Len(s)].at \in Notifying => \A x : Runs(t, x) <=> Runs(s, x)
      /\ s[Len(s)].at \notin Notifying /\ RunsOnce(s) =>
           \A x : Runs(t, x) <=> Runs(s, x) /\ x # s[Len(s)].p
  BY <1>1 DEF Runs, RunsOnce
<1>3. /\ s[Len(s)].at \notin Notifying => \A q : Loops(t, q) <=> Loops(s, q)
      /\ \A q : q # s[Len(s)].p => (Loops(t, q) <=> Loops(s, q))
  BY <1>1 DEF Loops
<1>4. /\ s[Len(s)].at \notin Notifying => \A q, j : Ahead(t, q, j) <=> Ahead(s, q, j)
      /\ \A q, j : q # s[Len(s)].p => (Ahead(t, q, j) <=> Ahead(s, q, j))
  BY <1>1 DEF Ahead
<1>5. Sound(s) => Sound(t)
  BY <1>1 DEF Sound, RunsOnce
<1> QED
  BY <1>2, <1>3, <1>4, <1>5 DEF t
-----------------------------------------------------------------------------
(* What the steps have in common.                                          *)

\* ion_promisor_resolve() returns at once, or starts an activation of p.
LEMMA EnterShape ==
  ASSUME TypeOK, NEW rest \in Seq(Frame), NEW p \in Promises,
         NEW v \in Data \cup {None}, NEW t, Enter(p, v, t, rest)
  PROVE  /\ NoneSettled
         /\ \A x \in Promises : x # p => await'[x] = await[x]
         /\ \/ Finished(p) /\ stack' = rest /\ await' = await
            \/ /\ ~Finished(p) /\ await'[p] = None
               /\ \E f \in Frame : /\ stack' = Push(rest, f) /\ f.p = p
                                   /\ f.at \in {"call", "watch", "resolved"}
                                   /\ f.at = "call" => cbs[p] # {}
                                   /\ f.at # "call" => f.val = v
<1>1. CASE EnterFinished(p, rest)
  BY <1>1 DEF EnterFinished, NoneSettled, Finished
<1>2. CASE EnterAwaiting(p, v, t, rest)
  <2> DEFINE f == NewFrame(IF p \in generator THEN "watch" ELSE "resolved", p, v, t \cap Outcome)
  <2>1. /\ f \in Frame /\ f.p = p /\ f.at \in {"watch", "resolved"} /\ f.val = v
    BY DEF NewFrame, Frame, Label
  <2>2. NoneSettled /\ await'[p] = None /\ \A x \in Promises : x # p => await'[x] = await[x]
    BY <1>2 DEF EnterAwaiting, NoneSettled, Finished, TypeOK
  <2>3. ~Finished(p) /\ stack' = Push(rest, f)
    BY <1>2 DEF EnterAwaiting
  <2> QED
    BY <2>1, <2>2, <2>3
<1>3. CASE EnterPending(p, v, t, rest)
  <2>1. /\ NewFrame("call", p, None, {}) \in Frame
        /\ NewFrame("call", p, None, {}).p = p /\ NewFrame("call", p, None, {}).at = "call"
    BY DEF NewFrame, Frame, Label
  <2> DEFINE f == NewFrame("resolved", p, v, t \cap Outcome)
  <2>2. f \in Frame /\ f.p = p /\ f.at = "resolved" /\ f.val = v
    BY DEF NewFrame, Frame, Label
  <2>3. NoneSettled /\ await' = await /\ await[p] = None /\ ~Finished(p)
    BY <1>3 DEF EnterPending, NoneSettled, Finished, Outcome, TypeOK
  <2>4. \/ cbs[p] # {} /\ stack' = Push(rest, NewFrame("call", p, None, {}))
        \/ stack' = Push(rest, f)
    BY <1>3 DEF EnterPending
  <2> HIDE DEF f
  <2> QED
    BY <2>1, <2>2, <2>3, <2>4
<1> QED
  BY <1>1, <1>2, <1>3 DEF Enter

\* The steps of an activation that neither waits, settles nor notifies.
Inner ==
  \/ \E v \in Data : \/ \E skip \in BOOLEAN : Return(v, skip)
                     \/ Throw(v) \/ Yield(v) \/ \E o \in Outcome : Finish(v, o)
  \/ WatchSettled \/ WatchGenerator \/ WatchPlain \/ Resume

\* The top goes to another label and has a value to deliver if it is past it.
Moved(f) ==
  /\ stack' = WithTop(stack, f) /\ f.p = Top.p
  /\ f.at \in {"body", "watch", "resolved"}
  /\ f.at = "body" => Top.p \in generator'
  /\ Results /\ (Top.at \notin {"call", "body"} => Top.val \in Data) =>
       (f.at # "body" => f.val \in Data)

Moves ==
  /\ stack \in Seq(Frame) /\ stack # <<>> /\ Top.at \notin Notifying
  /\ UNCHANGED kept /\ generator' \ {Top.p} = generator \ {Top.p}
  /\ \E f \in Frame : Moved(f)

LEMMA InnerShape == ASSUME IInv, Inner PROVE Moves
<1>1. ASSUME NEW v \in Data, NEW skip \in BOOLEAN, Return(v, skip)
      PROVE  Moves
  <2> DEFINE f == [NewFrame("watch", Top.p, v, {"done"}) EXCEPT !.skip = skip]
  <2>1. TopAt("call") /\ Replace(f) /\ UNCHANGED generator /\ UNCHANGED kept
    BY <1>1 DEF Return
  <2>2. stack \in Seq(Frame) /\ stack # <<>> /\ Top \in Frame /\ Top.at = "call"
    BY <2>1, TopTyped
  <2>3. f \in Frame /\ f.p = Top.p /\ f.at = "watch" /\ f.val = v
    BY <2>2 DEF NewFrame, Frame, Label, Outcome
  <2> QED
    BY <2>1, <2>2, <2>3 DEF Replace, Notifying, Moves, Moved
<1>2. ASSUME NEW v \in Data, Throw(v)
      PROVE  Moves
  <2> DEFINE f == NewFrame("resolved", Top.p, v, {"failed"})
  <2>1. TopAt("call") /\ Replace(f) /\ UNCHANGED generator /\ UNCHANGED kept
    BY <1>2 DEF Throw
  <2>2. stack \in Seq(Frame) /\ stack # <<>> /\ Top \in Frame /\ Top.at = "call"
    BY <2>1, TopTyped
  <2>3. f \in Frame /\ f.p = Top.p /\ f.at = "resolved" /\ f.val = v
    BY <2>2 DEF NewFrame, Frame, Label, Outcome
  <2> QED
    BY <2>1, <2>2, <2>3 DEF Replace, Notifying, Moves, Moved
<1>3. ASSUME NEW v \in Data, Yield(v)
      PROVE  Moves
  <2> DEFINE f == [Top EXCEPT !.at = "watch", !.val = v]
  <2>1. TopAt("body") /\ Replace(f) /\ UNCHANGED generator /\ UNCHANGED kept
    BY <1>3 DEF Yield
  <2>2. stack \in Seq(Frame) /\ stack # <<>> /\ Top \in Frame /\ Top.at = "body"
    BY <2>1, TopTyped
  <2>3. f \in Frame /\ f.p = Top.p /\ f.at = "watch" /\ f.val = v
    BY <2>2 DEF Frame, Label
  <2> QED
    BY <2>1, <2>2, <2>3 DEF Replace, Notifying, Moves, Moved
<1>4. ASSUME NEW v \in Data, NEW o \in Outcome, Finish(v, o)
      PROVE  Moves
  <2> DEFINE f == [Top EXCEPT !.at = "watch", !.val = v, !.type = {o},
                              !.skip = @ \/ o = "done"]
  <2>1. TopAt("body") /\ Replace(f) /\ generator' = generator \ {Top.p} /\ UNCHANGED kept
    BY <1>4 DEF Finish
  <2>2. stack \in Seq(Frame) /\ stack # <<>> /\ Top \in Frame /\ Top.at = "body"
    BY <2>1, TopTyped
  <2>3. f \in Frame /\ f.p = Top.p /\ f.at = "watch" /\ f.val = v
    BY <2>2 DEF Frame, Label
  <2> QED
    BY <2>1, <2>2, <2>3 DEF Replace, Notifying, Moves, Moved
<1>5. CASE WatchSettled
  <2> DEFINE f == [Top EXCEPT !.val = result[Top.val], !.type = flags[Top.val] \cap Outcome]
  <2>1. TopAt("watch") /\ Replace(f) /\ UNCHANGED generator /\ UNCHANGED kept
    BY <1>5 DEF WatchSettled, kept
  <2>2. stack \in Seq(Frame) /\ stack # <<>> /\ Top \in Frame /\ Top.at = "watch"
    BY <2>1, TopTyped
  <2>3. /\ Top.val \in Promises /\ Finished(Top.val)
        /\ result[Top.val] \in Data \cup {None}
    BY <1>5 DEF WatchSettled, IInv, TypeOK
  <2>4. f \in Frame /\ f.p = Top.p /\ f.at = "watch" /\ f.val = result[Top.val]
    BY <2>2, <2>3 DEF Frame
  <2>5. Results => f.val \in Data
    BY <2>3, <2>4 DEF Results
  <2> QED
    BY <2>1, <2>2, <2>4, <2>5 DEF Replace, Notifying, Moves, Moved
<1>6. CASE WatchGenerator
  <2> DEFINE f == [Top EXCEPT !.at = "body", !.val = None]
  <2>1. TopAt("watch") /\ Replace(f) /\ generator' = generator \cup {Top.p} /\ UNCHANGED kept
    BY <1>6 DEF WatchGenerator, kept
  <2>2. stack \in Seq(Frame) /\ stack # <<>> /\ Top \in Frame /\ Top.at = "watch"
    BY <2>1, TopTyped
  <2>3. f \in Frame /\ f.p = Top.p /\ f.at = "body"
    BY <2>2 DEF Frame, Label
  <2> QED
    BY <2>1, <2>2, <2>3 DEF Replace, Notifying, Moves, Moved
<1>7. CASE WatchPlain
  <2> DEFINE f == [Top EXCEPT !.at = "resolved"]
  <2>1. TopAt("watch") /\ Replace(f) /\ UNCHANGED generator /\ UNCHANGED kept
    BY <1>7 DEF WatchPlain, kept
  <2>2. stack \in Seq(Frame) /\ stack # <<>> /\ Top \in Frame /\ Top.at = "watch"
    BY <2>1, TopTyped
  <2>3. f \in Frame /\ f.p = Top.p /\ f.at = "resolved" /\ f.val = Top.val
    BY <2>2 DEF Frame, Label
  <2> QED
    BY <2>1, <2>2, <2>3 DEF Replace, Notifying, Moves, Moved
<1>8. CASE Resume
  <2> DEFINE refused == [Top EXCEPT !.at = "watch", !.val = AlreadyRunning, !.type = {"failed"}]
             resumed == [Top EXCEPT !.at = "body"]
  <2>1. /\ TopAt("resolved") /\ Top.p \in generator /\ UNCHANGED kept
        /\ \/ generator' = generator \ {Top.p} /\ Replace(refused)
           \/ UNCHANGED generator /\ Replace(resumed)
    BY <1>8 DEF Resume, kept
  <2>2. stack \in Seq(Frame) /\ stack # <<>> /\ Top \in Frame /\ Top.at = "resolved"
    BY <2>1, TopTyped
  <2>3. /\ refused \in Frame /\ refused.p = Top.p /\ refused.at = "watch" /\ refused.val \in Data
        /\ resumed \in Frame /\ resumed.p = Top.p /\ resumed.at = "body"
    BY <2>2 DEF Frame, Label, Outcome, Data, Plain
  <2>4. generator' \ {Top.p} = generator \ {Top.p}
    BY <2>1
  <2>5. CASE generator' = generator \ {Top.p} /\ Replace(refused)
    BY <2>1, <2>2, <2>3, <2>4, <2>5 DEF Replace, Notifying, Moves, Moved
  <2>6. CASE UNCHANGED generator /\ Replace(resumed)
    BY <2>1, <2>2, <2>3, <2>4, <2>6 DEF Replace, Notifying, Moves, Moved
  <2> QED
    BY <2>1, <2>5, <2>6
<1>9. ASSUME NEW v \in Data, \/ \E skip \in BOOLEAN : Return(v, skip)
                             \/ Throw(v) \/ Yield(v) \/ \E o \in Outcome : Finish(v, o)
      PROVE  Moves
  <2>1. ASSUME NEW skip \in BOOLEAN, Return(v, skip)
        PROVE  Moves
    BY <1>1, <2>1
  <2>2. ASSUME NEW o \in Outcome, Finish(v, o)
        PROVE  Moves
    BY <1>4, <2>2
  <2> QED
    BY <1>2, <1>3, <1>9, <2>1, <2>2, Zenon
<1> QED
  <2>1. WatchSettled \/ WatchGenerator \/ WatchPlain \/ Resume => Moves
    BY <1>5, <1>6, <1>7, <1>8, Zenon
  <2>2. \A v \in Data : (\/ \E skip \in BOOLEAN : Return(v, skip)
                        \/ Throw(v) \/ Yield(v) \/ \E o \in Outcome : Finish(v, o)) => Moves
    BY <1>9, Zenon
  <2> QED
    BY <2>1, <2>2, Zenon DEF Inner

\* What user code hands back.
LEMMA LeaveIsInner ==
  ASSUME IInv, Leave \/ \E v \in Offered : Yield(v)
  PROVE  Inner \/ ReturnIntoFreed
<1>1. Offered \subseteq Data /\ Errors \subseteq Data /\ Generator \in Data
  BY ErrorsAssumption DEF Offered, Data, Plain, IInv, TypeOK
<1>2. {"done", "failed"} \subseteq Outcome /\ FALSE \in BOOLEAN
  BY DEF Outcome
<1>3. ASSUME NEW v \in Offered, Return(v, FALSE) \/ Finish(v, "done") \/ Yield(v)
      PROVE  Inner
  BY <1>1, <1>2, <1>3 DEF Inner
<1>4. ASSUME NEW skip \in BOOLEAN, Return(Generator, skip)
      PROVE  Inner
  BY <1>1, <1>4 DEF Inner
<1>5. ASSUME NEW v \in Errors, Throw(v) \/ Finish(v, "failed")
      PROVE  Inner
  BY <1>1, <1>2, <1>5 DEF Inner
<1> QED
  BY <1>3, <1>4, <1>5 DEF Leave
-----------------------------------------------------------------------------
(* No handler is left behind.                                              *)

LEMMA DrainedStays ==
  ASSUME Drained, NoneSettled,
         \A q \in Promises : Loops(stack, q) => Loops(stack, q)',
         \A q \in Promises : Finished(q) /\ handlers[q] = <<>> => handlers'[q] = <<>>
  PROVE  Drained'
BY DEF Drained, NoneSettled

LEMMA EnterDrains ==
  ASSUME TypeOK, Drained, NEW rest \in Seq(Frame), NEW p \in Promises,
         NEW v \in Data \cup {None}, NEW t, Enter(p, v, t, rest), UNCHANGED handlers,
         \A q \in Promises : Loops(stack, q) => Loops(rest, q)
  PROVE  Drained'
<1>1. NoneSettled
  BY EnterShape
<1>2. \A q \in Promises : Loops(rest, q) => Loops(stack', q)
  <2>1. ASSUME NEW f \in Frame, stack' = Push(rest, f), f.at \in {"call", "watch", "resolved"}
        PROVE  \A q \in Promises : Loops(rest, q) => Loops(stack', q)
    <3>1. f.at \notin Notifying
      BY <2>1 DEF Notifying
    <3> QED
      BY <2>1, <3>1, PushOrder
  <2>2. stack' = rest \/ \E f \in Frame : /\ stack' = Push(rest, f)
                                          /\ f.at \in {"call", "watch", "resolved"}
    BY EnterShape
  <2> QED
    BY <2>1, <2>2
<1>3. \A q \in Promises : Loops(stack, q) => Loops(stack, q)'
  BY <1>2 DEF Loops
<1> QED
  BY <1>1, <1>3, DrainedStays

LEMMA UserDrains ==
  ASSUME IInv, Drained, "rechain" \notin Liberties, Call
  PROVE  Drained'
<1>0. Values \subseteq Data /\ Errors \subseteq Data /\ Args \subseteq Data /\ Generator \in Data
  BY ErrorsAssumption, ArgsAssumption DEF Data, Plain
<1>1. TypeOK /\ stack \in Seq(Frame) /\ \A q \in Promises : Loops(stack, q) => Loops(stack, q)
  BY DEF IInv, TypeOK
<1>2. ASSUME NEW p \in Promises, NEW v \in Data \cup {None}, NEW t,
             Enter(p, v, t, stack), UNCHANGED handlers
      PROVE  Drained'
  BY <1>1, <1>2, EnterDrains
<1>3. ASSUME NEW p \in Promises, NEW h \in Promises, ~Finished(p),
             handlers' = [handlers EXCEPT ![p] = Append(@, h)], UNCHANGED <<flags, stack>>
      PROVE  Drained'
  <2>1. NoneSettled
    BY <1>3 DEF NoneSettled, Finished
  <2>2. \A q \in Promises : Finished(q) /\ handlers[q] = <<>> => handlers'[q] = <<>>
    BY <1>1, <1>3 DEF TypeOK
  <2>3. \A q \in Promises : Loops(stack, q) => Loops(stack, q)'
    BY <1>3 DEF Loops
  <2> QED
    BY <2>1, <2>2, <2>3, DrainedStays
<1>4. ASSUME NEW p \in Promises, NEW v \in Data, NEW t, Settle(p, v, t)
      PROVE  Drained'
  BY <1>2, <1>4 DEF Settle
<1>5. ASSUME NEW p \in Promises, NEW v \in Data, Cancel(p, v)
      PROVE  Drained'
  BY <1>2, <1>5 DEF Cancel
<1>6. ASSUME NEW p \in Promises, NEW h \in Promises, Then(p, h)
      PROVE  Drained'
  <2>1. CASE /\ Finished(p) /\ UNCHANGED handlers
             /\ Enter(h, result[p], flags[p] \cap Outcome, stack)
    <3>1. result[p] \in Data \cup {None}
      BY <1>1 DEF TypeOK
    <3> QED
      BY <1>2, <2>1, <3>1
  <2>2. CASE ~Finished(p)
    BY <1>3, <1>6, <2>2 DEF Then
  <2> QED
    BY <1>6, <2>1, <2>2 DEF Then
<1>7. ASSUME NEW p \in Promises, NEW h \in Promises, Chain(p, h)
      PROVE  Drained'
  BY <1>3, <1>7 DEF Chain
<1>8. ASSUME NEW p \in Promises, NEW h \in Promises, Forget(p, h)
      PROVE  Drained'
  <2>1. handlers' = [handlers EXCEPT ![p] = Forgotten(handlers[p], h)]
        /\ UNCHANGED <<flags, stack>>
    BY <1>8 DEF Forget
  <2>2. handlers[p] = <<>> => Forgotten(handlers[p], h) = <<>>
    BY <1>1, ForgottenFacts DEF TypeOK
  <2>3. \A q \in Promises : Finished(q) /\ handlers[q] = <<>> => handlers'[q] = <<>>
    BY <1>1, <2>1, <2>2 DEF TypeOK
  <2>4. NoneSettled
    BY <2>1 DEF NoneSettled, Finished
  <2>5. \A q \in Promises : Loops(stack, q) => Loops(stack, q)'
    BY <2>1 DEF Loops
  <2> QED
    BY <2>3, <2>4, <2>5, DrainedStays
<1>9. ASSUME NEW h \in Promises, NEW v \in Data, Start(h, v)
      PROVE  Drained'
  BY <1>2, <1>9 DEF Start
<1> QED
  BY <1>0, <1>4, <1>5, <1>6, <1>7, <1>8, <1>9 DEF Call, Done, Fail

LEMMA InnerDrains ==
  ASSUME IInv, Drained, Inner
  PROVE  Drained'
<1>1. Moves
  BY InnerShape
<1>2. PICK f \in Frame : Moved(f)
  BY <1>1 DEF Moves
<1>3. stack \in Seq(Frame) /\ stack # <<>> /\ stack[Len(stack)].at \notin Notifying
      /\ f.p = stack[Len(stack)].p /\ f.at \notin Notifying /\ stack' = WithTop(stack, f)
  BY <1>1, <1>2 DEF Moves, Moved, Notifying, Top
<1>4. \A q \in Promises : Loops(stack, q) => Loops(stack', q)
  BY <1>3, InnerOrder
<1>5. NoneSettled /\ handlers' = handlers
  BY <1>1 DEF Moves, kept, NoneSettled, Finished
<1>6. \A q \in Promises : Loops(stack, q) => Loops(stack, q)'
  BY <1>4 DEF Loops
<1> QED
  BY <1>5, <1>6, DrainedStays

LEMMA WatchPendingDrains ==
  ASSUME IInv, Drained, WatchPending
  PROVE  Drained'
<1>1. /\ stack \in Seq(Frame) /\ stack # <<>> /\ stack[Len(stack)].at \notin Notifying
      /\ stack' = Below(stack)
  BY TopTyped DEF WatchPending, Notifying, Top
<1>2. \A q \in Promises : Loops(stack, q) => Loops(stack', q)
  BY <1>1, BelowOrder
<1>3. NoneSettled
  BY DEF WatchPending, NoneSettled, Finished
<1>4. \A q \in Promises : Finished(q) /\ handlers[q] = <<>> => handlers'[q] = <<>>
  BY DEF WatchPending, IInv, TypeOK
<1>5. \A q \in Promises : Loops(stack, q) => Loops(stack, q)'
  BY <1>2 DEF Loops
<1> QED
  BY <1>3, <1>4, <1>5, DrainedStays

LEMMA SettledDrains ==
  ASSUME IInv, Drained, Settled
  PROVE  Drained'
<1> DEFINE f == [Top EXCEPT !.at = "notify", !.i = 1]
<1>1. /\ stack \in Seq(Frame) /\ stack # <<>> /\ Top \in Frame /\ Top.at = "resolved"
      /\ Top = stack[Len(stack)] /\ Len(stack) \in DOMAIN stack
  BY TopTyped DEF Settled, Top
<1>2. f \in Frame /\ f.p = Top.p /\ f.at = "notify"
  BY <1>1 DEF Frame, Label
<1>3. stack' = WithTop(stack, f) /\ handlers' = handlers
  BY DEF Settled, Replace
<1>4. /\ Len(stack) \in DOMAIN stack /\ DOMAIN stack' = DOMAIN stack
      /\ stack'[Len(stack)] = f
      /\ \A k \in DOMAIN stack : k = Len(stack) \/ stack'[k] = stack[k]
  <2> HIDE DEF f
  <2> QED
    BY <1>1, <1>2, <1>3, TopSplit
<1> HIDE DEF f
<1>5. \A q \in Promises : Loops(stack, q) \/ q = Top.p => Loops(stack, q)'
  BY <1>1, <1>2, <1>4 DEF Loops, Notifying
<1>6. \A q \in Promises : q # Top.p => (Finished(q)' <=> Finished(q))
  BY DEF Settled, Finished, IInv, TypeOK
<1> QED
  BY <1>3, <1>5, <1>6 DEF Drained

LEMMA LoopDrains ==
  ASSUME IInv, Drained, NotifyHandler \/ HandlerServed \/ HandlersNotified
  PROVE  Drained'
<1>p. PICK p \in Promises : p = Top.p
  BY TopTyped DEF NotifyHandler, HandlerServed, HandlersNotified
<1>0. /\ stack \in Seq(Frame) /\ stack # <<>> /\ Top \in Frame
      /\ Top = stack[Len(stack)] /\ Top.i \in Nat /\ Top.val \in Data \cup {None}
      /\ TypeOK
  BY TopTyped DEF NotifyHandler, HandlerServed, HandlersNotified, Top, IInv
<1>1. CASE NotifyHandler
  <2> DEFINE f == [Top EXCEPT !.at = "served"]
  <2>1. Top.at = "notify" /\ Disciplined(stack)
    BY <1>1 DEF NotifyHandler, TopAt, IInv, StackDiscipline
  <2>2. f \in Frame /\ f = [stack[Len(stack)] EXCEPT !.at = "served"]
    BY <1>0, <2>1 DEF Frame, Label
  <2>3. PICK h \in Promises : Enter(h, Top.val, Top.type, WithTop(stack, f))
    BY <1>1 DEF NotifyHandler, Slot
  <2> HIDE DEF f
  <2>4. \A q \in Promises : Loops(stack, q) => Loops(WithTop(stack, f), q)
    BY <1>0, <2>1, <2>2, ServeOrder
  <2>5. WithTop(stack, f) \in Seq(Frame)
    BY <1>0, <2>2, WithTopFacts
  <2>6. UNCHANGED handlers
    BY <1>1 DEF NotifyHandler
  <2> QED
    BY <1>0, <2>3, <2>4, <2>5, <2>6, EnterDrains
<1>2. CASE HandlerServed
  <2> DEFINE f == [Top EXCEPT !.at = "notify", !.i = Top.i + 1]
  <2>1. Top.at = "served" /\ stack' = WithTop(stack, f)
    BY <1>2 DEF HandlerServed, TopAt, Replace
  <2>2. f \in Frame /\ f.p = Top.p /\ f.at = "notify" /\ f.i = Top.i + 1
    <3>1. Top.i + 1 \in Nat
      BY <1>0
    <3> QED
      BY <1>0, <3>1 DEF Frame, Label
  <2> HIDE DEF f
  <2>3. \A q \in Promises : Loops(stack, q) => Loops(stack', q)
    BY <1>0, <2>1, <2>2, ServedOrder
  <2>4. \A q \in Promises : Loops(stack, q) => Loops(stack, q)'
    BY <2>3 DEF Loops
  <2>5. NoneSettled
    BY <1>2 DEF HandlerServed, NoneSettled, Finished
  <2>6. \A q \in Promises : Finished(q) /\ handlers[q] = <<>> => handlers'[q] = <<>>
    BY <1>0, <1>2, <1>p DEF HandlerServed, TypeOK
  <2> QED
    BY <2>4, <2>5, <2>6, DrainedStays
<1>3. CASE HandlersNotified
  <2>1. stack' = Below(stack) /\ handlers' = [handlers EXCEPT ![p] = <<>>] /\ UNCHANGED flags
    BY <1>3, <1>p DEF HandlersNotified
  <2>2. \A q \in Promises : q # p => (Loops(stack', q) <=> Loops(stack, q))
    BY <1>0, <1>p, <2>1, BelowOrder
  <2>3. \A q \in Promises : q # p /\ Loops(stack, q) => Loops(stack, q)'
    BY <2>2 DEF Loops
  <2>4. \A q \in Promises : /\ Finished(q)' <=> Finished(q)
                            /\ handlers'[q] = IF q = p THEN <<>> ELSE handlers[q]
    BY <1>0, <2>1 DEF Finished, TypeOK
  <2> QED
    BY <2>3, <2>4 DEF Drained
<1> QED
  BY <1>1, <1>2, <1>3

LEMMA NextDrains ==
  ASSUME IInv, Drained, "rechain" \notin Liberties, [Next]_vars
  PROVE  Drained'
<1>1. CASE Leave \/ \E v \in Offered : Yield(v)
  <2>1. Inner \/ ReturnIntoFreed
    BY <1>1, LeaveIsInner
  <2>2. CASE ReturnIntoFreed
    BY <2>2 DEF ReturnIntoFreed, Drained, Finished, Loops
  <2> QED
    BY <2>1, <2>2, InnerDrains
<1>2. CASE Machine
  <2>1. CASE NotifyCorrupted
    BY <2>1 DEF NotifyCorrupted, Drained, Finished, Loops
  <2>2. CASE WatchSettled \/ WatchGenerator \/ WatchPlain \/ Resume
    BY <2>2, InnerDrains DEF Inner
  <2> QED
    BY <1>2, <2>1, <2>2, WatchPendingDrains, SettledDrains, LoopDrains DEF Machine
<1>3. CASE UNCHANGED vars
  BY <1>3 DEF vars, Drained, Finished, Loops
<1> QED
  BY <1>1, <1>2, <1>3, UserDrains DEF Next, User
-----------------------------------------------------------------------------
(* The activations and the handlers stay in order.                         *)

\* No slot becomes due, and the handlers that are due are left alone.
LEMMA DueStays ==
  ASSUME NEW s, DuePending(s), DueOnce(s),
         \A q \in Promises : \A j \in DOMAIN handlers'[q] :
           Due(stack, q, j)' => Due(s, q, j) /\ handlers'[q][j] = handlers[q][j],
         \A q \in Promises : \A j \in DOMAIN handlers[q] : Due(s, q, j) =>
           /\ handlers[q][j] \in live' /\ flags'[handlers[q][j]] \cap Outcome = {}
           /\ ~Runs(stack', handlers[q][j])
           /\ await'[handlers[q][j]] = await[handlers[q][j]]
  PROVE  DuePending(stack)' /\ DueOnce(stack)'
<1>1. ASSUME NEW q \in Promises, NEW j \in DOMAIN handlers'[q], Due(stack, q, j)'
      PROVE  Waits(stack, q, handlers[q][j])'
  <2>1. Due(s, q, j) /\ handlers'[q][j] = handlers[q][j] /\ j \in DOMAIN handlers[q]
    BY <1>1 DEF Due
  <2>2. Waits(s, q, handlers[q][j])
    BY <2>1 DEF DuePending
  <2>3. /\ handlers[q][j] \in live' /\ flags'[handlers[q][j]] \cap Outcome = {}
        /\ ~Runs(stack', handlers[q][j])
        /\ await'[handlers[q][j]] = await[handlers[q][j]]
    BY <2>1
  <2> QED
    BY <2>1, <2>2, <2>3 DEF Waits, Runs, Finished
<1>2. ASSUME NEW q \in Promises, NEW x \in Promises,
             NEW i \in DOMAIN handlers'[q], NEW j \in DOMAIN handlers'[x],
             Due(stack, q, i)', Due(stack, x, j)', handlers'[q][i] = handlers'[x][j]
      PROVE  q = x /\ i = j
  <2>1. /\ Due(s, q, i) /\ Due(s, x, j) /\ handlers[q][i] = handlers[x][j]
        /\ i \in DOMAIN handlers[q] /\ j \in DOMAIN handlers[x]
    BY <1>2 DEF Due
  <2> QED
    BY <2>1 DEF DueOnce
<1> QED
  BY <1>1, <1>2 DEF DuePending, DueOnce

\* Nothing but the callbacks, the generators and the stack matters to Sound.
LEMMA SoundPrimed ==
  ASSUME Sound(stack'), UNCHANGED <<cbs, generator>>
  PROVE  Sound(stack)'
BY DEF Sound, RunsOnce, Ready

\* ion_promisor_resolve() of a promise that neither runs nor is due.
LEMMA EnterOrders ==
  ASSUME TypeOK, NEW rest \in Seq(Frame), InOrder(rest), Unborn, Results,
         NEW p \in Promises, NEW v \in Data, NEW t, Enter(p, v, t, rest),
         p \in live', live \subseteq live',
         ~Finished(p) =>
           /\ ~Runs(rest, p)
           /\ \A q \in Promises : \A j \in DOMAIN handlers[q] :
                Due(rest, q, j) => handlers[q][j] # p,
         UNCHANGED <<cbs, result, generator, handlers>>
  PROVE  Ordered'
<1>1. /\ NoneSettled
      /\ \A x \in Promises : x # p => await'[x] = await[x]
      /\ \/ Finished(p) /\ stack' = rest /\ await' = await
         \/ /\ ~Finished(p) /\ await'[p] = None
            /\ \E f \in Frame : /\ stack' = Push(rest, f) /\ f.p = p
                                /\ f.at \in {"call", "watch", "resolved"}
                                /\ f.at = "call" => cbs[p] # {}
                                /\ f.at # "call" => f.val = v
  BY EnterShape
<1>2. Unborn' /\ Results'
  BY <1>1 DEF NoneSettled, Unborn, Results, Finished
<1>3. /\ Sound(stack')
      /\ \A x \in Promises : Runs(stack', x) <=> Runs(rest, x) \/ (x = p /\ ~Finished(p))
      /\ \A q, j : Ahead(stack', q, j) <=> Ahead(rest, q, j)
  <2>1. CASE stack' = rest /\ Finished(p)
    BY <2>1 DEF InOrder
  <2>2. ASSUME NEW f \in Frame, stack' = Push(rest, f), f.p = p, ~Finished(p),
               f.at \in {"call", "watch", "resolved"}, f.at = "call" => cbs[p] # {},
               f.at # "call" => f.val = v
        PROVE  /\ Sound(stack')
               /\ \A x \in Promises : Runs(stack', x) <=> Runs(rest, x) \/ x = p
               /\ \A q, j : Ahead(stack', q, j) <=> Ahead(rest, q, j)
    <3>1. f.at \notin Notifying /\ Ready(f)
      BY <2>2 DEF Ready, Notifying
    <3> QED
      BY <2>2, <3>1, PushOrder DEF InOrder
  <2> QED
    BY <1>1, <2>1, <2>2
<1>4. Sound(stack)'
  BY <1>3, SoundPrimed
<1>5. RunsPending(stack)'
  <2>1. ASSUME NEW x \in Promises, Runs(stack', x)
        PROVE  x \in live' /\ ~Finished(x)' /\ await'[x] = None
    <3>1. CASE Runs(rest, x) /\ x # p
      BY <3>1, <1>1 DEF InOrder, RunsPending, NoneSettled
    <3>2. CASE Runs(rest, x) /\ x = p
      BY <3>2, <1>1 DEF InOrder, RunsPending, NoneSettled
    <3>3. CASE x = p /\ ~Finished(p)
      BY <3>3, <1>1 DEF NoneSettled
    <3> QED
      BY <2>1, <1>3, <3>1, <3>2, <3>3
  <2> QED
    BY <2>1 DEF RunsPending, Runs
<1>6. DuePending(stack)' /\ DueOnce(stack)'
  <2>1. ASSUME NEW q \in Promises, NEW j \in DOMAIN handlers'[q], Due(stack, q, j)'
        PROVE  Due(rest, q, j) /\ handlers'[q][j] = handlers[q][j]
    <3>1. Ahead(stack', q, j)
      BY <2>1 DEF Due, Ahead, Goes
    <3> QED
      BY <2>1, <3>1, <1>3 DEF Due
  <2>2. ASSUME NEW q \in Promises, NEW j \in DOMAIN handlers[q], Due(rest, q, j)
        PROVE  /\ handlers[q][j] \in live' /\ flags'[handlers[q][j]] \cap Outcome = {}
               /\ ~Runs(stack', handlers[q][j])
               /\ await'[handlers[q][j]] = await[handlers[q][j]]
    <3>1. handlers[q][j] \in Promises /\ Waits(rest, q, handlers[q][j])
      BY <2>2 DEF InOrder, DuePending, Due
    <3>2. handlers[q][j] # p
      BY <2>2, <3>1 DEF Waits
    <3> QED
      BY <3>1, <3>2, <1>1, <1>3 DEF Waits, NoneSettled, Finished
  <2> QED
    BY <2>1, <2>2, DueStays DEF InOrder
<1> QED
  BY <1>2, <1>4, <1>5, <1>6 DEF Ordered, InOrder

\* done(), fail() and cancel() of a deferred that is idle.
LEMMA SettleOrders ==
  ASSUME IInv, Ordered, NEW p \in Promises, NEW v \in Data, NEW t,
         p \in live, Kind[p] # "Promise", await[p] = None, ~Running(p),
         Enter(p, v, t, stack), UNCHANGED <<live, cbs, result, generator, handlers>>
  PROVE  Ordered'
<1>1. stack \in Seq(Frame) /\ TypeOK /\ None \notin Promises
  BY TokensAssumption DEF IInv, TypeOK, Data
<1>2. ~Runs(stack, p)
  <2>1. \A k \in DOMAIN stack : stack[k].at \in Label
    BY <1>1, InRange DEF Frame
  <2> QED
    BY <2>1 DEF Runs, Running, Label, Notifying
<1>3. ASSUME NEW q \in Promises, NEW j \in DOMAIN handlers[q], Due(stack, q, j)
      PROVE  handlers[q][j] # p
  BY <1>1, <1>3 DEF Ordered, InOrder, DuePending, Waits
<1> QED
  BY <1>1, <1>2, <1>3, EnterOrders DEF Ordered

\* A promise that is created and resolved in one call.
LEMMA BirthOrders ==
  ASSUME IInv, Ordered, NEW h \in Promises, NEW v \in Data, NEW t,
         h \notin live, live' = live \cup {h},
         Enter(h, v, t, stack), UNCHANGED <<cbs, result, generator, handlers>>
  PROVE  Ordered'
<1>1. stack \in Seq(Frame) /\ TypeOK
  BY DEF IInv, TypeOK
<1>2. ~Runs(stack, h)
  BY DEF Ordered, InOrder, RunsPending
<1>3. ASSUME NEW q \in Promises, NEW j \in DOMAIN handlers[q], Due(stack, q, j)
      PROVE  handlers[q][j] # h
  BY <1>3 DEF Ordered, InOrder, DuePending, Waits
<1> QED
  BY <1>1, <1>2, <1>3, EnterOrders DEF Ordered

\* What a slot of an array that grows at its end holds.
LEMMA AppendSlots ==
  ASSUME NEW S, NEW s \in Seq(S), NEW e \in S
  PROVE  /\ Append(s, e) \in Seq(S)
         /\ \A j \in DOMAIN Append(s, e) :
              \/ j \in DOMAIN s /\ Append(s, e)[j] = s[j]
              \/ j = Len(s) + 1 /\ j \notin DOMAIN s /\ Append(s, e)[j] = e
         /\ \A j \in DOMAIN s : j \in DOMAIN Append(s, e) /\ Append(s, e)[j] = s[j]
OBVIOUS

\* A new handler, waiting for p or not resolved yet, and due nowhere else.
LEMMA AppendOrders ==
  ASSUME TypeOK, NEW p \in Promises, NEW h \in Promises,
         DuePending(stack), DueOnce(stack), NoneSettled,
         handlers' = [handlers EXCEPT ![p] = Append(@, h)], live \subseteq live',
         \A q, j : Ahead(stack', q, j) <=> Ahead(stack, q, j),
         \A x \in Promises : Runs(stack', x) => Runs(stack, x),
         \A x \in Promises : x # h => await'[x] = await[x],
         \A q \in Promises : \A j \in DOMAIN handlers[q] :
           Due(stack, q, j) => handlers[q][j] # h,
         h \in live', ~Finished(h), ~Runs(stack', h),
         await'[h] = p \/ (await'[h] = None /\ Kind[h] = "Promise")
  PROVE  DuePending(stack)' /\ DueOnce(stack)'
<1>0. /\ handlers[p] \in Seq(Promises \cup {None, Junk})
      /\ handlers'[p] = Append(handlers[p], h)
      /\ \A q \in Promises : q # p => handlers'[q] = handlers[q]
  BY DEF TypeOK
<1>1. ASSUME NEW q \in Promises, NEW j \in DOMAIN handlers'[q], Due(stack, q, j)'
      PROVE  \/ /\ Due(stack, q, j) /\ handlers'[q][j] = handlers[q][j]
                /\ j \in DOMAIN handlers[q]
             \/ q = p /\ j = Len(handlers[p]) + 1 /\ handlers'[q][j] = h
  <2>1. Ahead(stack, q, j) /\ handlers'[q][j] \in Promises
    <3>1. Ahead(stack', q, j)
      BY <1>1 DEF Due, Ahead, Goes
    <3> QED
      BY <1>1, <3>1 DEF Due
  <2>2. CASE q # p
    BY <2>1, <2>2, <1>0, <1>1 DEF Due
  <2>3. CASE q = p
    <3>1. \/ j \in DOMAIN handlers[p] /\ Append(handlers[p], h)[j] = handlers[p][j]
          \/ j = Len(handlers[p]) + 1 /\ Append(handlers[p], h)[j] = h
      BY <1>0, <1>1, <2>3, AppendSlots
    <3> QED
      BY <3>1, <2>1, <2>3, <1>0 DEF Due
  <2> QED
    BY <2>2, <2>3
<1>2. ASSUME NEW q \in Promises, NEW j \in DOMAIN handlers'[q], Due(stack, q, j)'
      PROVE  Waits(stack, q, handlers[q][j])'
  <2>1. CASE Due(stack, q, j) /\ handlers'[q][j] = handlers[q][j] /\ j \in DOMAIN handlers[q]
    <3>1. /\ Waits(stack, q, handlers[q][j]) /\ handlers[q][j] \in Promises
          /\ handlers[q][j] # h
      BY <2>1 DEF DuePending, Due
    <3>2. /\ handlers[q][j] \in live' /\ flags'[handlers[q][j]] \cap Outcome = {}
          /\ ~Runs(stack', handlers[q][j])
          /\ await'[handlers[q][j]] = await[handlers[q][j]]
      BY <3>1 DEF Waits, NoneSettled, Finished
    <3> QED
      BY <2>1, <3>1, <3>2 DEF Waits, Runs, Finished
  <2>2. CASE q = p /\ handlers'[q][j] = h
    <3>1. ~Finished(h)'
      BY DEF NoneSettled
    <3> QED
      BY <2>2, <3>1 DEF Waits, Runs, Finished
  <2> QED
    BY <1>1, <1>2, <2>1, <2>2
<1>3. ASSUME NEW q \in Promises, NEW x \in Promises,
             NEW i \in DOMAIN handlers'[q], NEW j \in DOMAIN handlers'[x],
             Due(stack, q, i)', Due(stack, x, j)', handlers'[q][i] = handlers'[x][j]
      PROVE  q = x /\ i = j
  <2>1. \/ /\ Due(stack, q, i) /\ handlers'[q][i] = handlers[q][i] /\ i \in DOMAIN handlers[q]
        \/ q = p /\ i = Len(handlers[p]) + 1 /\ handlers'[q][i] = h
    BY <1>1, <1>3
  <2>2. \/ /\ Due(stack, x, j) /\ handlers'[x][j] = handlers[x][j] /\ j \in DOMAIN handlers[x]
        \/ x = p /\ j = Len(handlers[p]) + 1 /\ handlers'[x][j] = h
    BY <1>1, <1>3
  <2>3. CASE Due(stack, q, i) /\ Due(stack, x, j)
    <3>1. handlers[q][i] = handlers[x][j] /\ i \in DOMAIN handlers[q] /\ j \in DOMAIN handlers[x]
      BY <2>1, <2>2, <2>3, <1>3 DEF Due
    <3> QED
      BY <2>3, <3>1 DEF DueOnce
  <2> QED
    BY <2>1, <2>2, <2>3, <1>3
<1> QED
  BY <1>2, <1>3 DEF DuePending, DueOnce

\* then() and then(Promise): the handler is created here.
LEMMA HandlerOrders ==
  ASSUME IInv, Ordered, NEW p \in Promises, NEW h \in Promises,
         h \notin live, Kind[h] = "Promise", live' = live \cup {h},
         handlers' = [handlers EXCEPT ![p] = Append(@, h)],
         UNCHANGED <<flags, cbs, result, await, generator, stack>>
  PROVE  Ordered'
<1>1. TypeOK /\ NoneSettled
  BY DEF IInv, NoneSettled, Finished
<1>2. /\ ~Runs(stack, h) /\ ~Finished(h) /\ await[h] = None
      /\ \A q \in Promises : \A j \in DOMAIN handlers[q] :
           Due(stack, q, j) => handlers[q][j] # h
  BY DEF Ordered, InOrder, RunsPending, DuePending, Waits, Unborn
<1>3. DuePending(stack)' /\ DueOnce(stack)'
  BY <1>1, <1>2, AppendOrders DEF Ordered, InOrder
<1>4. Sound(stack)'
  BY SoundPrimed DEF Ordered, InOrder
<1>5. RunsPending(stack)'
  BY DEF Ordered, InOrder, RunsPending, Runs, Finished
<1>6. Unborn' /\ Results'
  BY DEF Ordered, Unborn, Results, Finished
<1> QED
  BY <1>3, <1>4, <1>5, <1>6 DEF Ordered, InOrder

\* forget(): what is still due was due before, in a slot not before this one.
LEMMA ForgetOrders ==
  ASSUME IInv, Ordered, NEW p \in Promises, NEW h \in Promises, Forget(p, h)
  PROVE  Ordered'
<1>1. /\ handlers \in [Promises -> Seq(Promises \cup {None, Junk})]
      /\ handlers' = [handlers EXCEPT ![p] = Forgotten(handlers[p], h)]
      /\ UNCHANGED <<live, flags, cbs, result, await, generator, stack>>
  BY DEF Forget, IInv, TypeOK
<1>2. /\ handlers'[p] = Forgotten(handlers[p], h)
      /\ \A q \in Promises : q # p => handlers'[q] = handlers[q]
      /\ handlers[p] \in Seq(Promises \cup {None, Junk})
  BY <1>1
<1>3. /\ \A n \in DOMAIN handlers'[p] : handlers'[p][n] \in Promises =>
           \E j \in DOMAIN handlers[p] : n <= j /\ handlers[p][j] = handlers'[p][n]
      /\ \A m, n \in DOMAIN handlers'[p] :
           m # n /\ handlers'[p][m] \in Promises /\ handlers'[p][m] = handlers'[p][n] =>
           \E i, j \in DOMAIN handlers[p] :
             /\ i # j /\ m <= i /\ n <= j
             /\ handlers[p][i] = handlers'[p][m] /\ handlers[p][j] = handlers[p][i]
      /\ handlers'[p] \in Seq(Promises \cup {None, Junk})
  <2> DEFINE s == handlers[p]
             t == Forgotten(s, h)
  <2>1. s \in Seq(Promises \cup {None, Junk})
    BY <1>2
  <2> HIDE DEF s
  <2>2. /\ \A n \in DOMAIN t : t[n] \in Promises => \E j \in DOMAIN s : n <= j /\ s[j] = t[n]
        /\ \A m, n \in DOMAIN t : m # n /\ t[m] \in Promises /\ t[m] = t[n] =>
             \E i, j \in DOMAIN s : /\ i # j /\ m <= i /\ n <= j
                                    /\ s[i] = t[m] /\ s[j] = s[i]
        /\ t \in Seq(Promises \cup {None, Junk})
    BY <2>1, ForgottenFacts
  <2>3. handlers'[p] = t /\ handlers[p] = s
    BY <1>2 DEF s
  <2> HIDE DEF t
  <2> QED
    BY <2>2, <2>3
<1>4. ASSUME NEW m \in DOMAIN handlers'[p], NEW j \in DOMAIN handlers[p], m <= j,
             Ahead(stack, p, m)
      PROVE  Ahead(stack, p, j)
  <2>1. \A k \in DOMAIN stack : Goes(stack[k]) \in Nat
    <3>1. \A k \in DOMAIN stack : stack[k] \in Frame
      BY InRange DEF IInv, TypeOK
    <3> QED
      BY <3>1 DEF Goes, Frame
  <2>2. m \in Nat /\ j \in Nat
    BY <1>2, <1>3
  <2>3. \A n \in Nat : n <= m => n <= j
    BY <2>2, <1>4
  <2> QED
    BY <1>4, <2>1, <2>3 DEF Ahead
<1>5. \A q \in Promises : \A j : Due(stack, q, j)' <=>
        j \in DOMAIN handlers'[q] /\ handlers'[q][j] \in Promises /\ Ahead(stack, q, j)
  BY <1>1 DEF Due, Ahead, Goes
<1>6. ASSUME NEW q \in Promises, NEW n \in DOMAIN handlers'[q], Due(stack, q, n)'
      PROVE  \E j \in DOMAIN handlers[q] : /\ Due(stack, q, j) /\ n <= j
                                          /\ handlers[q][j] = handlers'[q][n]
  <2>1. CASE q = p
    <3>1. PICK j \in DOMAIN handlers[p] : n <= j /\ handlers[p][j] = handlers'[p][n]
      BY <2>1, <1>3, <1>5, <1>6
    <3>2. Ahead(stack, p, j)
      BY <2>1, <3>1, <1>4, <1>5, <1>6
    <3> QED
      BY <2>1, <3>1, <3>2, <1>5, <1>6 DEF Due
  <2>2. CASE q # p
    <3>1. handlers'[q] = handlers[q] /\ handlers[q] \in Seq(Promises \cup {None, Junk})
      BY <2>2, <1>1, <1>2
    <3>2. n \in DOMAIN handlers[q] /\ n <= n
      BY <3>1, <1>6
    <3> QED
      BY <3>1, <3>2, <1>5, <1>6 DEF Due
  <2> QED
    BY <2>1, <2>2
<1>7. DuePending(stack)'
  <2>1. ASSUME NEW q \in Promises, NEW n \in DOMAIN handlers'[q], Due(stack, q, n)'
        PROVE  Waits(stack, q, handlers[q][n])'
    <3>1. PICK j \in DOMAIN handlers[q] : Due(stack, q, j) /\ handlers[q][j] = handlers'[q][n]
      BY <1>6, <2>1
    <3>2. Waits(stack, q, handlers'[q][n])
      BY <3>1 DEF Ordered, InOrder, DuePending
    <3> QED
      BY <3>2, <1>1 DEF Waits, Runs, Finished
  <2> QED
    BY <2>1 DEF DuePending
<1>8. DueOnce(stack)'
  <2>1. ASSUME NEW q \in Promises, NEW x \in Promises,
               NEW m \in DOMAIN handlers'[q], NEW n \in DOMAIN handlers'[x],
               Due(stack, q, m)', Due(stack, x, n)', handlers'[q][m] = handlers'[x][n]
        PROVE  q = x /\ m = n
    <3>1. PICK i \in DOMAIN handlers[q] : Due(stack, q, i) /\ handlers[q][i] = handlers'[q][m]
      BY <1>6, <2>1
    <3>2. PICK j \in DOMAIN handlers[x] : Due(stack, x, j) /\ handlers[x][j] = handlers'[x][n]
      BY <1>6, <2>1
    <3>3. q = x /\ i = j
      BY <2>1, <3>1, <3>2 DEF Ordered, InOrder, DueOnce
    <3>4. CASE q # p
      <4>1. handlers'[q] = handlers[q]
        BY <3>4, <1>2
      <4>2. Due(stack, q, m) /\ Due(stack, q, n) /\ handlers[q][m] = handlers[q][n]
        BY <4>1, <3>3, <2>1, <1>5 DEF Due
      <4> QED
        BY <4>1, <4>2, <3>3, <2>1 DEF Ordered, InOrder, DueOnce
    <3>5. CASE q = p /\ m # n
      <4>1. PICK k, l \in DOMAIN handlers[p] :
              /\ k # l /\ m <= k /\ n <= l
              /\ handlers[p][k] = handlers'[p][m] /\ handlers[p][l] = handlers[p][k]
        BY <3>5, <3>3, <2>1, <1>3, <1>5
      <4>2. Due(stack, p, k) /\ Due(stack, p, l)
        BY <4>1, <3>5, <3>3, <2>1, <1>4, <1>5 DEF Due
      <4> QED
        BY <4>1, <4>2 DEF Ordered, InOrder, DueOnce
    <3> QED
      BY <3>3, <3>4, <3>5
  <2> QED
    BY <2>1 DEF DueOnce
<1>9. Sound(stack)' /\ RunsPending(stack)' /\ Unborn' /\ Results'
  BY <1>1, SoundPrimed DEF Ordered, InOrder, RunsPending, Runs, Unborn, Results, Finished
<1> QED
  BY <1>7, <1>8, <1>9 DEF Ordered, InOrder

\* An activation goes on.
LEMMA InnerOrders ==
  ASSUME IInv, Ordered, Inner
  PROVE  Ordered'
<1>1. Moves
  BY InnerShape
<1>2. PICK f \in Frame : Moved(f)
  BY <1>1 DEF Moves
<1>3. /\ stack \in Seq(Frame) /\ stack # <<>> /\ stack[Len(stack)].at \notin Notifying
      /\ f.p = stack[Len(stack)].p /\ f.at \notin Notifying /\ stack' = WithTop(stack, f)
      /\ f.at # "call" /\ Top = stack[Len(stack)] /\ f.p = Top.p
  BY <1>1, <1>2 DEF Moves, Moved, Notifying, Top
<1>4. /\ \A x : Runs(stack', x) <=> Runs(stack, x)
      /\ \A q, j : Ahead(stack', q, j) <=> Ahead(stack, q, j)
      /\ RunsOnce(stack')
  BY <1>3, InnerOrder DEF Ordered, InOrder, Sound
<1>5. /\ UNCHANGED <<live, flags, cbs, result, await, handlers>>
      /\ generator' \ {Top.p} = generator \ {Top.p}
  BY <1>1 DEF Moves, kept
<1>6. /\ Len(stack) \in DOMAIN stack /\ DOMAIN stack' = DOMAIN stack
      /\ stack'[Len(stack)] = f
      /\ \A k \in DOMAIN stack : k = Len(stack) \/ stack'[k] = stack[k]
  BY <1>3, TopSplit
<1>7. Ready(f)'
  <2>1. Top.at \notin {"call", "body"} => Top.val \in Data
    BY <1>3, <1>6 DEF Ordered, InOrder, Sound, Ready
  <2> QED
    BY <1>2, <1>3, <2>1 DEF Moved, Ready, Ordered
<1>8. Sound(stack)'
  <2>1. ASSUME NEW k \in DOMAIN stack, k # Len(stack)
        PROVE  Ready(stack[k])'
    <3>1. Ready(stack[k]) /\ stack'[k] = stack[k]
      BY <2>1, <1>6 DEF Ordered, InOrder, Sound
    <3>2. stack[k].at = "body" => stack[k].p # Top.p
      <4>1. stack[k].at = "body" => stack[k].at \notin Notifying
        BY DEF Notifying
      <4> QED
        BY <2>1, <1>3, <1>6, <4>1 DEF Ordered, InOrder, Sound, RunsOnce
    <3> QED
      BY <3>1, <3>2, <1>5 DEF Ready
  <2>2. \A k \in DOMAIN stack' : Ready(stack[k])'
    BY <2>1, <1>6, <1>7 DEF Ready
  <2> QED
    BY <2>2, <1>4 DEF Sound, RunsOnce
<1>9. RunsPending(stack)'
  BY <1>4, <1>5 DEF Ordered, InOrder, RunsPending, Runs, Finished
<1>10. DuePending(stack)' /\ DueOnce(stack)'
  <2>1. ASSUME NEW q \in Promises, NEW j \in DOMAIN handlers'[q], Due(stack, q, j)'
        PROVE  Due(stack, q, j) /\ handlers'[q][j] = handlers[q][j]
    <3>1. Ahead(stack', q, j)
      BY <2>1 DEF Due, Ahead, Goes
    <3> QED
      BY <2>1, <3>1, <1>4, <1>5 DEF Due
  <2>2. ASSUME NEW q \in Promises, NEW j \in DOMAIN handlers[q], Due(stack, q, j)
        PROVE  /\ handlers[q][j] \in live' /\ flags'[handlers[q][j]] \cap Outcome = {}
               /\ ~Runs(stack', handlers[q][j])
               /\ await'[handlers[q][j]] = await[handlers[q][j]]
    BY <2>2, <1>4, <1>5 DEF Ordered, InOrder, DuePending, Waits, Finished
  <2> QED
    BY <2>1, <2>2, DueStays DEF Ordered, InOrder
<1> QED
  BY <1>5, <1>8, <1>9, <1>10 DEF Ordered, InOrder, Unborn, Results, Finished

\* What runs now waits for a pending promise, and is its last handler.
LEMMA WatchPendingOrders ==
  ASSUME IInv, Ordered, WatchPending
  PROVE  Ordered'
<1>p. PICK p \in Promises : p = Top.p
  BY TopTyped DEF WatchPending
<1>q. PICK q \in Promises : q = Top.val
  BY DEF WatchPending
<1>0. /\ TopAt("watch") /\ ~Finished(q)
      /\ await' = [await EXCEPT ![p] = q]
      /\ handlers' = [handlers EXCEPT ![q] = Append(@, p)]
      /\ stack' = Below(stack)
      /\ UNCHANGED <<live, flags, cbs, result, generator>>
  BY <1>p, <1>q DEF WatchPending
<1>1. /\ stack \in Seq(Frame) /\ stack # <<>> /\ stack[Len(stack)].at \notin Notifying
      /\ Top = stack[Len(stack)] /\ Len(stack) \in DOMAIN stack /\ TypeOK
  BY <1>0, TopTyped DEF Notifying, Top, IInv
<1>2. /\ \A x : Runs(stack', x) <=> Runs(stack, x) /\ x # p
      /\ \A x, j : Ahead(stack', x, j) <=> Ahead(stack, x, j)
      /\ Sound(stack')
  BY <1>p, <1>0, <1>1, BelowOrder DEF Ordered, InOrder, Sound
<1>3. Runs(stack, p)
  BY <1>p, <1>1 DEF Runs
<1>4. p \in live /\ ~Finished(p) /\ await[p] = None
  BY <1>3 DEF Ordered, InOrder, RunsPending
<1>5. NoneSettled /\ await'[p] = q /\ \A x \in Promises : x # p => await'[x] = await[x]
  BY <1>0, <1>1 DEF NoneSettled, Finished, TypeOK
<1>6. DuePending(stack)' /\ DueOnce(stack)'
  <2>1. \A x \in Promises : \A j \in DOMAIN handlers[x] :
          Due(stack, x, j) => handlers[x][j] # p
    BY <1>3 DEF Ordered, InOrder, DuePending, Waits
  <2>2. /\ DuePending(stack) /\ DueOnce(stack) /\ live \subseteq live' /\ p \in live'
        /\ \A x \in Promises : Runs(stack', x) => Runs(stack, x)
        /\ ~Runs(stack', p)
    BY <1>0, <1>2, <1>4 DEF Ordered, InOrder
  <2> QED
    BY <2>1, <2>2, <1>0, <1>1, <1>2, <1>4, <1>5, AppendOrders
<1>7. RunsPending(stack)'
  <2>1. ASSUME NEW x \in Promises, Runs(stack', x)
        PROVE  x \in live' /\ ~Finished(x)' /\ await'[x] = None
    BY <2>1, <1>0, <1>2, <1>5 DEF Ordered, InOrder, RunsPending, NoneSettled
  <2> QED
    BY <2>1 DEF RunsPending, Runs
<1>8. Unborn' /\ Results'
  BY <1>0, <1>4, <1>5 DEF Ordered, Unborn, Results, NoneSettled
<1> QED
  BY <1>0, <1>2, <1>6, <1>7, <1>8, SoundPrimed DEF Ordered, InOrder

\* What runs is settled, and its loop starts before its first handler.
LEMMA SettledOrders ==
  ASSUME IInv, Ordered, Settled
  PROVE  Ordered'
<1>p. PICK p \in Promises : p = Top.p
  BY TopTyped DEF Settled
<1>f. PICK f \in Frame : f = [Top EXCEPT !.at = "notify", !.i = 1]
  <2>1. Top \in Frame
    BY TopTyped DEF Settled
  <2>2. [Top EXCEPT !.at = "notify", !.i = 1] \in Frame
    BY <2>1 DEF Frame, Label
  <2> QED
    BY <2>2
<1>1. /\ stack \in Seq(Frame) /\ stack # <<>> /\ Top \in Frame /\ Top.at = "resolved"
      /\ Top = stack[Len(stack)] /\ Len(stack) \in DOMAIN stack /\ TypeOK
      /\ stack[Len(stack)].at \notin Notifying
  BY TopTyped DEF Settled, Top, IInv, Notifying
<1>2. /\ f \in Frame /\ f.p = p /\ f.at = "notify" /\ f.i = 1 /\ f.val = Top.val
      /\ f.p = stack[Len(stack)].p
  BY <1>p, <1>f, <1>1 DEF Frame, Label
<1>3. /\ stack' = WithTop(stack, f)
      /\ result' = [result EXCEPT ![p] = Top.val]
      /\ flags' = [flags EXCEPT ![p] = (@ \cup Top.type) \ {"processing"}]
      /\ cbs' = [cbs EXCEPT ![p] = {}] /\ p \notin generator
      /\ UNCHANGED <<live, await, generator, handlers>>
  BY <1>p, <1>f DEF Settled, Replace
<1>4. /\ \A x : Runs(stack', x) <=> Runs(stack, x) /\ x # p
      /\ \A x : \A j \in Nat \ {0} : Ahead(stack', x, j) <=> Ahead(stack, x, j)
      /\ RunsOnce(stack')
  <2>1. RunsOnce(stack)
    BY DEF Ordered, InOrder, Sound
  <2> QED
    BY <1>1, <1>2, <1>3, <2>1, SettleOrder
<1>5. Runs(stack, p) /\ p \in live
  <2>1. Runs(stack, p)
    BY <1>p, <1>1 DEF Runs
  <2> QED
    BY <2>1 DEF Ordered, InOrder, RunsPending
<1>6. /\ \A x \in Promises : x # p => (Finished(x)' <=> Finished(x))
      /\ Top.val \in Data
  <2>1. Ready(Top)
    BY <1>1 DEF Ordered, InOrder, Sound
  <2> QED
    BY <1>1, <1>3, <2>1 DEF Finished, TypeOK, Ready
<1>7. Sound(stack)'
  <2>1. /\ DOMAIN stack' = DOMAIN stack /\ stack'[Len(stack)] = f
        /\ \A k \in DOMAIN stack : k = Len(stack) \/ stack'[k] = stack[k]
    BY <1>1, <1>2, <1>3, TopSplit
  <2>2. Ready(f)'
    BY <1>2, <1>6 DEF Ready
  <2>3. ASSUME NEW k \in DOMAIN stack, k # Len(stack)
        PROVE  Ready(stack[k])'
    <3>1. Ready(stack[k]) /\ stack'[k] = stack[k] /\ stack[k].p \in Promises
      BY <2>1, <2>3, <1>1, InRange DEF Ordered, InOrder, Sound
    <3>2. stack[k].at \notin Notifying => stack[k].p # p
      BY <2>3, <1>p, <1>1 DEF Ordered, InOrder, Sound, RunsOnce
    <3> QED
      BY <3>1, <3>2, <1>1, <1>3 DEF Ready, TypeOK, Notifying
  <2>4. \A k \in DOMAIN stack' : Ready(stack[k])'
    BY <2>1, <2>2, <2>3 DEF Ready
  <2> QED
    BY <2>4, <1>4 DEF Sound, RunsOnce
<1>8. RunsPending(stack)'
  <2>1. ASSUME NEW x \in Promises, Runs(stack', x)
        PROVE  x \in live' /\ ~Finished(x)' /\ await'[x] = None
    BY <2>1, <1>3, <1>4, <1>6 DEF Ordered, InOrder, RunsPending
  <2> QED
    BY <2>1 DEF RunsPending, Runs
<1>9. DuePending(stack)' /\ DueOnce(stack)'
  <2>1. ASSUME NEW q \in Promises, NEW j \in DOMAIN handlers'[q], Due(stack, q, j)'
        PROVE  Due(stack, q, j) /\ handlers'[q][j] = handlers[q][j]
    <3>1. Ahead(stack', q, j)
      BY <2>1 DEF Due, Ahead, Goes
    <3>2. j \in Nat \ {0}
      <4>1. handlers'[q] \in Seq(Promises \cup {None, Junk})
        BY <1>1, <1>3 DEF TypeOK
      <4> QED
        BY <4>1, <2>1
    <3> QED
      BY <2>1, <3>1, <3>2, <1>3, <1>4 DEF Due
  <2>2. ASSUME NEW q \in Promises, NEW j \in DOMAIN handlers[q], Due(stack, q, j)
        PROVE  /\ handlers[q][j] \in live' /\ flags'[handlers[q][j]] \cap Outcome = {}
               /\ ~Runs(stack', handlers[q][j])
               /\ await'[handlers[q][j]] = await[handlers[q][j]]
    <3>1. Waits(stack, q, handlers[q][j]) /\ handlers[q][j] \in Promises
      BY <2>2 DEF Ordered, InOrder, DuePending, Due
    <3> QED
      BY <3>1, <1>3, <1>4, <1>5, <1>6 DEF Waits, Finished
  <2> QED
    BY <2>1, <2>2, DueStays DEF Ordered, InOrder
<1>10. Unborn' /\ Results'
  <2>1. Unborn'
    BY <1>3, <1>5, <1>6 DEF Ordered, Unborn
  <2>2. Results'
    BY <1>1, <1>3, <1>6 DEF Ordered, Results, TypeOK
  <2> QED
    BY <2>1, <2>2
<1> QED
  BY <1>7, <1>8, <1>9, <1>10 DEF Ordered, InOrder

\* The handler that is resolved was due, and is not any more.
LEMMA SlotDue ==
  ASSUME IInv, Ordered, NEW p \in Promises, p = Top.p, NotifyHandler
  PROVE  /\ Slot \in Promises /\ Due(stack, p, Top.i) /\ Slot = handlers[p][Top.i]
         /\ Waits(stack, p, Slot) /\ Top.i \in DOMAIN handlers[p]
         /\ Top.val \in Data
<1>1. /\ stack \in Seq(Frame) /\ stack # <<>> /\ Top \in Frame /\ Top.at = "notify"
      /\ Top = stack[Len(stack)] /\ Len(stack) \in DOMAIN stack /\ TypeOK /\ Top.i \in Nat
      /\ Disciplined(stack)
  BY TopTyped DEF NotifyHandler, Top, IInv, StackDiscipline
<1>2. Ready(Top)
  BY <1>1 DEF Ordered, InOrder, Sound
<1>3. Top.i # 0 /\ Top.val \in Data
  BY <1>1, <1>2 DEF Ready, Notifying
<1>4. Top.i \in DOMAIN handlers[p] /\ Slot \in Promises /\ Slot = handlers[p][Top.i]
  <2>1. handlers[p] \in Seq(Promises \cup {None, Junk})
    BY <1>1 DEF TypeOK
  <2> QED
    BY <2>1, <1>1, <1>3 DEF NotifyHandler, Slot
<1>5. Ahead(stack, p, Top.i)
  <2> DEFINE f == [stack[Len(stack)] EXCEPT !.at = "served"]
  <2>1. f \in Frame /\ f.p = p /\ f.i = Top.i
    BY <1>1 DEF Frame, Label
  <2> HIDE DEF f
  <2>2. Ahead(stack, f.p, f.i)
    BY <1>1, <2>1, ServeOrder DEF f
  <2> QED
    BY <2>1, <2>2
<1>6. Due(stack, p, Top.i)
  BY <1>4, <1>5 DEF Due
<1> QED
  BY <1>3, <1>4, <1>6 DEF Ordered, InOrder, DuePending

LEMMA NotifyHandlerOrders ==
  ASSUME IInv, Ordered, NotifyHandler
  PROVE  Ordered'
<1>p. PICK p \in Promises : p = Top.p
  BY TopTyped DEF NotifyHandler
<1>h. PICK h \in Promises : h = Slot
  BY <1>p, SlotDue
<1>f. PICK f \in Frame : f = [Top EXCEPT !.at = "served"]
  <2>1. Top \in Frame
    BY TopTyped DEF NotifyHandler
  <2>2. [Top EXCEPT !.at = "served"] \in Frame
    BY <2>1 DEF Frame, Label
  <2> QED
    BY <2>2
<1>1. /\ stack \in Seq(Frame) /\ stack # <<>> /\ Top \in Frame /\ Top.at = "notify"
      /\ Top = stack[Len(stack)] /\ Len(stack) \in DOMAIN stack /\ TypeOK
      /\ Disciplined(stack) /\ Top.i \in Nat
  BY TopTyped DEF NotifyHandler, Top, IInv, StackDiscipline
<1>2. f.p = p /\ f.i = Top.i /\ f.at = "served" /\ f.val = Top.val
  BY <1>p, <1>f, <1>1 DEF Frame
<1>3. PICK rest \in Seq(Frame) : rest = WithTop(stack, f)
  BY <1>1, WithTopFacts
<1>4. /\ \A x : Runs(rest, x) <=> Runs(stack, x)
      /\ \A q : \A j \in Nat : Ahead(rest, q, j) => Ahead(stack, q, j)
      /\ ~Ahead(rest, p, Top.i) /\ RunsOnce(rest)
  <2>1. RunsOnce(stack)
    BY DEF Ordered, InOrder, Sound
  <2> QED
    BY <1>f, <1>1, <1>2, <1>3, <2>1, ServeOrder
<1>5. /\ h = handlers[p][Top.i] /\ Due(stack, p, Top.i) /\ Waits(stack, p, h)
      /\ Top.i \in DOMAIN handlers[p] /\ Top.val \in Data
  BY <1>p, <1>h, SlotDue
<1>6. \A q \in Promises : \A j \in DOMAIN handlers[q] : Due(rest, q, j) => Due(stack, q, j)
  <2>1. \A q \in Promises : DOMAIN handlers[q] \subseteq Nat
    BY <1>1 DEF TypeOK
  <2> QED
    BY <2>1, <1>4 DEF Due
<1>7. Sound(rest)
  <2>1. /\ DOMAIN rest = DOMAIN stack /\ rest[Len(stack)] = f
        /\ \A k \in DOMAIN stack : k = Len(stack) \/ rest[k] = stack[k]
    BY <1>1, <1>3, TopSplit
  <2>2. Ready(f)
    <3>1. Ready(Top)
      BY <1>1 DEF Ordered, InOrder, Sound
    <3> QED
      BY <3>1, <1>1, <1>2 DEF Ready, Notifying
  <2> QED
    BY <2>1, <2>2, <1>4 DEF Ordered, InOrder, Sound
<1>8. InOrder(rest)
  <2>1. RunsPending(rest)
    BY <1>4 DEF Ordered, InOrder, RunsPending
  <2>2. DuePending(rest)
    BY <1>4, <1>6 DEF Ordered, InOrder, DuePending, Waits
  <2>3. DueOnce(rest)
    BY <1>6 DEF Ordered, InOrder, DueOnce
  <2> QED
    BY <1>7, <2>1, <2>2, <2>3 DEF InOrder
<1>9. ~Runs(rest, h)
  BY <1>4, <1>5 DEF Waits
<1>10. ASSUME NEW q \in Promises, NEW j \in DOMAIN handlers[q], Due(rest, q, j)
       PROVE  handlers[q][j] # h
  <2>1. Due(stack, q, j)
    BY <1>6, <1>10
  <2>2. q # p \/ j # Top.i
    BY <1>4, <1>10 DEF Due
  <2> QED
    BY <2>1, <2>2, <1>5 DEF Ordered, InOrder, DueOnce
<1>11. Enter(h, Top.val, Top.type, rest)
       /\ UNCHANGED <<live, cbs, result, generator, handlers>>
  BY <1>f, <1>h, <1>3 DEF NotifyHandler
<1>12. h \in live' /\ live \subseteq live'
  BY <1>5, <1>11 DEF Waits
<1> QED
  BY <1>1, <1>5, <1>8, <1>9, <1>10, <1>11, <1>12, EnterOrders DEF Ordered

LEMMA HandlerServedOrders ==
  ASSUME IInv, Ordered, HandlerServed
  PROVE  Ordered'
<1>p. PICK p \in Promises : p = Top.p
  BY TopTyped DEF HandlerServed
<1> DEFINE f == [Top EXCEPT !.at = "notify", !.i = Top.i + 1]
<1>1. /\ stack \in Seq(Frame) /\ stack # <<>> /\ Top \in Frame /\ Top.at = "served"
      /\ Top = stack[Len(stack)] /\ Len(stack) \in DOMAIN stack /\ TypeOK /\ Top.i \in Nat
  BY TopTyped DEF HandlerServed, Top, IInv
<1>2. /\ f \in Frame /\ f.p = p /\ f.at = "notify" /\ f.i = Top.i + 1 /\ f.val = Top.val
      /\ f.i # 0 /\ f.p = stack[Len(stack)].p
  <2>1. Top.i + 1 \in Nat /\ Top.i + 1 # 0
    BY <1>1
  <2> QED
    BY <2>1, <1>p, <1>1 DEF Frame, Label
<1>3. /\ stack' = WithTop(stack, f)
      /\ handlers' = [handlers EXCEPT ![p] = [handlers[p] EXCEPT ![Top.i] = None]]
      /\ UNCHANGED <<live, flags, cbs, result, await, generator>>
  BY <1>p DEF HandlerServed, Replace
<1> HIDE DEF f
<1>4. /\ \A x : Runs(stack', x) <=> Runs(stack, x)
      /\ \A x, j : Ahead(stack', x, j) <=> Ahead(stack, x, j)
      /\ ~Ahead(stack, p, Top.i) /\ RunsOnce(stack')
  <2>1. RunsOnce(stack)
    BY DEF Ordered, InOrder, Sound
  <2> QED
    BY <1>1, <1>2, <1>3, <2>1, ServedOrder
<1>5. Sound(stack)'
  <2>1. /\ DOMAIN stack' = DOMAIN stack /\ stack'[Len(stack)] = f
        /\ \A k \in DOMAIN stack : k = Len(stack) \/ stack'[k] = stack[k]
    BY <1>1, <1>2, <1>3, TopSplit
  <2>2. Ready(f)
    <3>1. Ready(Top)
      BY <1>1 DEF Ordered, InOrder, Sound
    <3> QED
      BY <3>1, <1>1, <1>2 DEF Ready, Notifying
  <2>3. Sound(stack')
    BY <2>1, <2>2, <1>4 DEF Ordered, InOrder, Sound
  <2> QED
    BY <2>3, <1>3, SoundPrimed
<1>6. RunsPending(stack)'
  BY <1>3, <1>4 DEF Ordered, InOrder, RunsPending, Runs, Finished
<1>7. DuePending(stack)' /\ DueOnce(stack)'
  <2>1. ASSUME NEW q \in Promises, NEW j \in DOMAIN handlers'[q], Due(stack, q, j)'
        PROVE  Due(stack, q, j) /\ handlers'[q][j] = handlers[q][j]
    <3>1. Ahead(stack, q, j)
      <4>1. Ahead(stack', q, j)
        BY <2>1 DEF Due, Ahead, Goes
      <4> QED
        BY <4>1, <1>4
    <3>2. j \in DOMAIN handlers[q] /\ handlers'[q][j] = handlers[q][j]
      <4>1. CASE q = p
        <5>1. j # Top.i
          BY <4>1, <3>1, <1>4
        <5> QED
          BY <5>1, <4>1, <2>1, <1>1, <1>3 DEF TypeOK
      <4>2. CASE q # p
        BY <4>2, <2>1, <1>1, <1>3 DEF TypeOK
      <4> QED
        BY <4>1, <4>2
    <3> QED
      BY <2>1, <3>1, <3>2 DEF Due
  <2>2. ASSUME NEW q \in Promises, NEW j \in DOMAIN handlers[q], Due(stack, q, j)
        PROVE  /\ handlers[q][j] \in live' /\ flags'[handlers[q][j]] \cap Outcome = {}
               /\ ~Runs(stack', handlers[q][j])
               /\ await'[handlers[q][j]] = await[handlers[q][j]]
    <3>1. Waits(stack, q, handlers[q][j])
      BY <2>2 DEF Ordered, InOrder, DuePending
    <3> QED
      BY <3>1, <1>3, <1>4 DEF Waits, Finished
  <2> QED
    BY <2>1, <2>2, DueStays DEF Ordered, InOrder
<1> QED
  BY <1>3, <1>5, <1>6, <1>7 DEF Ordered, InOrder, Unborn, Results, Finished

LEMMA HandlersNotifiedOrders ==
  ASSUME IInv, Ordered, HandlersNotified
  PROVE  Ordered'
<1>p. PICK p \in Promises : p = Top.p
  BY TopTyped DEF HandlersNotified
<1>1. /\ stack \in Seq(Frame) /\ stack # <<>> /\ stack[Len(stack)].at \in Notifying
      /\ Top = stack[Len(stack)] /\ TypeOK
  BY TopTyped DEF HandlersNotified, Top, IInv, Notifying
<1>2. /\ stack' = Below(stack) /\ handlers' = [handlers EXCEPT ![p] = <<>>]
      /\ UNCHANGED <<live, flags, cbs, result, await, generator>>
  BY <1>p DEF HandlersNotified
<1>3. /\ \A x : Runs(stack', x) <=> Runs(stack, x)
      /\ \A x, j : x # p => (Ahead(stack', x, j) <=> Ahead(stack, x, j))
      /\ Sound(stack')
  BY <1>p, <1>1, <1>2, BelowOrder DEF Ordered, InOrder
<1>4. RunsPending(stack)'
  <2>1. ASSUME NEW x \in Promises, Runs(stack', x)
        PROVE  x \in live' /\ ~Finished(x)' /\ await'[x] = None
    <3>1. x \in live /\ ~Finished(x) /\ await[x] = None
      BY <2>1, <1>3 DEF Ordered, InOrder, RunsPending
    <3> QED
      BY <3>1, <1>2 DEF Finished
  <2> QED
    BY <2>1 DEF RunsPending, Runs
<1>5. DuePending(stack)' /\ DueOnce(stack)'
  <2>1. ASSUME NEW q \in Promises, NEW j \in DOMAIN handlers'[q], Due(stack, q, j)'
        PROVE  Due(stack, q, j) /\ handlers'[q][j] = handlers[q][j]
    <3>1. Ahead(stack', q, j)
      BY <2>1 DEF Due, Ahead, Goes
    <3>2. q # p /\ handlers'[q] = handlers[q]
      BY <2>1, <1>1, <1>2 DEF TypeOK
    <3> QED
      BY <2>1, <3>1, <3>2, <1>3 DEF Due
  <2>2. ASSUME NEW q \in Promises, NEW j \in DOMAIN handlers[q], Due(stack, q, j)
        PROVE  /\ handlers[q][j] \in live' /\ flags'[handlers[q][j]] \cap Outcome = {}
               /\ ~Runs(stack', handlers[q][j])
               /\ await'[handlers[q][j]] = await[handlers[q][j]]
    <3>1. Waits(stack, q, handlers[q][j])
      BY <2>2 DEF Ordered, InOrder, DuePending
    <3> QED
      BY <3>1, <1>2, <1>3 DEF Waits, Finished
  <2> QED
    BY <2>1, <2>2, DueStays DEF Ordered, InOrder
<1> QED
  BY <1>2, <1>3, <1>4, <1>5, SoundPrimed DEF Ordered, InOrder, Unborn, Results, Finished

LEMMA CallOrders ==
  ASSUME Orderly, IInv, Ordered, Call
  PROVE  Ordered'
<1>0. /\ Values \subseteq Data /\ Errors \subseteq Data /\ Args \subseteq Data /\ Generator \in Data
      /\ "resettle" \notin Liberties /\ "recancel" \notin Liberties /\ "rechain" \notin Liberties
  BY ErrorsAssumption, ArgsAssumption DEF Data, Plain, Orderly
<1>1. ASSUME NEW p \in Promises, NEW v \in Data, NEW t, Settle(p, v, t)
      PROVE  Ordered'
  <2>1. /\ p \in live /\ Kind[p] # "Promise" /\ await[p] = None /\ ~Running(p)
        /\ Enter(p, v, t, stack) /\ UNCHANGED <<live, cbs, result, generator, handlers>>
    BY <1>0, <1>1 DEF Settle
  <2> QED
    BY <2>1, SettleOrders
<1>2. ASSUME NEW p \in Promises, NEW v \in Data, Cancel(p, v)
      PROVE  Ordered'
  <2>1. /\ p \in live /\ Kind[p] # "Promise" /\ await[p] = None /\ ~Running(p)
        /\ Enter(p, v, {"failed", "canceled"}, stack)
        /\ UNCHANGED <<live, cbs, result, generator, handlers>>
    BY <1>0, <1>2 DEF Cancel
  <2> QED
    BY <2>1, SettleOrders
<1>3. ASSUME NEW p \in Promises, NEW h \in Promises, Then(p, h)
      PROVE  Ordered'
  <2>1. h \notin live /\ Kind[h] = "Promise" /\ live' = live \cup {h}
    BY <1>3 DEF Then, Fresh
  <2>2. CASE /\ Finished(p) /\ UNCHANGED handlers
             /\ Enter(h, result[p], flags[p] \cap Outcome, stack)
    <3>1. result[p] \in Data /\ UNCHANGED <<cbs, result, generator, handlers>>
      BY <1>3, <2>2 DEF Then, Ordered, Results
    <3> QED
      BY <2>1, <2>2, <3>1, BirthOrders
  <2>3. CASE ~Finished(p)
    <3>1. /\ handlers' = [handlers EXCEPT ![p] = Append(@, h)]
          /\ UNCHANGED <<flags, cbs, result, await, generator, stack>>
      BY <1>3, <2>3 DEF Then
    <3> QED
      BY <2>1, <3>1, HandlerOrders
  <2> QED
    BY <1>3, <2>2, <2>3 DEF Then
<1>4. ASSUME NEW p \in Promises, NEW h \in Promises, Chain(p, h)
      PROVE  Ordered'
  <2>1. /\ h \notin live /\ Kind[h] = "Promise" /\ live' = live \cup {h}
        /\ handlers' = [handlers EXCEPT ![p] = Append(@, h)]
        /\ UNCHANGED <<flags, cbs, result, await, generator, stack>>
    BY <1>0, <1>4 DEF Chain, Fresh
  <2> QED
    BY <2>1, HandlerOrders
<1>5. ASSUME NEW h \in Promises, NEW v \in Data, Start(h, v)
      PROVE  Ordered'
  <2>1. /\ h \notin live /\ live' = live \cup {h} /\ Enter(h, v, {"done"}, stack)
        /\ UNCHANGED <<cbs, result, generator, handlers>>
    BY <1>5 DEF Start, Fresh
  <2> QED
    BY <2>1, BirthOrders
<1> QED
  BY <1>0, <1>1, <1>2, <1>3, <1>4, <1>5, ForgetOrders DEF Call, Done, Fail

LEMMA OrderedOf ==
  ASSUME Ordered, UNCHANGED <<live, flags, cbs, result, await, generator, handlers, stack>>
  PROVE  Ordered'
<1>1. Sound(stack)' /\ RunsPending(stack)' /\ Unborn' /\ Results'
  BY SoundPrimed DEF Ordered, InOrder, RunsPending, Runs, Unborn, Results, Finished
<1>2. DuePending(stack)'
  BY DEF Ordered, InOrder, DuePending, Due, Ahead, Goes, Waits, Runs, Finished
<1>3. DueOnce(stack)'
  BY DEF Ordered, InOrder, DueOnce, Due, Ahead, Goes
<1> QED
  BY <1>1, <1>2, <1>3 DEF Ordered, InOrder

LEMMA NextOrders ==
  ASSUME Orderly, IInv, Ordered, [Next]_vars
  PROVE  Ordered'
<1>1. CASE Leave \/ \E v \in Offered : Yield(v)
  <2>1. Inner \/ ReturnIntoFreed
    BY <1>1, LeaveIsInner
  <2>2. CASE ReturnIntoFreed
    BY <2>2, OrderedOf DEF ReturnIntoFreed
  <2> QED
    BY <2>1, <2>2, InnerOrders
<1>2. CASE Machine
  <2>1. CASE NotifyCorrupted
    BY <2>1, OrderedOf DEF NotifyCorrupted
  <2>2. CASE WatchSettled \/ WatchGenerator \/ WatchPlain \/ Resume
    BY <2>2, InnerOrders DEF Inner
  <2> QED
    BY <1>2, <2>1, <2>2, WatchPendingOrders, SettledOrders, NotifyHandlerOrders,
       HandlerServedOrders, HandlersNotifiedOrders DEF Machine
<1>3. CASE UNCHANGED vars
  BY <1>3, OrderedOf DEF vars
<1> QED
  BY <1>1, <1>2, <1>3, CallOrders DEF Next, User

LEMMA InitOrders == ASSUME Init PROVE Ordered /\ Drained
<1>1. /\ stack = <<>> /\ DOMAIN stack = {} /\ \A q \in Promises : handlers[q] = <<>>
      /\ \A p \in Promises : ~Finished(p) /\ await[p] = None
  BY DEF Init, Finished
<1>2. \A q \in Promises : DOMAIN handlers[q] = {}
  BY <1>1
<1>3. InOrder(stack)
  BY <1>1, <1>2 DEF InOrder, Sound, RunsOnce, RunsPending, Runs, DuePending, DueOnce
<1> QED
  BY <1>1, <1>3 DEF Ordered, Unborn, Results, Drained
-----------------------------------------------------------------------------
(* Nothing freed is returned into, and no loop meets what is not a promise.*)

LEMMA WholeStays ==
  ASSUME NEW s, Whole(s),
         \A q \in Promises : \A j \in DOMAIN handlers'[q] :
           Ahead(stack', q, j) =>
             \/ j \in DOMAIN handlers[q] /\ Ahead(s, q, j) /\ handlers'[q][j] = handlers[q][j]
             \/ handlers'[q][j] \in Promises,
         \A k \in DOMAIN stack' : stack'[k].at = "served" =>
           stack'[k].i \in DOMAIN handlers'[stack'[k].p]
  PROVE  Whole(stack)'
<1>1. ASSUME NEW q \in Promises, NEW j \in DOMAIN handlers'[q], Ahead(stack', q, j)
      PROVE  handlers'[q][j] \in Promises
  BY <1>1 DEF Whole
<1> QED
  BY <1>1 DEF Whole, Ahead, Goes

\* A call of ion_promisor_resolve() that changes no array.
LEMMA EnterWhole ==
  ASSUME TypeOK, NEW rest \in Seq(Frame), Whole(rest), NEW p \in Promises,
         NEW v \in Data \cup {None}, NEW t, Enter(p, v, t, rest), UNCHANGED handlers
  PROVE  Whole(stack)'
<1>1. /\ \A q, j : Ahead(stack', q, j) <=> Ahead(rest, q, j)
      /\ \A k \in DOMAIN stack' : stack'[k].at = "served" => k \in DOMAIN rest /\ stack'[k] = rest[k]
  <2>1. CASE stack' = rest
    BY <2>1
  <2>2. ASSUME NEW f \in Frame, stack' = Push(rest, f), f.at \in {"call", "watch", "resolved"}
        PROVE  /\ \A q, j : Ahead(stack', q, j) <=> Ahead(rest, q, j)
               /\ \A k \in DOMAIN stack' : stack'[k].at = "served" =>
                    k \in DOMAIN rest /\ stack'[k] = rest[k]
    <3>1. f.at \notin Notifying
      BY <2>2 DEF Notifying
    <3>2. \A k \in 1 .. Len(rest) + 1 : k = Len(rest) + 1 \/ k \in 1 .. Len(rest)
      BY LastOrNew, PushFacts, Zenon
    <3>3. /\ DOMAIN stack' = 1 .. Len(rest) + 1 /\ DOMAIN rest = 1 .. Len(rest)
          /\ \A k \in DOMAIN rest : stack'[k] = rest[k]
          /\ stack'[Len(rest) + 1] = f
      BY <2>2, PushFacts
    <3>4. \A k \in DOMAIN stack' : stack'[k].at = "served" => k \in DOMAIN rest /\ stack'[k] = rest[k]
      BY <2>2, <3>2, <3>3
    <3> QED
      BY <2>2, <3>1, <3>4, PushOrder
  <2>3. stack' = rest \/ \E f \in Frame : /\ stack' = Push(rest, f)
                                          /\ f.at \in {"call", "watch", "resolved"}
    BY EnterShape
  <2> QED
    BY <2>1, <2>2, <2>3
<1>2. \A k \in DOMAIN stack' : stack'[k].at = "served" => stack'[k].i \in DOMAIN handlers'[stack'[k].p]
  BY <1>1 DEF Whole
<1>3. \A q \in Promises : \A j \in DOMAIN handlers'[q] : Ahead(stack', q, j) =>
        j \in DOMAIN handlers[q] /\ Ahead(rest, q, j) /\ handlers'[q][j] = handlers[q][j]
  BY <1>1
<1> QED
  BY <1>2, <1>3, WholeStays

\* A handler more.
LEMMA AppendWhole ==
  ASSUME TypeOK, Whole(stack), NEW p \in Promises, NEW h \in Promises,
         handlers' = [handlers EXCEPT ![p] = Append(@, h)],
         \A q, j : Ahead(stack', q, j) <=> Ahead(stack, q, j),
         \A k \in DOMAIN stack' : k \in DOMAIN stack /\ stack'[k] = stack[k]
  PROVE  Whole(stack)'
<1>0. /\ handlers[p] \in Seq(Promises \cup {None, Junk})
      /\ handlers'[p] = Append(handlers[p], h)
      /\ \A q \in Promises : q # p => handlers'[q] = handlers[q]
  BY DEF TypeOK
<1>1. /\ \A j \in DOMAIN Append(handlers[p], h) :
           \/ j \in DOMAIN handlers[p] /\ Append(handlers[p], h)[j] = handlers[p][j]
           \/ Append(handlers[p], h)[j] = h
      /\ \A j \in DOMAIN handlers[p] : j \in DOMAIN Append(handlers[p], h)
  BY <1>0, AppendSlots
<1>2. ASSUME NEW q \in Promises, NEW j \in DOMAIN handlers'[q], Ahead(stack', q, j)
      PROVE  \/ j \in DOMAIN handlers[q] /\ Ahead(stack, q, j) /\ handlers'[q][j] = handlers[q][j]
             \/ handlers'[q][j] \in Promises
  <2>1. CASE q = p
    BY <2>1, <1>0, <1>1, <1>2
  <2>2. CASE q # p
    BY <2>2, <1>0, <1>2
  <2> QED
    BY <2>1, <2>2
<1>3. ASSUME NEW k \in DOMAIN stack', stack'[k].at = "served"
      PROVE  stack'[k].i \in DOMAIN handlers'[stack'[k].p]
  <2>1. k \in DOMAIN stack /\ stack'[k] = stack[k] /\ stack[k].p \in Promises
    BY <1>3, InRange DEF TypeOK
  <2>2. stack[k].i \in DOMAIN handlers[stack[k].p]
    BY <2>1, <1>3 DEF Whole
  <2> QED
    BY <2>1, <2>2, <1>0, <1>1
<1> QED
  BY <1>2, <1>3, WholeStays

\* forget() of a promise that no activation is about.
LEMMA ForgetWhole ==
  ASSUME "reforget" \notin Liberties, IInv, Whole(stack),
         NEW p \in Promises, NEW h \in Promises, Forget(p, h)
  PROVE  Whole(stack)'
<1>1. /\ handlers \in [Promises -> Seq(Promises \cup {None, Junk})]
      /\ handlers' = [handlers EXCEPT ![p] = Forgotten(handlers[p], h)]
      /\ stack' = stack /\ \A k \in DOMAIN stack : stack[k].p # p
  BY DEF Forget, IInv, TypeOK
<1>2. \A j \in DOMAIN handlers[p] : handlers[p][j] \in Promises
  BY <1>1 DEF Whole, Ahead
<1>3. \A n \in DOMAIN Forgotten(handlers[p], h) : Forgotten(handlers[p], h)[n] \in Promises
  BY <1>1, <1>2, ForgottenFacts
<1>4. ASSUME NEW q \in Promises, NEW j \in DOMAIN handlers'[q], Ahead(stack', q, j)
      PROVE  \/ j \in DOMAIN handlers[q] /\ Ahead(stack, q, j) /\ handlers'[q][j] = handlers[q][j]
             \/ handlers'[q][j] \in Promises
  BY <1>1, <1>3, <1>4
<1>5. ASSUME NEW k \in DOMAIN stack', stack'[k].at = "served"
      PROVE  stack'[k].i \in DOMAIN handlers'[stack'[k].p]
  <2>1. stack[k].p \in Promises /\ stack[k].p # p
    BY <1>1, <1>5, InRange DEF IInv, TypeOK
  <2> QED
    BY <2>1, <1>1, <1>5 DEF Whole
<1> QED
  BY <1>4, <1>5, WholeStays

LEMMA CallWhole ==
  ASSUME Orderly, "reforget" \notin Liberties, IInv, Whole(stack), Call
  PROVE  Whole(stack)'
<1>0. /\ Values \subseteq Data /\ Errors \subseteq Data /\ Args \subseteq Data /\ Generator \in Data
  BY ErrorsAssumption, ArgsAssumption DEF Data, Plain
<1>1. TypeOK /\ stack \in Seq(Frame)
  BY DEF IInv, TypeOK
<1>2. ASSUME NEW p \in Promises, NEW v \in Data \cup {None}, NEW t,
             Enter(p, v, t, stack), UNCHANGED handlers
      PROVE  Whole(stack)'
  BY <1>1, <1>2, EnterWhole
<1>3. ASSUME NEW p \in Promises, NEW h \in Promises,
             handlers' = [handlers EXCEPT ![p] = Append(@, h)], UNCHANGED stack
      PROVE  Whole(stack)'
  BY <1>1, <1>3, AppendWhole
<1>4. ASSUME NEW p \in Promises, NEW v \in Data, NEW t, Settle(p, v, t)
      PROVE  Whole(stack)'
  BY <1>2, <1>4 DEF Settle
<1>5. ASSUME NEW p \in Promises, NEW v \in Data, Cancel(p, v)
      PROVE  Whole(stack)'
  BY <1>2, <1>5 DEF Cancel
<1>6. ASSUME NEW p \in Promises, NEW h \in Promises, Then(p, h)
      PROVE  Whole(stack)'
  <2>1. result[p] \in Data \cup {None}
    BY <1>1 DEF TypeOK
  <2> QED
    BY <1>2, <1>3, <1>6, <2>1 DEF Then
<1>7. ASSUME NEW p \in Promises, NEW h \in Promises, Chain(p, h)
      PROVE  Whole(stack)'
  BY <1>3, <1>7 DEF Chain
<1>8. ASSUME NEW h \in Promises, NEW v \in Data, Start(h, v)
      PROVE  Whole(stack)'
  BY <1>2, <1>8 DEF Start
<1> QED
  BY <1>0, <1>4, <1>5, <1>6, <1>7, <1>8, ForgetWhole DEF Call, Done, Fail

LEMMA InnerWhole ==
  ASSUME IInv, Whole(stack), Inner
  PROVE  Whole(stack)'
<1>1. Moves
  BY InnerShape
<1>2. PICK f \in Frame : Moved(f)
  BY <1>1 DEF Moves
<1>3. /\ stack \in Seq(Frame) /\ stack # <<>> /\ stack[Len(stack)].at \notin Notifying
      /\ f.p = stack[Len(stack)].p /\ f.at \notin Notifying /\ stack' = WithTop(stack, f)
      /\ f.at # "served" /\ handlers' = handlers
  BY <1>1, <1>2 DEF Moves, Moved, Notifying, Top, kept
<1>4. \A q, j : Ahead(stack', q, j) <=> Ahead(stack, q, j)
  BY <1>3, InnerOrder
<1>5. /\ DOMAIN stack' = DOMAIN stack /\ stack'[Len(stack)] = f
      /\ \A k \in DOMAIN stack : k = Len(stack) \/ stack'[k] = stack[k]
  BY <1>3, TopSplit
<1>6. \A k \in DOMAIN stack' : stack'[k].at = "served" => stack'[k].i \in DOMAIN handlers'[stack'[k].p]
  BY <1>3, <1>5 DEF Whole
<1> QED
  BY <1>3, <1>4, <1>6, WholeStays

LEMMA WatchPendingWhole ==
  ASSUME IInv, Whole(stack), WatchPending
  PROVE  Whole(stack)'
<1>p. PICK p \in Promises : p = Top.p
  BY TopTyped DEF WatchPending
<1>q. PICK q \in Promises : q = Top.val
  BY DEF WatchPending
<1>1. /\ stack \in Seq(Frame) /\ stack # <<>> /\ stack[Len(stack)].at \notin Notifying
      /\ stack' = Below(stack) /\ handlers' = [handlers EXCEPT ![q] = Append(@, p)] /\ TypeOK
  BY <1>p, <1>q, TopTyped DEF WatchPending, Notifying, Top, IInv
<1>2. \A x, j : Ahead(stack', x, j) <=> Ahead(stack, x, j)
  BY <1>1, BelowOrder
<1>3. \A k \in DOMAIN stack' : k \in DOMAIN stack /\ stack'[k] = stack[k]
  <2>1. Len(stack) \in Nat /\ DOMAIN stack = 1 .. Len(stack)
    BY <1>1, TopFacts
  <2>2. \A n \in Nat : \A k \in 1 .. n - 1 : k \in 1 .. n
    OBVIOUS
  <2>3. DOMAIN stack' = 1 .. Len(stack) - 1 /\ \A k \in 1 .. Len(stack) - 1 : stack'[k] = stack[k]
    BY <1>1, BelowFacts
  <2> QED
    BY <2>1, <2>2, <2>3, Zenon
<1> QED
  BY <1>1, <1>2, <1>3, AppendWhole

LEMMA SettledWhole ==
  ASSUME IInv, Ordered, Whole(stack), Settled
  PROVE  Whole(stack)'
<1> DEFINE f == [Top EXCEPT !.at = "notify", !.i = 1]
<1>1. /\ stack \in Seq(Frame) /\ stack # <<>> /\ Top \in Frame /\ Top.at = "resolved"
      /\ Top = stack[Len(stack)] /\ stack[Len(stack)].at \notin Notifying /\ TypeOK
  BY TopTyped DEF Settled, Top, IInv, Notifying
<1>2. f \in Frame /\ f.at = "notify" /\ f.i = 1 /\ f.p = stack[Len(stack)].p
  BY <1>1 DEF Frame, Label
<1>3. stack' = WithTop(stack, f) /\ handlers' = handlers
  BY DEF Settled, Replace
<1> HIDE DEF f
<1>4. \A x : \A j \in Nat \ {0} : Ahead(stack', x, j) <=> Ahead(stack, x, j)
  <2>1. RunsOnce(stack)
    BY DEF Ordered, InOrder, Sound
  <2> QED
    BY <1>1, <1>2, <1>3, <2>1, SettleOrder
<1>5. \A q \in Promises : \A j \in DOMAIN handlers[q] : j \in Nat \ {0}
  <2>1. \A q \in Promises : handlers[q] \in Seq(Promises \cup {None, Junk})
    BY <1>1 DEF TypeOK
  <2> QED
    BY <2>1
<1>6. /\ DOMAIN stack' = DOMAIN stack /\ stack'[Len(stack)] = f
      /\ \A k \in DOMAIN stack : k = Len(stack) \/ stack'[k] = stack[k]
  BY <1>1, <1>2, <1>3, TopSplit
<1>7. \A k \in DOMAIN stack' : stack'[k].at = "served" => stack'[k].i \in DOMAIN handlers'[stack'[k].p]
  BY <1>2, <1>3, <1>6 DEF Whole
<1> QED
  BY <1>3, <1>4, <1>5, <1>7, WholeStays

LEMMA NotifyHandlerWhole ==
  ASSUME IInv, Ordered, Whole(stack), NotifyHandler
  PROVE  Whole(stack)'
<1>p. PICK p \in Promises : p = Top.p
  BY TopTyped DEF NotifyHandler
<1> DEFINE f == [Top EXCEPT !.at = "served"]
           rest == WithTop(stack, f)
<1>1. /\ stack \in Seq(Frame) /\ stack # <<>> /\ Top \in Frame /\ Top.at = "notify"
      /\ Top = stack[Len(stack)] /\ TypeOK /\ Disciplined(stack)
      /\ Top.val \in Data \cup {None}
  BY TopTyped DEF NotifyHandler, Top, IInv, StackDiscipline
<1>2. f \in Frame /\ f.p = p /\ f.i = Top.i /\ f = [stack[Len(stack)] EXCEPT !.at = "served"]
  BY <1>p, <1>1 DEF Frame, Label
<1>3. PICK h \in Promises : Enter(h, Top.val, Top.type, rest) /\ UNCHANGED handlers
  BY DEF NotifyHandler, Slot
<1>4. Top.i \in DOMAIN handlers[p]
  BY <1>p, SlotDue
<1> HIDE DEF f
<1>5. /\ DOMAIN rest = DOMAIN stack /\ rest[Len(stack)] = f
      /\ \A k \in DOMAIN stack : k = Len(stack) \/ rest[k] = stack[k]
      /\ rest \in Seq(Frame)
  BY <1>1, <1>2, TopSplit, WithTopFacts
<1>6. \A q : \A j \in Nat : Ahead(rest, q, j) => Ahead(stack, q, j)
  BY <1>1, <1>2, ServeOrder
<1> HIDE DEF rest
<1>7. \A q \in Promises : DOMAIN handlers[q] \subseteq Nat
  BY <1>1 DEF TypeOK
<1>8. Whole(rest)
  BY <1>2, <1>4, <1>5, <1>6, <1>7 DEF Whole
<1> QED
  BY <1>1, <1>3, <1>5, <1>8, EnterWhole

LEMMA HandlerServedWhole ==
  ASSUME IInv, Whole(stack), HandlerServed
  PROVE  Whole(stack)'
<1>p. PICK p \in Promises : p = Top.p
  BY TopTyped DEF HandlerServed
<1> DEFINE f == [Top EXCEPT !.at = "notify", !.i = Top.i + 1]
<1>1. /\ stack \in Seq(Frame) /\ stack # <<>> /\ Top \in Frame /\ Top.at = "served"
      /\ Top = stack[Len(stack)] /\ TypeOK /\ Top.i \in Nat
  BY TopTyped DEF HandlerServed, Top, IInv
<1>2. /\ f \in Frame /\ f.p = p /\ f.at = "notify" /\ f.i = Top.i + 1
      /\ f.p = stack[Len(stack)].p
  <2>1. Top.i + 1 \in Nat
    BY <1>1
  <2> QED
    BY <2>1, <1>p, <1>1 DEF Frame, Label
<1>3. /\ stack' = WithTop(stack, f)
      /\ handlers' = [handlers EXCEPT ![p] = [handlers[p] EXCEPT ![Top.i] = None]]
  BY <1>p DEF HandlerServed, Replace
<1> HIDE DEF f
<1>4. /\ \A x, j : Ahead(stack', x, j) <=> Ahead(stack, x, j)
      /\ ~Ahead(stack, p, Top.i)
  BY <1>1, <1>2, <1>3, ServedOrder
<1>5. /\ DOMAIN stack' = DOMAIN stack /\ stack'[Len(stack)] = f
      /\ \A k \in DOMAIN stack : k = Len(stack) \/ stack'[k] = stack[k]
  BY <1>1, <1>2, <1>3, TopSplit
<1>6. /\ \A q \in Promises : DOMAIN handlers'[q] = DOMAIN handlers[q]
      /\ \A q \in Promises : \A j \in DOMAIN handlers[q] :
           ~(q = p /\ j = Top.i) => handlers'[q][j] = handlers[q][j]
  BY <1>1, <1>3 DEF TypeOK
<1>7. ASSUME NEW k \in DOMAIN stack', stack'[k].at = "served"
      PROVE  stack'[k].i \in DOMAIN handlers'[stack'[k].p]
  <2>1. stack'[k] = stack[k] /\ k \in DOMAIN stack /\ stack[k].p \in Promises
    BY <1>1, <1>2, <1>5, <1>7, InRange
  <2> QED
    BY <2>1, <1>6, <1>7 DEF Whole
<1>8. ASSUME NEW q \in Promises, NEW j \in DOMAIN handlers'[q], Ahead(stack', q, j)
      PROVE  j \in DOMAIN handlers[q] /\ Ahead(stack, q, j) /\ handlers'[q][j] = handlers[q][j]
  BY <1>4, <1>6, <1>8
<1> QED
  BY <1>7, <1>8, WholeStays

LEMMA HandlersNotifiedWhole ==
  ASSUME IInv, Whole(stack), HandlersNotified
  PROVE  Whole(stack)'
<1>p. PICK p \in Promises : p = Top.p
  BY TopTyped DEF HandlersNotified
<1>1. /\ stack \in Seq(Frame) /\ stack # <<>> /\ Top.at = "notify"
      /\ Top = stack[Len(stack)] /\ TypeOK /\ Len(stack) \in Nat
      /\ Len(stack) \in DOMAIN stack /\ DOMAIN stack = 1 .. Len(stack)
      /\ Disciplined(stack)
  BY TopTyped DEF HandlersNotified, Top, IInv, StackDiscipline
<1>2. stack' = Below(stack) /\ handlers' = [handlers EXCEPT ![p] = <<>>]
  BY <1>p DEF HandlersNotified
<1>3. \A x, j : x # p => (Ahead(stack', x, j) <=> Ahead(stack, x, j))
  BY <1>p, <1>1, <1>2, BelowOrder
<1>4. /\ handlers'[p] = <<>> /\ DOMAIN handlers'[p] = {}
      /\ \A q \in Promises : q # p => handlers'[q] = handlers[q]
  BY <1>1, <1>2 DEF TypeOK
<1>5. ASSUME NEW k \in DOMAIN stack', stack'[k].at = "served"
      PROVE  stack'[k].i \in DOMAIN handlers'[stack'[k].p]
  <2>1. k \in 1 .. Len(stack) - 1 /\ stack'[k] = stack[k]
    BY <1>1, <1>2, <1>5, BelowFacts
  <2>2. k \in DOMAIN stack /\ k < Len(stack)
    <3>1. \A n \in Nat : \A m \in 1 .. n - 1 : m \in 1 .. n /\ m < n
      OBVIOUS
    <3> QED
      BY <1>1, <2>1, <3>1
  <2>3. stack[k].p # p /\ stack[k].p \in Promises
    BY <1>p, <1>1, <1>5, <2>1, <2>2, InRange DEF Disciplined, Notifying
  <2> QED
    BY <2>1, <2>2, <2>3, <1>4, <1>5 DEF Whole
<1>6. ASSUME NEW q \in Promises, NEW j \in DOMAIN handlers'[q], Ahead(stack', q, j)
      PROVE  j \in DOMAIN handlers[q] /\ Ahead(stack, q, j) /\ handlers'[q][j] = handlers[q][j]
  <2>1. q # p
    BY <1>4, <1>6
  <2> QED
    BY <2>1, <1>3, <1>4, <1>6
<1> QED
  BY <1>5, <1>6, WholeStays

\* What the code is left to do at its top is never undefined.
LEMMA NeverUndefined ==
  ASSUME IInv, Ordered, Whole(stack)
  PROVE  ~ReturnIntoFreed /\ ~NotifyCorrupted
<1>1. ASSUME NEW l, TopAt(l)
      PROVE  /\ Top = stack[Len(stack)] /\ Len(stack) \in DOMAIN stack /\ Top.at = l
             /\ Ready(Top) /\ Top \in Frame /\ Top.p \in Promises
             /\ stack \in Seq(Frame) /\ stack # <<>>
  BY <1>1, TopTyped DEF Top, Ordered, InOrder, Sound
<1>2. ~ReturnIntoFreed
  BY <1>1 DEF ReturnIntoFreed, Ready
<1>3. ASSUME TopAt("notify"), Top.i <= Len(handlers[Top.p])
      PROVE  Slot \in Promises
  <2>0. Top.at = "notify" /\ Top.i \in Nat
    BY <1>1, <1>3 DEF Frame
  <2>1. Top.i # 0
    BY <1>1, <1>3, <2>0 DEF Ready, Notifying
  <2>2. Top.i \in DOMAIN handlers[Top.p]
    <3>1. handlers[Top.p] \in Seq(Promises \cup {None, Junk})
      BY <1>1, <1>3 DEF IInv, TypeOK
    <3> QED
      BY <3>1, <2>0, <2>1, <1>3
  <2> DEFINE f == [stack[Len(stack)] EXCEPT !.at = "served"]
  <2>3. f \in Frame /\ f.p = Top.p /\ f.i = Top.i
    BY <1>1, <1>3 DEF Frame, Label
  <2> HIDE DEF f
  <2>4. Ahead(stack, f.p, f.i)
    BY <1>1, <1>3, <2>0, <2>3, ServeOrder DEF f, IInv, StackDiscipline
  <2> QED
    BY <1>1, <1>3, <2>2, <2>3, <2>4 DEF Whole, Slot
<1>4. ASSUME TopAt("served")
      PROVE  Top.i <= Len(handlers[Top.p])
  <2>1. Top.i \in DOMAIN handlers[Top.p] /\ handlers[Top.p] \in Seq(Promises \cup {None, Junk})
    BY <1>1, <1>4 DEF Whole, IInv, TypeOK
  <2> QED
    BY <2>1
<1>5. ~NotifyCorrupted
  <2>1. TopAt("served") => Top.i \in Nat /\ Len(handlers[Top.p]) \in Nat
    <3>1. TopAt("served") => handlers[Top.p] \in Seq(Promises \cup {None, Junk})
      BY <1>1 DEF IInv, TypeOK
    <3> QED
      BY <3>1, <1>1 DEF Frame
  <2> QED
    BY <2>1, <1>3, <1>4 DEF NotifyCorrupted
<1> QED
  BY <1>2, <1>5

LEMMA NextIntact ==
  ASSUME Orderly, "reforget" \notin Liberties, IInv, Ordered, Intact, [Next]_vars
  PROVE  Intact'
<1>0. Whole(stack) /\ ~crashed /\ ~ReturnIntoFreed /\ ~NotifyCorrupted
  BY NeverUndefined DEF Intact
<1>1. CASE Leave \/ \E v \in Offered : Yield(v)
  <2>1. Inner
    BY <1>0, <1>1, LeaveIsInner
  <2>2. crashed' = crashed
    BY <2>1, InnerShape DEF Moves, kept
  <2> QED
    BY <2>1, <2>2, <1>0, InnerWhole DEF Intact
<1>2. CASE Machine
  <2>1. CASE WatchSettled \/ WatchGenerator \/ WatchPlain \/ Resume
    <3>1. Inner
      BY <2>1 DEF Inner
    <3>2. crashed' = crashed
      BY <3>1, InnerShape DEF Moves, kept
    <3> QED
      BY <3>1, <3>2, <1>0, InnerWhole DEF Intact
  <2>2. CASE WatchPending
    BY <2>2, <1>0, WatchPendingWhole DEF Intact, WatchPending
  <2>3. CASE Settled
    BY <2>3, <1>0, SettledWhole DEF Intact, Settled
  <2>4. CASE NotifyHandler
    BY <2>4, <1>0, NotifyHandlerWhole DEF Intact, NotifyHandler
  <2>5. CASE HandlerServed
    BY <2>5, <1>0, HandlerServedWhole DEF Intact, HandlerServed
  <2>6. CASE HandlersNotified
    BY <2>6, <1>0, HandlersNotifiedWhole DEF Intact, HandlersNotified
  <2> QED
    BY <1>0, <1>2, <2>1, <2>2, <2>3, <2>4, <2>5, <2>6 DEF Machine
<1>3. CASE Call
  <2>1. crashed' = crashed
    BY <1>3 DEF Call, Done, Fail, Settle, Cancel, Then, Chain, Forget, Start
  <2> QED
    BY <2>1, <1>0, <1>3, CallWhole DEF Intact
<1>4. CASE UNCHANGED vars
  BY <1>0, <1>4 DEF vars, Intact, Whole, Ahead, Goes
<1> QED
  BY <1>1, <1>2, <1>3, <1>4 DEF Next, User
-----------------------------------------------------------------------------
(* What the order of things implies.                                       *)

\* Only the loop of the promise that is awaited ends a wait.
LEMMA WakesInTurn ==
  ASSUME Orderly, IInv, Ordered, [Next]_vars, NEW p \in Promises,
         TopAt("notify"), await[p] # None, await'[p] = None
  PROVE  Top.p = await[p]
<1>1. Top.at = "notify" /\ stack # <<>>
  BY DEF TopAt
<1>2. ~UserRuns /\ ~TopAt("call") /\ ~TopAt("body")
  BY <1>1 DEF UserRuns, TopAt
<1>3. CASE Call
  <2>1. UserRuns
    BY <1>3 DEF Call, Done, Fail, Settle, Cancel, Then, Chain, Forget, Start, MayCall
  <2> QED
    BY <2>1, <1>2
<1>4. CASE Leave \/ \E v \in Offered : Yield(v)
  <2>1. Inner \/ ReturnIntoFreed
    BY <1>4, LeaveIsInner
  <2>2. await' = await
    BY <2>1, InnerShape DEF Moves, kept, ReturnIntoFreed
  <2> QED
    BY <2>2
<1>5. CASE Machine
  <2>1. CASE NotifyHandler
    <3>1. PICK q \in Promises : q = Top.p
      BY <2>1, TopTyped DEF NotifyHandler
    <3>2. Slot \in Promises /\ Waits(stack, q, Slot)
      BY <2>1, <3>1, SlotDue
    <3>3. \A x \in Promises : x # Slot => await'[x] = await[x]
      <4> DEFINE f == [Top EXCEPT !.at = "served"]
      <4>1. /\ Top \in Frame /\ Top.val \in Data \cup {None} /\ TypeOK
            /\ stack \in Seq(Frame)
        BY <2>1, TopTyped DEF NotifyHandler, IInv
      <4>2. f \in Frame
        BY <4>1 DEF Frame, Label
      <4> HIDE DEF f
      <4>3. WithTop(stack, f) \in Seq(Frame)
        BY <1>1, <4>1, <4>2, WithTopFacts
      <4>4. Enter(Slot, Top.val, Top.type, WithTop(stack, f))
        BY <2>1 DEF NotifyHandler, f
      <4> QED
        BY <3>2, <4>1, <4>3, <4>4, EnterShape
    <3> QED
      BY <3>1, <3>2, <3>3 DEF Waits
  <2>2. CASE WatchSettled \/ WatchPending \/ WatchGenerator \/ WatchPlain
    BY <1>1, <2>2 DEF TopAt, WatchSettled, WatchPending, WatchGenerator, WatchPlain
  <2>3. CASE Resume \/ Settled \/ HandlerServed \/ HandlersNotified \/ NotifyCorrupted
    BY <2>3 DEF Resume, Settled, HandlerServed, HandlersNotified, NotifyCorrupted
  <2> QED
    BY <1>5, <2>1, <2>2, <2>3 DEF Machine
<1>6. CASE UNCHANGED vars
  BY <1>6 DEF vars
<1> QED
  BY <1>3, <1>4, <1>5, <1>6 DEF Next, User
-----------------------------------------------------------------------------
(***************************************************************************)
(* Once a promise is settled and its loop has ended it has no handler: no  *)
(* handler waits for a notification that was already given.  A program     *)
(* that chains to a promise that is settled does leave one.                *)
(***************************************************************************)
THEOREM Notified ==
  ASSUME "rechain" \notin Liberties PROVE Spec => []DrainedWhenSettled
<1>1. Init => IInv /\ Drained
  BY InitEstablishes, InitOrders
<1>2. IInv /\ Drained /\ [Next]_vars => IInv' /\ Drained'
  BY NextKeeps, NextDrains
<1>3. IInv /\ Drained => DrainedWhenSettled
  BY DEF Drained, DrainedWhenSettled, Loops
<1> QED
  BY <1>1, <1>2, <1>3, PTL DEF Spec

(***************************************************************************)
(* A notification ends the wait of a promise only if it comes from the     *)
(* promise that is awaited: no coroutine is resumed with the result of     *)
(* another one, when the program settles, cancels and chains what is idle. *)
(***************************************************************************)
LEMMA StepsInTurn ==
  Orderly /\ IInv /\ Ordered /\ [Next]_vars =>
    [\A p \in Promises : TopAt("notify") /\ await[p] # None /\ await'[p] = None =>
       Top.p = await[p]]_vars
BY WakesInTurn

THEOREM InTurn == ASSUME Orderly PROVE Spec => WokenByAwaited
<1>1. Init => IInv /\ Ordered
  BY InitEstablishes, InitOrders
<1>2. IInv /\ Ordered /\ [Next]_vars => IInv' /\ Ordered'
  BY NextKeeps, NextOrders
<1>3. IInv /\ Ordered /\ [Next]_vars =>
        [\A p \in Promises : TopAt("notify") /\ await[p] # None /\ await'[p] = None =>
           Top.p = await[p]]_vars
  BY StepsInTurn
<1> QED
  BY <1>1, <1>2, <1>3, PTL DEF Spec, WokenByAwaited

(***************************************************************************)
(* No loop meets a slot that is not a promise, and nothing returns into a  *)
(* callback or a generator that has been freed.                            *)
(***************************************************************************)
THEOREM Crashless ==
  ASSUME Orderly, "reforget" \notin Liberties PROVE Spec => []NoCrash
<1>1. Init => IInv /\ Ordered /\ Intact
  <2>1. Init => Intact
    <3>1. Init => /\ DOMAIN stack = {} /\ ~crashed
                  /\ \A q \in Promises : DOMAIN handlers[q] = {}
      BY DEF Init
    <3> QED
      BY <3>1 DEF Intact, Whole
  <2> QED
    BY <2>1, InitEstablishes, InitOrders
<1>2. IInv /\ Ordered /\ Intact /\ [Next]_vars => IInv' /\ Ordered' /\ Intact'
  BY NextKeeps, NextOrders, NextIntact
<1>3. Intact => NoCrash
  BY DEF Intact, NoCrash
<1> QED
  BY <1>1, <1>2, <1>3, PTL DEF Spec
-----------------------------------------------------------------------------
(***************************************************************************)
(* The contract of Future.                                                 *)
(***************************************************************************)
LEMMA ContractInit == Init => Contract!Init
<1> SUFFICES ASSUME Init PROVE Contract!Init
  OBVIOUS
<1>1. \A p \in Promises : ~Finished(p)
  BY DEF Init, Finished
<1> QED
  BY <1>1 DEF Init, Contract!Init, Contract!Pending, FutureState

\* What a promise promises is its outcome bits and its result.
Promised(p) == IF Finished(p)
               THEN [outcome |-> IF "done" \in flags[p] THEN "done" ELSE "failed",
                     val |-> result[p]]
               ELSE [outcome |-> "pending", val |-> None]

LEMMA PromisedIs == FutureState = [p \in Promises |-> Promised(p)]
BY DEF FutureState, Promised

\* No step but the settlement changes what is promised.
LEMMA PromisedStays ==
  ASSUME NoneSettled, UNCHANGED result,
         \A p \in Promises : Finished(p) => flags'[p] = flags[p]
  PROVE  FutureState' = FutureState
<1>1. \A p \in Promises : Finished(p)' <=> Finished(p)
  BY DEF NoneSettled
<1>2. ASSUME NEW p \in Promises
      PROVE  Promised(p)' = Promised(p)
  <2>1. CASE Finished(p)
    BY <1>1, <2>1 DEF Promised
  <2>2. CASE ~Finished(p)
    BY <1>1, <2>2 DEF Promised
  <2> QED
    BY <2>1, <2>2
<1> QED
  BY <1>2 DEF FutureState, Promised

\* ion_promisor_resolve() leaves the bits of a settled promise alone.
LEMMA EnterPromised ==
  ASSUME TypeOK, NEW rest \in Seq(Frame), NEW p \in Promises,
         NEW v \in Data \cup {None}, NEW t, Enter(p, v, t, rest), UNCHANGED result
  PROVE  FutureState' = FutureState
<1>1. \A x \in Promises : Finished(x) => flags'[x] = flags[x]
  BY DEF Enter, EnterFinished, EnterAwaiting, EnterPending, TypeOK
<1>2. NoneSettled
  BY EnterShape
<1> QED
  BY <1>1, <1>2, PromisedStays

\* A call of the program settles nothing by itself, and ends no wait.
LEMMA EnterStutters ==
  ASSUME TypeOK, NEW p \in Promises, NEW v \in Data \cup {None}, NEW t,
         Enter(p, v, t, stack), await[p] = None, UNCHANGED result
  PROVE  UNCHANGED <<FutureState, await>>
<1>1. stack \in Seq(Frame)
  BY DEF TypeOK
<1>2. FutureState' = FutureState
  BY <1>1, EnterPromised
<1>3. await' = await
  BY DEF Enter, EnterFinished, EnterAwaiting, EnterPending
<1> QED
  BY <1>2, <1>3

LEMMA CallStutters ==
  ASSUME Orderly, IInv, Ordered, Call
  PROVE  UNCHANGED <<FutureState, await>>
<1>0. /\ Values \subseteq Data /\ Errors \subseteq Data /\ Args \subseteq Data /\ Generator \in Data
  BY ErrorsAssumption, ArgsAssumption DEF Data, Plain
<1>1. TypeOK /\ Unborn
  BY DEF IInv, Ordered
<1>2. UNCHANGED <<flags, result>> => FutureState' = FutureState
  BY DEF FutureState, Finished
<1>3. ASSUME NEW p \in Promises, NEW v \in Data, NEW t, Settle(p, v, t)
      PROVE  UNCHANGED <<FutureState, await>>
  BY <1>1, <1>3, EnterStutters DEF Settle
<1>4. ASSUME NEW p \in Promises, NEW v \in Data, Cancel(p, v)
      PROVE  UNCHANGED <<FutureState, await>>
  BY <1>1, <1>4, EnterStutters DEF Cancel, Orderly
<1>5. ASSUME NEW p \in Promises, NEW h \in Promises, Then(p, h)
      PROVE  UNCHANGED <<FutureState, await>>
  <2>1. result[p] \in Data \cup {None} /\ await[h] = None
    BY <1>1, <1>5 DEF TypeOK, Then, Fresh, Unborn
  <2> QED
    BY <1>1, <1>2, <1>5, <2>1, EnterStutters DEF Then
<1>6. ASSUME NEW p \in Promises, NEW h \in Promises, Chain(p, h) \/ Forget(p, h)
      PROVE  UNCHANGED <<FutureState, await>>
  BY <1>2, <1>6 DEF Chain, Forget
<1>7. ASSUME NEW h \in Promises, NEW v \in Data, Start(h, v)
      PROVE  UNCHANGED <<FutureState, await>>
  <2>1. await[h] = None
    BY <1>1, <1>7 DEF Start, Fresh, Unborn
  <2> QED
    BY <1>1, <1>7, <2>1, EnterStutters DEF Start
<1> QED
  BY <1>0, <1>3, <1>4, <1>5, <1>6, <1>7 DEF Call, Done, Fail

\* What runs begins to wait for a pending promise.
LEMMA WatchPendingWaits ==
  ASSUME IInv, Ordered, WatchPending
  PROVE  Contract!Next
<1>p. PICK p \in Promises : p = Top.p
  BY TopTyped DEF WatchPending
<1>q. PICK q \in Promises : q = Top.val
  BY DEF WatchPending
<1>1. /\ Top = stack[Len(stack)] /\ Len(stack) \in DOMAIN stack /\ Top.at = "watch"
  BY TopTyped DEF WatchPending, Top
<1>2. Runs(stack, p)
  BY <1>p, <1>1 DEF Runs, Notifying
<1>3. ~Finished(p) /\ await[p] = None
  BY <1>2 DEF Ordered, InOrder, RunsPending
<1>4. ~Finished(q) /\ await' = [await EXCEPT ![p] = q] /\ UNCHANGED <<flags, result>>
  BY <1>p, <1>q DEF WatchPending
<1>5. FutureState' = FutureState
  BY <1>4 DEF FutureState, Finished
<1>6. FutureState[p] = Contract!Pending /\ FutureState[q] = Contract!Pending
  BY <1>3, <1>4 DEF FutureState, Contract!Pending
<1>7. Contract!Wait(p, q)
  BY <1>3, <1>4, <1>5, <1>6 DEF Contract!Wait
<1> QED
  BY <1>7 DEF Contract!Next

\* The loop of a settled promise wakes what waits for it.
LEMMA NotifyHandlerWakes ==
  ASSUME IInv, Ordered, NotifyHandler
  PROVE  Contract!Next \/ UNCHANGED <<FutureState, await>>
<1>p. PICK p \in Promises : p = Top.p
  BY TopTyped DEF NotifyHandler
<1>1. /\ Top = stack[Len(stack)] /\ Len(stack) \in DOMAIN stack /\ Top.at = "notify"
      /\ Top \in Frame /\ stack \in Seq(Frame) /\ stack # <<>> /\ TypeOK /\ Disciplined(stack)
  BY TopTyped DEF NotifyHandler, Top, IInv, StackDiscipline
<1>2. Finished(p)
  BY <1>p, <1>1 DEF Disciplined, Notifying
<1>3. Slot \in Promises /\ Waits(stack, p, Slot) /\ Top.val \in Data
  BY <1>p, SlotDue
<1> DEFINE f == [Top EXCEPT !.at = "served"]
<1>4. f \in Frame
  BY <1>1 DEF Frame, Label
<1>5. Enter(Slot, Top.val, Top.type, WithTop(stack, f)) /\ UNCHANGED result
  BY DEF NotifyHandler
<1> HIDE DEF f
<1>6. WithTop(stack, f) \in Seq(Frame)
  BY <1>1, <1>4, WithTopFacts
<1>7. FutureState' = FutureState
  BY <1>1, <1>3, <1>5, <1>6, EnterPromised
<1>8. CASE await' = await
  BY <1>7, <1>8
<1>9. CASE await' # await
  <2>1. await' = [await EXCEPT ![Slot] = None] /\ await[Slot] # None
    BY <1>5, <1>9 DEF Enter, EnterFinished, EnterAwaiting, EnterPending
  <2>2. await[Slot] = p
    BY <1>3, <2>1 DEF Waits
  <2>3. FutureState[p] # Contract!Pending
    BY <1>2 DEF FutureState, Contract!Pending
  <2>4. Contract!Wake(Slot)
    BY <1>7, <2>1, <2>2, <2>3 DEF Contract!Wake
  <2> QED
    BY <1>3, <2>4 DEF Contract!Next
<1> QED
  BY <1>8, <1>9

\* A promise settles once, with a value, and when it waits for nothing.
LEMMA SettledSettles ==
  ASSUME IInv, Ordered, Settled
  PROVE  Contract!Next
<1>p. PICK p \in Promises : p = Top.p
  BY TopTyped DEF Settled
<1>1. /\ Top = stack[Len(stack)] /\ Len(stack) \in DOMAIN stack /\ Top.at = "resolved"
      /\ Top \in Frame /\ TypeOK /\ Disciplined(stack)
  BY TopTyped DEF Settled, Top, IInv, StackDiscipline
<1>2. ~Finished(p) /\ await[p] = None
  <2>1. Runs(stack, p)
    BY <1>p, <1>1 DEF Runs, Notifying
  <2> QED
    BY <2>1 DEF Ordered, InOrder, RunsPending
<1>3. Top.val \in Data
  BY <1>1 DEF Ordered, InOrder, Sound, Ready
<1>4. Top.type \subseteq Outcome /\ Top.type # {}
  BY <1>1 DEF Disciplined, Frame
<1>5. /\ result' = [result EXCEPT ![p] = Top.val]
      /\ flags' = [flags EXCEPT ![p] = (flags[p] \cup Top.type) \ {"processing"}]
      /\ await' = await
  BY <1>p DEF Settled
<1> DEFINE s == [outcome |-> IF "done" \in flags'[p] THEN "done" ELSE "failed",
                 val |-> Top.val]
<1>6. s \in Contract!Settled
  BY <1>3 DEF Contract!Settled
<1>7. flags'[p] \cap Outcome # {} /\ result'[p] = Top.val
  BY <1>1, <1>4, <1>5 DEF TypeOK, Outcome
<1>8. \A x \in Promises : x # p => flags'[x] = flags[x] /\ result'[x] = result[x]
  BY <1>1, <1>5 DEF TypeOK
<1>9. Promised(p)' = s
  BY <1>7 DEF Promised, Finished
<1>10. \A x \in Promises : x # p => Promised(x)' = Promised(x)
  BY <1>8 DEF Promised, Finished
<1>11. FutureState' = [FutureState EXCEPT ![p] = s]
  <2> HIDE DEF s
  <2>1. FutureState = [x \in Promises |-> Promised(x)]
    BY PromisedIs
  <2>2. FutureState' = [x \in Promises |-> Promised(x)']
    BY DEF FutureState, Promised
  <2> QED
    BY <1>9, <1>10, <2>1, <2>2
<1>12. FutureState[p] = Contract!Pending
  BY <1>2 DEF FutureState, Contract!Pending
<1>13. Contract!Settle(p, s)
  <2> HIDE DEF s
  <2> QED
    BY <1>2, <1>5, <1>11, <1>12 DEF Contract!Settle
<1> HIDE DEF s
<1> QED
  BY <1>6, <1>13 DEF Contract!Next

LEMMA ContractStep ==
  Orderly /\ IInv /\ Ordered /\ [Next]_vars => [Contract!Next]_<<FutureState, await>>
<1> SUFFICES ASSUME Orderly, IInv, Ordered, [Next]_vars
             PROVE  Contract!Next \/ UNCHANGED <<FutureState, await>>
  OBVIOUS
<1>1. UNCHANGED <<flags, result, await>> => UNCHANGED <<FutureState, await>>
  BY DEF FutureState, Finished
<1>2. CASE Leave \/ \E v \in Offered : Yield(v)
  <2>1. Inner \/ ReturnIntoFreed
    BY <1>2, LeaveIsInner
  <2>2. UNCHANGED <<flags, result, await>>
    BY <2>1, InnerShape DEF Moves, kept, ReturnIntoFreed
  <2> QED
    BY <1>1, <2>2
<1>3. CASE Machine
  <2>1. CASE WatchSettled \/ WatchGenerator \/ WatchPlain \/ Resume
    BY <1>1, <2>1 DEF WatchSettled, WatchGenerator, WatchPlain, Resume
  <2>2. CASE HandlerServed \/ HandlersNotified \/ NotifyCorrupted
    BY <1>1, <2>2 DEF HandlerServed, HandlersNotified, NotifyCorrupted
  <2> QED
    BY <1>3, <2>1, <2>2, WatchPendingWaits, NotifyHandlerWakes, SettledSettles DEF Machine
<1>4. CASE UNCHANGED vars
  BY <1>1, <1>4 DEF vars
<1> QED
  BY <1>2, <1>3, <1>4, CallStutters DEF Next, User

(***************************************************************************)
(* The promises keep the contract of Future: settled for good, with one    *)
(* outcome and one value, woken by what they wait for and by nothing else, *)
(* when the program settles, cancels and chains what is idle.              *)
(***************************************************************************)
THEOREM Contracted == ASSUME Orderly PROVE Spec => KeepsContract
<1>1. Init => IInv /\ Ordered
  BY InitEstablishes, InitOrders
<1>2. IInv /\ Ordered /\ [Next]_vars => IInv' /\ Ordered'
  BY NextKeeps, NextOrders
<1>3. IInv /\ Ordered /\ [Next]_vars => [Contract!Next]_<<FutureState, await>>
  BY ContractStep
<1>4. Init => Contract!Init
  BY ContractInit
<1> QED
  BY <1>1, <1>2, <1>3, <1>4, PTL DEF Spec, KeepsContract, Contract!Spec, Contract!vars
=============================================================================
