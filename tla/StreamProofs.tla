---------------------------- MODULE StreamProofs ----------------------------
(***************************************************************************)
(* What the callbacks and the methods of a stream keep, whatever handlers  *)
(* do in between and however deep they nest: for any bytes, lengths,       *)
(* limits and number of deferreds.  Each theorem names the liberties that  *)
(* would break it, and only those.                                         *)
(***************************************************************************)
EXTENDS Stream, WellFoundedInduction, TLAPS

(***************************************************************************)
(* What an activation can have left to do: while handlers run (Waiting),   *)
(* and when it is its turn (Running).                                      *)
(***************************************************************************)
Waiting == {<<>>, <<"hasdata", "incoming">>, <<"shutdown">>, <<"flush", "shutdown">>,
            <<"read", "flush", "shutdown">>, <<"flushed">>}
Running == Waiting \cup
  {<<"input">>, <<"incoming">>, <<"read", "shutdown">>, <<"connect">>,
   <<"connect", "read", "flush", "shutdown">>, <<"flush", "flushed">>, <<"close">>}

Elements(tasks) == {tasks[i] : i \in DOMAIN tasks}

\* The activations that the code makes.
Shape == {a \in [tasks : Running, user : BOOLEAN] : a.user => a.tasks \in Waiting}

\* The task at hand, if the C code is at one.
Now == IF stack # <<>> /\ ~Top.user /\ Top.tasks # <<>> THEN Head(Top.tasks) ELSE "none"

\* The tasks that some activation has left to do.
Left == {t \in Task : \E k \in DOMAIN stack : t \in Elements(stack[k].tasks)}

\* The tasks that come after the handlers of a deferred, or after others.
Later == {"none", "hasdata", "shutdown", "flush", "read", "flushed"}

StackType ==
  /\ stack \in Seq(Shape)
  /\ \A k \in DOMAIN stack : k < Len(stack) => stack[k].user

DataType ==
  /\ origin \in Origins
  /\ state \subseteq Flags
  /\ slot \in [Slots -> Deferreds \cup {None}]
  /\ kind \in [Deferreds -> Slots \cup {None}]
  /\ length \in Nat /\ inputSize \in Nat /\ incoming \in BOOLEAN
  /\ token \in [limit : Nat, offset : Nat] \cup {None}
  /\ in \in Seq(Bytes) /\ out \in Nat /\ low \in Nat /\ high \in Nat
  /\ rd \in BOOLEAN /\ wr \in BOOLEAN /\ fd \in BOOLEAN /\ dialing \in BOOLEAN
  /\ due \subseteq Callbacks /\ (origin # "pair" => due = {})

TypeOK == DataType /\ StackType
-----------------------------------------------------------------------------
(* What the operations on the tasks and on the stack do. *)

\* A task of a slot is followed by others; hasdata only by incoming; the rest by none.
LEMMA TaskFacts ==
  ASSUME NEW t \in Running, t # <<>>
  PROVE  /\ Head(t) \in Task
         /\ Elements(t) = {Head(t)} \cup Elements(Tail(t))
         /\ Head(t) \in Slots => Tail(t) \in Waiting
         /\ Head(t) = "hasdata" => Tail(t) = <<"incoming">>
         /\ Head(t) \in {"input", "incoming", "flushed", "close"} => Tail(t) = <<>>
<1> USE DEF Running, Waiting, Elements, Task, Slots
<1>1. CASE t = <<"hasdata", "incoming">>
  BY <1>1
<1>2. CASE t = <<"shutdown">>
  BY <1>2
<1>3. CASE t = <<"flush", "shutdown">>
  BY <1>3
<1>4. CASE t = <<"read", "flush", "shutdown">>
  BY <1>4
<1>5. CASE t = <<"flushed">>
  BY <1>5
<1>6. CASE t = <<"input">>
  BY <1>6
<1>7. CASE t = <<"incoming">>
  BY <1>7
<1>8. CASE t = <<"read", "shutdown">>
  BY <1>8
<1>9. CASE t = <<"connect">>
  BY <1>9
<1>10. CASE t = <<"connect", "read", "flush", "shutdown">>
  BY <1>10
<1>11. CASE t = <<"flush", "flushed">>
  BY <1>11
<1>12. CASE t = <<"close">>
  BY <1>12
<1> QED
  BY <1>1, <1>2, <1>3, <1>4, <1>5, <1>6, <1>7, <1>8, <1>9, <1>10, <1>11, <1>12

\* The task at hand is one of those left; user code is at none.
LEMMA NowFacts ==
  ASSUME StackType
  PROVE  /\ Now \in Task \cup {"none"} /\ Left \subseteq Task
         /\ Now # "none" => Now \in Left /\ ~UserRuns /\ stack # <<>>
         /\ \A t \in Task : AtTask(t) <=> Now = t
         /\ EventLoop => Left = {}
<1>1. CASE stack = <<>>
  BY <1>1 DEF Now, Left, AtTask, EventLoop, Task, Slots
<1>2. CASE stack # <<>>
  <2>1. Len(stack) \in DOMAIN stack /\ Top \in Shape
    BY <1>2 DEF StackType, Top
  <2>2. Top.tasks \in Running /\ Top.user \in BOOLEAN
    BY <2>1 DEF Shape
  <2>3. CASE Now = "none"
    <3>1. Top.user \/ Top.tasks = <<>>
      BY <1>2, <2>2, <2>3, TaskFacts DEF Now, Task, Slots
    <3> QED
      BY <1>2, <2>3, <3>1 DEF AtTask, Left, EventLoop, Task, Slots
  <2>4. CASE Now # "none"
    <3>1. ~Top.user /\ Top.tasks # <<>> /\ Now = Head(Top.tasks)
      BY <1>2, <2>4 DEF Now
    <3>2. Now \in Task /\ Now \in Elements(Top.tasks)
      BY <2>2, <3>1, TaskFacts
    <3>3. Now \in Left
      BY <2>1, <3>2 DEF Left, Top
    <3> QED
      BY <1>2, <3>1, <3>2, <3>3 DEF AtTask, Left, EventLoop, UserRuns
  <2> QED
    BY <2>3, <2>4
<1> QED
  BY <1>1, <1>2

\* A C function is called: its first task is at hand.
LEMMA CallFacts ==
  ASSUME StackType, UserRuns, NEW ts \in Running, ts # <<>>, Call(ts)
  PROVE  StackType' /\ Now' = Head(ts) /\ Left' = Left \cup Elements(ts)
<1> DEFINE a == [tasks |-> ts, user |-> FALSE]
<1>1. a \in Shape /\ stack \in Seq(Shape) /\ stack' = Append(stack, a)
  BY DEF Shape, StackType, Call
<1> DEFINE n == Len(stack)
<1>2. /\ n \in Nat /\ DOMAIN stack = 1 .. n /\ DOMAIN stack' = 1 .. n + 1
      /\ Len(stack') = n + 1 /\ stack' \in Seq(Shape) /\ stack'[n + 1] = a
      /\ \A k \in 1 .. n : stack'[k] = stack[k]
  BY <1>1
<1>3. \A k \in 1 .. n : stack[k].user
  BY <1>1, <1>2 DEF UserRuns, Top, StackType
<1>4. StackType'
  BY <1>2, <1>3 DEF StackType
<1>5. Now' = Head(ts)
  <2>1. stack' # <<>> /\ Top' = a
    BY <1>2 DEF Top
  <2> QED
    BY <2>1 DEF Now
<1>6. Elements(ts) \subseteq Task
  BY DEF Running, Waiting, Elements, Task, Slots
<1>7. Left' = Left \cup Elements(ts)
  <2>1. ASSUME NEW t \in Task, NEW k \in 1 .. n + 1, t \in Elements(stack'[k].tasks)
        PROVE  t \in Left \cup Elements(ts)
    <3>1. k = n + 1 \/ k \in 1 .. n
      BY <1>2
    <3> QED
      BY <1>2, <2>1, <3>1 DEF Left
  <2>2. Left \subseteq Left'
    BY <1>2 DEF Left
  <2>3. Elements(ts) \subseteq Left'
    <3>1. n + 1 \in DOMAIN stack' /\ stack'[n + 1].tasks = ts
      BY <1>2
    <3> QED
      BY <3>1, <1>6 DEF Left
  <2> QED
    BY <1>2, <2>1, <2>2, <2>3 DEF Left
<1> QED
  BY <1>4, <1>5, <1>7

LEMMA RunningTasks ==
  ASSUME NEW t \in Running
  PROVE  Elements(t) \subseteq Task
BY DEF Running, Waiting, Elements, Task, Slots

LEMMA WaitingLater ==
  ASSUME NEW t \in Waiting, t # <<>>
  PROVE  Head(t) \in Later
BY DEF Waiting, Later

\* The activation on top goes on to other tasks: the others keep theirs.
LEMMA MoveFacts ==
  ASSUME StackType, stack # <<>>, NEW a \in Shape, stack' = [stack EXCEPT ![Len(stack)] = a]
  PROVE  /\ StackType'
         /\ Now' = IF a.user \/ a.tasks = <<>> THEN "none" ELSE Head(a.tasks)
         /\ Left' \subseteq Left \cup Elements(a.tasks)
         /\ \A t \in Left : t \notin Elements(Top.tasks) \/ t \in Elements(a.tasks) => t \in Left'
<1> DEFINE n == Len(stack)
<1>1. stack \in Seq(Shape)
  BY DEF StackType
<1>2. /\ n \in Nat \ {0} /\ DOMAIN stack = 1 .. n /\ DOMAIN stack' = 1 .. n
      /\ Len(stack') = n /\ stack' \in Seq(Shape) /\ stack'[n] = a
      /\ \A k \in 1 .. n : k # n => stack'[k] = stack[k]
      /\ \A k \in 1 .. n : k < n => k # n
  BY <1>1
<1>3. StackType'
  <2>1. \A k \in 1 .. n : k < n => stack[k].user
    BY <1>2 DEF StackType
  <2>2. \A k \in 1 .. n : k < n => stack'[k].user
    <3> HIDE DEF n
    <3> QED
      BY <1>2, <2>1
  <2> QED
    BY <1>2, <2>2 DEF StackType
<1>4. stack' # <<>> /\ Top' = a /\ Top = stack[n]
  BY <1>2 DEF Top
<1>5. Now' = IF a.user \/ a.tasks = <<>> THEN "none" ELSE Head(a.tasks)
  BY <1>4 DEF Now
<1>6. Left' \subseteq Left \cup Elements(a.tasks)
  BY <1>2 DEF Left
<1>7. ASSUME NEW t \in Left, t \notin Elements(Top.tasks) \/ t \in Elements(a.tasks)
      PROVE  t \in Left'
  <2>1. PICK k \in 1 .. n : t \in Elements(stack[k].tasks)
    BY <1>2 DEF Left
  <2>2. CASE k # n
    BY <1>2, <2>1, <2>2 DEF Left
  <2>3. CASE k = n
    <3>1. t \in Elements(stack'[n].tasks)
      BY <1>2, <1>4, <1>7, <2>1, <2>3
    <3> QED
      BY <1>2, <3>1 DEF Left
  <2> QED
    BY <2>2, <2>3
<1> QED
  BY <1>3, <1>5, <1>6, <1>7

\* A C function at task t goes on to the tasks ts, or runs handlers before.
LEMMA StepFacts ==
  ASSUME StackType, NEW t \in Task, AtTask(t), NEW ts \in Running, NEW u \in BOOLEAN,
         u => ts \in Waiting, Elements(Tail(Top.tasks)) \subseteq Elements(ts),
         stack' = [stack EXCEPT ![Len(stack)] = [tasks |-> ts, user |-> u]]
  PROVE  /\ StackType'
         /\ Now' = IF u \/ ts = <<>> THEN "none" ELSE Head(ts)
         /\ Left' \subseteq Left \cup Elements(ts)
         /\ Left \ {t} \subseteq Left'
<1> DEFINE a == [tasks |-> ts, user |-> u]
<1>1. a \in Shape
  BY DEF Shape
<1>2. stack # <<>> /\ Top.tasks # <<>> /\ Head(Top.tasks) = t
  BY DEF AtTask
<1>3. Top.tasks \in Running
  <2>1. Len(stack) \in DOMAIN stack /\ Top \in Shape
    BY <1>2 DEF StackType, Top
  <2> QED
    BY <2>1 DEF Shape
<1>4. Elements(Top.tasks) = {t} \cup Elements(Tail(Top.tasks))
  BY <1>2, <1>3, TaskFacts
<1>5. stack' = [stack EXCEPT ![Len(stack)] = a]
  OBVIOUS
<1>6. /\ StackType'
      /\ Now' = IF a.user \/ a.tasks = <<>> THEN "none" ELSE Head(a.tasks)
      /\ Left' \subseteq Left \cup Elements(a.tasks)
      /\ \A x \in Left : x \notin Elements(Top.tasks) \/ x \in Elements(a.tasks) => x \in Left'
  <2> HIDE DEF a
  <2> QED
    BY <1>1, <1>2, <1>5, MoveFacts
<1> QED
  BY <1>4, <1>6

\* A slot's turn: the tasks after it are left.
LEMMA SlotFacts ==
  ASSUME StackType, NEW s \in Slots, AtTask(s), NEW u \in BOOLEAN,
         stack' = [stack EXCEPT ![Len(stack)] = [tasks |-> Tail(Top.tasks), user |-> u]]
  PROVE  /\ StackType' /\ Now' \in Later
         /\ Left' \subseteq Left /\ Left \ {s} \subseteq Left'
<1> DEFINE ts == Tail(Top.tasks)
<1>1. stack # <<>> /\ Top.tasks # <<>> /\ Head(Top.tasks) = s
  BY DEF AtTask
<1>2. Len(stack) \in DOMAIN stack /\ Top \in Shape
  BY <1>1 DEF StackType, Top
<1>3. Top.tasks \in Running
  BY <1>2 DEF Shape
<1>4. ts \in Waiting /\ Elements(Top.tasks) = {s} \cup Elements(ts)
  BY <1>1, <1>3, TaskFacts
<1>5. ts \in Running /\ s \in Task
  BY <1>4 DEF Running, Task
<1>6. /\ StackType'
      /\ Now' = IF u \/ ts = <<>> THEN "none" ELSE Head(ts)
      /\ Left' \subseteq Left \cup Elements(ts)
      /\ Left \ {s} \subseteq Left'
  <2> HIDE DEF ts
  <2>1. stack' = [stack EXCEPT ![Len(stack)] = [tasks |-> ts, user |-> u]]
    BY DEF ts
  <2>2. Elements(Tail(Top.tasks)) \subseteq Elements(ts)
    BY DEF ts
  <2> QED
    BY <1>4, <1>5, <2>1, <2>2, StepFacts
<1>7. Elements(ts) \subseteq Left
  <2>1. Elements(ts) \subseteq Task
    <3> HIDE DEF ts
    <3> QED
      BY <1>5, RunningTasks
  <2> QED
    BY <1>2, <1>4, <2>1 DEF Left, Top
<1>8. ts # <<>> => Head(ts) \in Later
  <2> HIDE DEF ts
  <2> QED
    BY <1>4, WaitingLater
<1> QED
  BY <1>6, <1>7, <1>8 DEF Later

\* A return: what is left stays left.
LEMMA ReturnFacts ==
  ASSUME StackType, Return
  PROVE  StackType' /\ Now = "none" /\ Now' \in Later /\ Left' = Left
<1> DEFINE n == Len(stack)
<1>1. stack \in Seq(Shape) /\ stack # <<>>
  BY DEF StackType, Return
<1>2. n \in Nat \ {0} /\ DOMAIN stack = 1 .. n /\ Top = stack[n] /\ Top \in Shape
  BY <1>1 DEF Top
<1>3. CASE Top.user /\ Continue(Top.tasks)
  <2> DEFINE a == [tasks |-> Top.tasks, user |-> FALSE]
  <2>1. a \in Shape /\ Top.tasks \in Waiting
    BY <1>2, <1>3 DEF Shape
  <2>2. stack' = [stack EXCEPT ![Len(stack)] = a]
    BY <1>3 DEF Continue
  <2>3. /\ StackType'
        /\ Now' = IF a.user \/ a.tasks = <<>> THEN "none" ELSE Head(a.tasks)
        /\ Left' \subseteq Left \cup Elements(a.tasks)
        /\ \A x \in Left : x \notin Elements(Top.tasks) \/ x \in Elements(a.tasks) => x \in Left'
    <3> HIDE DEF a
    <3> QED
      BY <1>1, <2>1, <2>2, MoveFacts
  <2>4. Elements(Top.tasks) \subseteq Left
    <3>1. Elements(Top.tasks) \subseteq Task
      BY <2>1, RunningTasks DEF Running
    <3> QED
      BY <1>2, <3>1 DEF Left
  <2>5. Now' \in Later
    BY <2>1, <2>3, WaitingLater DEF Later
  <2> QED
    BY <1>3, <2>3, <2>4, <2>5 DEF Now
<1>4. CASE Top.tasks = <<>> /\ ~Top.user /\ stack' = Below
  <2>1. /\ stack' \in Seq(Shape) /\ Len(stack') = n - 1 /\ DOMAIN stack' = 1 .. n - 1
        /\ \A k \in 1 .. n - 1 : stack'[k] = stack[k]
    BY <1>1, <1>2, <1>4 DEF Below
  <2>2. \A k \in 1 .. n - 1 : stack[k].user
    BY <1>2 DEF StackType
  <2>3. StackType'
    BY <2>1, <2>2, <1>2 DEF StackType
  <2>4. Now' = "none"
    <3>1. stack' # <<>> => Top'.user
      BY <1>2, <2>1, <2>2 DEF Top
    <3> QED
      BY <3>1 DEF Now
  <2>5. Left' = Left
    <3>1. Elements(stack[n].tasks) = {}
      BY <1>2, <1>4 DEF Elements
    <3>2. ASSUME NEW k \in DOMAIN stack
          PROVE  k = n \/ k \in DOMAIN stack'
      <4>1. k \in 1 .. n /\ n \in Nat
        BY <1>2
      <4>2. k = n \/ k \in 1 .. n - 1
        BY ONLY <4>1
      <4> QED
        BY <2>1, <4>2
    <3>3. \A k \in DOMAIN stack' : k \in DOMAIN stack /\ stack'[k] = stack[k]
      BY <1>2, <2>1
    <3> HIDE DEF n
    <3>4. \A t \in Task : (\E k \in DOMAIN stack : t \in Elements(stack[k].tasks))
                       <=> (\E k \in DOMAIN stack' : t \in Elements(stack'[k].tasks))
      BY <3>1, <3>2, <3>3
    <3> QED
      BY <3>4 DEF Left
  <2> QED
    BY <1>4, <2>3, <2>4, <2>5 DEF Now, Later
<1> QED
  BY <1>3, <1>4 DEF Return

\* The handlers of a canceled deferred run above everything else.
LEMMA HandlersFacts ==
  ASSUME StackType, UserRuns, stack' = Append(stack, [tasks |-> <<>>, user |-> TRUE])
  PROVE  StackType' /\ Now' = "none" /\ Left' = Left
<1> DEFINE a == [tasks |-> <<>>, user |-> TRUE]
           n == Len(stack)
<1>1. a \in Shape /\ stack \in Seq(Shape) /\ stack' = Append(stack, a)
  BY DEF Shape, StackType, Running, Waiting
<1>2. /\ n \in Nat /\ DOMAIN stack = 1 .. n /\ DOMAIN stack' = 1 .. n + 1
      /\ Len(stack') = n + 1 /\ stack' \in Seq(Shape) /\ stack'[n + 1] = a
      /\ \A k \in 1 .. n : stack'[k] = stack[k]
  BY <1>1
<1>3. \A k \in 1 .. n : stack[k].user
  BY <1>1, <1>2 DEF UserRuns, Top, StackType
<1>4. StackType'
  BY <1>2, <1>3 DEF StackType
<1>5. Now' = "none"
  <2>1. stack' # <<>> /\ Top' = a
    BY <1>2 DEF Top
  <2> QED
    BY <2>1 DEF Now
<1>6. Left' = Left
  <2>1. Elements(stack'[n + 1].tasks) = {}
    BY <1>2 DEF Elements
  <2>2. \A k \in 1 .. n + 1 : k = n + 1 \/ k \in 1 .. n
    BY <1>2
  <2> QED
    BY <1>2, <2>1, <2>2 DEF Left
<1> QED
  BY <1>4, <1>5, <1>6

-----------------------------------------------------------------------------
(* What the operations on the buffer and on the slots do. *)

\* The least element of a set of numbers: the delimiter that a search finds.
LEMMA Least ==
  ASSUME NEW S, S \subseteq Nat, S # {}
  PROVE  \E m \in S : \A k \in S : m <= k
<1> DEFINE R == OpToRel(<, Nat)
<1>1. IsWellFoundedOn(R, Nat)
  BY NatLessThanWellFounded
<1>2. \A x, y \in Nat : x < y => <<x, y>> \in R
  BY DEF OpToRel
<1> HIDE DEF R
<1>3. PICK m \in S : \A k \in S : ~ (<<k, m>> \in R)
  BY <1>1, WFMin
<1>4. ASSUME NEW k \in S
      PROVE  m <= k
  <2>1. m \in Nat /\ k \in Nat /\ ~(k < m)
    BY <1>2, <1>3
  <2> QED
    BY <2>1
<1> QED
  BY <1>4

LEMMA BufferFacts ==
  ASSUME DataType
  PROVE  /\ Len(in) \in Nat /\ DOMAIN in = 1 .. Len(in)
         /\ in = <<>> <=> Len(in) = 0
         /\ \A p \in 1 .. Len(in) : in[p] \in Bytes
BY DEF DataType

\* Taking n bytes leaves the others.
LEMMA DropFacts ==
  ASSUME DataType, NEW n \in 0 .. Len(in)
  PROVE  Dropped(n) \in Seq(Bytes) /\ Len(Dropped(n)) = Len(in) - n
<1>1. in \in Seq(Bytes) /\ Len(in) \in Nat
  BY DEF DataType
<1> QED
  BY <1>1 DEF Dropped

\* A found delimiter is in the buffer.
LEMMA FoundFacts ==
  ASSUME DataType, NEW o \in Nat, NEW l \in Nat, Found(o, l)
  PROVE  Position(o, l) \in 1 .. Len(in) /\ Position(o, l) - 1 \in 0 .. Len(in)
<1> DEFINE D == Delimiters(o, l)
<1>1. D \subseteq 1 .. Len(in) /\ D # {} /\ Len(in) \in Nat
  BY BufferFacts DEF Delimiters, Found
<1>2. \E m \in D : \A k \in D : m <= k
  <2>1. D \subseteq Nat
    BY <1>1
  <2> HIDE DEF D
  <2> QED
    BY <1>1, <2>1, Least
<1>3. Position(o, l) \in D
  BY <1>2 DEF Position
<1>4. Position(o, l) \in 1 .. Len(in)
  BY <1>1, <1>3
<1> QED
  BY <1>1, <1>4

\* A search that finds nothing and is not stopped by its limit has seen all.
LEMMA NotFoundFacts ==
  ASSUME DataType, NEW o \in Nat, NEW l \in Nat, o <= Len(in),
         \A p \in 1 .. o : in[p] # Token, ~Found(o, l), ~LimitReached(o, l)
  PROVE  Resumed(o) = Len(in) /\ \A p \in 1 .. Len(in) : in[p] # Token
<1>1. Len(in) \in Nat /\ DOMAIN in = 1 .. Len(in)
  BY BufferFacts
<1>2. CASE o = Len(in)
  BY <1>1, <1>2 DEF Resumed
<1>3. CASE o < Len(in)
  <2>1. Delimiters(o, l) = {}
    BY <1>3 DEF Found
  <2>2. l = 0 \/ Len(in) < l
    BY <1>1, <1>3 DEF LimitReached
  <2>3. ASSUME NEW p \in 1 .. Len(in), p > o, in[p] = Token
        PROVE  FALSE
    <3>1. ~(l > 0 /\ o + l - 1 < Len(in) - 1)
      BY <1>1, <2>2
    <3>2. p \in Delimiters(o, l)
      BY <1>1, <2>3, <3>1 DEF Delimiters
    <3> QED
      BY <2>1, <3>2
  <2>4. \A p \in 1 .. Len(in) : p > o \/ p \in 1 .. o
    BY <1>1
  <2> QED
    BY <1>3, <2>3, <2>4 DEF Resumed
<1>4. o = Len(in) \/ o < Len(in)
  <2>1. \A m, n \in Nat : m <= n => m = n \/ m < n
    OBVIOUS
  <2> QED
    BY <1>1, <2>1
<1> QED
  BY <1>2, <1>3, <1>4

\* Bytes that arrive are put after the others.
LEMMA ArriveFacts ==
  ASSUME DataType, NEW data \in Seq(Bytes), data # <<>>, in' = in \o data
  PROVE  /\ in' \in Seq(Bytes) /\ in' # <<>> /\ Len(in') \in Nat /\ Len(in') >= Len(in)
         /\ \A p \in 1 .. Len(in) : in'[p] = in[p]
<1>1. in \in Seq(Bytes) /\ Len(in) \in Nat /\ Len(data) \in Nat /\ Len(data) > 0
  BY DEF DataType
<1> QED
  BY <1>1

\* A new deferred in an empty slot.
LEMMA NewFacts ==
  ASSUME DataType, NEW s \in Slots, NewDeferred(s)
  PROVE  /\ slot' \in [Slots -> Deferreds \cup {None}]
         /\ kind' \in [Deferreds -> Slots \cup {None}]
         /\ slot'[s] # None /\ \A x \in Slots : x # s => slot'[x] = slot[x]
         /\ NoOrphan /\ slot[s] = None => NoOrphan'
<1>1. PICK d \in Deferreds : /\ kind[d] = None
                             /\ kind' = [kind EXCEPT ![d] = s]
                             /\ slot' = [slot EXCEPT ![s] = d]
  BY DEF NewDeferred
<1>2. /\ slot \in [Slots -> Deferreds \cup {None}] /\ kind \in [Deferreds -> Slots \cup {None}]
      /\ None \notin Deferreds /\ None \notin Slots
  BY TokensAssumption DEF DataType
<1>3. ASSUME NoOrphan, slot[s] = None, NEW e \in Deferreds, NEW x \in Slots
      PROVE  kind'[e] = x <=> slot'[x] = e
  BY <1>1, <1>2, <1>3 DEF NoOrphan
<1> QED
  BY <1>1, <1>2, <1>3 DEF NoOrphan

\* The deferred of a slot is settled.
LEMMA SettleFacts ==
  ASSUME DataType, NEW s \in Slots, slot[s] # None,
         kind' = [kind EXCEPT ![slot[s]] = None], slot' = SlotFreed(s), token' = TokenFreed(s)
  PROVE  /\ slot' \in [Slots -> Deferreds \cup {None}]
         /\ kind' \in [Deferreds -> Slots \cup {None}]
         /\ token' \in [limit : Nat, offset : Nat] \cup {None}
         /\ slot'[s] = None /\ \A x \in Slots : x # s => slot'[x] = slot[x]
         /\ token' = IF s = "read" THEN None ELSE token
         /\ NoOrphan => NoOrphan'
<1>1. /\ slot \in [Slots -> Deferreds \cup {None}] /\ kind \in [Deferreds -> Slots \cup {None}]
      /\ None \notin Deferreds /\ None \notin Slots /\ slot[s] \in Deferreds
      /\ token \in [limit : Nat, offset : Nat] \cup {None}
  BY TokensAssumption DEF DataType
<1>2. slot' = [slot EXCEPT ![s] = None]
  BY DEF SlotFreed
<1>3. ASSUME NoOrphan, NEW e \in Deferreds, NEW x \in Slots
      PROVE  kind'[e] = x <=> slot'[x] = e
  BY <1>1, <1>2, <1>3 DEF NoOrphan
<1>4. token' = IF s = "read" THEN None ELSE token
  BY DEF TokenFreed
<1> QED
  BY <1>1, <1>2, <1>3, <1>4 DEF NoOrphan

\* A deferred is canceled: the destructor frees the slot it was made for.
LEMMA CancelFacts ==
  ASSUME DataType, NEW d \in Deferreds, kind[d] # None,
         kind' = [kind EXCEPT ![d] = None], slot' = SlotFreed(kind[d]), token' = TokenFreed(kind[d])
  PROVE  /\ slot' \in [Slots -> Deferreds \cup {None}]
         /\ kind' \in [Deferreds -> Slots \cup {None}]
         /\ token' \in [limit : Nat, offset : Nat] \cup {None}
         /\ \A x \in Slots : slot'[x] = slot[x] \/ slot'[x] = None
         /\ slot'["read"] = None /\ (slot["read"] = None => token = None) => token' = None
         /\ NoOrphan => NoOrphan'
<1>1. /\ slot \in [Slots -> Deferreds \cup {None}] /\ kind \in [Deferreds -> Slots \cup {None}]
      /\ None \notin Deferreds /\ None \notin Slots /\ kind[d] \in Slots
      /\ token \in [limit : Nat, offset : Nat] \cup {None}
  BY TokensAssumption DEF DataType
<1>2. slot' = [slot EXCEPT ![kind[d]] = None]
  BY DEF SlotFreed
<1>3. ASSUME NoOrphan, NEW e \in Deferreds, NEW x \in Slots
      PROVE  kind'[e] = x <=> slot'[x] = e
  BY <1>1, <1>2, <1>3 DEF NoOrphan
<1>4. slot'["read"] = None /\ (slot["read"] = None => token = None) => token' = None
  BY <1>1, <1>2 DEF TokenFreed, Slots
<1> QED
  BY <1>1, <1>2, <1>3, <1>4 DEF NoOrphan, TokenFreed
-----------------------------------------------------------------------------
(* The inductive invariant, a part for each property. *)

\* The handlers of a flush, and what follows them, find the output empty.
FlushesEmpty == origin # "pair" /\ ("flushed" \in Left \/ "FLUSHED" \in state) => out = 0

ClosesEmpty == origin # "pair" /\ Now = "close" => out = 0

\* Past the handlers of a flush, and until stream->flush = NULL, nobody is in it.
SlotsKept == NoOrphan /\ ("flushed" \in Left /\ Now # "flush" => slot["flush"] = None)

\* A callback that reports EOF has the read still to settle.
ReadsEnd == "EOF" \in state /\ slot["read"] # None => "read" \in Left

\* A callback that closes has the shutdown still to settle; a stream made on a
\* descriptor loses it only by closing.
ClosingTold ==
  origin \in {"accepted", "dialed"} =>
    /\ ~fd => "SHUTDOWN" \in state
    /\ Closed /\ slot["shutdown"] # None => "shutdown" \in Left

\* The input callback runs on bytes, and HAS_DATA is fresh when it asks for incoming().
DataThere ==
  origin # "pair" =>
    /\ Now = "input" => in # <<>>
    /\ Now = "incoming" /\ "HAS_DATA" \in state => in # <<>>

\* A line is searched only for a read; only a closing stream fails a read.
ReadFields ==
  /\ slot["read"] = None => token = None
  /\ "read" \in Left => Closed

\* A readLine() has searched all the input, a read() has not enough: but for the
\* input callback, at hand or put off, which the low watermark does not hold back.
Telling == Now = "input" \/ "input" \in due

LineSearched ==
  /\ low = 0 /\ token.offset <= Len(in)
  /\ \A p \in 1 .. token.offset : in[p] # Token
  /\ Telling \/ token.offset = Len(in)

BytesAwaited ==
  /\ low = length
  /\ length > 0 => Telling \/ Len(in) < length

ReadWaits ==
  /\ slot["read"] = None => Closed \/ low = 0
  /\ slot["read"] # None => IF token # None THEN LineSearched ELSE BytesAwaited

HonestReads == Liberties \cap {"late", "cancel", "take", "resize", "append"} = {}

\* What holds whatever is read, and what holds of the reads.
OutputParts ==
  /\ ~May("refill") => FlushesEmpty
  /\ ~May("refill") /\ ~May("force") => ClosesEmpty
  /\ ~May("refill") /\ ~May("reconnect") => SlotsKept
  /\ ClosingTold

InputParts ==
  /\ ~May("late") => ReadsEnd
  /\ DataThere /\ ReadFields
  /\ HonestReads => ReadWaits

IInv == TypeOK /\ OutputParts /\ InputParts

-----------------------------------------------------------------------------
(* What each kind of step does to the tasks. *)

LEMMA ClosedFlags ==
  /\ Closed <=> "EOF" \in state \/ "ERROR" \in state \/ "SHUTDOWN" \in state
  /\ Closed' <=> "EOF" \in state' \/ "ERROR" \in state' \/ "SHUTDOWN" \in state'
BY DEF Closed

LEMMA FlushingLeft ==
  ASSUME StackType
  PROVE  Flushing <=> "flushed" \in Left
BY DEF Flushing, Left, Elements, Task

\* Nothing is at hand between two events, nor while user code runs.
LEMMA IdleFacts ==
  ASSUME StackType, EventLoop
  PROVE  Now = "none" /\ Left = {} /\ UserRuns
BY NowFacts DEF UserRuns, EventLoop

LEMMA KeptFacts ==
  ASSUME StackType, stack' = stack
  PROVE  StackType' /\ Now' = Now /\ Left' = Left
BY DEF StackType, Now, Top, Left

LEMMA MethodFacts ==
  ASSUME StackType, UserRuns
  PROVE  Now = "none"
BY NowFacts

\* Nothing is left after the tasks that decide themselves how to go on.
LEMMA TopAt ==
  ASSUME StackType, NEW t \in Task, AtTask(t)
  PROVE  /\ Top.tasks \in Running
         /\ t \in {"input", "incoming", "flushed", "close"} => Tail(Top.tasks) = <<>>
         /\ t = "hasdata" => Tail(Top.tasks) = <<"incoming">>
<1>1. stack # <<>> /\ Top.tasks # <<>> /\ Head(Top.tasks) = t
  BY DEF AtTask
<1>2. Len(stack) \in DOMAIN stack /\ Top \in Shape
  BY <1>1 DEF StackType, Top
<1>3. Top.tasks \in Running
  BY <1>2 DEF Shape
<1> QED
  BY <1>1, <1>3, TaskFacts

LEMMA NowLeft == StackType => (Now # "none" => Now \in Left)
BY NowFacts

\* EOF is reported to the read, then to the shutdown.
LEMMA PeerClosesStep ==
  ASSUME IInv, PeerCloses
  PROVE  IInv'
<1>0. DataType /\ StackType /\ OutputParts /\ InputParts
  BY DEF IInv, TypeOK
<1>1. StackType' /\ Now' = "read" /\ Left' = {"read", "shutdown"}
      /\ Now = "none" /\ Left = {}
  <2>1. Now = "none" /\ Left = {} /\ UserRuns
    BY <1>0, IdleFacts DEF PeerCloses
  <2> DEFINE ts == <<"read", "shutdown">>
  <2>2. /\ ts \in Running /\ ts # <<>> /\ Head(ts) = "read"
        /\ Elements(ts) = {"read", "shutdown"}
    BY DEF Running, Elements
  <2>3. Call(ts)
    BY DEF PeerCloses
  <2> HIDE DEF ts
  <2>4. StackType' /\ Now' = Head(ts) /\ Left' = Left \cup Elements(ts)
    BY <1>0, <2>1, <2>2, <2>3, CallFacts
  <2> QED
    BY <2>1, <2>2, <2>4
<1>a. slot' = slot /\ kind' = kind /\ (NoOrphan => NoOrphan')
  BY DEF PeerCloses, NoOrphan, fields
<1>b. in' \in Seq(Bytes)
  <2>1. in' = in \/ in' = <<>>
    BY DEF PeerCloses
  <2>2. <<>> \in Seq(Bytes) /\ in \in Seq(Bytes)
    BY <1>0 DEF DataType
  <2> QED
    BY <2>1, <2>2
<1>2. DataType'
  BY <1>0, <1>1, <1>a, <1>b DEF PeerCloses, DataType, Flags
<1>3. OutputParts'
  BY <1>0, <1>1, <1>a, <1>b, ClosedFlags DEF PeerCloses, OutputParts, FlushesEmpty,
     ClosesEmpty, SlotsKept, ClosingTold, May, Flags
<1>4. InputParts'
  BY <1>0, <1>1, <1>a, <1>b, ClosedFlags DEF PeerCloses, InputParts, ReadsEnd, DataThere,
     ReadFields, ReadWaits, LineSearched, BytesAwaited, Telling, HonestReads, May, Flags
<1> QED
  BY <1>1, <1>2, <1>3, <1>4 DEF IInv, TypeOK

\* An error is reported to everybody.
LEMMA BreaksStep ==
  ASSUME IInv, Breaks
  PROVE  IInv'
<1>0. DataType /\ StackType /\ OutputParts /\ InputParts
  BY DEF IInv, TypeOK
<1>1. StackType' /\ Now' = "connect" /\ Left' = {"connect", "read", "flush", "shutdown"}
      /\ Now = "none" /\ Left = {}
  <2>1. Now = "none" /\ Left = {} /\ UserRuns
    BY <1>0, IdleFacts DEF Breaks
  <2> DEFINE ts == <<"connect", "read", "flush", "shutdown">>
  <2>2. /\ ts \in Running /\ ts # <<>> /\ Head(ts) = "connect"
        /\ Elements(ts) = {"connect", "read", "flush", "shutdown"}
    BY DEF Running, Elements
  <2>3. Call(ts)
    BY DEF Breaks
  <2> HIDE DEF ts
  <2>4. StackType' /\ Now' = Head(ts) /\ Left' = Left \cup Elements(ts)
    BY <1>0, <2>1, <2>2, <2>3, CallFacts
  <2> QED
    BY <2>1, <2>2, <2>4
<1>a. slot' = slot /\ kind' = kind /\ (NoOrphan => NoOrphan')
  BY DEF Breaks, NoOrphan, fields
<1>2. DataType'
  BY <1>0, <1>1, <1>a DEF Breaks, DataType, Flags
<1>3. OutputParts'
  BY <1>0, <1>1, <1>a, ClosedFlags DEF Breaks, OutputParts, FlushesEmpty, ClosesEmpty,
     SlotsKept, ClosingTold, May, Flags
<1>4. InputParts'
  BY <1>0, <1>1, <1>a, ClosedFlags DEF Breaks, InputParts, ReadsEnd, DataThere, ReadFields,
     ReadWaits, LineSearched, BytesAwaited, Telling, HonestReads, May, Flags
<1> QED
  BY <1>1, <1>2, <1>3, <1>4 DEF IInv, TypeOK

\* A connect ends.
LEMMA ConnectedStep ==
  ASSUME IInv, Connected
  PROVE  IInv'
<1>0. DataType /\ StackType /\ OutputParts /\ InputParts
  BY DEF IInv, TypeOK
<1>1. StackType' /\ Now' = "connect" /\ Left' = {"connect"}
      /\ Now = "none" /\ Left = {}
  <2>1. Now = "none" /\ Left = {} /\ UserRuns
    BY <1>0, IdleFacts DEF Connected
  <2> DEFINE ts == <<"connect">>
  <2>2. /\ ts \in Running /\ ts # <<>> /\ Head(ts) = "connect"
        /\ Elements(ts) = {"connect"}
    BY DEF Running, Elements
  <2>3. Call(ts)
    BY DEF Connected
  <2> HIDE DEF ts
  <2>4. StackType' /\ Now' = Head(ts) /\ Left' = Left \cup Elements(ts)
    BY <1>0, <2>1, <2>2, <2>3, CallFacts
  <2> QED
    BY <2>1, <2>2, <2>4
<1>a. slot' = slot /\ kind' = kind /\ (NoOrphan => NoOrphan')
  BY DEF Connected, NoOrphan, fields
<1>2. DataType'
  BY <1>0, <1>1, <1>a DEF Connected, DataType, Flags
<1>3. OutputParts'
  BY <1>0, <1>1, <1>a, ClosedFlags DEF Connected, OutputParts, FlushesEmpty, ClosesEmpty,
     SlotsKept, ClosingTold, May, Flags
<1>4. InputParts'
  BY <1>0, <1>1, <1>a, ClosedFlags DEF Connected, InputParts, ReadsEnd, DataThere,
     ReadFields, ReadWaits, LineSearched, BytesAwaited, Telling, HonestReads, May, Flags
<1> QED
  BY <1>1, <1>2, <1>3, <1>4 DEF IInv, TypeOK

\* A host name is resolved.
LEMMA ResolvedStep ==
  ASSUME IInv, Resolved
  PROVE  IInv'
<1>0. DataType /\ StackType /\ OutputParts /\ InputParts
  BY DEF IInv, TypeOK
<1>1. StackType' /\ Now' = "none" /\ Now = "none" /\ Left' = Left /\ UserRuns
  BY <1>0, KeptFacts, IdleFacts DEF Resolved
<1>a. slot' = slot /\ kind' = kind /\ (NoOrphan => NoOrphan')
  BY DEF Resolved, NoOrphan, fields
<1>2. DataType'
  BY <1>0, <1>1, <1>a DEF Resolved, DataType, fields
<1>3. OutputParts'
  BY <1>0, <1>1, <1>a, ClosedFlags DEF Resolved, OutputParts, FlushesEmpty, ClosesEmpty,
     SlotsKept, ClosingTold, May, fields
<1>4. InputParts'
  BY <1>0, <1>1, <1>a, ClosedFlags DEF Resolved, InputParts, ReadsEnd, DataThere,
     ReadFields, ReadWaits, LineSearched, BytesAwaited, Telling, HonestReads, May, fields
<1> QED
  BY <1>1, <1>2, <1>3, <1>4 DEF IInv, TypeOK

\* The callback of one that is not a pair is called at once.
LEMMA CallBackFacts ==
  ASSUME StackType, DataType, EventLoop \/ origin = "pair", UserRuns, NEW c \in Callbacks, CallBack(c)
  PROVE  /\ StackType' /\ due' \subseteq Callbacks
         /\ origin = "pair" => due' = due \cup {c} /\ Now' = Now /\ Left' = Left
         /\ origin # "pair" => /\ due' = due
                               /\ Now' = IF c = "input" THEN "input" ELSE "flush"
                               /\ Left' = IF c = "input" THEN {"input"} ELSE {"flush", "flushed"}
<1>1. CASE origin = "pair"
  <2>1. due' = due \cup {c} /\ stack' = stack
    BY <1>1 DEF CallBack
  <2> QED
    BY <1>1, <2>1, KeptFacts DEF DataType
<1>2. CASE origin # "pair"
  <2> DEFINE ts == CallbackTasks(c)
  <2>1. Call(ts) /\ due' = due /\ Left = {}
    BY <1>2, IdleFacts DEF CallBack
  <2>2. /\ ts \in Running /\ ts # <<>>
        /\ Head(ts) = IF c = "input" THEN "input" ELSE "flush"
        /\ Elements(ts) = IF c = "input" THEN {"input"} ELSE {"flush", "flushed"}
    BY DEF Running, Elements, CallbackTasks, Callbacks
  <2> HIDE DEF ts
  <2>3. StackType' /\ Now' = Head(ts) /\ Left' = Left \cup Elements(ts)
    BY <2>1, <2>2, CallFacts
  <2> QED
    BY <1>2, <2>1, <2>2, <2>3 DEF DataType
<1> QED
  BY <1>1, <1>2

\* Bytes arrive, and the input callback is called, or the watermark is not reached.
LEMMA ArriveStep ==
  ASSUME IInv, NEW data \in Seq(Bytes), data # <<>>, Arrive(data)
  PROVE  IInv'
<1>0. DataType /\ StackType /\ OutputParts /\ InputParts
  BY DEF IInv, TypeOK
<1>a. Now = "none" /\ UserRuns /\ (origin # "pair" => EventLoop /\ Left = {})
  BY <1>0, IdleFacts, MethodFacts DEF Arrive, Moving
<1>b. /\ in' \in Seq(Bytes) /\ in' # <<>> /\ Len(in') \in Nat /\ Len(in') >= Len(in)
      /\ Len(in) \in Nat /\ \A p \in 1 .. Len(in) : in'[p] = in[p]
  BY <1>0, ArriveFacts, BufferFacts DEF Arrive
<1>c. UNCHANGED <<origin, fields, out, low, high, rd, wr, fd, dialing>>
  BY DEF Arrive
<1>1. /\ StackType' /\ due' \subseteq Callbacks /\ (origin # "pair" => due' = due)
      /\ Len(in') >= low => Telling'
      /\ ~(Len(in') >= low) => Now' = Now /\ Left' = Left /\ due' = due
      /\ origin = "pair" \/ ~(Len(in') >= low) => Now' = Now /\ Left' = Left
      /\ origin # "pair" /\ Len(in') >= low => Now' = "input" /\ Left' = {"input"}
  <2>1. CASE Len(in') >= low
    <3>1. CallBack("input") /\ "input" \in Callbacks
      BY <2>1 DEF Arrive, Callbacks
    <3> QED
      BY <1>0, <1>a, <2>1, <3>1, CallBackFacts DEF Telling
  <2>2. CASE ~(Len(in') >= low)
    <3>1. stack' = stack /\ due' = due
      BY <2>2 DEF Arrive
    <3> QED
      BY <1>0, <1>a, <2>2, <3>1, KeptFacts DEF DataType
  <2> QED
    BY <2>1, <2>2
<1>2. DataType'
  BY <1>0, <1>1, <1>b, <1>c DEF DataType, fields
<1>3. OutputParts'
  BY <1>0, <1>a, <1>1, <1>c, ClosedFlags DEF fields, OutputParts, FlushesEmpty, ClosesEmpty,
     SlotsKept, ClosingTold, May, NoOrphan
<1>4. InputParts'
  <2>1. (~May("late") => ReadsEnd') /\ DataThere' /\ ReadFields'
    BY <1>0, <1>a, <1>b, <1>1, <1>c, ClosedFlags DEF fields, InputParts, ReadsEnd,
       DataThere, ReadFields, May
  <2>2. ASSUME HonestReads
        PROVE  ReadWaits'
    <3>1. ReadWaits /\ slot' = slot /\ low' = low /\ token' = token /\ length' = length /\ state' = state
      BY <1>0, <1>c, <2>2 DEF fields, InputParts
    <3>2. low \in Nat /\ length \in Nat /\ (token # None => token.offset \in Nat)
      BY <1>0 DEF DataType
    <3>3. CASE slot["read"] = None
      BY <3>1, <3>3, ClosedFlags DEF ReadWaits
    <3>4. CASE slot["read"] # None /\ token # None
      <4>1. LineSearched
        BY <3>1, <3>4 DEF ReadWaits
      <4>2. LineSearched'
        BY <1>b, <1>1, <3>1, <3>2, <3>4, <4>1 DEF LineSearched, Telling
      <4> QED
        BY <3>1, <3>4, <4>2 DEF ReadWaits
    <3>5. CASE slot["read"] # None /\ token = None
      <4>1. BytesAwaited'
        BY <1>b, <1>1, <3>1, <3>2, <3>5 DEF ReadWaits, BytesAwaited, Telling
      <4> QED
        BY <3>1, <3>5, <4>1 DEF ReadWaits
    <3> QED
      BY <3>3, <3>4, <3>5
  <2> QED
    BY <2>1, <2>2 DEF InputParts, HonestReads, May
<1> QED
  BY <1>1, <1>2, <1>3, <1>4 DEF IInv, TypeOK

\* The output leaves: the last of it calls the output callback.
LEMMA DrainStep ==
  ASSUME IInv, NEW n \in Nat, Drain(n)
  PROVE  IInv'
<1>0. DataType /\ StackType /\ OutputParts /\ InputParts
  BY DEF IInv, TypeOK
<1>a. Now = "none" /\ UserRuns /\ (origin # "pair" => EventLoop /\ Left = {})
  BY <1>0, IdleFacts, MethodFacts DEF Drain, Moving
<1>b. out' \in Nat /\ (out = 0 => out' = 0)
  BY <1>0 DEF Drain, DataType
<1>c. UNCHANGED <<origin, fields, in, low, high, rd, wr, fd, dialing>>
  BY DEF Drain
<1>1. /\ StackType' /\ due' \subseteq Callbacks /\ (origin # "pair" => due' = due)
      /\ "input" \in due <=> "input" \in due'
      /\ \/ Now' = Now /\ Left' = Left
         \/ origin # "pair" /\ out' = 0 /\ Now' = "flush" /\ Left' = {"flush", "flushed"}
  <2>1. CASE out' = 0
    <3>1. CallBack("output") /\ "output" \in Callbacks
      BY <2>1 DEF Drain, Callbacks
    <3> QED
      BY <1>0, <1>a, <2>1, <3>1, CallBackFacts
  <2>2. CASE out' # 0
    <3>1. stack' = stack /\ due' = due
      BY <2>2 DEF Drain
    <3> QED
      BY <1>0, <1>a, <2>2, <3>1, KeptFacts DEF DataType
  <2> QED
    BY <2>1, <2>2
<1>2. DataType'
  BY <1>0, <1>1, <1>b, <1>c DEF DataType, fields
<1>3. OutputParts'
  BY <1>0, <1>a, <1>b, <1>1, <1>c, ClosedFlags DEF fields, OutputParts, FlushesEmpty,
     ClosesEmpty, SlotsKept, ClosingTold, May, NoOrphan
<1>4. InputParts'
  BY <1>0, <1>a, <1>1, <1>c, ClosedFlags DEF fields, InputParts, ReadsEnd, DataThere,
     ReadFields, ReadWaits, LineSearched, BytesAwaited, Telling, HonestReads, May
<1> QED
  BY <1>1, <1>2, <1>3, <1>4 DEF IInv, TypeOK

\* A callback that was put off: it may find less input, or new output.
LEMMA PutOffStep ==
  ASSUME IInv, NEW c \in Callbacks, PutOff(c)
  PROVE  IInv'
<1>0. DataType /\ StackType /\ OutputParts /\ InputParts
  BY DEF IInv, TypeOK
<1>a. Now = "none" /\ Left = {} /\ UserRuns
  BY <1>0, IdleFacts DEF PutOff
<1>b. origin = "pair" /\ due' = due \ {c} /\ Call(CallbackTasks(c))
  BY <1>0 DEF PutOff, DataType
<1>c. UNCHANGED <<origin, fields, in, out, low, high, rd, wr, fd, dialing>>
  BY DEF PutOff
<1>1. /\ StackType' /\ Now' = IF c = "input" THEN "input" ELSE "flush"
      /\ Left' = IF c = "input" THEN {"input"} ELSE {"flush", "flushed"}
  <2> DEFINE ts == CallbackTasks(c)
  <2>1. /\ ts \in Running /\ ts # <<>>
        /\ Head(ts) = IF c = "input" THEN "input" ELSE "flush"
        /\ Elements(ts) = IF c = "input" THEN {"input"} ELSE {"flush", "flushed"}
    BY DEF Running, Elements, CallbackTasks, Callbacks
  <2>2. Call(ts)
    BY <1>b
  <2> HIDE DEF ts
  <2>3. StackType' /\ Now' = Head(ts) /\ Left' = Left \cup Elements(ts)
    BY <1>0, <1>a, <2>1, <2>2, CallFacts
  <2> QED
    BY <1>a, <2>1, <2>3
<1>2. DataType'
  BY <1>0, <1>b, <1>c DEF DataType, fields
<1>3. OutputParts'
  BY <1>0, <1>a, <1>b, <1>1, <1>c, ClosedFlags DEF fields, OutputParts, FlushesEmpty,
     ClosesEmpty, SlotsKept, ClosingTold, May, NoOrphan, Callbacks
<1>4. InputParts'
  <2>1. Telling => Telling'
    BY <1>a, <1>b, <1>1 DEF Telling
  <2>2. (~May("late") => ReadsEnd') /\ DataThere' /\ ReadFields'
    BY <1>0, <1>a, <1>b, <1>1, <1>c, ClosedFlags DEF fields, InputParts, ReadsEnd,
       DataThere, ReadFields, May
  <2>3. HonestReads => ReadWaits'
    BY <1>0, <1>c, <2>1, ClosedFlags DEF fields, InputParts, ReadWaits, LineSearched, BytesAwaited
  <2> QED
    BY <2>2, <2>3 DEF InputParts, HonestReads, May
<1> QED
  BY <1>1, <1>2, <1>3, <1>4 DEF IInv, TypeOK


\* enable()
LEMMA EnableStep ==
  ASSUME IInv, Enable
  PROVE  IInv'
<1>0. DataType /\ StackType /\ OutputParts /\ InputParts
  BY DEF IInv, TypeOK
<1>1. StackType' /\ Now' = "none" /\ Now = "none" /\ Left' = Left
  BY <1>0, KeptFacts, MethodFacts DEF Enable, Method
<1>a. slot' = slot /\ kind' = kind /\ (NoOrphan => NoOrphan')
  BY DEF Enable, NoOrphan, fields
<1>2. DataType'
  BY <1>0, <1>1, <1>a DEF Enable, DataType, Method, Flags, bev, fields
<1>3. OutputParts'
  BY <1>0, <1>1, <1>a, ClosedFlags DEF Enable, OutputParts, FlushesEmpty, ClosesEmpty,
     SlotsKept, ClosingTold, May, Method, Flags, bev, fields
<1>4. InputParts'
  BY <1>0, <1>1, <1>a, ClosedFlags DEF Enable, InputParts, ReadsEnd, DataThere, ReadFields,
     ReadWaits, LineSearched, BytesAwaited, Telling, HonestReads, May, Method, Flags, bev, fields
<1> QED
  BY <1>1, <1>2, <1>3, <1>4 DEF IInv, TypeOK

\* disable()
LEMMA DisableStep ==
  ASSUME IInv, Disable
  PROVE  IInv'
<1>0. DataType /\ StackType /\ OutputParts /\ InputParts
  BY DEF IInv, TypeOK
<1>1. StackType' /\ Now' = "none" /\ Now = "none" /\ Left' = Left
  BY <1>0, KeptFacts, MethodFacts DEF Disable, Method
<1>a. slot' = slot /\ kind' = kind /\ (NoOrphan => NoOrphan')
  BY DEF Disable, NoOrphan, fields
<1>2. DataType'
  BY <1>0, <1>1, <1>a DEF Disable, DataType, Method, Flags, bev, fields
<1>3. OutputParts'
  BY <1>0, <1>1, <1>a, ClosedFlags DEF Disable, OutputParts, FlushesEmpty, ClosesEmpty,
     SlotsKept, ClosingTold, May, Method, Flags, bev, fields
<1>4. InputParts'
  BY <1>0, <1>1, <1>a, ClosedFlags DEF Disable, InputParts, ReadsEnd, DataThere, ReadFields,
     ReadWaits, LineSearched, BytesAwaited, Telling, HonestReads, May, Method, Flags, bev, fields
<1> QED
  BY <1>1, <1>2, <1>3, <1>4 DEF IInv, TypeOK

\* suspend()
LEMMA SuspendStep ==
  ASSUME IInv, Suspend
  PROVE  IInv'
<1>0. DataType /\ StackType /\ OutputParts /\ InputParts
  BY DEF IInv, TypeOK
<1>1. StackType' /\ Now' = "none" /\ Now = "none" /\ Left' = Left
  BY <1>0, KeptFacts, MethodFacts DEF Suspend, Method
<1>a. slot' = slot /\ kind' = kind /\ (NoOrphan => NoOrphan')
  BY DEF Suspend, NoOrphan, fields
<1>2. DataType'
  BY <1>0, <1>1, <1>a DEF Suspend, DataType, Method, Flags, bev, fields
<1>3. OutputParts'
  BY <1>0, <1>1, <1>a, ClosedFlags DEF Suspend, OutputParts, FlushesEmpty, ClosesEmpty,
     SlotsKept, ClosingTold, May, Method, Flags, bev, fields
<1>4. InputParts'
  BY <1>0, <1>1, <1>a, ClosedFlags DEF Suspend, InputParts, ReadsEnd, DataThere, ReadFields,
     ReadWaits, LineSearched, BytesAwaited, Telling, HonestReads, May, Method, Flags, bev, fields
<1> QED
  BY <1>1, <1>2, <1>3, <1>4 DEF IInv, TypeOK

\* resume()
LEMMA ResumeStep ==
  ASSUME IInv, Resume
  PROVE  IInv'
<1>0. DataType /\ StackType /\ OutputParts /\ InputParts
  BY DEF IInv, TypeOK
<1>1. StackType' /\ Now' = "none" /\ Now = "none" /\ Left' = Left
  BY <1>0, KeptFacts, MethodFacts DEF Resume, Method
<1>a. slot' = slot /\ kind' = kind /\ (NoOrphan => NoOrphan')
  BY DEF Resume, NoOrphan, fields
<1>2. DataType'
  BY <1>0, <1>1, <1>a DEF Resume, DataType, Method, Flags, bev, fields
<1>3. OutputParts'
  BY <1>0, <1>1, <1>a, ClosedFlags DEF Resume, OutputParts, FlushesEmpty, ClosesEmpty,
     SlotsKept, ClosingTold, May, Method, Flags, bev, fields
<1>4. InputParts'
  BY <1>0, <1>1, <1>a, ClosedFlags DEF Resume, InputParts, ReadsEnd, DataThere, ReadFields,
     ReadWaits, LineSearched, BytesAwaited, Telling, HonestReads, May, Method, Flags, bev, fields
<1> QED
  BY <1>1, <1>2, <1>3, <1>4 DEF IInv, TypeOK

\* incoming() makes the sequence.
LEMMA MakeIncomingStep ==
  ASSUME IInv, MakeIncoming
  PROVE  IInv'
<1>0. DataType /\ StackType /\ OutputParts /\ InputParts
  BY DEF IInv, TypeOK
<1>1. StackType' /\ Now' = "none" /\ Now = "none" /\ Left' = Left
  BY <1>0, KeptFacts, MethodFacts DEF MakeIncoming, Method
<1>a. slot' = slot /\ kind' = kind /\ (NoOrphan => NoOrphan')
  BY DEF MakeIncoming, NoOrphan, fields
<1>2. DataType'
  BY <1>0, <1>1, <1>a DEF MakeIncoming, DataType, Method, Flags, bev, fields
<1>3. OutputParts'
  BY <1>0, <1>1, <1>a, ClosedFlags DEF MakeIncoming, OutputParts, FlushesEmpty, ClosesEmpty,
     SlotsKept, ClosingTold, May, Method, Flags, bev, fields
<1>4. InputParts'
  BY <1>0, <1>1, <1>a, ClosedFlags DEF MakeIncoming, InputParts, ReadsEnd, DataThere,
     ReadFields, ReadWaits, LineSearched, BytesAwaited, Telling, HonestReads, May, Method, Flags,
     bev, fields
<1> QED
  BY <1>1, <1>2, <1>3, <1>4 DEF IInv, TypeOK

\* setInputMaxSize(): the watermarks of the last read() again.
LEMMA SetInputMaxSizeStep ==
  ASSUME IInv, NEW n \in Nat, SetInputMaxSize(n)
  PROVE  IInv'
<1>0. DataType /\ StackType /\ OutputParts /\ InputParts
  BY DEF IInv, TypeOK
<1>1. StackType' /\ Now' = "none" /\ Now = "none" /\ Left' = Left
  BY <1>0, KeptFacts, MethodFacts DEF SetInputMaxSize, Method
<1>a. slot' = slot /\ kind' = kind /\ (NoOrphan => NoOrphan')
  BY DEF SetInputMaxSize, NoOrphan, fields
<1>2. DataType'
  BY <1>0, <1>1, <1>a DEF SetInputMaxSize, DataType, Method, Flags, bev, fields
<1>3. OutputParts'
  BY <1>0, <1>1, <1>a, ClosedFlags DEF SetInputMaxSize, OutputParts, FlushesEmpty,
     ClosesEmpty, SlotsKept, ClosingTold, May, Method, Flags, bev, fields
<1>4. InputParts'
  BY <1>0, <1>1, <1>a, ClosedFlags DEF SetInputMaxSize, InputParts, ReadsEnd, DataThere,
     ReadFields, ReadWaits, LineSearched, BytesAwaited, Telling, HonestReads, May, Method, Flags,
     bev, fields
<1> QED
  BY <1>1, <1>2, <1>3, <1>4 DEF IInv, TypeOK

\* write(): never between the handlers of a flush and the flag.
LEMMA WriteStep ==
  ASSUME IInv, Write
  PROVE  IInv'
<1>0. DataType /\ StackType /\ OutputParts /\ InputParts
  BY DEF IInv, TypeOK
<1>1. StackType' /\ Now' = "none" /\ Now = "none" /\ Left' = Left
  BY <1>0, KeptFacts, MethodFacts DEF Write, Method
<1>a. slot' = slot /\ kind' = kind /\ (NoOrphan => NoOrphan')
  BY DEF Write, NoOrphan, fields
<1>b. Flushing <=> "flushed" \in Left
  BY <1>0, FlushingLeft
<1>2. DataType'
  BY <1>0, <1>1, <1>a, <1>b DEF Write, DataType, Method, Flags, bev, fields
<1>3. OutputParts'
  BY <1>0, <1>1, <1>a, <1>b, ClosedFlags DEF Write, OutputParts, FlushesEmpty, ClosesEmpty,
     SlotsKept, ClosingTold, May, Method, Flags, bev, fields
<1>4. InputParts'
  BY <1>0, <1>1, <1>a, <1>b, ClosedFlags DEF Write, InputParts, ReadsEnd, DataThere,
     ReadFields, ReadWaits, LineSearched, BytesAwaited, Telling, HonestReads, May, Method, Flags,
     bev, fields
<1> QED
  BY <1>1, <1>2, <1>3, <1>4 DEF IInv, TypeOK

\* appendToInput()
LEMMA AppendToInputStep ==
  ASSUME IInv, NEW b \in Bytes, AppendToInput(b)
  PROVE  IInv'
<1>0. DataType /\ StackType /\ OutputParts /\ InputParts
  BY DEF IInv, TypeOK
<1>1. StackType' /\ Now' = "none" /\ Now = "none" /\ Left' = Left
  BY <1>0, KeptFacts, MethodFacts DEF AppendToInput, Method
<1>a. slot' = slot /\ kind' = kind /\ (NoOrphan => NoOrphan')
  BY DEF AppendToInput, NoOrphan, fields
<1>2. DataType'
  BY <1>0, <1>1, <1>a DEF AppendToInput, DataType, Method, Flags, bev, fields
<1>3. OutputParts'
  BY <1>0, <1>1, <1>a, ClosedFlags DEF AppendToInput, OutputParts, FlushesEmpty,
     ClosesEmpty, SlotsKept, ClosingTold, May, Method, Flags, bev, fields
<1>4. InputParts'
  BY <1>0, <1>1, <1>a, ClosedFlags DEF AppendToInput, InputParts, ReadsEnd, DataThere,
     ReadFields, ReadWaits, LineSearched, BytesAwaited, Telling, HonestReads, May, Method, Flags,
     bev, fields
<1> QED
  BY <1>1, <1>2, <1>3, <1>4 DEF IInv, TypeOK

\* get(): what a pending read() needs is further away.
LEMMA TakeStep ==
  ASSUME IInv, NEW n \in Nat, Take(n)
  PROVE  IInv'
<1>0. DataType /\ StackType /\ OutputParts /\ InputParts
  BY DEF IInv, TypeOK
<1>1. StackType' /\ Now' = "none" /\ Now = "none" /\ Left' = Left
  BY <1>0, KeptFacts, MethodFacts DEF Take, Method
<1>a. slot' = slot /\ kind' = kind /\ (NoOrphan => NoOrphan')
  BY DEF Take, NoOrphan, fields
<1>b. in' \in Seq(Bytes) /\ Len(in') <= Len(in) /\ Len(in') \in Nat /\ Len(in) \in Nat
  <2>1. Len(in) \in Nat /\ n \in 0 .. Len(in)
    BY <1>0, BufferFacts DEF Take
  <2>2. in' \in Seq(Bytes) /\ Len(in') = Len(in) - n
    BY <1>0, <2>1, DropFacts DEF Take
  <2> QED
    BY <2>1, <2>2
<1>2. DataType'
  BY <1>0, <1>1, <1>a, <1>b DEF Take, DataType, Method, Flags, bev, fields
<1>3. OutputParts'
  BY <1>0, <1>1, <1>a, <1>b, ClosedFlags DEF Take, OutputParts, FlushesEmpty, ClosesEmpty,
     SlotsKept, ClosingTold, May, Method, Flags, bev, fields
<1>4. InputParts'
  <2>1. UNCHANGED <<origin, state, slot, token, length, low, due>>
    BY DEF Take, Method, fields
  <2>2. (~May("late") => ReadsEnd') /\ DataThere' /\ ReadFields'
    BY <1>0, <1>1, <2>1, ClosedFlags DEF InputParts, ReadsEnd, DataThere, ReadFields, May
  <2>3. ASSUME HonestReads
        PROVE  ReadWaits'
    <3>1. token = None /\ ReadWaits
      BY <1>0, <2>3 DEF Take, InputParts, HonestReads, May
    <3>2. slot["read"] # None => BytesAwaited'
      <4>1. length \in Nat
        BY <1>0 DEF DataType
      <4>2. \A a, b, c \in Nat : a <= b /\ b < c => a < c
        OBVIOUS
      <4> QED
        BY <1>1, <1>b, <2>1, <3>1, <4>1, <4>2 DEF ReadWaits, BytesAwaited, Telling
    <3> QED
      BY <2>1, <3>1, <3>2, ClosedFlags DEF ReadWaits
  <2> QED
    BY <2>2, <2>3 DEF InputParts, HonestReads, May
<1> QED
  BY <1>1, <1>2, <1>3, <1>4 DEF IInv, TypeOK

\* connect()
LEMMA ConnectStep ==
  ASSUME IInv, Connect
  PROVE  IInv'
<1>0. DataType /\ StackType /\ OutputParts /\ InputParts
  BY DEF IInv, TypeOK
<1>1. StackType' /\ Now' = "none" /\ Now = "none" /\ Left' = Left
  BY <1>0, KeptFacts, MethodFacts DEF Connect, Method
<1>a. /\ slot' \in [Slots -> Deferreds \cup {None}]
      /\ kind' \in [Deferreds -> Slots \cup {None}]
      /\ \A x \in Slots : x # "connect" => slot'[x] = slot[x]
      /\ slot'["connect"] # None /\ (slot["connect"] = None /\ NoOrphan => NoOrphan')
  <2>1. "connect" \in Slots
    BY DEF Slots
  <2> QED
    BY <1>0, <2>1, NewFacts DEF Connect
<1>2. DataType'
  BY <1>0, <1>1, <1>a DEF Connect, DataType, Method, Flags, bev, fields, Slots
<1>3. OutputParts'
  BY <1>0, <1>1, <1>a, ClosedFlags DEF Connect, OutputParts, FlushesEmpty, ClosesEmpty,
     SlotsKept, ClosingTold, May, Method, Flags, bev, fields, Slots
<1>4. InputParts'
  BY <1>0, <1>1, <1>a, ClosedFlags DEF Connect, InputParts, ReadsEnd, DataThere, ReadFields,
     ReadWaits, LineSearched, BytesAwaited, Telling, HonestReads, May, Method, Flags, bev, fields,
     Slots
<1> QED
  BY <1>1, <1>2, <1>3, <1>4 DEF IInv, TypeOK

\* flush(): never between the handlers of a flush and stream->flush = NULL.
LEMMA FlushStep ==
  ASSUME IInv, Flush
  PROVE  IInv'
<1>0. DataType /\ StackType /\ OutputParts /\ InputParts
  BY DEF IInv, TypeOK
<1>1. StackType' /\ Now' = "none" /\ Now = "none" /\ Left' = Left
  BY <1>0, KeptFacts, MethodFacts DEF Flush, Method
<1>a. /\ slot' \in [Slots -> Deferreds \cup {None}]
      /\ kind' \in [Deferreds -> Slots \cup {None}]
      /\ \A x \in Slots : x # "flush" => slot'[x] = slot[x]
      /\ slot'["flush"] # None /\ (slot["flush"] = None /\ NoOrphan => NoOrphan')
  <2>1. "flush" \in Slots
    BY DEF Slots
  <2> QED
    BY <1>0, <2>1, NewFacts DEF Flush
<1>b. Flushing <=> "flushed" \in Left
  BY <1>0, FlushingLeft
<1>2. DataType'
  BY <1>0, <1>1, <1>a, <1>b DEF Flush, DataType, Method, Flags, bev, fields, Slots
<1>3. OutputParts'
  BY <1>0, <1>1, <1>a, <1>b, ClosedFlags DEF Flush, OutputParts, FlushesEmpty, ClosesEmpty,
     SlotsKept, ClosingTold, May, Method, Flags, bev, fields, Slots
<1>4. InputParts'
  BY <1>0, <1>1, <1>a, <1>b, ClosedFlags DEF Flush, InputParts, ReadsEnd, DataThere,
     ReadFields, ReadWaits, LineSearched, BytesAwaited, Telling, HonestReads, May, Method, Flags,
     bev, fields, Slots
<1> QED
  BY <1>1, <1>2, <1>3, <1>4 DEF IInv, TypeOK

\* closed()
LEMMA AwaitClosedStep ==
  ASSUME IInv, AwaitClosed
  PROVE  IInv'
<1>0. DataType /\ StackType /\ OutputParts /\ InputParts
  BY DEF IInv, TypeOK
<1>1. StackType' /\ Now' = "none" /\ Now = "none" /\ Left' = Left
  BY <1>0, KeptFacts, MethodFacts DEF AwaitClosed, Method
<1>a. /\ slot' \in [Slots -> Deferreds \cup {None}]
      /\ kind' \in [Deferreds -> Slots \cup {None}]
      /\ \A x \in Slots : x # "shutdown" => slot'[x] = slot[x]
      /\ slot'["shutdown"] # None /\ (slot["shutdown"] = None /\ NoOrphan => NoOrphan')
  <2>1. "shutdown" \in Slots
    BY DEF Slots
  <2> QED
    BY <1>0, <2>1, NewFacts DEF AwaitClosed
<1>2. DataType'
  BY <1>0, <1>1, <1>a DEF AwaitClosed, DataType, Method, Flags, bev, fields, Slots
<1>3. OutputParts'
  BY <1>0, <1>1, <1>a, ClosedFlags DEF AwaitClosed, OutputParts, FlushesEmpty, ClosesEmpty,
     SlotsKept, ClosingTold, May, Method, Flags, bev, fields, Slots
<1>4. InputParts'
  BY <1>0, <1>1, <1>a, ClosedFlags DEF AwaitClosed, InputParts, ReadsEnd, DataThere,
     ReadFields, ReadWaits, LineSearched, BytesAwaited, Telling, HonestReads, May, Method, Flags,
     bev, fields, Slots
<1> QED
  BY <1>1, <1>2, <1>3, <1>4 DEF IInv, TypeOK


\* read(): the bytes are there, or a deferred and the low watermark wait for them.
LEMMA ReadStep ==
  ASSUME IInv, NEW n \in Nat \ {0}, Read(n)
  PROVE  IInv'
<1>0. DataType /\ StackType /\ OutputParts /\ InputParts
  BY DEF IInv, TypeOK
<1>1. StackType' /\ Now' = "none" /\ Now = "none" /\ Left' = Left
  BY <1>0, KeptFacts, MethodFacts DEF Read, Method
<1>a. UNCHANGED <<origin, state, token, inputSize, incoming, out, rd, wr, fd, dialing, due>>
  BY DEF Read, Method
<1>b. token = None /\ slot["read"] = None /\ (~May("late") => ~Closed)
  BY <1>0 DEF Read, InputParts, ReadFields
<1>c. CASE Len(in) >= n
  <2>1. in' = Dropped(n) /\ UNCHANGED <<slot, kind, length, low, high>>
    BY <1>c DEF Read
  <2>2. in' \in Seq(Bytes)
    <3>1. n \in 0 .. Len(in)
      BY <1>0, <1>c, BufferFacts
    <3> QED
      BY <1>0, <2>1, <3>1, DropFacts
  <2>3. DataType'
    BY <1>0, <1>a, <2>1, <2>2 DEF DataType
  <2>4. OutputParts'
    BY <1>0, <1>1, <1>a, <2>1, ClosedFlags DEF OutputParts, FlushesEmpty, ClosesEmpty,
       SlotsKept, ClosingTold, May, NoOrphan
  <2>5. InputParts'
    BY <1>0, <1>1, <1>a, <1>b, <2>1, ClosedFlags DEF InputParts, ReadsEnd, DataThere,
       ReadFields, ReadWaits, HonestReads, May
  <2> QED
    BY <1>1, <2>3, <2>4, <2>5 DEF IInv, TypeOK
<1>d. CASE ~(Len(in) >= n)
  <2>1. /\ NewDeferred("read") /\ length' = n /\ low' = n
        /\ high' = (IF inputSize >= n THEN inputSize ELSE n) /\ in' = in
    BY <1>d DEF Read
  <2>2. /\ slot' \in [Slots -> Deferreds \cup {None}]
        /\ kind' \in [Deferreds -> Slots \cup {None}]
        /\ \A x \in Slots : x # "read" => slot'[x] = slot[x]
        /\ slot'["read"] # None /\ (NoOrphan => NoOrphan')
    <3>1. "read" \in Slots
      BY DEF Slots
    <3> QED
      BY <1>0, <1>b, <2>1, <3>1, NewFacts
  <2>3. DataType'
    BY <1>0, <1>a, <2>1, <2>2 DEF DataType
  <2>4. OutputParts'
    BY <1>0, <1>1, <1>a, <2>2, <2>1, ClosedFlags DEF OutputParts, FlushesEmpty, ClosesEmpty,
       SlotsKept, ClosingTold, May, Slots
  <2>5. Len(in') < length'
    BY <1>0, <1>d, <2>1, BufferFacts
  <2>6. InputParts'
    BY <1>0, <1>1, <1>a, <1>b, <2>1, <2>2, <2>5, ClosedFlags DEF InputParts, ReadsEnd,
       DataThere,
       ReadFields, ReadWaits, BytesAwaited, HonestReads, May
  <2> QED
    BY <1>1, <2>3, <2>4, <2>6 DEF IInv, TypeOK
<1> QED
  BY <1>c, <1>d

\* readLine(): the line is there, or all the input has been searched.
LEMMA ReadLineStep ==
  ASSUME IInv, NEW l \in Nat, ReadLine(l)
  PROVE  IInv'
<1>0. DataType /\ StackType /\ OutputParts /\ InputParts
  BY DEF IInv, TypeOK
<1>1. StackType' /\ Now' = "none" /\ Now = "none" /\ Left' = Left
  BY <1>0, KeptFacts, MethodFacts DEF ReadLine, Method
<1>a. UNCHANGED <<origin, state, length, inputSize, incoming, out, low, high, rd, wr, fd, dialing, due>>
  BY DEF ReadLine, Method
<1>b. token = None /\ slot["read"] = None /\ (~May("late") => ~Closed)
  BY <1>0 DEF ReadLine, InputParts, ReadFields
<1>c. CASE Found(0, l)
  <2>1. in' = Dropped(Position(0, l)) /\ UNCHANGED <<slot, kind, token>>
    BY <1>c DEF ReadLine
  <2>2. in' \in Seq(Bytes)
    <3>1. Position(0, l) \in 1 .. Len(in) /\ Len(in) \in Nat
      BY <1>0, <1>c, FoundFacts, BufferFacts
    <3>2. Position(0, l) \in 0 .. Len(in)
      BY <3>1
    <3> QED
      BY <1>0, <2>1, <3>2, DropFacts
  <2>3. DataType'
    BY <1>0, <1>a, <2>1, <2>2 DEF DataType
  <2>4. OutputParts'
    BY <1>0, <1>1, <1>a, <2>1, ClosedFlags DEF OutputParts, FlushesEmpty, ClosesEmpty,
       SlotsKept, ClosingTold, May, NoOrphan
  <2>5. InputParts'
    BY <1>0, <1>1, <1>a, <1>b, <2>1, ClosedFlags DEF InputParts, ReadsEnd, DataThere,
       ReadFields, ReadWaits, HonestReads, May
  <2> QED
    BY <1>1, <2>3, <2>4, <2>5 DEF IInv, TypeOK
<1>d. CASE ~Found(0, l)
  <2>1. /\ ~LimitReached(0, l) /\ NewDeferred("read") /\ in' = in
        /\ token' = [limit |-> l, offset |-> Resumed(0)]
    BY <1>d DEF ReadLine
  <2>2. /\ slot' \in [Slots -> Deferreds \cup {None}]
        /\ kind' \in [Deferreds -> Slots \cup {None}]
        /\ \A x \in Slots : x # "read" => slot'[x] = slot[x]
        /\ slot'["read"] # None /\ (NoOrphan => NoOrphan')
    <3>1. "read" \in Slots
      BY DEF Slots
    <3> QED
      BY <1>0, <1>b, <2>1, <3>1, NewFacts
  <2>3. /\ Len(in) \in Nat /\ Resumed(0) = Len(in)
        /\ \A p \in 1 .. Len(in) : in[p] # Token
    <3>1. Len(in) \in Nat /\ 0 <= Len(in) /\ \A p \in 1 .. 0 : in[p] # Token
      BY <1>0, BufferFacts
    <3> QED
      BY <1>0, <1>d, <2>1, <3>1, NotFoundFacts
  <2>4. token' \in [limit : Nat, offset : Nat] /\ token' # None /\ token'.offset = Len(in)
    BY <2>1, <2>3, TokensAssumption
  <2>5. DataType'
    BY <1>0, <1>a, <2>1, <2>2, <2>4 DEF DataType
  <2>6. OutputParts'
    BY <1>0, <1>1, <1>a, <2>2, <2>1, ClosedFlags DEF OutputParts, FlushesEmpty, ClosesEmpty,
       SlotsKept, ClosingTold, May, Slots
  <2>7. InputParts'
    <3>1. (~May("late") => ReadsEnd') /\ DataThere' /\ ReadFields'
      BY <1>0, <1>1, <1>a, <1>b, <2>1, <2>2, ClosedFlags DEF InputParts, ReadsEnd, DataThere,
         ReadFields, May
    <3>2. ASSUME HonestReads
          PROVE  ReadWaits'
      <4>1. low' = 0
        BY <1>0, <1>a, <1>b, <3>2 DEF InputParts, ReadWaits, HonestReads, May
      <4>2. LineSearched'
        BY <2>1, <2>3, <2>4, <4>1 DEF LineSearched, Telling
      <4> QED
        BY <2>2, <2>4, <4>2 DEF ReadWaits
    <3> QED
      BY <3>1, <3>2 DEF InputParts, HonestReads, May
  <2> QED
    BY <1>1, <2>5, <2>6, <2>7 DEF IInv, TypeOK
<1> QED
  BY <1>c, <1>d

\* readAll()
LEMMA ReadAllStep ==
  ASSUME IInv, ReadAll
  PROVE  IInv'
<1>0. DataType /\ StackType /\ OutputParts /\ InputParts
  BY DEF IInv, TypeOK
<1>1. StackType' /\ Now' = "none" /\ Now = "none" /\ Left' = Left
  BY <1>0, KeptFacts, MethodFacts DEF ReadAll, Method
<1>a. UNCHANGED <<origin, state, token, inputSize, incoming, out, low, high, rd, wr, fd, dialing, due>>
  BY DEF ReadAll, Method
<1>b. token = None /\ slot["read"] = None /\ (~May("late") => ~Closed)
  BY <1>0 DEF ReadAll, InputParts, ReadFields
<1>c. CASE state \cap {"EOF", "ERROR"} # {}
  <2>1. in' = <<>> /\ <<>> \in Seq(Bytes) /\ UNCHANGED <<slot, kind, length>>
    BY <1>c DEF ReadAll
  <2>2. DataType'
    BY <1>0, <1>a, <2>1 DEF DataType
  <2>3. OutputParts'
    BY <1>0, <1>1, <1>a, <2>1, ClosedFlags DEF OutputParts, FlushesEmpty, ClosesEmpty,
       SlotsKept, ClosingTold, May, NoOrphan
  <2>4. InputParts'
    BY <1>0, <1>1, <1>a, <1>b, <2>1, ClosedFlags DEF InputParts, ReadsEnd, DataThere,
       ReadFields, ReadWaits, HonestReads, May
  <2> QED
    BY <1>1, <2>2, <2>3, <2>4 DEF IInv, TypeOK
<1>d. CASE ~(state \cap {"EOF", "ERROR"} # {})
  <2>1. NewDeferred("read") /\ length' = 0 /\ in' = in
    BY <1>d DEF ReadAll
  <2>2. /\ slot' \in [Slots -> Deferreds \cup {None}]
        /\ kind' \in [Deferreds -> Slots \cup {None}]
        /\ \A x \in Slots : x # "read" => slot'[x] = slot[x]
        /\ slot'["read"] # None /\ (NoOrphan => NoOrphan')
    <3>1. "read" \in Slots
      BY DEF Slots
    <3> QED
      BY <1>0, <1>b, <2>1, <3>1, NewFacts
  <2>3. DataType'
    BY <1>0, <1>a, <2>1, <2>2 DEF DataType
  <2>4. OutputParts'
    BY <1>0, <1>1, <1>a, <2>2, <2>1, ClosedFlags DEF OutputParts, FlushesEmpty, ClosesEmpty,
       SlotsKept, ClosingTold, May, Slots
  <2>5. InputParts'
    BY <1>0, <1>1, <1>a, <1>b, <2>1, <2>2, ClosedFlags DEF InputParts, ReadsEnd, DataThere,
       ReadFields, ReadWaits, BytesAwaited, HonestReads, May
  <2> QED
    BY <1>1, <2>3, <2>4, <2>5 DEF IInv, TypeOK
<1> QED
  BY <1>c, <1>d

\* shutdown(): what it closes at once has nothing left in the output.
LEMMA ShutdownStep ==
  ASSUME IInv, NEW force \in BOOLEAN, Shutdown(force)
  PROVE  IInv'
<1>0. DataType /\ StackType /\ OutputParts /\ InputParts
  BY DEF IInv, TypeOK
<1>a. UserRuns /\ Now = "none" /\ ~Closed /\ (force => May("force"))
  BY <1>0, MethodFacts DEF Shutdown, MayCall
<1>b. UNCHANGED <<slot, kind, length, token, inputSize, incoming, origin, in, out, low, high, wr, fd, dialing, due>>
  BY DEF Shutdown, fields
<1>c. CASE "FLUSHED" \in state \/ force
  <2>1. Call(<<"close">>) /\ state' = state /\ rd' = rd
    BY <1>c DEF Shutdown, fields
  <2>2. StackType' /\ Now' = "close" /\ Left' = Left \cup {"close"}
    <3> DEFINE ts == <<"close">>
    <3>1. ts \in Running /\ ts # <<>> /\ Head(ts) = "close" /\ Elements(ts) = {"close"}
      BY DEF Running, Elements
    <3> HIDE DEF ts
    <3>2. StackType' /\ Now' = Head(ts) /\ Left' = Left \cup Elements(ts)
      <4>1. Call(ts)
        BY <2>1 DEF ts
      <4> QED
        BY <1>0, <1>a, <3>1, <4>1, CallFacts
    <3> QED
      BY <3>1, <3>2
  <2>3. DataType'
    BY <1>0, <1>b, <2>1 DEF DataType
  <2>4. OutputParts'
    BY <1>0, <1>a, <1>b, <1>c, <2>1, <2>2, ClosedFlags DEF OutputParts, FlushesEmpty,
       ClosesEmpty,
       SlotsKept, ClosingTold, May, NoOrphan
  <2>5. InputParts'
    BY <1>0, <1>a, <1>b, <2>1, <2>2, ClosedFlags DEF InputParts, ReadsEnd, DataThere,
       ReadFields, ReadWaits, LineSearched, BytesAwaited, Telling, HonestReads, May
  <2> QED
    BY <2>2, <2>3, <2>4, <2>5 DEF IInv, TypeOK
<1>d. CASE ~("FLUSHED" \in state \/ force)
  <2>1. rd' = FALSE /\ state' = state \cup {"CLOSE_ON_FLUSH"} /\ stack' = stack
    BY <1>d DEF Shutdown
  <2>2. StackType' /\ Now' = "none" /\ Left' = Left
    BY <1>0, <1>a, <2>1, KeptFacts
  <2>3. DataType'
    BY <1>0, <1>b, <2>1 DEF DataType, Flags
  <2>4. OutputParts'
    BY <1>0, <1>a, <1>b, <2>1, <2>2, ClosedFlags DEF OutputParts, FlushesEmpty, ClosesEmpty,
       SlotsKept, ClosingTold, May, NoOrphan
  <2>5. InputParts'
    BY <1>0, <1>a, <1>b, <2>1, <2>2, ClosedFlags DEF InputParts, ReadsEnd, DataThere,
       ReadFields, ReadWaits, LineSearched, BytesAwaited, Telling, HonestReads, May
  <2> QED
    BY <2>2, <2>3, <2>4, <2>5 DEF IInv, TypeOK
<1> QED
  BY <1>c, <1>d

\* cancel(): the slot is empty, and its deferred no longer pending.
LEMMA CancelStep ==
  ASSUME IInv, NEW d \in Deferreds, CancelDeferred(d)
  PROVE  IInv'
<1>0. DataType /\ StackType /\ OutputParts /\ InputParts
  BY DEF IInv, TypeOK
<1>a. UserRuns /\ Now = "none" /\ ~HonestReads
  BY <1>0, MethodFacts DEF CancelDeferred, MayCall, HonestReads, May
<1>b. UNCHANGED <<origin, state, length, inputSize, incoming, in, out, low, high, rd, wr, fd, dialing, due>>
  BY DEF CancelDeferred, bev
<1>1. StackType' /\ Now' = "none" /\ Left' = Left
  BY <1>0, <1>a, HandlersFacts DEF CancelDeferred
<1>c. /\ slot' \in [Slots -> Deferreds \cup {None}]
      /\ kind' \in [Deferreds -> Slots \cup {None}]
      /\ token' \in [limit : Nat, offset : Nat] \cup {None}
      /\ \A x \in Slots : slot'[x] = slot[x] \/ slot'[x] = None
      /\ slot'["read"] = None /\ (slot["read"] = None => token = None) => token' = None
      /\ NoOrphan => NoOrphan'
  BY <1>0, CancelFacts DEF CancelDeferred
<1>2. DataType'
  BY <1>0, <1>b, <1>c DEF DataType
<1>3. OutputParts'
  BY <1>0, <1>1, <1>a, <1>b, <1>c, ClosedFlags DEF OutputParts, FlushesEmpty, ClosesEmpty,
     SlotsKept, ClosingTold, May, Slots
<1>4. InputParts'
  BY <1>0, <1>1, <1>a, <1>b, <1>c, ClosedFlags DEF InputParts, ReadsEnd, DataThere,
     ReadFields, HonestReads, May, Slots
<1> QED
  BY <1>1, <1>2, <1>3, <1>4 DEF IInv, TypeOK

(* The C functions run on. *)

\* A slot's deferred is settled: the slot is empty while its handlers run.
LEMMA SettleTaskStep ==
  ASSUME IInv, NEW s \in Slots, SettleTask(s)
  PROVE  IInv'
<1>0. DataType /\ StackType /\ OutputParts /\ InputParts
  BY DEF IInv, TypeOK
<1>a. AtTask(s) /\ slot[s] # None /\ SettleSlot(s, Tail(Top.tasks))
  BY DEF SettleTask, Machine
<1>b. UNCHANGED <<origin, inputSize, incoming, state, length, in, out, low, high, rd, wr, fd, dialing, due>>
  BY DEF SettleTask, Machine, bev
<1>c. Now = s /\ s \in Left
  BY <1>0, <1>a, NowFacts DEF Task, Slots
<1>1. StackType' /\ Now' \in Later /\ Left' \subseteq Left /\ Left \ {s} \subseteq Left'
  <2>1. stack' = [stack EXCEPT ![Len(stack)] = [tasks |-> Tail(Top.tasks), user |-> TRUE]]
    BY <1>a DEF SettleSlot, RunHandlers
  <2> QED
    BY <1>0, <1>a, <2>1, SlotFacts
<1>d. /\ slot' \in [Slots -> Deferreds \cup {None}]
      /\ kind' \in [Deferreds -> Slots \cup {None}]
      /\ token' \in [limit : Nat, offset : Nat] \cup {None}
      /\ slot'[s] = None /\ \A x \in Slots : x # s => slot'[x] = slot[x]
      /\ token' = IF s = "read" THEN None ELSE token
      /\ NoOrphan => NoOrphan'
  BY <1>0, <1>a, SettleFacts DEF SettleSlot
<1>2. DataType'
  BY <1>0, <1>b, <1>d DEF DataType
<1>3. OutputParts'
  BY <1>0, <1>1, <1>b, <1>c, <1>d, ClosedFlags DEF OutputParts, FlushesEmpty, ClosesEmpty,
     SlotsKept, ClosingTold, May, Later, Slots
<1>4. InputParts'
  <2>1. (~May("late") => ReadsEnd') /\ DataThere' /\ ReadFields'
    BY <1>0, <1>1, <1>b, <1>c, <1>d, ClosedFlags DEF InputParts, ReadsEnd, DataThere,
       ReadFields, May, Later, Slots
  <2>2. ASSUME HonestReads
        PROVE  ReadWaits'
    BY <1>0, <1>1, <1>b, <1>c, <1>d, <2>2, ClosedFlags DEF InputParts, ReadWaits, ReadFields,
       LineSearched, BytesAwaited, Telling, Slots
  <2> QED
    BY <2>1, <2>2 DEF InputParts, HonestReads, May
<1> QED
  BY <1>1, <1>2, <1>3, <1>4 DEF IInv, TypeOK

\* An empty slot is passed over.
LEMMA SkipTaskStep ==
  ASSUME IInv, NEW s \in Slots, SkipTask(s)
  PROVE  IInv'
<1>0. DataType /\ StackType /\ OutputParts /\ InputParts
  BY DEF IInv, TypeOK
<1>a. AtTask(s) /\ slot[s] = None
  BY DEF SkipTask, Machine
<1>b. UNCHANGED <<origin, inputSize, incoming, state, slot, kind, length, token,
                  in, out, low, high, rd, wr, fd, dialing, due>>
  BY DEF SkipTask, Machine, bev
<1>c. Now = s /\ s \in Left
  BY <1>0, <1>a, NowFacts DEF Task, Slots
<1>1. StackType' /\ Now' \in Later /\ Left' \subseteq Left /\ Left \ {s} \subseteq Left'
  <2>1. stack' = [stack EXCEPT ![Len(stack)] = [tasks |-> Tail(Top.tasks), user |-> FALSE]]
    BY DEF SkipTask, Continue
  <2> QED
    BY <1>0, <1>a, <2>1, SlotFacts
<1>2. DataType'
  BY <1>0, <1>b DEF DataType
<1>3. OutputParts'
  BY <1>0, <1>1, <1>a, <1>b, <1>c, ClosedFlags DEF OutputParts, FlushesEmpty, ClosesEmpty,
     SlotsKept, ClosingTold, May, Later, Slots, NoOrphan
<1>4. InputParts'
  BY <1>0, <1>1, <1>a, <1>b, <1>c, ClosedFlags DEF InputParts, ReadsEnd, DataThere,
     ReadFields, ReadWaits, LineSearched, BytesAwaited, Telling, HonestReads, May, Later, Slots
<1> QED
  BY <1>1, <1>2, <1>3, <1>4 DEF IInv, TypeOK

\* The input callback without a read.
LEMMA InputIdleStep ==
  ASSUME IInv, InputIdle
  PROVE  IInv'
<1>0. DataType /\ StackType /\ OutputParts /\ InputParts
  BY DEF IInv, TypeOK
<1>a. AtTask("input") /\ slot["read"] = None /\ state' = state \cup {"HAS_DATA"}
  BY DEF InputIdle, Machine
<1>b. UNCHANGED <<origin, inputSize, incoming, slot, kind, length, token,
                  in, out, low, high, rd, wr, fd, dialing, due>>
  BY DEF InputIdle, Machine, bev
<1>c. Now = "input" /\ (origin # "pair" => in # <<>>)
  BY <1>0, <1>a, NowFacts DEF Task, InputParts, DataThere
<1>1. /\ StackType' /\ Now' = "incoming"
      /\ Left' \subseteq Left \cup {"incoming"} /\ Left \ {"input"} \subseteq Left'
  <2> DEFINE ts == <<"incoming">>
  <2>1. ts \in Running /\ ts # <<>> /\ Head(ts) = "incoming" /\ Elements(ts) = {"incoming"}
    BY DEF Running, Elements
  <2>2. Elements(Tail(Top.tasks)) \subseteq Elements(ts)
    BY <1>0, <1>a, TopAt DEF Elements, Task
  <2>3. stack' = [stack EXCEPT ![Len(stack)] = [tasks |-> ts, user |-> FALSE]]
    BY DEF InputIdle, Continue
  <2> HIDE DEF ts
  <2> QED
    BY <1>0, <1>a, <2>1, <2>2, <2>3, StepFacts DEF Task
<1>2. DataType'
  BY <1>0, <1>a, <1>b DEF DataType, Flags
<1>3. OutputParts'
  BY <1>0, <1>1, <1>a, <1>b, <1>c, ClosedFlags DEF OutputParts, FlushesEmpty, ClosesEmpty,
     SlotsKept, ClosingTold, May, NoOrphan
<1>4. InputParts'
  BY <1>0, <1>1, <1>a, <1>b, <1>c, ClosedFlags DEF InputParts, ReadsEnd, DataThere,
     ReadFields, ReadWaits, HonestReads, May
<1> QED
  BY <1>1, <1>2, <1>3, <1>4 DEF IInv, TypeOK

\* Past the read, the input callback refreshes HAS_DATA and looks at incoming().
LEMMA PastReadFacts ==
  ASSUME StackType, AtTask("input"), NEW u \in BOOLEAN,
         stack' = [stack EXCEPT ![Len(stack)] = [tasks |-> <<"hasdata", "incoming">>, user |-> u]]
  PROVE  /\ StackType' /\ Now' = IF u THEN "none" ELSE "hasdata"
         /\ Left' \subseteq Left \cup {"hasdata", "incoming"} /\ Left \ {"input"} \subseteq Left'
<1> DEFINE ts == <<"hasdata", "incoming">>
<1>1. /\ ts \in Running /\ ts \in Waiting /\ ts # <<>> /\ Head(ts) = "hasdata"
      /\ Elements(ts) = {"hasdata", "incoming"}
  BY DEF Running, Waiting, Elements
<1>2. Elements(Tail(Top.tasks)) \subseteq Elements(ts)
  BY TopAt DEF Elements, Task
<1>3. stack' = [stack EXCEPT ![Len(stack)] = [tasks |-> ts, user |-> u]]
  OBVIOUS
<1> HIDE DEF ts
<1> QED
  BY <1>1, <1>2, <1>3, StepFacts DEF Task

\* What the input callback may have taken, and whether it settles the read.
LEMMA ReadSettledStep ==
  ASSUME IInv, AtTask("input"), slot["read"] # None, SettleSlot("read", <<"hasdata", "incoming">>),
         UNCHANGED <<origin, inputSize, incoming, state, length, out, rd, wr, fd, dialing, due>>,
         in' \in Seq(Bytes), low' \in Nat, high' \in Nat, HonestReads => low' = 0
  PROVE  IInv'
<1>0. DataType /\ StackType /\ OutputParts /\ InputParts
  BY DEF IInv, TypeOK
<1>a. Now = "input" /\ "read" \in Slots
  BY <1>0, NowFacts DEF Task, Slots
<1>1. /\ StackType' /\ Now' = "none"
      /\ Left' \subseteq Left \cup {"hasdata", "incoming"} /\ Left \ {"input"} \subseteq Left'
  <2>1. stack' = [stack EXCEPT ![Len(stack)] = [tasks |-> <<"hasdata", "incoming">>, user |-> TRUE]]
    BY DEF SettleSlot, RunHandlers
  <2> QED
    BY <1>0, <2>1, PastReadFacts
<1>b. /\ slot' \in [Slots -> Deferreds \cup {None}]
      /\ kind' \in [Deferreds -> Slots \cup {None}]
      /\ token' \in [limit : Nat, offset : Nat] \cup {None}
      /\ slot'["read"] = None /\ \A x \in Slots : x # "read" => slot'[x] = slot[x]
      /\ token' = None
      /\ NoOrphan => NoOrphan'
  BY <1>0, <1>a, SettleFacts DEF SettleSlot
<1>2. DataType'
  BY <1>0, <1>b DEF DataType
<1>3. OutputParts'
  BY <1>0, <1>1, <1>a, <1>b, ClosedFlags DEF OutputParts, FlushesEmpty, ClosesEmpty,
     SlotsKept, ClosingTold, May, Slots
<1>4. InputParts'
  BY <1>0, <1>1, <1>a, <1>b, ClosedFlags DEF InputParts, ReadsEnd, DataThere,
     ReadFields, ReadWaits, HonestReads, May, Slots
<1> QED
  BY <1>1, <1>2, <1>3, <1>4 DEF IInv, TypeOK

\* A readLine() gets its line or reaches its limit, or all the input has been searched.
LEMMA InputLineStep ==
  ASSUME IInv, InputLine
  PROVE  IInv'
<1>0. DataType /\ StackType /\ OutputParts /\ InputParts
  BY DEF IInv, TypeOK
<1> DEFINE o == token.offset
           l == token.limit
<1>a. AtTask("input") /\ slot["read"] # None /\ token # None
  BY DEF InputLine, Machine
<1>b. UNCHANGED <<origin, inputSize, incoming, state, length, out, low, high, rd, wr, fd, dialing, due>>
  BY DEF InputLine, Machine
<1>c. Now = "input"
  BY <1>0, <1>a, NowFacts DEF Task
<1>d. o \in Nat /\ l \in Nat /\ token \in [limit : Nat, offset : Nat]
  BY <1>0, <1>a DEF DataType
<1>e. HonestReads => low = 0
  BY <1>0, <1>a DEF InputParts, ReadWaits, LineSearched
<1>f. low \in Nat /\ high \in Nat /\ in \in Seq(Bytes)
  BY <1>0 DEF DataType
<1>1. CASE Found(o, l)
  <2>1. PICK n \in {Position(o, l)} \cup {Position(o, l) - 1} :
          in' = Dropped(n) /\ SettleSlot("read", <<"hasdata", "incoming">>)
    BY <1>1 DEF InputLine
  <2>2. in' \in Seq(Bytes)
    <3> HIDE DEF o, l
    <3>1. Position(o, l) \in 1 .. Len(in) /\ Position(o, l) - 1 \in 0 .. Len(in) /\ Len(in) \in Nat
      BY <1>0, <1>1, <1>d, FoundFacts, BufferFacts
    <3>2. n \in 0 .. Len(in)
      BY <2>1, <3>1
    <3> QED
      BY <1>0, <2>1, <3>2, DropFacts
  <2> QED
    BY <1>a, <1>b, <1>e, <1>f, <2>1, <2>2, ReadSettledStep
<1>2. CASE ~Found(o, l) /\ LimitReached(o, l)
  <2>1. in' = in /\ SettleSlot("read", <<"hasdata", "incoming">>)
    BY <1>2 DEF InputLine
  <2> QED
    BY <1>a, <1>b, <1>e, <1>f, <2>1, ReadSettledStep
<1>3. CASE ~Found(o, l) /\ ~LimitReached(o, l)
  <2>1. /\ in' = in /\ slot' = slot /\ kind' = kind
        /\ token' = [token EXCEPT !.offset = Resumed(o)]
        /\ Continue(<<"hasdata", "incoming">>)
    BY <1>3 DEF InputLine
  <2>2. /\ StackType' /\ Now' = "hasdata"
        /\ Left' \subseteq Left \cup {"hasdata", "incoming"} /\ Left \ {"input"} \subseteq Left'
    <3>1. stack' = [stack EXCEPT ![Len(stack)] = [tasks |-> <<"hasdata", "incoming">>, user |-> FALSE]]
      BY <2>1 DEF Continue
    <3> QED
      BY <1>0, <1>a, <3>1, PastReadFacts
  <2>3. Resumed(o) \in Nat
    BY <1>0, <1>d, BufferFacts DEF Resumed
  <2>4. token' \in [limit : Nat, offset : Nat] /\ token' # None /\ token'.offset = Resumed(o)
    BY <1>d, <2>1, <2>3, TokensAssumption
  <2>5. DataType'
    BY <1>0, <1>b, <2>1, <2>4 DEF DataType
  <2>6. OutputParts'
    BY <1>0, <1>b, <1>c, <2>1, <2>2, ClosedFlags DEF OutputParts, FlushesEmpty, ClosesEmpty,
       SlotsKept, ClosingTold, May, NoOrphan
  <2>7. InputParts'
    <3>1. (~May("late") => ReadsEnd') /\ DataThere' /\ ReadFields'
      BY <1>0, <1>a, <1>b, <1>c, <2>1, <2>2, ClosedFlags DEF InputParts, ReadsEnd, DataThere,
         ReadFields, May
    <3>2. ASSUME HonestReads
          PROVE  ReadWaits'
      <4>1. LineSearched
        BY <1>0, <1>a, <3>2 DEF InputParts, ReadWaits
      <4>2. o <= Len(in) /\ \A p \in 1 .. o : in[p] # Token
        BY <4>1 DEF LineSearched, Telling
      <4>3. Resumed(o) = Len(in) /\ \A p \in 1 .. Len(in) : in[p] # Token
        <5> HIDE DEF o, l
        <5> QED
          BY <1>0, <1>3, <1>d, <4>2, NotFoundFacts
      <4>4. Len(in) \in Nat
        BY <1>0, BufferFacts
      <4>5. LineSearched'
        BY <1>b, <2>1, <2>4, <4>1, <4>3, <4>4 DEF LineSearched, Telling
      <4> QED
        BY <1>a, <2>1, <2>4, <4>5 DEF ReadWaits
    <3> QED
      BY <3>1, <3>2 DEF InputParts, HonestReads, May
  <2> QED
    BY <2>2, <2>5, <2>6, <2>7 DEF IInv, TypeOK
<1> QED
  BY <1>1, <1>2, <1>3

\* A read() gets its bytes, or has not enough.
LEMMA InputReadStep ==
  ASSUME IInv, InputRead
  PROVE  IInv'
<1>0. DataType /\ StackType /\ OutputParts /\ InputParts
  BY DEF IInv, TypeOK
<1>a. AtTask("input") /\ slot["read"] # None /\ token = None
  BY DEF InputRead, Machine
<1>b. UNCHANGED <<origin, inputSize, incoming, state, length, out, rd, wr, fd, dialing, due>>
  BY DEF InputRead, Machine
<1>c. Now = "input"
  BY <1>0, <1>a, NowFacts DEF Task
<1>d. length \in Nat /\ inputSize \in Nat /\ Len(in) \in Nat
  BY <1>0, BufferFacts DEF DataType
<1>1. CASE length > 0 /\ Len(in) >= length
  <2>1. /\ in' = Dropped(length) /\ low' = 0 /\ high' = inputSize
        /\ SettleSlot("read", <<"hasdata", "incoming">>)
    BY <1>1 DEF InputRead
  <2>2. in' \in Seq(Bytes)
    <3>1. length \in 0 .. Len(in)
      BY <1>1, <1>d
    <3> QED
      BY <1>0, <2>1, <3>1, DropFacts
  <2> QED
    BY <1>a, <1>b, <1>d, <2>1, <2>2, ReadSettledStep
<1>2. CASE ~(length > 0 /\ Len(in) >= length)
  <2>1. /\ UNCHANGED <<slot, kind, token, in, low, high>>
        /\ Continue(<<"hasdata", "incoming">>)
    BY <1>2 DEF InputRead
  <2>2. /\ StackType' /\ Now' = "hasdata"
        /\ Left' \subseteq Left \cup {"hasdata", "incoming"} /\ Left \ {"input"} \subseteq Left'
    <3>1. stack' = [stack EXCEPT ![Len(stack)] = [tasks |-> <<"hasdata", "incoming">>, user |-> FALSE]]
      BY <2>1 DEF Continue
    <3> QED
      BY <1>0, <1>a, <3>1, PastReadFacts
  <2>3. DataType'
    BY <1>0, <1>b, <2>1 DEF DataType
  <2>4. OutputParts'
    BY <1>0, <1>b, <1>c, <2>1, <2>2, ClosedFlags DEF OutputParts, FlushesEmpty, ClosesEmpty,
       SlotsKept, ClosingTold, May, NoOrphan
  <2>5. length > 0 => Len(in) < length
    BY <1>2, <1>d
  <2>6. InputParts'
    BY <1>0, <1>a, <1>b, <1>c, <2>1, <2>2, <2>5, ClosedFlags DEF InputParts, ReadsEnd,
       DataThere,
       ReadFields, ReadWaits, BytesAwaited, HonestReads, May
  <2> QED
    BY <2>2, <2>3, <2>4, <2>6 DEF IInv, TypeOK
<1> QED
  BY <1>1, <1>2

\* HAS_DATA is refreshed just before incoming() is looked at.
LEMMA HasDataStep ==
  ASSUME IInv, HasData
  PROVE  IInv'
<1>0. DataType /\ StackType /\ OutputParts /\ InputParts
  BY DEF IInv, TypeOK
<1>a. /\ AtTask("hasdata")
      /\ state' = IF in = <<>> THEN state \ {"HAS_DATA"} ELSE state \cup {"HAS_DATA"}
  BY DEF HasData, Machine
<1>b. UNCHANGED <<origin, inputSize, incoming, slot, kind, length, token,
                  in, out, low, high, rd, wr, fd, dialing, due>>
  BY DEF HasData, Machine, bev
<1>c. Now = "hasdata"
  BY <1>0, <1>a, NowFacts DEF Task
<1>1. /\ StackType' /\ Now' = "incoming"
      /\ Left' \subseteq Left \cup {"incoming"} /\ Left \ {"hasdata"} \subseteq Left'
  <2> DEFINE ts == <<"incoming">>
  <2>1. ts \in Running /\ ts # <<>> /\ Head(ts) = "incoming" /\ Elements(ts) = {"incoming"}
    BY DEF Running, Elements
  <2>2. Tail(Top.tasks) = ts
    BY <1>0, <1>a, TopAt DEF Task
  <2>3. stack' = [stack EXCEPT ![Len(stack)] = [tasks |-> ts, user |-> FALSE]]
    BY <2>2 DEF HasData, Continue
  <2> HIDE DEF ts
  <2> QED
    BY <1>0, <1>a, <2>1, <2>2, <2>3, StepFacts DEF Task
<1>d. \A f \in Flags : f # "HAS_DATA" => (f \in state' <=> f \in state)
  BY <1>a
<1>2. DataType'
  BY <1>0, <1>a, <1>b DEF DataType, Flags
<1>3. OutputParts'
  BY <1>0, <1>1, <1>b, <1>c, <1>d, ClosedFlags DEF OutputParts, FlushesEmpty, ClosesEmpty,
     SlotsKept, ClosingTold, May, NoOrphan, Flags
<1>4. InputParts'
  BY <1>0, <1>1, <1>a, <1>b, <1>c, <1>d, ClosedFlags DEF InputParts, ReadsEnd, DataThere,
     ReadFields, ReadWaits, LineSearched, BytesAwaited, Telling, HonestReads, May, Flags
<1> QED
  BY <1>1, <1>2, <1>3, <1>4 DEF IInv, TypeOK

\* The incoming() sequence is invoked, or not.
LEMMA IncomingStep ==
  ASSUME IInv, Incoming
  PROVE  IInv'
<1>0. DataType /\ StackType /\ OutputParts /\ InputParts
  BY DEF IInv, TypeOK
<1>a. AtTask("incoming")
  BY DEF Incoming, Machine
<1>b. UNCHANGED <<origin, inputSize, incoming, state, slot, kind, length, token,
                  in, out, low, high, rd, wr, fd, dialing, due>>
  BY DEF Incoming, Machine, bev
<1>c. Now = "incoming"
  BY <1>0, <1>a, NowFacts DEF Task
<1>1. StackType' /\ Now' = "none" /\ Left' \subseteq Left /\ Left \ {"incoming"} \subseteq Left'
  <2>1. <<>> \in Running /\ <<>> \in Waiting /\ Elements(<<>>) = {}
    BY DEF Running, Waiting, Elements
  <2>2. Elements(Tail(Top.tasks)) = {}
    BY <1>0, <1>a, <2>1, TopAt DEF Task
  <2>3. PICK u \in BOOLEAN : stack' = [stack EXCEPT ![Len(stack)] = [tasks |-> <<>>, user |-> u]]
    BY DEF Incoming, RunHandlers, Continue
  <2> QED
    BY <1>0, <1>a, <2>1, <2>2, <2>3, StepFacts DEF Task
<1>2. DataType'
  BY <1>0, <1>b DEF DataType
<1>3. OutputParts'
  BY <1>0, <1>1, <1>b, <1>c, ClosedFlags DEF OutputParts, FlushesEmpty, ClosesEmpty,
     SlotsKept, ClosingTold, May, NoOrphan
<1>4. InputParts'
  BY <1>0, <1>1, <1>b, <1>c, ClosedFlags DEF InputParts, ReadsEnd, DataThere,
     ReadFields, ReadWaits, LineSearched, BytesAwaited, Telling, HonestReads, May
<1> QED
  BY <1>1, <1>2, <1>3, <1>4 DEF IInv, TypeOK

\* The output callback, past its flush: FLUSHED is the truth, and nobody is
\* left in the slot that it empties.
LEMMA FlushedStep ==
  ASSUME IInv, Flushed
  PROVE  IInv'
<1>0. DataType /\ StackType /\ OutputParts /\ InputParts
  BY DEF IInv, TypeOK
<1>a. AtTask("flushed") /\ slot' = SlotFreed("flush") /\ state' = state \cup {"FLUSHED"}
  BY DEF Flushed, Machine
<1>b. UNCHANGED <<origin, inputSize, incoming, kind, length, token,
                  in, out, low, high, rd, wr, fd, dialing, due>>
  BY DEF Flushed, Machine, bev
<1>c. Now = "flushed" /\ "flushed" \in Left
  BY <1>0, <1>a, NowFacts DEF Task
<1>1. /\ StackType' /\ Now' \in {"close", "none"}
      /\ Left' \subseteq Left \cup {"close"} /\ Left \ {"flushed"} \subseteq Left'
  <2> DEFINE ts == IF "CLOSE_ON_FLUSH" \in state THEN <<"close">> ELSE <<>>
  <2>1. /\ ts \in Running /\ Elements(ts) \subseteq {"close"}
        /\ ts # <<>> => Head(ts) = "close"
    BY DEF Running, Waiting, Elements
  <2>2. Elements(Tail(Top.tasks)) \subseteq Elements(ts)
    BY <1>0, <1>a, TopAt DEF Elements, Task
  <2>3. stack' = [stack EXCEPT ![Len(stack)] = [tasks |-> ts, user |-> FALSE]]
    BY DEF Flushed, Continue
  <2> HIDE DEF ts
  <2> QED
    BY <1>0, <1>a, <2>1, <2>2, <2>3, StepFacts DEF Task
<1>d. /\ slot' \in [Slots -> Deferreds \cup {None}]
      /\ slot'["flush"] = None /\ \A x \in Slots : x # "flush" => slot'[x] = slot[x]
      /\ slot["flush"] = None => slot' = slot
  BY <1>0, <1>a DEF DataType, SlotFreed, Slots
<1>2. DataType'
  BY <1>0, <1>a, <1>b, <1>d DEF DataType, Flags
<1>3. OutputParts'
  BY <1>0, <1>1, <1>a, <1>b, <1>c, <1>d, ClosedFlags DEF OutputParts, FlushesEmpty, ClosesEmpty,
     SlotsKept, ClosingTold, May, NoOrphan, Slots
<1>4. InputParts'
  BY <1>0, <1>1, <1>a, <1>b, <1>c, <1>d, ClosedFlags DEF InputParts, ReadsEnd, DataThere,
     ReadFields, ReadWaits, LineSearched, BytesAwaited, Telling, HonestReads, May, Slots
<1> QED
  BY <1>1, <1>2, <1>3, <1>4 DEF IInv, TypeOK

\* The descriptor is closed, and the shutdown told; without one, it was told.
LEMMA CloseFdStep ==
  ASSUME IInv, CloseFd
  PROVE  IInv'
<1>0. DataType /\ StackType /\ OutputParts /\ InputParts
  BY DEF IInv, TypeOK
<1>a. /\ AtTask("close") /\ state' = state \cup {"SHUTDOWN"} /\ fd' = FALSE
      /\ rd' = FALSE /\ wr' = FALSE /\ dialing' = (dialing /\ ~fd)
  BY DEF CloseFd, Machine
<1>b. UNCHANGED <<origin, inputSize, incoming, slot, kind, length, token, in, out, low, high, due>>
  BY DEF CloseFd, Machine
<1>c. Now = "close"
  BY <1>0, <1>a, NowFacts DEF Task
<1>1. /\ StackType' /\ Now' \in {"shutdown", "none"}
      /\ Left' \subseteq Left \cup {"shutdown"} /\ Left \ {"close"} \subseteq Left'
      /\ fd => "shutdown" \in Left'
  <2> DEFINE ts == IF fd THEN <<"shutdown">> ELSE <<>>
  <2>1. /\ ts \in Running /\ Elements(ts) \subseteq {"shutdown"}
        /\ ts # <<>> => Head(ts) = "shutdown"
        /\ fd => ts # <<>>
    BY DEF Running, Waiting, Elements
  <2>2. Elements(Tail(Top.tasks)) \subseteq Elements(ts)
    BY <1>0, <1>a, TopAt DEF Elements, Task
  <2>3. stack' = [stack EXCEPT ![Len(stack)] = [tasks |-> ts, user |-> FALSE]]
    BY DEF CloseFd, Continue
  <2> HIDE DEF ts
  <2>4. /\ StackType' /\ Now' = IF ts = <<>> THEN "none" ELSE Head(ts)
        /\ Left' \subseteq Left \cup Elements(ts) /\ Left \ {"close"} \subseteq Left'
    BY <1>0, <1>a, <2>1, <2>2, <2>3, StepFacts DEF Task
  <2>5. (StackType => (Now # "none" => Now \in Left))'
    BY NowLeft, PTL
  <2> QED
    BY <2>1, <2>4, <2>5
<1>2. DataType'
  BY <1>0, <1>a, <1>b DEF DataType, Flags
<1>3. OutputParts'
  BY <1>0, <1>1, <1>a, <1>b, <1>c, ClosedFlags DEF OutputParts, FlushesEmpty, ClosesEmpty,
     SlotsKept, ClosingTold, May, NoOrphan
<1>4. InputParts'
  BY <1>0, <1>1, <1>a, <1>b, <1>c, ClosedFlags DEF InputParts, ReadsEnd, DataThere,
     ReadFields, ReadWaits, LineSearched, BytesAwaited, Telling, HonestReads, May
<1> QED
  BY <1>1, <1>2, <1>3, <1>4 DEF IInv, TypeOK

LEMMA ReturnStep ==
  ASSUME IInv, Return
  PROVE  IInv'
<1>0. DataType /\ StackType /\ OutputParts /\ InputParts
  BY DEF IInv, TypeOK
<1>1. StackType' /\ Now = "none" /\ Now' \in Later /\ Left' = Left
  BY <1>0, ReturnFacts
<1>b. UNCHANGED <<origin, fields, bev>>
  BY DEF Return
<1>2. DataType'
  BY <1>0, <1>b DEF DataType, fields, bev
<1>3. OutputParts'
  BY <1>0, <1>1, <1>b, ClosedFlags DEF fields, bev, OutputParts, FlushesEmpty, ClosesEmpty,
     SlotsKept, ClosingTold, May, NoOrphan, Later
<1>4. InputParts'
  BY <1>0, <1>1, <1>b, ClosedFlags DEF fields, bev, InputParts, ReadsEnd, DataThere,
     ReadFields, ReadWaits, LineSearched, BytesAwaited, Telling, HonestReads, May, Later
<1> QED
  BY <1>1, <1>2, <1>3, <1>4 DEF IInv, TypeOK
-----------------------------------------------------------------------------
(* The invariant holds, and what follows. *)

LEMMA InitHolds == Init => IInv
<1> SUFFICES ASSUME Init
             PROVE  IInv
  OBVIOUS
<1>1. stack = <<>> /\ Now = "none" /\ Left = {} /\ StackType
  BY DEF Init, Now, Left, StackType
<1>2. DataType
  <2>1. <<>> \in Seq(Bytes) /\ 0 \in Nat
    OBVIOUS
  <2>2. /\ [s \in Slots |-> None] \in [Slots -> Deferreds \cup {None}]
        /\ [d \in Deferreds |-> None] \in [Deferreds -> Slots \cup {None}]
    OBVIOUS
  <2>3. InitialFlags(origin) \subseteq Flags
    BY DEF InitialFlags, Flags
  <2>4. origin \in Origins /\ state \subseteq Flags
    BY <2>3 DEF Init
  <2>5. fd \in BOOLEAN /\ dialing \in BOOLEAN
    BY DEF Init
  <2> QED
    BY <2>1, <2>2, <2>4, <2>5 DEF Init, DataType
<1>3. OutputParts
  BY <1>1, TokensAssumption DEF Init, OutputParts, FlushesEmpty, ClosesEmpty, SlotsKept,
     NoOrphan,
     ClosingTold, Closed, InitialFlags, Slots
<1>4. InputParts
  BY <1>1 DEF Init, InputParts, ReadsEnd, DataThere, ReadFields, ReadWaits, Slots
<1> QED
  BY <1>1, <1>2, <1>3, <1>4 DEF IInv, TypeOK

LEMMA NextPreserves == IInv /\ [Next]_vars => IInv'
<1> SUFFICES ASSUME IInv, [Next]_vars
             PROVE  IInv'
  OBVIOUS
<1>1. CASE Event
  <2>1. ASSUME NEW b \in Bytes, Arrive(<<b>>)
        PROVE  IInv'
    <3>1. <<b>> \in Seq(Bytes) /\ <<b>> # <<>>
      OBVIOUS
    <3> QED
      BY <2>1, <3>1, ArriveStep
  <2>2. ASSUME NEW b \in Bytes, NEW c \in Bytes, Arrive(<<b, c>>)
        PROVE  IInv'
    <3>1. <<b, c>> \in Seq(Bytes) /\ <<b, c>> # <<>>
      OBVIOUS
    <3> QED
      BY <2>2, <3>1, ArriveStep
  <2>3. ASSUME NEW n \in 1 .. MaxOut, Drain(n)
        PROVE  IInv'
    <3>1. n \in Nat
      BY BoundsAssumption
    <3> QED
      BY <2>3, <3>1, DrainStep
  <2> QED
    BY <1>1, <2>1, <2>2, <2>3, PeerClosesStep, BreaksStep, ConnectedStep, ResolvedStep,
       PutOffStep DEF Event
<1>2. CASE RunOn
  BY <1>2, SettleTaskStep, SkipTaskStep, InputIdleStep, InputLineStep, InputReadStep,
     HasDataStep,
     IncomingStep, FlushedStep, CloseFdStep, ReturnStep DEF RunOn
<1>3. CASE Program
  <2>1. ASSUME NEW n \in Lengths, Read(n) \/ Take(n)
        PROVE  IInv'
    <3>1. n \in Nat \ {0} /\ n \in Nat
      BY ArgumentsAssumption
    <3> QED
      BY <2>1, <3>1, ReadStep, TakeStep
  <2>2. ASSUME NEW n \in Lengths \cup {0}, ReadLine(n)
        PROVE  IInv'
    <3>1. n \in Nat
      BY ArgumentsAssumption
    <3> QED
      BY <2>2, <3>1, ReadLineStep
  <2>3. ASSUME NEW n \in Sizes, SetInputMaxSize(n)
        PROVE  IInv'
    <3>1. n \in Nat
      BY ArgumentsAssumption
    <3> QED
      BY <2>3, <3>1, SetInputMaxSizeStep
  <2>4. CASE Connect \/ ReadAll \/ Write \/ Flush \/ AwaitClosed
    BY <2>4, ConnectStep, ReadAllStep, WriteStep, FlushStep, AwaitClosedStep
  <2>5. CASE Enable \/ Disable \/ MakeIncoming \/ Suspend \/ Resume
    BY <2>5, EnableStep, DisableStep, MakeIncomingStep, SuspendStep, ResumeStep
  <2> QED
    BY <1>3, <2>1, <2>2, <2>3, <2>4, <2>5, AppendToInputStep, ShutdownStep, CancelStep DEF
       Program
<1>4. CASE UNCHANGED vars
  <2>0. DataType /\ StackType /\ OutputParts /\ InputParts
    BY DEF IInv, TypeOK
  <2>1. StackType' /\ Now' = Now /\ Left' = Left
    BY <1>4, <2>0, KeptFacts DEF vars
  <2>b. UNCHANGED <<origin, fields, bev>>
    BY <1>4 DEF vars
  <2>2. DataType'
    BY <2>0, <2>b DEF DataType, fields, bev
  <2>3. OutputParts'
    BY <2>0, <2>1, <2>b, ClosedFlags DEF fields, bev, OutputParts, FlushesEmpty, ClosesEmpty,
       SlotsKept, ClosingTold, May, NoOrphan
  <2>4. InputParts'
    BY <2>0, <2>1, <2>b, ClosedFlags DEF fields, bev, InputParts, ReadsEnd, DataThere,
       ReadFields, ReadWaits, LineSearched, BytesAwaited, Telling, HonestReads, May
  <2> QED
    BY <2>1, <2>2, <2>3, <2>4 DEF IInv, TypeOK
<1> QED
  BY <1>1, <1>2, <1>3, <1>4 DEF Next

LEMMA Invariant == Spec => []IInv
BY InitHolds, NextPreserves, PTL DEF Spec

\* The fields, the buffers and the activations keep their types, whatever the
\* liberties: an activation is at one of the places where the C functions
\* settle a deferred, and handlers run on top of handlers only.
THEOREM Typed == Spec => []TypeOK
<1>1. IInv => TypeOK
  BY DEF IInv
<1> QED
  BY <1>1, Invariant, PTL

\* Unless handlers of a flush write or flush again, flush() answers that
\* everything is written only when it is: the FLUSHED that _ion_stream_output()
\* sets after the handlers of its flush is never stale.  Not so for a pair,
\* whose output callback libevent puts off: the property leaves it out.
THEOREM FlushedTrue ==
  ASSUME ~May("refill")
  PROVE  Spec => []FlushedIsEmpty
<1>1. IInv => FlushedIsEmpty
  BY DEF IInv, OutputParts, FlushesEmpty, FlushedIsEmpty
<1> QED
  BY <1>1, Invariant, PTL

\* Without shutdown(true) and that, the descriptor is closed only when all that
\* was written has left: by shutdown() on a flushed stream, or by the output
\* callback after the handlers of its flush.  A pair is left out, as above.
THEOREM AllWritten ==
  ASSUME ~May("refill"), ~May("force")
  PROVE  Spec => []NothingCutOff
<1>1. IInv => NothingCutOff
  <2> SUFFICES ASSUME IInv, AtTask("close"), origin # "pair"
               PROVE  out = 0
    BY DEF NothingCutOff
  <2>1. Now = "close"
    BY NowFacts DEF IInv, TypeOK, Task
  <2> QED
    BY <2>1 DEF IInv, OutputParts, ClosesEmpty
<1> QED
  BY <1>1, Invariant, PTL

\* A deferred is pending exactly while its slot holds it, cancel() included,
\* unless connect() is called again while one is pending or a handler of a
\* flush asks for another: none is orphaned and none is settled twice.
THEOREM SlotsTrue ==
  ASSUME ~May("refill"), ~May("reconnect")
  PROVE  Spec => []NoOrphan
<1>1. IInv => NoOrphan
  BY DEF IInv, OutputParts, SlotsKept
<1> QED
  BY <1>1, Invariant, PTL

\* Unless a read is begun on a closed stream, no read waits for bytes once EOF
\* has been reported, however the handlers were interleaved.
THEOREM ReadsEnded ==
  ASSUME ~May("late")
  PROVE  Spec => []NoReadPastEOF
<1>1. IInv => NoReadPastEOF
  <2> SUFFICES ASSUME IInv, EventLoop, "EOF" \in state
               PROVE  slot["read"] = None
    BY DEF NoReadPastEOF
  <2>1. Left = {}
    BY NowFacts DEF IInv, TypeOK
  <2> QED
    BY <2>1 DEF IInv, InputParts, ReadsEnd
<1> QED
  BY <1>1, Invariant, PTL

\* A stream made on a descriptor answers closed() when it closes, whatever the
\* liberties: EOF, an error and ion_stream_close_fd() all come to the shutdown.
\* (A stream without a descriptor is closed silently: the code does that.)
THEOREM ClosingAnnounced == Spec => []ClosedAnnounced
<1>1. IInv => ClosedAnnounced
  <2> SUFFICES ASSUME IInv, EventLoop, Closed, origin \in {"accepted", "dialed"}
               PROVE  slot["shutdown"] = None
    BY DEF ClosedAnnounced
  <2>1. Left = {}
    BY NowFacts DEF IInv, TypeOK
  <2> QED
    BY <2>1 DEF IInv, OutputParts, ClosingTold
<1> QED
  BY <1>1, Invariant, PTL

\* The incoming() sequence is invoked only when there are bytes to take,
\* whatever the liberties: _ion_stream_input() refreshes HAS_DATA after the
\* handlers of the read, which may have taken the bytes.  (The callback of a
\* pair comes later than the bytes, which may be gone: it is left out.)
THEOREM DataAtHand == Spec => []IncomingHasData
<1>1. IInv => IncomingHasData
  <2> SUFFICES ASSUME IInv, AtTask("incoming"), IncomingDue, origin # "pair"
               PROVE  in # <<>>
    BY DEF IncomingHasData
  <2>1. Now = "incoming"
    BY NowFacts DEF IInv, TypeOK, Task
  <2> QED
    BY <2>1 DEF IInv, InputParts, DataThere, IncomingDue
<1> QED
  BY <1>1, Invariant, PTL

\* Unless the program takes, appends, cancels, resizes or reads late, no read()
\* or readLine() waits for what is in the buffer already: the low watermark is
\* the length asked for, and the search has seen all the input.
THEOREM ReadsInTime ==
  ASSUME HonestReads
  PROVE  Spec => []NoOverdueRead
<1>1. IInv => NoOverdueRead
  <2> SUFFICES ASSUME IInv, EventLoop, due = {}, slot["read"] # None
               PROVE  IF token # None THEN Token \notin {in[p] : p \in DOMAIN in}
                                      ELSE length > 0 => Len(in) < length
    BY DEF NoOverdueRead
  <2>1. Now = "none" /\ DataType
    BY NowFacts DEF IInv, TypeOK, EventLoop, Now
  <2>2. IF token # None THEN LineSearched ELSE BytesAwaited
    BY DEF IInv, InputParts, ReadWaits
  <2>3. CASE token # None
    BY <2>1, <2>2, <2>3, BufferFacts DEF LineSearched, Telling
  <2>4. CASE token = None
    BY <2>1, <2>2, <2>4 DEF BytesAwaited, Telling
  <2> QED
    BY <2>3, <2>4
<1> QED
  BY <1>1, Invariant, PTL
=============================================================================
