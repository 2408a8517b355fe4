--------------------------- MODULE MessagesProofs ---------------------------
(***************************************************************************)
(* URIs and HTTP messages of any size.                                     *)
(*                                                                         *)
(* ION\URI: the buffer of __toString() is filled exactly, and parse()      *)
(* finds every part again.  ION\HTTP: whatever headers are replaced, added *)
(* and removed, the text that is built fills its string, and a reader      *)
(* finds in it what the object meant; the array of the texts is written    *)
(* behind its end only by a header with more values than a new array has   *)
(* room for.                                                               *)
(*                                                                         *)
(* A text is proved about by its elements (Row, Joins), what is read of it *)
(* by the callbacks that follow one another (Resumes), and a message by    *)
(* its fields (IsMsg).                                                     *)
(***************************************************************************)
EXTENDS Http, FiniteSetTheorems, WellFoundedInduction, SequenceTheorems, TLAPS
-----------------------------------------------------------------------------
(***************************************************************************)
(* Sequences by their elements.                                            *)
(***************************************************************************)
\* A set of numbers has a least one.
LEMMA LeastOf ==
  ASSUME NEW S, S \subseteq Nat, S # {}
  PROVE  \E m \in S : \A k \in S : m <= k
<1> DEFINE R == OpToRel(<, Nat)
<1>1. IsWellFoundedOn(R, Nat)
  BY NatLessThanWellFounded
<1>2. \A x, y \in Nat : x < y => <<x, y>> \in R
  BY DEF OpToRel
<1> HIDE DEF R
<1>3. PICK m \in S : \A k \in S : ~ (<<k, m>> \in R)
  BY <1>1, WFMin
<1>4. ASSUME NEW k \in S
      PROVE  m <= k
  <2>1. m \in Nat /\ k \in Nat /\ ~(k < m)
    BY <1>2, <1>3
  <2> QED
    BY <2>1
<1> QED
  BY <1>4

\* A sequence of l values.
Row(r, l) == l \in Nat /\ Len(r) = l /\ \E T : r \in Seq(T)
Cat(s, t) == s \o t

\* r is s and then t.
Joins(r, s, t, l, m) ==
  /\ Row(r, l + m)
  /\ \A k \in 1 .. l : r[k] = s[k]
  /\ \A k \in 1 .. m : r[l + k] = t[k]

\* Two sequences one after the other, by their elements.
LEMMA Elements ==
  ASSUME NEW T, NEW s \in Seq(T), NEW t \in Seq(T), NEW l, NEW m, l = Len(s), m = Len(t)
  PROVE  /\ s \o t \in Seq(T) /\ Len(s \o t) = l + m /\ l + m \in Nat
         /\ \A k \in 1 .. l : (s \o t)[k] = s[k]
         /\ \A k \in 1 .. m : (s \o t)[l + k] = t[k]
OBVIOUS

\* ... whatever they are sequences of.
LEMMA Joined ==
  ASSUME NEW s, NEW t, NEW l, NEW m, Row(s, l), Row(t, m)
  PROVE  Joins(Cat(s, t), s, t, l, m)
<1>1. l = Len(s) /\ m = Len(t)
  BY DEF Row
<1>2. PICK S, T : s \in Seq(S) /\ t \in Seq(T)
  BY DEF Row
<1>3. s \in Seq(S \cup T) /\ t \in Seq(S \cup T)
  BY <1>2
<1>4. /\ s \o t \in Seq(S \cup T) /\ Len(s \o t) = l + m /\ l + m \in Nat
      /\ \A k \in 1 .. l : (s \o t)[k] = s[k]
      /\ \A k \in 1 .. m : (s \o t)[l + k] = t[k]
  BY <1>1, <1>3, Elements
<1> QED
  BY <1>4, Zenon DEF Row, Cat, Joins

\* Short rows, and what every row has.
LEMMA RowFacts ==
  /\ Row(<<>>, 0)
  /\ \A a : Row(<<a>>, 1) /\ <<a>>[1] = a
  /\ \A r, l : Row(r, l) => DOMAIN r = 1 .. l /\ Len(r) = l /\ l \in Nat
  /\ \A S, r : r \in Seq(S) => Row(r, Len(r)) /\ \A k \in 1 .. Len(r) : r[k] \in S
<1>1. Row(<<>>, 0)
  <2>1. <<>> \in Seq({})
    OBVIOUS
  <2> QED
    BY <2>1 DEF Row
<1>2. ASSUME NEW a
      PROVE  Row(<<a>>, 1) /\ <<a>>[1] = a
  <2>1. <<a>> \in Seq({a}) /\ Len(<<a>>) = 1
    OBVIOUS
  <2> QED
    BY <2>1 DEF Row
<1>3. \A r, l : Row(r, l) => DOMAIN r = 1 .. l /\ Len(r) = l /\ l \in Nat
  BY DEF Row
<1>4. \A S, r : r \in Seq(S) => Row(r, Len(r)) /\ \A k \in 1 .. Len(r) : r[k] \in S
  BY DEF Row
<1> QED
  BY <1>1, <1>2, <1>3, <1>4

\* A function over an interval is a sequence.
LEMMA RowMade ==
  ASSUME NEW n \in Nat, NEW r, DOMAIN r = 1 .. n, r = [k \in 1 .. n |-> r[k]]
  PROVE  Row(r, n)
<1>1. r \in Seq({r[k] : k \in 1 .. n}) /\ Len(r) = n
  OBVIOUS
<1> QED
  BY <1>1 DEF Row

\* Two rows with the same elements are the same.
LEMMA RowsEqual ==
  ASSUME NEW r, NEW s, NEW n, Row(r, n), Row(s, n), \A k \in 1 .. n : r[k] = s[k]
  PROVE  r = s
<1>1. PICK S, T : r \in Seq(S) /\ s \in Seq(T) /\ Len(r) = n /\ Len(s) = n
  BY DEF Row
<1>2. r \in Seq(S \cup T) /\ s \in Seq(S \cup T)
  BY <1>1
<1>3. \A x, y \in Seq(S \cup T) : Len(x) = Len(y) /\ (\A k \in 1 .. Len(x) : x[k] = y[k]) => x = y
  OBVIOUS
<1> QED
  BY <1>1, <1>2, <1>3
-----------------------------------------------------------------------------
(***************************************************************************)
(* Recursion over the positions of a sequence.                             *)
(***************************************************************************)
\* f begins with e and follows the functions step[1], step[2], ...
Steps(step, T, n) == n \in Nat /\ \A k \in 1 .. n : step[k] \in [T -> T]
Recursion(f, T, e, step, n) ==
  /\ f \in [0 .. n -> T] /\ f[0] = e
  /\ \A k \in 1 .. n : f[k] = step[k][f[k - 1]]
Follows(f, g, n) ==
  n \in Nat /\ f[0] = g[0] /\ \A k \in 1 .. n : f[k - 1] = g[k - 1] => f[k] = g[k]
Agree(f, g, n) == \A k \in 0 .. n : f[k] = g[k]

\* There is such an f, and values that follow from each other in the same way
\* are the same.
LEMMA RecursionExists ==
  ASSUME NEW T, NEW e \in T, NEW n, NEW step, Steps(step, T, n)
  PROVE  \E f : Recursion(f, T, e, step, n)
<1> USE DEF Recursion
<1>0. n \in Nat /\ \A k \in 1 .. n : step[k] \in [T -> T]
  BY DEF Steps
<1> DEFINE Has(m) == \E f : /\ f \in [0 .. m -> T] /\ f[0] = e
                            /\ \A k \in 1 .. m : f[k] = step[k][f[k - 1]]
           S == {m \in 0 .. n : ~Has(m)}
<1> SUFFICES ASSUME n \in S
             PROVE  FALSE
  BY <1>0
<1>1. PICK m \in S : \A k \in S : m <= k
  <2> HIDE DEF Has
  <2>1. S \subseteq Nat /\ S # {}
    BY <1>0
  <2> HIDE DEF S
  <2> QED
    BY <2>1, LeastOf
<1>2. m \in 0 .. n /\ ~Has(m)
  OBVIOUS
<1>3. m # 0
  <2> SUFFICES Has(0)
    BY <1>2
  <2> DEFINE f == [k \in 0 .. 0 |-> e]
  <2>1. f \in [0 .. 0 -> T] /\ f[0] = e /\ \A k \in 1 .. 0 : f[k] = step[k][f[k - 1]]
    OBVIOUS
  <2> HIDE DEF f
  <2> QED
    BY <2>1
<1>4. m - 1 \in 0 .. n /\ m \in Nat /\ m \in 1 .. n /\ m - 1 \in Nat /\ ~(m <= m - 1)
  BY <1>0, <1>2, <1>3
<1>5. Has(m - 1)
  BY <1>1, <1>4
<1>6. PICK f : /\ f \in [0 .. m - 1 -> T] /\ f[0] = e
               /\ \A k \in 1 .. m - 1 : f[k] = step[k][f[k - 1]]
  BY <1>5
<1> DEFINE g == [k \in 0 .. m |-> IF k = m THEN step[m][f[m - 1]] ELSE f[k]]
<1>7. g \in [0 .. m -> T] /\ g[0] = e
  BY <1>0, <1>4, <1>6
<1>8. \A k \in 1 .. m : g[k] = step[k][g[k - 1]]
  <2> SUFFICES ASSUME NEW k \in 1 .. m
               PROVE  g[k] = step[k][g[k - 1]]
    OBVIOUS
  <2>1. CASE k = m
    BY <1>4, <1>6, <2>1
  <2>2. CASE k # m
    BY <1>4, <1>6, <2>2
  <2> QED
    BY <2>1, <2>2
<1> HIDE DEF g
<1> QED
  BY <1>2, <1>7, <1>8

LEMMA RecursionUnique ==
  ASSUME NEW n, NEW f, NEW g, Follows(f, g, n)
  PROVE  Agree(f, g, n)
<1> USE DEF Follows, Agree
<1> DEFINE S == {k \in 0 .. n : f[k] # g[k]}
<1> SUFFICES ASSUME S # {}
             PROVE  FALSE
  OBVIOUS
<1>1. PICK m \in S : \A k \in S : m <= k
  <2>1. S \subseteq Nat
    OBVIOUS
  <2> HIDE DEF S
  <2> QED
    BY <2>1, LeastOf
<1>2. m # 0
  OBVIOUS
<1>3. m \in 1 .. n /\ m - 1 \in 0 .. n /\ ~(m <= m - 1)
  BY <1>2
<1>4. f[m - 1] = g[m - 1]
  BY <1>1, <1>3
<1> QED
  BY <1>1, <1>3, <1>4
-----------------------------------------------------------------------------
\* f sums the first n numbers of w.
Sums(f, w, n) ==
  /\ f[0] = 0 /\ \A k \in 0 .. n : f[k] \in Int
  /\ \A k \in 1 .. n : f[k] = f[k - 1] + w[k]

\* Numbers, n of them.
Integral(w, n) == Row(w, n) /\ \A k \in 1 .. n : w[k] \in Int

\* Total is that sum.
LEMMA Totals ==
  ASSUME NEW w, NEW n, Integral(w, n)
  PROVE  \E f : Sums(f, w, n) /\ Total(w) = f[n]
<1>1. n \in Nat /\ Len(w) = n /\ \A k \in 1 .. n : w[k] \in Int
  BY DEF Integral, Row
<1>2. PICK step : step = [k \in 1 .. n |-> [x \in Int |-> x + w[k]]]
  OBVIOUS
<1>3. (\A k \in 1 .. n : step[k] \in [Int -> Int]) /\ \A k \in 1 .. n, x \in Int : step[k][x] = x + w[k]
  BY <1>1, <1>2
<1>4. PICK f : Recursion(f, Int, 0, step, n)
  <2>0. 0 \in Int
    OBVIOUS
  <2>1. Steps(step, Int, n)
    BY <1>1, <1>3 DEF Steps
  <2> QED
    BY <2>0, <2>1, RecursionExists
<1>5. /\ f \in [0 .. n -> Int] /\ f[0] = 0
      /\ \A k \in 1 .. n : f[k] = f[k - 1] + w[k]
  <2>1. \A k \in 1 .. n : f[k - 1] \in Int
    BY <1>1, <1>4 DEF Recursion
  <2> QED
    BY <1>3, <1>4, <2>1 DEF Recursion
<1> DEFINE Is(g) == g = [k \in 0 .. Len(w) |-> IF k = 0 THEN 0 ELSE g[k - 1] + w[k]]
<1>6. Is(f)
  <2>1. \A k \in 0 .. n : k # 0 => k \in 1 .. n
    BY <1>1
  <2> QED
    BY <1>1, <1>5, <2>1
<1>7. PICK h : Is(h) /\ Total(w) = h[Len(w)]
  <2>1. Total(w) = (CHOOSE g : Is(g))[Len(w)]
    BY DEF Total
  <2> HIDE DEF Is
  <2>2. Is(CHOOSE g : Is(g))
    BY <1>6
  <2> QED
    BY <2>1, <2>2
<1>8. h[0] = 0 /\ \A k \in 1 .. n : h[k] = h[k - 1] + w[k]
  <2>1. \A k \in 0 .. n : h[k] = IF k = 0 THEN 0 ELSE h[k - 1] + w[k]
    BY <1>1, <1>7
  <2>2. \A k \in 1 .. n : k \in 0 .. n /\ k # 0
    BY <1>1
  <2> QED
    BY <1>1, <2>1, <2>2
<1> HIDE DEF Is
<1>9. \A k \in 0 .. n : h[k] = f[k]
  <2>1. Follows(h, f, n)
    BY <1>1, <1>5, <1>8 DEF Follows
  <2> QED
    BY <2>1, RecursionUnique DEF Agree
<1>10. h[n] = f[n] /\ \A k \in 0 .. n : f[k] \in Int
  BY <1>1, <1>5, <1>9
<1> QED
  BY <1>1, <1>5, <1>7, <1>10 DEF Sums

\* The total of two sequences is the sum of their totals.
LEMMA TotalJoined ==
  ASSUME NEW v, NEW w, NEW x, NEW l, NEW m, Integral(v, l), Integral(w, m), Joins(x, v, w, l, m)
  PROVE  Total(x) = Total(v) + Total(w) /\ Integral(x, l + m)
<1>1. l \in Nat /\ m \in Nat /\ l + m \in Nat
  BY DEF Integral, Row
<1>2. Integral(x, l + m)
  <2>1. ASSUME NEW k \in 1 .. l + m
        PROVE  x[k] \in Int
    <3>1. CASE k <= l
      BY <3>1 DEF Joins, Integral
    <3>2. CASE k > l
      <4>1. k - l \in 1 .. m /\ l + (k - l) = k
        BY <1>1, <3>2
      <4>2. x[l + (k - l)] = w[k - l] /\ w[k - l] \in Int
        BY <4>1 DEF Joins, Integral
      <4> QED
        BY <4>1, <4>2
    <3> QED
      BY <1>1, <3>1, <3>2
  <2> QED
    BY <2>1 DEF Integral, Joins
<1>3. PICK f : Sums(f, v, l) /\ Total(v) = f[l]
  BY Totals
<1>4. PICK g : Sums(g, w, m) /\ Total(w) = g[m]
  BY Totals
<1>5. PICK h : Sums(h, x, l + m) /\ Total(x) = h[l + m]
  BY <1>2, Totals
<1>6. \A k \in 0 .. l : h[k] = f[k]
  <2>1. \A k \in 1 .. l : x[k] = v[k] /\ k \in 1 .. l + m
    BY <1>1 DEF Joins
  <2>2. h[0] = f[0] /\ \A k \in 1 .. l : h[k] = h[k - 1] + v[k] /\ f[k] = f[k - 1] + v[k]
    BY <1>3, <1>5, <2>1 DEF Sums
  <2>3. \A k \in 1 .. l : h[k - 1] = f[k - 1] => h[k] = f[k]
    BY <2>2
  <2>4. Follows(h, f, l)
    BY <1>1, <2>2, <2>3 DEF Follows
  <2> QED
    BY <2>4, RecursionUnique DEF Agree
<1>7. PICK e : e = [k \in 0 .. m |-> h[l + k]]
  OBVIOUS
<1>8. PICK d : d = [k \in 0 .. m |-> f[l] + g[k]]
  OBVIOUS
<1>9. /\ f[l] \in Int /\ g[0] = 0 /\ h[l] = f[l] /\ l + 0 = l
      /\ \A k \in 0 .. m : g[k] \in Int
  BY <1>1, <1>3, <1>4, <1>6 DEF Sums
<1>10. \A k \in 0 .. m : e[k] = d[k]
  <2>1. e[0] = d[0]
    BY <1>1, <1>7, <1>8, <1>9
  <2>2. ASSUME NEW k \in 1 .. m, e[k - 1] = d[k - 1]
        PROVE  e[k] = d[k]
    <3>1. k \in 0 .. m /\ k - 1 \in 0 .. m /\ l + k \in 1 .. l + m /\ (l + k) - 1 = l + (k - 1)
      BY <1>1
    <3>2. h[l + k] = h[l + (k - 1)] + w[k]
      <4>1. h[l + k] = h[(l + k) - 1] + x[l + k] /\ x[l + k] = w[k]
        BY <1>5, <3>1 DEF Sums, Joins
      <4> QED
        BY <3>1, <4>1
    <3>3. g[k] = g[k - 1] + w[k] /\ g[k - 1] \in Int /\ w[k] \in Int
      BY <1>4, <3>1 DEF Sums, Integral
    <3>4. e[k] = h[l + k] /\ e[k - 1] = h[l + (k - 1)] /\ d[k] = f[l] + g[k] /\ d[k - 1] = f[l] + g[k - 1]
      BY <1>7, <1>8, <3>1
    <3>5. PICK a, b, c, z : a = f[l] /\ b = g[k - 1] /\ c = w[k] /\ z = h[l + (k - 1)]
      OBVIOUS
    <3>6. a \in Int /\ b \in Int /\ c \in Int /\ z = a + b
      BY <1>9, <2>2, <3>3, <3>4, <3>5
    <3>7. e[k] = z + c /\ d[k] = a + (b + c)
      BY <3>2, <3>3, <3>4, <3>5
    <3> QED
      BY <3>6, <3>7
  <2>3. Follows(e, d, m)
    BY <1>1, <2>1, <2>2 DEF Follows
  <2> QED
    BY <2>3, RecursionUnique DEF Agree
<1>11. h[l + m] = f[l] + g[m]
  BY <1>1, <1>7, <1>8, <1>10
<1> QED
  BY <1>2, <1>3, <1>4, <1>5, <1>11

\* ... of none and of one.
LEMMA TotalFew ==
  /\ Total(<<>>) = 0 /\ Integral(<<>>, 0)
  /\ \A a \in Int : Total(<<a>>) = a /\ Integral(<<a>>, 1)
<1>1. Integral(<<>>, 0) /\ \A a \in Int : Integral(<<a>>, 1)
  BY RowFacts DEF Integral
<1>2. Total(<<>>) = 0
  <2>1. PICK f : Sums(f, <<>>, 0) /\ Total(<<>>) = f[0]
    BY <1>1, Totals
  <2> QED
    BY <2>1 DEF Sums
<1>3. ASSUME NEW a \in Int
      PROVE  Total(<<a>>) = a
  <2>1. PICK s : s = <<a>> /\ s[1] = a
    BY RowFacts
  <2>2. PICK f : Sums(f, s, 1) /\ Total(s) = f[1]
    BY <1>1, <2>1, Totals
  <2>3. f[1] = f[0] + s[1] /\ f[0] = 0
    BY <2>2 DEF Sums
  <2> QED
    BY <2>1, <2>2, <2>3
<1> QED
  BY <1>1, <1>2, <1>3
-----------------------------------------------------------------------------
(***************************************************************************)
(* ION\URI: the text of an object, printed and read.                       *)
(***************************************************************************)
\* The digits counted by comparing are those printed.
LEMMA DigitsCounted ==
  ASSUME NEW n \in 0 .. PortRange - 1
  PROVE  Digits(n) = PortLength(n) /\ Digits(n) \in Nat
<1>1. n \in Nat /\ n < 65536
  BY DEF PortRange
<1>2. 10 ^ 1 = 10 /\ 10 ^ 2 = 100 /\ 10 ^ 3 = 1000 /\ 10 ^ 4 = 10000 /\ 10 ^ 5 = 100000
  OBVIOUS
<1>3. PICK p : p = [k \in 1 .. 5 |-> 10 ^ k]
  OBVIOUS
<1>4. \A k \in 1 .. 5 : 10 ^ k = p[k]
  BY <1>3
<1>5. p[1] = 10 /\ p[2] = 100 /\ p[3] = 1000 /\ p[4] = 10000 /\ p[5] = 100000
  BY <1>2, <1>3
<1>6. PICK d \in 1 .. 5 : n < p[d] /\ \A j \in 1 .. d - 1 : n >= p[j]
  <2>1. CASE n < 10
    BY <1>1, <1>5, <2>1
  <2>2. CASE n >= 10 /\ n < 100
    BY <1>1, <1>5, <2>2
  <2>3. CASE n >= 100 /\ n < 1000
    BY <1>1, <1>5, <2>3
  <2>4. CASE n >= 1000 /\ n < 10000
    BY <1>1, <1>5, <2>4
  <2>5. CASE n >= 10000
    BY <1>1, <1>5, <2>5
  <2> QED
    BY <1>1, <2>1, <2>2, <2>3, <2>4, <2>5
<1>7. \A k \in 1 .. 5 : n < p[k] /\ (\A j \in 1 .. k - 1 : n >= p[j]) => k = d
  <2> SUFFICES ASSUME NEW k \in 1 .. 5, n < p[k], \A j \in 1 .. k - 1 : n >= p[j]
               PROVE  k = d
    OBVIOUS
  <2>1. p[k] \in Nat /\ p[d] \in Nat
    BY <1>5
  <2>2. ~(d < k) /\ ~(k < d)
    BY <1>1, <1>6, <2>1
  <2> QED
    BY <2>2
<1>8. Digits(n) = d
  <2>1. \A k \in 1 .. 5 : \A j \in 1 .. k - 1 : j \in 1 .. 5
    OBVIOUS
  <2>2. \A k \in 1 .. 5 : \A j \in 1 .. k - 1 : 10 ^ j = p[j]
    BY <1>4, <2>1, Zenon
  <2> QED
    BY <1>4, <1>6, <1>7, <2>2, Zenon DEF Digits
<1>9. {k \in 1 .. 4 : n >= 10 ^ k} = 1 .. d - 1
  <2>1. \A k \in 1 .. 4 : n >= p[k] <=> k <= d - 1
    BY <1>1, <1>5, <1>6
  <2>2. \A k \in 1 .. 4 : k \in 1 .. 5
    OBVIOUS
  <2>3. {k \in 1 .. 4 : n >= 10 ^ k} = {k \in 1 .. 4 : k <= d - 1}
    BY <1>4, <2>1, <2>2, Zenon
  <2>4. {k \in 1 .. 4 : k <= d - 1} = 1 .. d - 1
    OBVIOUS
  <2> QED
    BY <2>3, <2>4, Zenon
<1>10. Cardinality(1 .. d - 1) = d - 1
  BY FS_Interval
<1>11. PortLength(n) = 1 + (d - 1)
  BY <1>9, <1>10, Zenon DEF PortLength
<1> QED
  BY <1>8, <1>11

\* What the tokens of s take.
Widths(s) == [k \in 1 .. Len(s) |-> Width(s[k])]

\* s takes n bytes.
Fits(s, n) == Row(s, Len(s)) /\ Integral(Widths(s), Len(s)) /\ Written(s) = n /\ n \in Int

\* Two texts one after the other take what each takes.
LEMMA FitsJoined ==
  ASSUME NEW s, NEW t, NEW m, NEW n, Fits(s, m), Fits(t, n)
  PROVE  Fits(Cat(s, t), m + n)
<1>1. PICK r, l, h : r = Cat(s, t) /\ l = Len(s) /\ h = Len(t)
  OBVIOUS
<1>2. Joins(r, s, t, l, h)
  BY <1>1, Joined DEF Fits
<1>3. l \in Nat /\ h \in Nat /\ Len(r) = l + h /\ Row(r, Len(r))
  BY <1>1, <1>2 DEF Fits, Joins, Row
<1>4. PICK v, w, x : v = Widths(s) /\ w = Widths(t) /\ x = Widths(r)
  OBVIOUS
<1>5. /\ \A k \in 1 .. l : v[k] = Width(s[k])
      /\ \A k \in 1 .. h : w[k] = Width(t[k])
      /\ \A k \in 1 .. l + h : x[k] = Width(r[k])
  BY <1>1, <1>3, <1>4 DEF Widths
<1>6. Row(x, l + h)
  <2>1. l + h \in Nat /\ DOMAIN x = 1 .. l + h /\ x = [k \in 1 .. l + h |-> x[k]]
    BY <1>3, <1>4 DEF Widths
  <2> QED
    BY <2>1, RowMade
<1>7. Joins(x, v, w, l, h)
  <2>1. ASSUME NEW k \in 1 .. l
        PROVE  x[k] = v[k]
    <3>1. k \in 1 .. l + h /\ r[k] = s[k]
      BY <1>2, <1>3 DEF Joins
    <3> QED
      BY <1>5, <3>1
  <2>2. ASSUME NEW k \in 1 .. h
        PROVE  x[l + k] = w[k]
    <3>1. l + k \in 1 .. l + h /\ r[l + k] = t[k]
      BY <1>2, <1>3 DEF Joins
    <3> QED
      BY <1>5, <3>1
  <2> QED
    BY <1>6, <2>1, <2>2 DEF Joins
<1>8. Integral(v, l) /\ Integral(w, h) /\ Total(v) = m /\ Total(w) = n
  <2>1. \A q : Written(q) = Total(Widths(q))
    BY Zenon DEF Written, Widths
  <2> QED
    BY <1>1, <1>4, <2>1 DEF Fits
<1>9. Total(x) = m + n /\ Integral(x, l + h)
  BY <1>7, <1>8, TotalJoined
<1>10. Written(r) = m + n /\ m + n \in Int
  <2>1. Written(r) = Total(Widths(r))
    BY Zenon DEF Written, Widths
  <2> QED
    BY <1>4, <1>9, <2>1 DEF Fits
<1> QED
  BY <1>1, <1>3, <1>4, <1>9, <1>10 DEF Fits

\* ... and none, and one token.
LEMMA FitsFew ==
  /\ Fits(<<>>, 0)
  /\ \A a : Width(a) \in Int => Fits(<<a>>, Width(a))
<1>1. \A q : Written(q) = Total(Widths(q))
  BY Zenon DEF Written, Widths
<1>2. Fits(<<>>, 0)
  <2>1. PICK s : s = <<>> /\ Len(s) = 0
    OBVIOUS
  <2>2. Widths(s) = <<>>
    BY <2>1 DEF Widths
  <2> QED
    BY <1>1, <2>1, <2>2, RowFacts, TotalFew DEF Fits
<1>3. ASSUME NEW a, Width(a) \in Int
      PROVE  Fits(<<a>>, Width(a))
  <2>1. PICK s, w : s = <<a>> /\ Len(s) = 1 /\ s[1] = a /\ w = Widths(s)
    BY RowFacts
  <2>2. Row(w, 1) /\ w[1] = Width(a)
    <3>1. 1 \in Nat /\ DOMAIN w = 1 .. 1 /\ w = [k \in 1 .. 1 |-> w[k]] /\ w[1] = Width(a)
      BY <2>1 DEF Widths
    <3> QED
      BY <3>1, RowMade
  <2>3. w = <<Width(a)>>
    <3>1. PICK b : b = <<Width(a)>> /\ b[1] = Width(a) /\ Row(b, 1)
      BY RowFacts
    <3>2. \A k \in 1 .. 1 : w[k] = b[k]
      BY <2>2, <2>3, <3>1
    <3> QED
      BY <2>2, <3>1, <3>2, RowsEqual
  <2>4. Total(w) = Width(a) /\ Integral(w, 1)
    BY <1>3, <2>3, TotalFew
  <2> QED
    BY <1>1, <1>3, <2>1, <2>4, RowFacts DEF Fits
<1> QED
  BY <1>2, <1>3

\* What each of the tokens of a URI takes.
LEMMA TokenWidths ==
  ASSUME NEW u, u.port \in 0 .. PortRange - 1
  PROVE  /\ Fits(<<>>, 0)
         /\ Fits(Separator("://"), 3)
         /\ \A x \in {":", "@", "?", "#"} : Fits(Separator(x), 1)
         /\ \A x : Fits(Text(x), 1)
         /\ Fits(Number(u.port), PortLength(u.port))
<1>1. Width([separator |-> "://"]) = 3
  BY DEF Width
<1>2. \A x \in {":", "@", "?", "#"} : Width([separator |-> x]) = 1
  <2>1. \A x : "number" \notin DOMAIN [separator |-> x]
    OBVIOUS
  <2>2. \A x \in {":", "@", "?", "#"} : [separator |-> x] # [separator |-> "://"]
    OBVIOUS
  <2> QED
    BY <2>1, <2>2, Zenon DEF Width
<1>3. \A x : Width([text |-> x]) = 1
  <2>1. \A x : "number" \notin DOMAIN [text |-> x]
    OBVIOUS
  <2>2. \A x : [text |-> x] # [separator |-> "://"]
    OBVIOUS
  <2> QED
    BY <2>1, <2>2, Zenon DEF Width
<1>4. \A x : Width([number |-> x]) = Digits(x)
  <2>1. \A x : "number" \in DOMAIN [number |-> x] /\ [number |-> x].number = x
    OBVIOUS
  <2>2. \A x : [number |-> x] # [separator |-> "://"]
    OBVIOUS
  <2> QED
    BY <2>1, <2>2, Zenon DEF Width
<1>5. Digits(u.port) = PortLength(u.port) /\ Digits(u.port) \in Int
  BY DigitsCounted
<1>6. 1 \in Int /\ 3 \in Int
  OBVIOUS
<1>7. \A a, n : Width(a) = n /\ n \in Int => Fits(<<a>>, n)
  BY FitsFew
<1>8. Fits(Separator("://"), 3)
  BY <1>1, <1>6, <1>7, Zenon DEF Separator
<1>9. \A x \in {":", "@", "?", "#"} : Fits(Separator(x), 1)
  BY <1>2, <1>6, <1>7, Zenon DEF Separator
<1>10. \A x : Fits(Text(x), 1)
  BY <1>3, <1>6, <1>7, Zenon DEF Text
<1>11. Fits(Number(u.port), PortLength(u.port))
  <2>1. Width([number |-> u.port]) = PortLength(u.port) /\ PortLength(u.port) \in Int
    BY <1>4, <1>5
  <2> QED
    BY <1>7, <2>1, Zenon DEF Number
<1> QED
  BY <1>8, <1>9, <1>10, <1>11, FitsFew

\* The buffer is filled exactly.
LEMMA Lengths ==
  ASSUME NEW u, u.port \in 0 .. PortRange - 1, NEW parts
  PROVE  Length(u, parts) = Written(Stringify(u, parts)) /\ Length(u, parts) \in Int
<1> DEFINE has == Present(u) \cap parts
           put(part, seq) == IF part \in has THEN seq ELSE <<>>
           add(part, n) == IF part \in has THEN n ELSE 0
<1>2. /\ Fits(<<>>, 0)
      /\ Fits(Separator("://"), 3)
      /\ \A x \in {":", "@", "?", "#"} : Fits(Separator(x), 1)
      /\ \A part \in Strings : Fits(Text(u[part]), 1)
      /\ Fits(Number(u.port), PortLength(u.port))
  BY TokenWidths, Zenon
<1>3. \A part \in Strings : Fits(Text(u[part]), 1)
  BY <1>2
<1>4. /\ Fits(Text(u.scheme), 1) /\ Fits(Text(u.user), 1) /\ Fits(Text(u.pass), 1)
      /\ Fits(Text(u.host), 1) /\ Fits(Text(u.path), 1) /\ Fits(Text(u.query), 1)
      /\ Fits(Text(u.fragment), 1)
  BY <1>3 DEF Strings
<1>5. \A s, t, m, n : Fits(s, m) /\ Fits(t, n) => Fits(s \o t, m + n)
  BY FitsJoined, Zenon DEF Cat
<1>6. \A part, s, n : Fits(s, n) => Fits(put(part, s), add(part, n))
  BY <1>2
<1>7. /\ Fits(Text(u.scheme) \o Separator("://"), 1 + 3)
      /\ Fits(Separator(":") \o Text(u.pass), 1 + 1)
      /\ Fits(Separator(":") \o Number(u.port), 1 + PortLength(u.port))
      /\ Fits(Separator("?") \o Text(u.query), 1 + 1)
      /\ Fits(Separator("#") \o Text(u.fragment), 1 + 1)
  BY <1>2, <1>4, <1>5, Zenon
<1> HIDE DEF has
<1> DEFINE secret == put("pass", Separator(":") \o Text(u.pass))
<1>8. Fits(Text(u.user) \o secret \o Separator("@"), 1 + add("pass", 1 + 1) + 1)
  <2>1. Fits(secret, add("pass", 1 + 1))
    BY <1>6, <1>7, Zenon
  <2> HIDE DEF secret
  <2>2. Fits(Text(u.user) \o secret, 1 + add("pass", 1 + 1))
    BY <1>4, <1>5, <2>1, Zenon
  <2> QED
    BY <1>2, <1>5, <2>2, Zenon
<1> HIDE DEF secret
<1>9. PICK p1, p2, p3, p4, p5, p6, p7 :
        /\ p1 = put("scheme", Text(u.scheme) \o Separator("://"))
        /\ p2 = put("user", Text(u.user) \o secret \o Separator("@"))
        /\ p3 = put("host", Text(u.host))
        /\ p4 = put("port", Separator(":") \o Number(u.port))
        /\ p5 = put("path", Text(u.path))
        /\ p6 = put("query", Separator("?") \o Text(u.query))
        /\ p7 = put("fragment", Separator("#") \o Text(u.fragment))
  OBVIOUS
<1>10. PICK n1, n2, n3, n4, n5, n6, n7 :
        /\ n1 = add("scheme", 1 + 3) /\ n2 = add("user", 1 + add("pass", 1 + 1) + 1)
        /\ n3 = add("host", 1) /\ n4 = add("port", 1 + PortLength(u.port))
        /\ n5 = add("path", 1) /\ n6 = add("query", 1 + 1) /\ n7 = add("fragment", 1 + 1)
  OBVIOUS
<1>11. /\ Fits(p1, n1) /\ Fits(p2, n2) /\ Fits(p3, n3) /\ Fits(p4, n4)
       /\ Fits(p5, n5) /\ Fits(p6, n6) /\ Fits(p7, n7)
  <2> HIDE DEF put, add
  <2>1. Fits(p1, n1) /\ Fits(p2, n2)
    BY <1>6, <1>7, <1>8, <1>9, <1>10, Zenon
  <2>2. Fits(p3, n3) /\ Fits(p4, n4)
    BY <1>4, <1>6, <1>7, <1>9, <1>10, Zenon
  <2>3. Fits(p5, n5) /\ Fits(p6, n6) /\ Fits(p7, n7)
    BY <1>4, <1>6, <1>7, <1>9, <1>10, Zenon
  <2> QED
    BY <2>1, <2>2, <2>3
<1>12. Fits(p1 \o p2 \o p3 \o p4 \o p5 \o p6 \o p7, n1 + n2 + n3 + n4 + n5 + n6 + n7)
  <2>1. Fits(p1 \o p2 \o p3, n1 + n2 + n3)
    BY <1>5, <1>11, Zenon
  <2>2. Fits(p1 \o p2 \o p3 \o p4 \o p5, n1 + n2 + n3 + n4 + n5)
    BY <1>5, <1>11, <2>1, Zenon
  <2> QED
    BY <1>5, <1>11, <2>2, Zenon
<1>13. Stringify(u, parts) = p1 \o p2 \o p3 \o p4 \o p5 \o p6 \o p7
  BY <1>9, Zenon DEF Stringify, has, secret
<1>14. Length(u, parts) = n1 + n2 + n3 + n4 + n5 + n6 + n7
  <2>1. PICK d : d = PortLength(u.port)
    OBVIOUS
  <2>2. d \in Nat
    BY <2>1, DigitsCounted
  <2>3. 1 + 3 = 4 /\ 1 + 1 = 2 /\ 1 + 2 + 1 = 4 /\ 1 + 0 + 1 = 2
    OBVIOUS
  <2> QED
    BY <1>10, <2>1, <2>2 DEF Length, has
<1> QED
  BY <1>12, <1>13, <1>14, Zenon DEF Fits

\* The three kinds of token.
Sep(x) == [separator |-> x]
Txt(x) == [text |-> x]
Num(x) == [number |-> x]

\* Each as a text of its own.
LEMMA Singles ==
  ASSUME NEW u
  PROVE  /\ Row(<<>>, 0)
         /\ \A x \in {"://", ":", "@", "?", "#"} :
              Row(Separator(x), 1) /\ Separator(x)[1] = Sep(x)
         /\ \A part \in Strings : Row(Text(u[part]), 1) /\ Text(u[part])[1] = Txt(u[part])
         /\ Row(Number(u.port), 1) /\ Number(u.port)[1] = Num(u.port)
<1>3. \A a : Row(<<a>>, 1) /\ <<a>>[1] = a
  BY RowFacts
<1>4. Row(<<>>, 0)
  BY RowFacts
<1>5. /\ \A x : Separator(x) = <<Sep(x)>>
      /\ \A x : Text(x) = <<Txt(x)>>
      /\ \A x : Number(x) = <<Num(x)>>
  BY Zenon DEF Separator, Text, Number, Sep, Txt, Num
<1> QED
  BY <1>3, <1>4, <1>5, Zenon

\* The h tokens at the start of s are what u has of a scheme and an authority
\* without a port.
Opens(u, s, h) ==
  \/ h = 0 /\ u.host = None
  \/ /\ h = 5 /\ u.host # None /\ u.user # None /\ u.pass = None
     /\ s[1] = Txt(u.scheme) /\ s[2] = Sep("://")
     /\ s[3] = Txt(u.user) /\ s[4] = Sep("@") /\ s[5] = Txt(u.host)
  \/ /\ h = 7 /\ u.host # None /\ u.user # None /\ u.pass # None
     /\ s[1] = Txt(u.scheme) /\ s[2] = Sep("://")
     /\ s[3] = Txt(u.user) /\ s[4] = Sep(":") /\ s[5] = Txt(u.pass)
     /\ s[6] = Sep("@") /\ s[7] = Txt(u.host)

\* What __toString() takes from an object that can be read back.
Regained(u) == Regular(u) /\ (u.host = None \/ u.user # None)

\* The head as it is written: scheme, authority, host.
Put(u, part, seq) == IF u[part] # Absent(part) THEN seq ELSE <<>>
HeadOf(u) ==
  Cat(Cat(Put(u, "scheme", Cat(Text(u.scheme), Separator("://"))),
          Put(u, "user", Cat(Cat(Text(u.user), Put(u, "pass", Cat(Separator(":"), Text(u.pass)))),
                             Separator("@")))),
      Put(u, "host", Text(u.host)))

\* ... and its tokens, one by one.
LEMMA Heads ==
  ASSUME NEW u, Regained(u)
  PROVE  \E h : Row(HeadOf(u), h) /\ Opens(u, HeadOf(u), h)
<1>0. \A s, t, l, m : Row(s, l) /\ Row(t, m) => Joins(Cat(s, t), s, t, l, m)
  BY Joined, Zenon
<1>2. PICK s1, s2, s3, s4, s5, s6, s7 :
        /\ s1 = Text(u.scheme) /\ s2 = Separator("://") /\ s3 = Text(u.user)
        /\ s4 = Separator(":") /\ s5 = Text(u.pass) /\ s6 = Separator("@") /\ s7 = Text(u.host)
  OBVIOUS
<1>3. /\ Row(s1, 1) /\ s1[1] = Txt(u.scheme) /\ Row(s2, 1) /\ s2[1] = Sep("://")
      /\ Row(s3, 1) /\ s3[1] = Txt(u.user) /\ Row(s4, 1) /\ s4[1] = Sep(":")
      /\ Row(s5, 1) /\ s5[1] = Txt(u.pass) /\ Row(s6, 1) /\ s6[1] = Sep("@")
      /\ Row(s7, 1) /\ s7[1] = Txt(u.host) /\ Row(<<>>, 0)
  BY <1>2, Singles DEF Strings
<1>4. /\ \A seq : Put(u, "scheme", seq) = IF u.scheme # None THEN seq ELSE <<>>
      /\ \A seq : Put(u, "user", seq) = IF u.user # None THEN seq ELSE <<>>
      /\ \A seq : Put(u, "pass", seq) = IF u.pass # None THEN seq ELSE <<>>
      /\ \A seq : Put(u, "host", seq) = IF u.host # None THEN seq ELSE <<>>
  BY DEF Put, Absent
<1>5. /\ u.scheme # None <=> u.host # None
      /\ u.host = None => u.user = None
      /\ u.host # None => u.user # None
      /\ u.user = None => u.pass = None
  BY DEF Regained, Regular
<1>6. CASE u.host = None
  <2>1. PICK e : e = <<>> /\ Row(e, 0)
    BY <1>3
  <2>2. HeadOf(u) = Cat(Cat(e, e), e)
    BY <1>4, <1>5, <1>6, <2>1 DEF HeadOf
  <2>3. Row(Cat(e, e), 0)
    <3>1. Joins(Cat(e, e), e, e, 0, 0)
      BY <1>0, <2>1, Zenon
    <3> QED
      BY <3>1 DEF Joins
  <2>4. Row(HeadOf(u), 0)
    <3>1. Joins(Cat(Cat(e, e), e), Cat(e, e), e, 0, 0)
      BY <1>0, <2>1, <2>3, Zenon
    <3> QED
      BY <2>2, <3>1 DEF Joins
  <2> QED
    BY <1>6, <2>4 DEF Opens
<1>7. CASE u.host # None /\ u.pass = None
  <2>1. PICK e : e = <<>> /\ Row(e, 0)
    BY <1>3
  <2>2. PICK a, b, c, d, r : /\ a = Cat(s1, s2) /\ b = Cat(s3, e) /\ c = Cat(b, s6)
                             /\ d = Cat(a, c) /\ r = Cat(d, s7)
    OBVIOUS
  <2>3. HeadOf(u) = r
    BY <1>2, <1>4, <1>5, <1>7, <2>1, <2>2 DEF HeadOf
  <2>4. Row(a, 2) /\ a[1] = s1[1] /\ a[2] = s2[1]
    <3>1. Joins(Cat(s1, s2), s1, s2, 1, 1)
      BY <1>0, <1>3, Zenon
    <3> QED
      BY <2>2, <3>1 DEF Joins
  <2>5. Row(b, 1) /\ b[1] = s3[1]
    <3>1. Joins(Cat(s3, e), s3, e, 1, 0)
      BY <1>0, <1>3, <2>1, Zenon
    <3> QED
      BY <2>2, <3>1 DEF Joins
  <2>6. Row(c, 2) /\ c[1] = s3[1] /\ c[2] = s6[1]
    <3>1. Joins(Cat(b, s6), b, s6, 1, 1)
      BY <1>0, <1>3, <2>5, Zenon
    <3> QED
      BY <2>2, <2>5, <3>1 DEF Joins
  <2>7. Row(d, 4) /\ d[1] = a[1] /\ d[2] = a[2] /\ d[3] = c[1] /\ d[4] = c[2]
    <3>1. Joins(Cat(a, c), a, c, 2, 2)
      BY <1>0, <2>4, <2>6, Zenon
    <3> QED
      BY <2>2, <3>1 DEF Joins
  <2>8. /\ Row(r, 5) /\ r[1] = d[1] /\ r[2] = d[2] /\ r[3] = d[3] /\ r[4] = d[4]
        /\ r[5] = s7[1]
    <3>1. Joins(Cat(d, s7), d, s7, 4, 1)
      BY <1>0, <1>3, <2>7, Zenon
    <3> QED
      BY <2>2, <3>1 DEF Joins
  <2>9. Opens(u, r, 5)
    BY <1>3, <1>5, <1>7, <2>4, <2>6, <2>7, <2>8 DEF Opens
  <2> QED
    BY <2>3, <2>8, <2>9
<1>8. CASE u.host # None /\ u.pass # None
  <2>2. PICK a, p, b, c, d, r :
          /\ a = Cat(s1, s2) /\ p = Cat(s4, s5) /\ b = Cat(s3, p) /\ c = Cat(b, s6)
          /\ d = Cat(a, c) /\ r = Cat(d, s7)
    OBVIOUS
  <2>3. HeadOf(u) = r
    BY <1>2, <1>4, <1>5, <1>8, <2>2 DEF HeadOf
  <2>4. Row(a, 2) /\ a[1] = s1[1] /\ a[2] = s2[1]
    <3>1. Joins(Cat(s1, s2), s1, s2, 1, 1)
      BY <1>0, <1>3, Zenon
    <3> QED
      BY <2>2, <3>1 DEF Joins
  <2>5. Row(p, 2) /\ p[1] = s4[1] /\ p[2] = s5[1]
    <3>1. Joins(Cat(s4, s5), s4, s5, 1, 1)
      BY <1>0, <1>3, Zenon
    <3> QED
      BY <2>2, <3>1 DEF Joins
  <2>6. Row(b, 3) /\ b[1] = s3[1] /\ b[2] = p[1] /\ b[3] = p[2]
    <3>1. Joins(Cat(s3, p), s3, p, 1, 2)
      BY <1>0, <1>3, <2>5, Zenon
    <3> QED
      BY <2>2, <3>1 DEF Joins
  <2>7. Row(c, 4) /\ c[1] = b[1] /\ c[2] = b[2] /\ c[3] = b[3] /\ c[4] = s6[1]
    <3>1. Joins(Cat(b, s6), b, s6, 3, 1)
      BY <1>0, <1>3, <2>6, Zenon
    <3> QED
      BY <2>2, <3>1 DEF Joins
  <2>8. /\ Row(d, 6) /\ d[1] = a[1] /\ d[2] = a[2] /\ d[3] = c[1] /\ d[4] = c[2]
        /\ d[5] = c[3] /\ d[6] = c[4]
    <3>1. Joins(Cat(a, c), a, c, 2, 4)
      BY <1>0, <2>4, <2>7, Zenon
    <3> QED
      BY <2>2, <3>1 DEF Joins
  <2>9. /\ Row(r, 7) /\ r[1] = d[1] /\ r[2] = d[2] /\ r[3] = d[3] /\ r[4] = d[4]
        /\ r[5] = d[5] /\ r[6] = d[6] /\ r[7] = s7[1]
    <3>1. Joins(Cat(d, s7), d, s7, 6, 1)
      BY <1>0, <1>3, <2>8, Zenon
    <3> QED
      BY <2>2, <3>1 DEF Joins
  <2>10. Opens(u, r, 7)
    BY <1>3, <1>5, <1>8, <2>4, <2>5, <2>6, <2>7, <2>8, <2>9 DEF Opens
  <2> QED
    BY <2>3, <2>9, <2>10
<1> QED
  BY <1>6, <1>7, <1>8

\* After the head come the port, the path, the query and the fragment, each
\* where there is one.
Spelled(u, r, h, p, c, q, f) ==
  /\ Opens(u, r, h)
  /\ p = (IF u.port = 0 THEN 0 ELSE 2)
  /\ p = 2 => r[h + 1] = Sep(":") /\ r[h + 2] = Num(u.port)
  /\ c = (IF u.path = None THEN 0 ELSE 1)
  /\ c = 1 => r[h + p + 1] = Txt(u.path)
  /\ q = (IF u.query = None THEN 0 ELSE 2)
  /\ q = 2 => r[h + p + c + 1] = Sep("?") /\ r[h + p + c + 2] = Txt(u.query)
  /\ f = (IF u.fragment = None THEN 0 ELSE 2)
  /\ f = 2 => /\ r[h + p + c + q + 1] = Sep("#")
              /\ r[h + p + c + q + 2] = Txt(u.fragment)

\* Two tokens.
LEMMA Pairs ==
  ASSUME NEW s, NEW t, Row(s, 1), Row(t, 1), NEW r, r = Cat(s, t)
  PROVE  Row(r, 2) /\ r[1] = s[1] /\ r[2] = t[1]
<1>1. Joins(r, s, t, 1, 1)
  BY Joined
<1> QED
  BY <1>1 DEF Joins

\* The text of a URI that can be read back, token by token.
LEMMA Strung ==
  ASSUME NEW u, Regained(u)
  PROVE  \E r, h, p, c, q, f : /\ r = Stringify(u, Parts) /\ Row(r, h + p + c + q + f)
                               /\ h \in Nat /\ Spelled(u, r, h, p, c, q, f)
<1>2. PICK s1, s2, s3, s4, s5, s6, s7 :
        /\ s1 = Separator(":") /\ s2 = Number(u.port) /\ s3 = Text(u.path)
        /\ s4 = Separator("?") /\ s5 = Text(u.query) /\ s6 = Separator("#") /\ s7 = Text(u.fragment)
  OBVIOUS
<1>3. /\ Row(s1, 1) /\ s1[1] = Sep(":") /\ Row(s2, 1) /\ s2[1] = Num(u.port)
      /\ Row(s3, 1) /\ s3[1] = Txt(u.path) /\ Row(s4, 1) /\ s4[1] = Sep("?")
      /\ Row(s5, 1) /\ s5[1] = Txt(u.query) /\ Row(s6, 1) /\ s6[1] = Sep("#")
      /\ Row(s7, 1) /\ s7[1] = Txt(u.fragment) /\ Row(<<>>, 0)
  BY <1>2, Singles DEF Strings
<1>4. PICK h : Row(HeadOf(u), h) /\ Opens(u, HeadOf(u), h)
  BY Heads
<1>5. PICK a, e : a = HeadOf(u) /\ e = <<>>
  OBVIOUS
<1>6. PICK x1, x3, x4 : x1 = Cat(s1, s2) /\ x3 = Cat(s4, s5) /\ x4 = Cat(s6, s7)
  OBVIOUS
<1>7. PICK b1, b2, b3, b4 :
        /\ b1 = (IF u.port # 0 THEN x1 ELSE e) /\ b2 = (IF u.path # None THEN s3 ELSE e)
        /\ b3 = (IF u.query # None THEN x3 ELSE e) /\ b4 = (IF u.fragment # None THEN x4 ELSE e)
  OBVIOUS
<1>8. PICK p, c, q, f :
        /\ p = (IF u.port = 0 THEN 0 ELSE 2) /\ c = (IF u.path = None THEN 0 ELSE 1)
        /\ q = (IF u.query = None THEN 0 ELSE 2) /\ f = (IF u.fragment = None THEN 0 ELSE 2)
  OBVIOUS
<1>9. PICK r1, r2, r3, r : r1 = Cat(a, b1) /\ r2 = Cat(r1, b2) /\ r3 = Cat(r2, b3) /\ r = Cat(r3, b4)
  OBVIOUS
<1>10. Stringify(u, Parts) = r
  <2>1. /\ \A part \in Parts : part \in Present(u) \cap Parts <=> u[part] # Absent(part)
        /\ {"scheme", "user", "pass", "host", "port", "path", "query", "fragment"} \subseteq Parts
    BY DEF Present, Parts, Strings
  <2>2. \A part \in Parts : \A seq :
          Put(u, part, seq) = IF part \in Present(u) \cap Parts THEN seq ELSE <<>>
    BY <2>1 DEF Put
  <2>3. /\ b1 = Put(u, "port", x1) /\ b2 = Put(u, "path", s3)
        /\ b3 = Put(u, "query", x3) /\ b4 = Put(u, "fragment", x4)
    BY <1>5, <1>7 DEF Put, Absent
  <2>4. r = Cat(Cat(Cat(Cat(HeadOf(u),
                            Put(u, "port", Cat(Separator(":"), Number(u.port)))),
                        Put(u, "path", Text(u.path))),
                    Put(u, "query", Cat(Separator("?"), Text(u.query)))),
                Put(u, "fragment", Cat(Separator("#"), Text(u.fragment))))
    BY <1>2, <1>5, <1>6, <1>9, <2>3
  <2> QED
    BY <2>1, <2>2, <2>4, Zenon DEF Stringify, HeadOf, Cat
<1>11. /\ Row(x1, 2) /\ x1[1] = s1[1] /\ x1[2] = s2[1]
       /\ Row(x3, 2) /\ x3[1] = s4[1] /\ x3[2] = s5[1]
       /\ Row(x4, 2) /\ x4[1] = s6[1] /\ x4[2] = s7[1]
  <2>1. \A s, t : Row(s, 1) /\ Row(t, 1) =>
          Row(Cat(s, t), 2) /\ Cat(s, t)[1] = s[1] /\ Cat(s, t)[2] = t[1]
    BY Pairs
  <2> QED
    BY <1>3, <1>6, <2>1
<1>12. Row(b1, p) /\ Row(b2, c) /\ Row(b3, q) /\ Row(b4, f) /\ Row(a, h)
  BY <1>3, <1>4, <1>5, <1>7, <1>8, <1>11
<1>13. h \in Nat /\ p \in Nat /\ c \in Nat /\ q \in Nat /\ f \in Nat
  BY <1>12 DEF Row
<1>14. Joins(r1, a, b1, h, p) /\ Joins(r2, r1, b2, h + p, c)
  <2>1. Joins(Cat(a, b1), a, b1, h, p)
    BY <1>12, Joined
  <2>2. Row(r1, h + p)
    BY <1>9, <2>1 DEF Joins
  <2>3. Joins(Cat(r1, b2), r1, b2, h + p, c)
    BY <1>12, <2>2, Joined
  <2> QED
    BY <1>9, <2>1, <2>3
<1>15. Joins(r3, r2, b3, h + p + c, q) /\ Joins(r, r3, b4, h + p + c + q, f)
  <2>1. Row(r2, h + p + c)
    BY <1>14 DEF Joins
  <2>2. Joins(Cat(r2, b3), r2, b3, h + p + c, q)
    BY <1>12, <2>1, Joined
  <2>3. Row(r3, h + p + c + q)
    BY <1>9, <2>2 DEF Joins
  <2>4. Joins(Cat(r3, b4), r3, b4, h + p + c + q, f)
    BY <1>12, <2>3, Joined
  <2> QED
    BY <1>9, <2>2, <2>4
<1>16. Row(r, h + p + c + q + f)
  BY <1>15 DEF Joins
<1>17. \A k \in 1 .. h : r[k] = a[k]
  BY <1>13, <1>14, <1>15 DEF Joins
<1>18. Opens(u, r, h)
  BY <1>4, <1>5, <1>17 DEF Opens
<1>19. p = 2 => r[h + 1] = Sep(":") /\ r[h + 2] = Num(u.port)
  <2> HAVE p = 2
  <2>1. b1 = x1
    BY <1>7, <1>8
  <2>2. r1[h + 1] = x1[1] /\ r1[h + 2] = x1[2]
    BY <1>14, <2>1 DEF Joins
  <2>3. r[h + 1] = r1[h + 1] /\ r[h + 2] = r1[h + 2]
    BY <1>13, <1>14, <1>15 DEF Joins
  <2> QED
    BY <1>3, <1>11, <2>2, <2>3
<1>20. c = 1 => r[h + p + 1] = Txt(u.path)
  <2> HAVE c = 1
  <2>1. b2 = s3
    BY <1>7, <1>8
  <2>2. r2[h + p + 1] = s3[1]
    BY <1>14, <2>1 DEF Joins
  <2>3. r[h + p + 1] = r2[h + p + 1]
    BY <1>13, <1>15 DEF Joins
  <2> QED
    BY <1>3, <2>2, <2>3
<1>21. q = 2 => r[h + p + c + 1] = Sep("?") /\ r[h + p + c + 2] = Txt(u.query)
  <2> HAVE q = 2
  <2>1. b3 = x3
    BY <1>7, <1>8
  <2>2. r3[h + p + c + 1] = x3[1] /\ r3[h + p + c + 2] = x3[2]
    BY <1>15, <2>1 DEF Joins
  <2>3. r[h + p + c + 1] = r3[h + p + c + 1] /\ r[h + p + c + 2] = r3[h + p + c + 2]
    BY <1>13, <1>15 DEF Joins
  <2> QED
    BY <1>3, <1>11, <2>2, <2>3
<1>22. f = 2 => r[h + p + c + q + 1] = Sep("#") /\ r[h + p + c + q + 2] = Txt(u.fragment)
  <2> HAVE f = 2
  <2>1. b4 = x4
    BY <1>7, <1>8
  <2>2. r[h + p + c + q + 1] = x4[1] /\ r[h + p + c + q + 2] = x4[2]
    BY <1>15, <2>1 DEF Joins
  <2> QED
    BY <1>3, <1>11, <2>2
<1>23. Spelled(u, r, h, p, c, q, f)
  BY <1>8, <1>18, <1>19, <1>20, <1>21, <1>22, Zenon DEF Spelled
<1> QED
  BY <1>10, <1>13, <1>16, <1>23

\* Tokens are told apart by their fields.
IsText(b) == "text" \in DOMAIN b
IsNumber(b) == "number" \in DOMAIN b

\* No token is of two kinds.
LEMMA Kinds ==
  /\ \A x, y : Sep(x) # Txt(y) /\ Sep(x) # Num(y)
  /\ \A x, y : Sep(x) = Sep(y) => x = y
  /\ \A x : IsText(Txt(x)) /\ Txt(x).text = x /\ ~IsNumber(Txt(x))
  /\ \A x : ~IsText(Sep(x)) /\ ~IsNumber(Sep(x))
  /\ \A x : ~IsText(Num(x)) /\ IsNumber(Num(x)) /\ Num(x).number = x
BY DEF IsText, IsNumber, Sep, Txt, Num

\* Where a reader finds the separators and the port.
LEMMA Marks ==
  ASSUME NEW u, NEW r, NEW h \in Nat, NEW p, NEW c, NEW q, NEW f, Spelled(u, r, h, p, c, q, f),
         NEW n, n = h + p + c + q + f, NEW k \in 1 .. n
  PROVE  /\ r[k] = Sep("://") <=> h # 0 /\ k = 2
         /\ r[k] = Sep("@") <=> h # 0 /\ k = h - 1
         /\ r[k] = Sep("?") <=> q = 2 /\ k = h + p + c + 1
         /\ r[k] = Sep("#") <=> f = 2 /\ k = h + p + c + q + 1
         /\ IsNumber(r[k]) <=> p = 2 /\ k = h + 2
<1>1. /\ Sep("://") # Sep("@") /\ Sep("://") # Sep("?") /\ Sep("://") # Sep("#")
      /\ Sep("://") # Sep(":") /\ Sep("@") # Sep("?") /\ Sep("@") # Sep("#") /\ Sep("@") # Sep(":")
      /\ Sep("?") # Sep("#") /\ Sep("?") # Sep(":") /\ Sep("#") # Sep(":")
  BY Kinds
<1>2. /\ \A x, y : Sep(x) # Txt(y) /\ Sep(x) # Num(y)
      /\ \A x : ~IsNumber(Txt(x)) /\ ~IsNumber(Sep(x)) /\ IsNumber(Num(x))
  BY Kinds
<1>3. /\ p \in {0, 2} /\ c \in {0, 1} /\ q \in {0, 2} /\ f \in {0, 2}
  BY DEF Spelled
<1>4. CASE k <= h
  <2>1. /\ r[k] = Sep("://") <=> k = 2
        /\ r[k] = Sep("@") <=> k = h - 1
        /\ r[k] # Sep("?") /\ r[k] # Sep("#") /\ ~IsNumber(r[k])
    <3>1. CASE h = 5
      BY <1>1, <1>2, <1>4, <3>1 DEF Spelled, Opens
    <3>2. CASE h = 7
      BY <1>1, <1>2, <1>4, <3>2 DEF Spelled, Opens
    <3> QED
      BY <1>4, <3>1, <3>2 DEF Spelled, Opens
  <2> QED
    BY <1>3, <1>4, <2>1
<1>5. CASE p = 2 /\ (k = h + 1 \/ k = h + 2)
  <2>1. IF k = h + 1 THEN r[k] = Sep(":") ELSE r[k] = Num(u.port)
    BY <1>5 DEF Spelled
  <2>2. h # 0 => h >= 5
    BY DEF Spelled, Opens
  <2> QED
    BY <1>1, <1>2, <1>3, <1>5, <2>1, <2>2
<1>6. CASE c = 1 /\ k = h + p + 1
  <2>1. r[k] = Txt(u.path)
    BY <1>6 DEF Spelled
  <2>2. h # 0 => h >= 5
    BY DEF Spelled, Opens
  <2> QED
    BY <1>2, <1>3, <1>6, <2>1, <2>2
<1>7. CASE q = 2 /\ (k = h + p + c + 1 \/ k = h + p + c + 2)
  <2>1. IF k = h + p + c + 1 THEN r[k] = Sep("?") ELSE r[k] = Txt(u.query)
    BY <1>7 DEF Spelled
  <2>2. h # 0 => h >= 5
    BY DEF Spelled, Opens
  <2> QED
    BY <1>1, <1>2, <1>3, <1>7, <2>1, <2>2
<1>8. CASE f = 2 /\ (k = h + p + c + q + 1 \/ k = h + p + c + q + 2)
  <2>1. IF k = h + p + c + q + 1 THEN r[k] = Sep("#") ELSE r[k] = Txt(u.fragment)
    BY <1>8 DEF Spelled
  <2>2. h # 0 => h >= 5
    BY DEF Spelled, Opens
  <2> QED
    BY <1>1, <1>2, <1>3, <1>8, <2>1, <2>2
<1> QED
  BY <1>3, <1>4, <1>5, <1>6, <1>7, <1>8

\* parse() finds in the text of a URI all that it was written from.
LEMMA ReadBack ==
  ASSUME NEW u, u = [part \in Parts |-> u[part]], Regained(u)
  PROVE  Parse(Stringify(u, Parts)) = u
<1>1. PICK r, h, p, c, q, f : /\ r = Stringify(u, Parts) /\ Row(r, h + p + c + q + f)
                              /\ h \in Nat /\ Spelled(u, r, h, p, c, q, f)
  BY Strung
<1>2. PICK n : n = h + p + c + q + f
  OBVIOUS
<1>3. /\ p \in {0, 2} /\ c \in {0, 1} /\ q \in {0, 2} /\ f \in {0, 2} /\ h \in {0, 5, 7}
      /\ h \in Nat /\ n \in Nat
  BY <1>1, <1>2 DEF Spelled, Opens
<1>4. DOMAIN r = 1 .. n
  BY <1>1, <1>2 DEF Row
<1>5. \A k \in 1 .. n :
         /\ r[k] = Sep("://") <=> h # 0 /\ k = 2
         /\ r[k] = Sep("@") <=> h # 0 /\ k = h - 1
         /\ r[k] = Sep("?") <=> q = 2 /\ k = h + p + c + 1
         /\ r[k] = Sep("#") <=> f = 2 /\ k = h + p + c + q + 1
         /\ IsNumber(r[k]) <=> p = 2 /\ k = h + 2
  BY <1>1, <1>2, Marks
<1> DEFINE isText(k) == k \in DOMAIN r /\ "text" \in DOMAIN r[k]
           at(x) == {k \in DOMAIN r : r[k] = [separator |-> x]}
           text(k) == IF isText(k) THEN r[k].text ELSE None
           after(x) == IF at(x) = {} THEN None ELSE text(1 + CHOOSE k \in at(x) : TRUE)
           absolute == at("://") # {}
           user == absolute /\ at("@") # {}
           host == IF ~absolute THEN 0 ELSE IF user THEN 1 + CHOOSE k \in at("@") : TRUE ELSE 3
           ports == {k \in DOMAIN r : "number" \in DOMAIN r[k]}
           port == IF ports = {} THEN host ELSE CHOOSE k \in ports : TRUE
<1>6. UrlParse(r) =
        [scheme   |-> IF absolute THEN text(1) ELSE None,
         user     |-> IF user THEN text(3) ELSE None,
         pass     |-> IF user /\ r[4] # [separator |-> "@"] THEN text(5) ELSE None,
         host     |-> text(host),
         port     |-> IF ports = {} THEN 0 ELSE r[port].number,
         path     |-> text(port + 1),
         query    |-> after("?"),
         fragment |-> after("#")]
  BY Zenon DEF UrlParse
<1>7. /\ \A x : at(x) = {k \in 1 .. n : r[k] = Sep(x)}
      /\ ports = {k \in 1 .. n : IsNumber(r[k])}
  BY <1>4, Zenon DEF Sep, IsNumber
<1>8. /\ at("://") = (IF h = 0 THEN {} ELSE {2})
      /\ at("@") = (IF h = 0 THEN {} ELSE {h - 1})
      /\ at("?") = (IF q = 2 THEN {h + p + c + 1} ELSE {})
      /\ at("#") = (IF f = 2 THEN {h + p + c + q + 1} ELSE {})
      /\ ports = (IF p = 2 THEN {h + 2} ELSE {})
  <2> HIDE DEF at, ports
  <2>1. at("://") = (IF h = 0 THEN {} ELSE {2})
    BY <1>2, <1>3, <1>5, <1>7
  <2>2. at("@") = (IF h = 0 THEN {} ELSE {h - 1})
    BY <1>2, <1>3, <1>5, <1>7
  <2>3. at("?") = (IF q = 2 THEN {h + p + c + 1} ELSE {})
    BY <1>2, <1>3, <1>5, <1>7
  <2>4. at("#") = (IF f = 2 THEN {h + p + c + q + 1} ELSE {})
    BY <1>2, <1>3, <1>5, <1>7
  <2>5. ports = (IF p = 2 THEN {h + 2} ELSE {})
    BY <1>2, <1>3, <1>5, <1>7
  <2> QED
    BY <2>1, <2>2, <2>3, <2>4, <2>5
<1>9. /\ \A k, x : k \in 1 .. n /\ r[k] = Txt(x) => text(k) = x
      /\ \A k, x : r[k] = Sep(x) \/ r[k] = Num(x) => text(k) = None
      /\ \A k : k \notin 1 .. n => text(k) = None
  BY <1>4, Kinds, Zenon DEF IsText
<1>10. \A k : (CHOOSE j \in {k} : TRUE) = k
  OBVIOUS
<1>11. /\ absolute = (h # 0) /\ user = (h # 0) /\ host = h
       /\ port = h + p
  <2>1. h - 1 \in Int /\ 1 + (h - 1) = h
    BY <1>3
  <2> HIDE DEF at, ports
  <2>2. absolute = (h # 0) /\ user = (h # 0)
    BY <1>8
  <2>3. host = h
    BY <1>8, <1>10, <2>1, <2>2
  <2>4. port = h + p
    BY <1>3, <1>8, <1>10, <2>3
  <2> QED
    BY <2>2, <2>3, <2>4
<1> HIDE DEF isText, text, absolute, user, host, ports, port
<1>12. /\ u.scheme # None <=> u.host # None
       /\ u.host = None => u.user = None /\ u.port = 0
       /\ u.user = None => u.pass = None
       /\ u.host # None => u.user # None
  BY DEF Regained, Regular
<1>13. /\ (IF absolute THEN text(1) ELSE None) = u.scheme
       /\ (IF user THEN text(3) ELSE None) = u.user
       /\ (IF user /\ r[4] # [separator |-> "@"] THEN text(5) ELSE None) = u.pass
       /\ text(host) = u.host
  <2>1. CASE h = 0
    <3>1. u.host = None
      BY <1>1, <2>1 DEF Spelled, Opens
    <3>2. 0 \notin 1 .. n
      BY <1>3
    <3> QED
      BY <1>9, <1>11, <1>12, <2>1, <3>1, <3>2
  <2>2. CASE h # 0
    <3>1. /\ r[1] = Txt(u.scheme) /\ r[3] = Txt(u.user) /\ r[h] = Txt(u.host)
          /\ IF h = 5 THEN r[4] = Sep("@") /\ u.pass = None ELSE r[4] = Sep(":") /\ r[5] = Txt(u.pass)
      BY <1>1, <2>2 DEF Spelled, Opens
    <3>2. 1 \in 1 .. n /\ 3 \in 1 .. n /\ h \in 1 .. n /\ 5 \in 1 .. n
      BY <1>2, <1>3, <2>2
    <3>3. Sep(":") # Sep("@") /\ [separator |-> "@"] = Sep("@")
      BY Kinds DEF Sep
    <3> QED
      BY <1>9, <1>11, <2>2, <3>1, <3>2, <3>3
  <2> QED
    BY <2>1, <2>2
<1>14. (IF ports = {} THEN 0 ELSE r[port].number) = u.port
  <2>1. Num(u.port).number = u.port
    BY Kinds
  <2> QED
    BY <1>1, <1>3, <1>8, <1>11, <2>1 DEF Spelled
<1>15. text(port + 1) = u.path
  <2>1. CASE c = 1
    <3>1. r[h + p + 1] = Txt(u.path) /\ h + p + 1 \in 1 .. n
      BY <1>1, <1>2, <1>3, <2>1 DEF Spelled
    <3> QED
      BY <1>9, <1>11, <3>1
  <2>2. CASE c = 0
    <3>1. u.path = None
      BY <1>1, <2>2 DEF Spelled
    <3>2. CASE q = 2
      <4>1. r[h + p + 1] = Sep("?")
        BY <1>1, <1>3, <2>2, <3>2 DEF Spelled
      <4> QED
        BY <1>9, <1>11, <3>1, <4>1
    <3>3. CASE q = 0 /\ f = 2
      <4>1. r[h + p + 1] = Sep("#")
        BY <1>1, <1>3, <2>2, <3>3 DEF Spelled
      <4> QED
        BY <1>9, <1>11, <3>1, <4>1
    <3>4. CASE q = 0 /\ f = 0
      <4>1. h + p + 1 \notin 1 .. n
        BY <1>2, <1>3, <2>2, <3>4
      <4> QED
        BY <1>9, <1>11, <3>1, <4>1
    <3> QED
      BY <1>3, <3>2, <3>3, <3>4
  <2> QED
    BY <1>3, <2>1, <2>2
<1>16. after("?") = u.query
  <2> HIDE DEF at
  <2>1. CASE q = 2
    <3>1. r[h + p + c + 2] = Txt(u.query) /\ h + p + c + 2 \in 1 .. n
      BY <1>1, <1>2, <1>3, <2>1 DEF Spelled
    <3>2. 1 + (h + p + c + 1) = h + p + c + 2
      BY <1>3
    <3>3. text(h + p + c + 2) = u.query
      BY <1>9, <3>1
    <3> QED
      BY <1>8, <1>10, <2>1, <3>2, <3>3
  <2>2. CASE q = 0
    BY <1>1, <1>8, <2>2 DEF Spelled
  <2> QED
    BY <1>3, <2>1, <2>2
<1>17. after("#") = u.fragment
  <2> HIDE DEF at
  <2>1. CASE f = 2
    <3>1. r[h + p + c + q + 2] = Txt(u.fragment) /\ h + p + c + q + 2 \in 1 .. n
      BY <1>1, <1>2, <1>3, <2>1 DEF Spelled
    <3>2. 1 + (h + p + c + q + 1) = h + p + c + q + 2
      BY <1>3
    <3>3. text(h + p + c + q + 2) = u.fragment
      BY <1>9, <3>1
    <3> QED
      BY <1>8, <1>10, <2>1, <3>2, <3>3
  <2>2. CASE f = 0
    BY <1>1, <1>8, <2>2 DEF Spelled
  <2> QED
    BY <1>3, <2>1, <2>2
<1> HIDE DEF at, after
<1>18. UrlParse(r) =
        [scheme |-> u.scheme, user |-> u.user, pass |-> u.pass, host |-> u.host,
         port |-> u.port, path |-> u.path, query |-> u.query, fragment |-> u.fragment]
  BY <1>6, <1>13, <1>14, <1>15, <1>16, <1>17
<1>19. UrlParse(r) = u
  BY <1>18 DEF Parts, Strings
<1>20. [u EXCEPT !.host = u.host] = u
  BY DEF Parts, Strings
<1>21. Parse(r) = [u EXCEPT !.host = IF u.user = None THEN None ELSE u.host]
  BY <1>19, Zenon DEF Parse
<1>22. (IF u.user = None THEN None ELSE u.host) = u.host
  BY <1>12
<1> QED
  BY <1>1, <1>20, <1>21, <1>22

-----------------------------------------------------------------------------
\* What is stored is what was asked for, but for the width of the port.
UriInv ==
  /\ wanted = [part \in Parts |-> wanted[part]] /\ wanted.port \in Nat
  /\ uri = [part \in Parts |-> Stored(part, wanted[part])]

\* A port that an unsigned short holds is stored as it is.
LEMMA Kept ==
  ASSUME NEW w, w = [part \in Parts |-> w[part]], w.port \in Nat, w.port < PortRange
  PROVE  w = [part \in Parts |-> Stored(part, w[part])]
<1>1. \A part \in Parts : Stored(part, w[part]) = w[part]
  BY DEF Stored, PortRange
<1> QED
  BY <1>1

\* factory() and parse() begin with what was asked for.
LEMMA UriInitial == ~Anonymous /\ UriInit => UriInv
<1> SUFFICES ASSUME ~Anonymous, NEW u \in Options, Factory(u) \/ (Regular(u) /\ ParseString(u))
             PROVE  UriInv
  BY DEF UriInit
<1>1. u = [part \in Parts |-> u[part]] /\ u.port \in Nat
  BY PortsAssumption DEF Options, Parts
<1>2. CASE Factory(u)
  BY <1>1, <1>2 DEF Factory, UriInv
<1>3. CASE Regular(u) /\ ParseString(u)
  <2>1. Regained(u) /\ u.port < PortRange
    BY <1>3 DEF Regained, Regular, ParseString
  <2>2. uri = u /\ wanted = u
    BY <1>1, <1>3, <2>1, ReadBack DEF ParseString
  <2>3. u = [part \in Parts |-> Stored(part, u[part])]
    BY <1>1, <2>1, Kept
  <2> QED
    BY <1>1, <2>2, <2>3 DEF UriInv
<1> QED
  BY <1>2, <1>3

\* The with*() methods change what was asked for, and nothing else.
LEMMA UriKeeps == UriInv /\ [UriNext]_uriVars => UriInv'
<1> SUFFICES ASSUME UriInv, [UriNext]_uriVars
             PROVE  UriInv'
  OBVIOUS
<1>1. PICK u, w : u = uri /\ w = wanted
  OBVIOUS
<1>2. /\ w = [part \in Parts |-> w[part]] /\ w.port \in Nat
      /\ u = [part \in Parts |-> Stored(part, w[part])]
  BY <1>1 DEF UriInv
<1>3. Clone(u) = u
  BY <1>2 DEF Clone
<1>4. ASSUME NEW part \in Strings, NEW x, WithText(part, x)
      PROVE  UriInv'
  <2>1. /\ uri' = [u EXCEPT ![part] = x]
        /\ wanted' = [w EXCEPT ![part] = x]
    BY <1>1, <1>3, <1>4 DEF WithText, Step
  <2>2. /\ wanted' = [other \in Parts |-> wanted'[other]] /\ wanted'.port \in Nat
    BY <1>2, <2>1 DEF Parts, Strings
  <2>3. uri' = [other \in Parts |-> Stored(other, wanted'[other])]
    BY <1>2, <2>1 DEF Stored, Parts, Strings
  <2> QED
    BY <2>2, <2>3 DEF UriInv
<1>7. ASSUME NEW x \in Ports, WithPort(x)
      PROVE  UriInv'
  <2>1. /\ uri' = [u EXCEPT !.port = x % PortRange]
        /\ wanted' = [w EXCEPT !.port = x]
    BY <1>1, <1>3, <1>7 DEF WithPort, Step
  <2>2. /\ wanted' = [other \in Parts |-> wanted'[other]] /\ wanted'.port \in Nat
    BY <1>2, <2>1, PortsAssumption DEF Parts
  <2>3. uri' = [other \in Parts |-> Stored(other, wanted'[other])]
    BY <1>2, <2>1 DEF Stored
  <2> QED
    BY <2>2, <2>3 DEF UriInv
<1>5. ASSUME NEW name \in Texts["user"], NEW pass \in Texts["pass"] \cup {None},
             WithUserInfo(name, pass)
      PROVE  UriInv'
  <2>1. /\ uri' = [u EXCEPT !.user = name, !.pass = IF pass = None THEN @ ELSE pass]
        /\ wanted' = [w EXCEPT !.user = name, !.pass = IF pass = None THEN @ ELSE pass]
    BY <1>1, <1>3, <1>5 DEF WithUserInfo, Step
  <2>2. /\ wanted' = [other \in Parts |-> wanted'[other]] /\ wanted'.port \in Nat
    BY <1>2, <2>1 DEF Parts
  <2>3. uri' = [other \in Parts |-> Stored(other, wanted'[other])]
    BY <1>2, <2>1 DEF Stored, Parts, Strings
  <2> QED
    BY <2>2, <2>3 DEF UriInv
<1>6. CASE UNCHANGED uriVars
  BY <1>6 DEF uriVars, UriInv
<1>8. ASSUME NEW x, WithScheme(x) \/ WithHost(x) \/ WithPath(x) \/ WithQuery(x) \/ WithFragment(x)
      PROVE  UriInv'
  BY <1>4, <1>8 DEF WithScheme, WithHost, WithPath, WithQuery, WithFragment, Strings
<1> QED
  BY <1>5, <1>6, <1>7, <1>8 DEF UriNext

\* Three texts one after the other, with nothing before and behind them.
Enclosed(x, y, z) ==
  <<>> \o x \o y \o z \o <<>> \o <<>> \o <<>> = x \o (<<>> \o <<>> \o y \o z \o <<>> \o <<>> \o <<>>)
LEMMA Between ==
  ASSUME NEW T, NEW x, x \in Seq(T), NEW y, y \in Seq(T), NEW z, z \in Seq(T)
  PROVE  Enclosed(x, y, z)
<1>1. <<>> \in Seq(T) /\ \A r \in Seq(T) : <<>> \o r = r /\ r \o <<>> = r
  BY ConcatEmptySeq
<1>2. \A r, t \in Seq(T) : r \o t \in Seq(T)
  BY ConcatProperties
<1>3. PICK v, w : v = x \o y /\ w = y \o z /\ v \in Seq(T) /\ w \in Seq(T)
  BY <1>2
<1>4. v \o z \in Seq(T) /\ v \o z = x \o w
  BY <1>2, <1>3, ConcatAssociative
<1>5. <<>> \o x \o y \o z \o <<>> \o <<>> \o <<>> = v \o z
  <2>1. <<>> \o x \o y \o z = v \o z
    BY <1>1, <1>3
  <2> QED
    BY <1>1, <1>4, <2>1
<1>6. <<>> \o <<>> \o y \o z \o <<>> \o <<>> \o <<>> = w
  <2>1. <<>> \o <<>> \o y \o z = w
    BY <1>1, <1>3
  <2> QED
    BY <1>1, <1>3, <2>1
<1> QED
  BY <1>4, <1>5, <1>6 DEF Enclosed

\* The authority begins with the user info, which another function prints.
LEMMA Authority ==
  ASSUME NEW u, u = [part \in Parts |-> u[part]], u.host # None
  PROVE  GetAuthority(u) = (IF u.user = None THEN <<>> ELSE GetUserInfo(u) \o Separator("@"))
                             \o Stringify(u, {"host", "port"})
<1> DEFINE T == {[separator |-> "@"], [separator |-> ":"], [text |-> u.user], [text |-> u.pass],
                 [text |-> u.host], [number |-> u.port]}
<1>1. PICK i : i = IF u.user = None THEN <<>> ELSE GetUserInfo(u) \o Separator("@")
  OBVIOUS
<1>2. PICK y, z : y = Text(u.host) /\ z = IF u.port # 0 THEN Separator(":") \o Number(u.port) ELSE <<>>
  OBVIOUS
<1>3. /\ <<>> \in Seq(T) /\ Separator("@") \in Seq(T) /\ Separator(":") \in Seq(T) /\ Text(u.user) \in Seq(T)
      /\ Text(u.pass) \in Seq(T) /\ Text(u.host) \in Seq(T) /\ Number(u.port) \in Seq(T)
  BY DEF Separator, Text, Number
<1>4. \A r, t \in Seq(T) : r \o t \in Seq(T)
  BY ConcatProperties
<1>5. PICK k : k = IF u.pass = None THEN <<>> ELSE Separator(":") \o Text(u.pass)
  OBVIOUS
<1>6. i = IF u.user = None THEN <<>> ELSE Text(u.user) \o k \o Separator("@")
  BY <1>1, <1>5 DEF GetUserInfo
<1> HIDE DEF T
<1>7. i \in Seq(T) /\ y \in Seq(T) /\ z \in Seq(T)
  <2>1. k \in Seq(T)
    BY <1>3, <1>4, <1>5
  <2>2. i \in Seq(T)
    BY <1>3, <1>4, <1>6, <2>1
  <2>3. y \in Seq(T) /\ z \in Seq(T)
    BY <1>2, <1>3, <1>4
  <2> QED
    BY <2>2, <2>3
<1>8. GetAuthority(u) = <<>> \o i \o y \o z \o <<>> \o <<>> \o <<>>
  <2>1. PICK has : has = Present(u) \cap {"user", "pass", "host", "port"}
    OBVIOUS
  <2>2. /\ "scheme" \notin has /\ "path" \notin has /\ "query" \notin has /\ "fragment" \notin has
        /\ "host" \in has /\ ("user" \in has <=> u.user # None) /\ ("pass" \in has <=> u.pass # None)
        /\ ("port" \in has <=> u.port # 0)
    BY <2>1 DEF Present, Absent, Parts, Strings
  <2>3. GetAuthority(u) = Stringify(u, {"user", "pass", "host", "port"})
    BY DEF GetAuthority
  <2> QED
    BY <1>2, <1>5, <1>6, <2>1, <2>2, <2>3 DEF Stringify
<1>9. Stringify(u, {"host", "port"}) = <<>> \o <<>> \o y \o z \o <<>> \o <<>> \o <<>>
  <2>1. PICK has : has = Present(u) \cap {"host", "port"}
    OBVIOUS
  <2>2. /\ "scheme" \notin has /\ "path" \notin has /\ "query" \notin has /\ "fragment" \notin has
        /\ "user" \notin has /\ "host" \in has /\ ("port" \in has <=> u.port # 0)
    BY <2>1 DEF Present, Absent, Parts, Strings
  <2> QED
    BY <1>2, <2>1, <2>2 DEF Stringify
<1>10. <<>> \o i \o y \o z \o <<>> \o <<>> \o <<>> = i \o (<<>> \o <<>> \o y \o z \o <<>> \o <<>> \o <<>>)
  <2>1. Enclosed(i, y, z)
    BY <1>7, Between
  <2> QED
    BY <2>1, Zenon DEF Enclosed
<1>11. GetAuthority(u) = i \o Stringify(u, {"host", "port"})
  BY <1>8, <1>9, <1>10, Zenon
<1> QED
  BY <1>1, <1>11, Zenon

\* So the buffer is filled and the text can be read back.
LEMMA UriPrints == UriInv => UriReadBack
<1> SUFFICES ASSUME UriInv
             PROVE  UriReadBack
  OBVIOUS
<1>1. PICK u, w : u = uri /\ w = wanted
  OBVIOUS
<1>2. /\ w = [part \in Parts |-> w[part]] /\ w.port \in Nat
      /\ u = [part \in Parts |-> Stored(part, w[part])]
  BY <1>1 DEF UriInv
<1>3. u.port \in 0 .. PortRange - 1
  <2>1. PICK y, z : y = w.port /\ z = u.port
    OBVIOUS
  <2>2. z = y % 65536
    BY <1>2, <2>1 DEF Stored, Parts, PortRange
  <2>3. y \in Nat
    BY <1>2, <2>1
  <2>4. z \in 0 .. PortRange - 1
    <3>1. y % 65536 \in 0 .. 65535
      BY <2>3
    <3>2. z \in Nat /\ z <= 65535
      BY <2>2, <2>3, <3>1
    <3>3. PortRange - 1 = 65535
      BY DEF PortRange
    <3> QED
      BY <3>2, <3>3
  <2> QED
    BY <2>1, <2>4, Zenon
<1>4. \A parts : Length(u, parts) = Written(Stringify(u, parts))
  BY <1>3, Lengths
<1>5. ASSUME Regular(w), w.host = None \/ w.user # None
      PROVE  Parse(Stringify(u, Parts)) = w
  <2>1. Regained(w) /\ w.port < PortRange
    BY <1>5 DEF Regained, Regular
  <2>2. u = w
    BY <1>2, <2>1, Kept
  <2> QED
    BY <1>2, <2>1, <2>2, ReadBack
<1>6. u.host # None => GetAuthority(u) = (IF u.user = None THEN <<>> ELSE GetUserInfo(u) \o Separator("@"))
                                         \o Stringify(u, {"host", "port"})
  <2>1. u = [part \in Parts |-> u[part]]
    BY <1>2
  <2> QED
    BY <2>1, Authority
<1> QED
  BY <1>1, <1>4, <1>5, <1>6 DEF UriReadBack

\* The buffer of __toString() is filled exactly and parse() gives back the parts
\* of the URI, for any texts and ports and any number of with*() calls, unless
\* parse() is given a host without a user.
THEOREM Printed == ~Anonymous => (UriSpec => []UriReadBack)
<1>1. ~Anonymous /\ UriInit => UriInv
  BY UriInitial
<1>2. UriInv /\ [UriNext]_uriVars => UriInv'
  BY UriKeeps
<1>3. UriInv => UriReadBack
  BY UriPrints
<1> QED
  BY <1>1, <1>2, <1>3, PTL DEF UriSpec
-----------------------------------------------------------------------------
(***************************************************************************)
(* Sequences of sequences.                                                 *)
(***************************************************************************)
\* f[k] is the first k sequences of s, one after the other.
Flat(f, s, n, T) ==
  /\ n \in Nat /\ f \in [0 .. n -> Seq(T)] /\ f[0] = <<>>
  /\ \A k \in 1 .. n : f[k] = Cat(f[k - 1], s[k])

\* Concatenation of sequences over one set.
LEMMA Catted ==
  /\ \A T : \A x, y \in Seq(T) : Cat(x, y) \in Seq(T) /\ Len(Cat(x, y)) = Len(x) + Len(y)
  /\ \A T : \A x \in Seq(T) : Cat(<<>>, x) = x /\ Cat(x, <<>>) = x
  /\ \A T : \A x, y, z \in Seq(T) : Cat(Cat(x, y), z) = Cat(x, Cat(y, z))
<1>1. ASSUME NEW T, NEW x \in Seq(T), NEW y \in Seq(T)
      PROVE  Cat(x, y) \in Seq(T) /\ Len(Cat(x, y)) = Len(x) + Len(y)
  BY ConcatProperties DEF Cat
<1>2. ASSUME NEW T, NEW x \in Seq(T)
      PROVE  Cat(<<>>, x) = x /\ Cat(x, <<>>) = x
  BY ConcatEmptySeq DEF Cat
<1>3. ASSUME NEW T, NEW x \in Seq(T), NEW y \in Seq(T), NEW z \in Seq(T)
      PROVE  Cat(Cat(x, y), z) = Cat(x, Cat(y, z))
  BY ConcatAssociative DEF Cat
<1> QED
  BY <1>1, <1>2, <1>3

\* FlattenSeq is what that recursion gives.
LEMMA FlatIs ==
  ASSUME NEW T, NEW s \in Seq(Seq(T)), NEW n, n = Len(s), NEW g, Flat(g, s, n, T)
  PROVE  FlattenSeq(s) = g[n]
<1>1. n \in Nat /\ g[0] = <<>> /\ \A k \in 1 .. n : g[k] = Cat(g[k - 1], s[k]) /\ s[k] \in Seq(T)
  BY DEF Flat
<1>2. CASE n = 0
  <2>1. s = <<>>
    BY <1>2, EmptySeq
  <2>2. FlattenSeq(s) = s
    BY <1>2, Zenon DEF FlattenSeq
  <2> QED
    BY <1>1, <1>2, <2>1, <2>2
<1>3. CASE n # 0
  <2> DEFINE Is(h) == h = [i \in 1 .. Len(s) |-> IF i = 1 THEN s[i] ELSE h[i - 1] \o s[i]]
  <2>1. FlattenSeq(s) = (CHOOSE h : Is(h))[Len(s)]
    BY <1>3, Zenon DEF FlattenSeq
  <2>2. PICK e : e = [i \in 1 .. n |-> g[i]]
    OBVIOUS
  <2>3. g[1] = s[1]
    <3>1. g[1] = Cat(g[0], s[1]) /\ s[1] \in Seq(T)
      BY <1>1, <1>3
    <3> QED
      BY <1>1, <3>1, Catted
  <2>4. Is(e)
    <3>1. \A i \in 1 .. n : i # 1 => i - 1 \in 1 .. n
      BY <1>1
    <3>2. \A i \in 1 .. n : g[i] = IF i = 1 THEN s[i] ELSE Cat(g[i - 1], s[i])
      BY <1>1, <2>3
    <3>3. \A i \in 1 .. n : e[i] = g[i] /\ (i # 1 => e[i - 1] = g[i - 1])
      BY <2>2, <3>1
    <3>4. \A i \in 1 .. n : g[i] = IF i = 1 THEN s[i] ELSE e[i - 1] \o s[i]
      BY <3>2, <3>3, Zenon DEF Cat
    <3>5. [i \in 1 .. n |-> g[i]] = [i \in 1 .. n |-> IF i = 1 THEN s[i] ELSE e[i - 1] \o s[i]]
      BY <3>4, Zenon
    <3> QED
      BY <2>2, <3>5, Zenon
  <2>5. PICK h : Is(h) /\ FlattenSeq(s) = h[n]
    <3> HIDE DEF Is
    <3>1. Is(CHOOSE h : Is(h))
      BY <2>4
    <3> QED
      BY <2>1, <3>1
  <2>6. h[1] = s[1] /\ \A i \in 2 .. n : h[i] = Cat(h[i - 1], s[i])
    <3>1. \A i \in 1 .. n : h[i] = IF i = 1 THEN s[i] ELSE h[i - 1] \o s[i]
      BY <2>5, Zenon
    <3>2. 1 \in 1 .. n /\ \A i \in 2 .. n : i \in 1 .. n /\ i # 1
      BY <1>1, <1>3
    <3> QED
      BY <3>1, <3>2, Zenon DEF Cat
  <2> HIDE DEF Is
  <2>7. PICK a, b : a = [k \in 0 .. n - 1 |-> h[k + 1]] /\ b = [k \in 0 .. n - 1 |-> g[k + 1]]
    OBVIOUS
  <2>8. Follows(a, b, n - 1)
    <3>1. n - 1 \in Nat /\ a[0] = b[0]
      BY <1>1, <1>3, <2>3, <2>6, <2>7
    <3>2. ASSUME NEW k \in 1 .. n - 1, a[k - 1] = b[k - 1]
          PROVE  a[k] = b[k]
      <4>1. k + 1 \in 2 .. n /\ k + 1 \in 1 .. n /\ (k + 1) - 1 = k /\ k \in 0 .. n - 1
            /\ k - 1 \in 0 .. n - 1 /\ (k - 1) + 1 = k
        BY <1>1, <1>3
      <4>2. h[k + 1] = Cat(h[k], s[k + 1]) /\ g[k + 1] = Cat(g[k], s[k + 1])
        BY <1>1, <2>6, <4>1
      <4>3. a[k - 1] = h[k] /\ b[k - 1] = g[k] /\ a[k] = h[k + 1] /\ b[k] = g[k + 1]
        BY <2>7, <4>1
      <4> QED
        BY <3>2, <4>2, <4>3
    <3> QED
      BY <3>1, <3>2 DEF Follows
  <2>9. a[n - 1] = b[n - 1]
    BY <1>1, <1>3, <2>8, RecursionUnique DEF Agree
  <2> QED
    BY <1>1, <1>3, <2>5, <2>7, <2>9
<1> QED
  BY <1>2, <1>3

\* There is one for every sequence.
LEMMA Flattens ==
  ASSUME NEW T, NEW s \in Seq(Seq(T)), NEW n, n = Len(s)
  PROVE  \E f : Flat(f, s, n, T) /\ FlattenSeq(s) = f[n]
<1>1. n \in Nat /\ \A k \in 1 .. n : s[k] \in Seq(T)
  OBVIOUS
<1>2. PICK step : step = [k \in 1 .. n |-> [x \in Seq(T) |-> Cat(x, s[k])]]
  OBVIOUS
<1>3. /\ \A k \in 1 .. n : step[k] \in [Seq(T) -> Seq(T)]
      /\ \A k \in 1 .. n : \A x \in Seq(T) : step[k][x] = Cat(x, s[k])
  BY <1>1, <1>2, Catted
<1>4. PICK f : Recursion(f, Seq(T), <<>>, step, n)
  <2>1. Steps(step, Seq(T), n)
    BY <1>1, <1>3 DEF Steps
  <2>2. <<>> \in Seq(T)
    OBVIOUS
  <2> QED
    BY <2>1, <2>2, RecursionExists
<1>5. Flat(f, s, n, T)
  <2>0. \A k \in 1 .. n : k - 1 \in 0 .. n
    BY <1>1
  <2>1. \A k \in 1 .. n : f[k - 1] \in Seq(T)
    BY <1>4, <2>0 DEF Recursion
  <2>2. \A k \in 1 .. n : f[k] = Cat(f[k - 1], s[k])
    BY <1>3, <1>4, <2>1 DEF Recursion
  <2> QED
    BY <1>1, <1>4, <2>2 DEF Recursion, Flat
<1> QED
  BY <1>5, FlatIs

\* The sequences of none and of one.
LEMMA FlatFew ==
  ASSUME NEW T
  PROVE  /\ FlattenSeq(<<>>) = <<>>
         /\ \A s \in Seq(Seq(T)) : FlattenSeq(s) \in Seq(T)
         /\ \A x \in Seq(T) : FlattenSeq(<<x>>) = x
<1>1. FlattenSeq(<<>>) = <<>>
  <2>1. Len(<<>>) = 0
    OBVIOUS
  <2> QED
    BY <2>1, Zenon DEF FlattenSeq
<1>2. ASSUME NEW s \in Seq(Seq(T))
      PROVE  FlattenSeq(s) \in Seq(T)
  <2>1. PICK n : n = Len(s) /\ n \in Nat
    OBVIOUS
  <2>2. PICK f : Flat(f, s, n, T) /\ FlattenSeq(s) = f[n]
    BY <2>1, Flattens
  <2> QED
    BY <2>1, <2>2 DEF Flat
<1>3. ASSUME NEW x \in Seq(T)
      PROVE  FlattenSeq(<<x>>) = x
  <2>0. <<x>> \in Seq(Seq(T)) /\ Len(<<x>>) = 1 /\ <<x>>[1] = x
    OBVIOUS
  <2>1. PICK s : s = <<x>> /\ s[1] = x /\ s \in Seq(Seq(T)) /\ Len(s) = 1
    BY <2>0
  <2>2. PICK f : Flat(f, s, 1, T) /\ FlattenSeq(s) = f[1]
    BY <2>1, Flattens
  <2>3. f[1] = Cat(<<>>, x)
    BY <2>1, <2>2 DEF Flat
  <2> QED
    BY <2>1, <2>2, <2>3, Catted
<1> QED
  BY <1>1, <1>2, <1>3

\* Flattening two lists of sequences, one after the other.
LEMMA FlatJoined ==
  ASSUME NEW T, NEW s \in Seq(Seq(T)), NEW t \in Seq(Seq(T))
  PROVE  FlattenSeq(Cat(s, t)) = Cat(FlattenSeq(s), FlattenSeq(t))
<1>0. PICK l, m : l = Len(s) /\ m = Len(t)
  OBVIOUS
<1>1. l = Len(s) /\ m = Len(t) /\ l \in Nat /\ m \in Nat
  BY <1>0
<1>2. PICK f, g : /\ Flat(f, s, l, T) /\ FlattenSeq(s) = f[l]
                  /\ Flat(g, t, m, T) /\ FlattenSeq(t) = g[m]
  BY <1>1, Flattens
<1>3. PICK r : r = Cat(s, t) /\ r \in Seq(Seq(T)) /\ Len(r) = l + m
  BY <1>1, Catted
<1>4. (\A k \in 1 .. l : r[k] = s[k]) /\ \A k \in 1 .. m : r[l + k] = t[k]
  <2>1. Row(s, l) /\ Row(t, m)
    BY <1>1, RowFacts
  <2>2. Joins(r, s, t, l, m)
    BY <1>3, <2>1, Joined
  <2> QED
    BY <2>2 DEF Joins
<1>5. PICK h : h = [k \in 0 .. l + m |-> IF k <= l THEN f[k] ELSE Cat(f[l], g[k - l])]
  OBVIOUS
<1>6. /\ \A k \in 0 .. l : f[k] \in Seq(T) /\ h[k] = f[k]
      /\ \A k \in 0 .. m : g[k] \in Seq(T) /\ h[l + k] = Cat(f[l], g[k])
  <2>1. /\ \A k \in 0 .. l : f[k] \in Seq(T) /\ h[k] = f[k]
        /\ \A k \in 0 .. m : g[k] \in Seq(T)
    <3>1. f \in [0 .. l -> Seq(T)] /\ g \in [0 .. m -> Seq(T)]
      BY <1>2 DEF Flat
    <3>2. \A k \in 0 .. l : k \in 0 .. l + m /\ k <= l
      BY <1>1
    <3>3. \A k \in 0 .. l : h[k] = f[k]
      BY <1>5, <3>2
    <3> QED
      BY <3>1, <3>3
  <2>2. Cat(f[l], g[0]) = f[l]
    <3>1. l \in 0 .. l /\ g[0] = <<>>
      BY <1>1, <1>2 DEF Flat
    <3>2. f[l] \in Seq(T)
      BY <2>1, <3>1
    <3> QED
      BY <3>1, <3>2, Catted
  <2>3. ASSUME NEW k \in 0 .. m
        PROVE  h[l + k] = Cat(f[l], g[k])
    <3>1. CASE k = 0
      BY <1>1, <2>1, <2>2, <3>1
    <3>2. CASE k # 0
      <4>1. l + k \in 0 .. l + m /\ ~(l + k <= l) /\ (l + k) - l = k
        BY <1>1, <3>2
      <4> QED
        BY <1>5, <4>1
    <3> QED
      BY <3>1, <3>2
  <2> QED
    BY <2>1, <2>3
<1>7. \A k \in 0 .. l + m : h[k] \in Seq(T)
  <2>1. \A k \in 0 .. m : Cat(f[l], g[k]) \in Seq(T)
    <3>1. f[l] \in Seq(T) /\ \A k \in 0 .. m : g[k] \in Seq(T)
      BY <1>1, <1>6
    <3> QED
      BY <3>1, Catted, Zenon
  <2>2. \A k \in 0 .. l + m : k \in 0 .. l \/ (k - l \in 0 .. m /\ l + (k - l) = k)
    BY <1>1
  <2> QED
    BY <1>6, <2>1, <2>2
<1>8. ASSUME NEW k \in 1 .. l + m
      PROVE  h[k] = Cat(h[k - 1], r[k])
  <2>1. CASE k <= l
    <3>1. k \in 1 .. l /\ k - 1 \in 0 .. l /\ k \in 0 .. l
      BY <1>1, <2>1
    <3>2. f[k] = Cat(f[k - 1], s[k])
      BY <1>2, <3>1 DEF Flat
    <3> QED
      BY <1>4, <1>6, <3>1, <3>2
  <2>2. CASE k > l
    <3>1. PICK j : j = k - l
      OBVIOUS
    <3>2. j \in 1 .. m /\ j \in 0 .. m /\ j - 1 \in 0 .. m /\ l + j = k /\ l + (j - 1) = k - 1
      BY <1>1, <2>2, <3>1
    <3>3. g[j] = Cat(g[j - 1], t[j]) /\ t[j] \in Seq(T)
      BY <1>1, <1>2, <3>2 DEF Flat
    <3>4. PICK x, y, z : x = f[l] /\ y = g[j - 1] /\ z = t[j]
      OBVIOUS
    <3>5. x \in Seq(T) /\ y \in Seq(T) /\ z \in Seq(T)
      BY <1>1, <1>6, <3>2, <3>3, <3>4
    <3>6. Cat(Cat(x, y), z) = Cat(x, Cat(y, z))
      BY <3>5, Catted
    <3>7. h[k] = Cat(x, g[j]) /\ h[k - 1] = Cat(x, y) /\ r[k] = z
      BY <1>4, <1>6, <3>2, <3>4
    <3> QED
      BY <3>3, <3>4, <3>6, <3>7
  <2> QED
    BY <1>1, <2>1, <2>2
<1>9. Flat(h, r, l + m, T)
  <2>1. h[0] = <<>> /\ l + m \in Nat
    BY <1>1, <1>2, <1>6 DEF Flat
  <2>2. h \in [0 .. l + m -> Seq(T)]
    BY <1>5, <1>7
  <2> QED
    BY <1>8, <2>1, <2>2 DEF Flat
<1>10. FlattenSeq(r) = h[l + m] /\ h[l + m] = Cat(f[l], g[m])
  BY <1>1, <1>3, <1>6, <1>9, FlatIs
<1> QED
  BY <1>2, <1>3, <1>10
-----------------------------------------------------------------------------
(***************************************************************************)
(* Headers: the list and the table it stands for.                          *)
(***************************************************************************)
\* What is kept of a header.
Header == [name : Names, values : Seq(Seq(Atoms))]

\* No name comes twice.
Distinct(h) ==
  h \in Seq(Header) /\ \A j, k \in 1 .. Len(h) : h[j].name = h[k].name => j = k

\* The names, what each stands for, and what there was before something is added.
Listed(h) == {h[k].name : k \in 1 .. Len(h)}
Table(h) == [n \in Listed(h) |-> FlattenSeq(h[Find(h, n)].values)]
Prior(h, name) == IF name \in Listed(h) THEN Table(h)[name] ELSE <<>>

\* Find gives a place of the name, or 0 when there is none.
LEMMA Finds ==
  ASSUME NEW h, Len(h) \in Nat, NEW name
  PROVE  \/ Find(h, name) = 0 /\ \A k \in 1 .. Len(h) : h[k].name # name
         \/ Find(h, name) \in 1 .. Len(h) /\ h[Find(h, name)].name = name
<1> DEFINE I == {k \in 1 .. Len(h) : h[k].name = name}
<1>1. Find(h, name) = IF I # {} THEN Min(I) ELSE 0
  BY Zenon DEF Find, SelectInSeq
<1>2. CASE I = {}
  BY <1>1, <1>2
<1>3. CASE I # {}
  <2>1. I \subseteq Nat
    OBVIOUS
  <2>2. PICK m \in I : \A k \in I : m <= k
    <3> HIDE DEF I
    <3> QED
      BY <1>3, <2>1, LeastOf
  <2>3. Min(I) \in I
    <3> HIDE DEF I
    <3> QED
      BY <2>2, Zenon DEF Min
  <2> QED
    BY <1>1, <1>3, <2>3
<1> QED
  BY <1>2, <1>3

\* The fields of the headers.
LEMMA HeaderFacts ==
  ASSUME NEW h \in Seq(Header)
  PROVE  /\ Len(h) \in Nat /\ DOMAIN h = 1 .. Len(h)
         /\ \A k \in 1 .. Len(h) :
              /\ h[k] \in Header /\ h[k].name \in Names /\ h[k].values \in Seq(Seq(Atoms))
              /\ h[k] = [name |-> h[k].name, values |-> h[k].values]
<1>1. Len(h) \in Nat /\ DOMAIN h = 1 .. Len(h) /\ \A k \in 1 .. Len(h) : h[k] \in Header
  OBVIOUS
<1>2. \A x \in Header : /\ x.name \in Names /\ x.values \in Seq(Seq(Atoms))
                        /\ x = [name |-> x.name, values |-> x.values]
  BY DEF Header
<1> QED
  BY <1>1, <1>2

\* The table by places.
LEMMA TableFacts ==
  ASSUME NEW h, Distinct(h)
  PROVE  /\ \A k \in 1 .. Len(h) : /\ h[k].name \in Listed(h) /\ Find(h, h[k].name) = k
                                   /\ Table(h)[h[k].name] = FlattenSeq(h[k].values)
         /\ DOMAIN Table(h) = Listed(h) /\ Listed(h) \subseteq Names
         /\ \A n \in Listed(h) : Table(h)[n] \in Seq(Atoms)
         /\ \A n : Find(h, n) = 0 <=> n \notin Listed(h)
<1>0. h \in Seq(Header) /\ \A j, k \in 1 .. Len(h) : h[j].name = h[k].name => j = k
  BY DEF Distinct
<1>1. /\ Len(h) \in Nat
      /\ \A k \in 1 .. Len(h) : h[k].name \in Names /\ h[k].values \in Seq(Seq(Atoms))
  BY <1>0, HeaderFacts
<1>2. \A n : \/ Find(h, n) = 0 /\ \A k \in 1 .. Len(h) : h[k].name # n
             \/ Find(h, n) \in 1 .. Len(h) /\ h[Find(h, n)].name = n
  BY <1>1, Finds
<1>3. \A k \in 1 .. Len(h) : h[k].name \in Listed(h) /\ Find(h, h[k].name) = k
  BY <1>0, <1>2 DEF Listed
<1>4. \A k \in 1 .. Len(h) : Table(h)[h[k].name] = FlattenSeq(h[k].values)
  BY <1>3, Zenon DEF Table
<1>5. DOMAIN Table(h) = Listed(h) /\ Listed(h) \subseteq Names
  BY <1>1 DEF Table, Listed
<1>6. ASSUME NEW n \in Listed(h)
      PROVE  Table(h)[n] \in Seq(Atoms)
  <2>1. PICK k \in 1 .. Len(h) : n = h[k].name
    BY DEF Listed
  <2> QED
    BY <1>1, <1>4, <2>1, FlatFew
<1>7. \A n : Find(h, n) = 0 <=> n \notin Listed(h)
  <2>1. 0 \notin 1 .. Len(h)
    BY <1>1
  <2> QED
    BY <1>2, <2>1, Zenon DEF Listed
<1> QED
  BY <1>3, <1>4, <1>5, <1>6, <1>7

\* F is the table of h, place by place.
IsTable(F, h) ==
  F = [n \in Listed(h) |-> F[n]] /\ \A k \in 1 .. Len(h) : F[h[k].name] = FlattenSeq(h[k].values)

\* r is h but for the header of that name.
Gains(r, h, name, list) ==
  /\ Distinct(r) /\ Listed(r) = Listed(h) \cup {name}
  /\ Table(r) = [n \in Listed(h) \cup {name} |-> IF n = name THEN list ELSE Table(h)[n]]
Loses(r, h, name) ==
  /\ Distinct(r) /\ Listed(r) = Listed(h) \ {name}
  /\ Table(r) = [n \in Listed(h) \ {name} |-> Table(h)[n]]

\* One function is.
LEMMA TableIs ==
  ASSUME NEW h, Distinct(h), NEW F, IsTable(F, h)
  PROVE  Table(h) = F
<1>0. F = [n \in Listed(h) |-> F[n]] /\ \A k \in 1 .. Len(h) : F[h[k].name] = FlattenSeq(h[k].values)
  BY DEF IsTable
<1>1. \A n \in Listed(h) : Table(h)[n] = F[n]
  <2> SUFFICES ASSUME NEW n \in Listed(h)
               PROVE  Table(h)[n] = F[n]
    OBVIOUS
  <2>1. PICK k \in 1 .. Len(h) : n = h[k].name
    BY DEF Listed
  <2> QED
    BY <1>0, <2>1, TableFacts
<1>2. Table(h) = [n \in Listed(h) |-> Table(h)[n]]
  BY DEF Table
<1> QED
  BY <1>0, <1>1, <1>2

\* A header that was not there comes last.
LEMMA Appends ==
  ASSUME NEW h, Distinct(h), NEW name, name \in Names, name \notin Listed(h),
         NEW values, values \in Seq(Seq(Atoms))
  PROVE  Gains(Append(h, [name |-> name, values |-> values]), h, name, FlattenSeq(values))
<1>0. PICK r : r = Append(h, [name |-> name, values |-> values])
  OBVIOUS
<1>1. PICK l, x : l = Len(h) /\ x = [name |-> name, values |-> values]
  OBVIOUS
<1>2. x \in Header /\ x.name = name /\ x.values = values
  BY <1>1 DEF Header
<1>3. h \in Seq(Header) /\ l \in Nat /\ \A j, k \in 1 .. l : h[j].name = h[k].name => j = k
  BY <1>1 DEF Distinct
<1>4. /\ r \in Seq(Header) /\ Len(r) = l + 1 /\ r[l + 1] = x
      /\ \A k \in 1 .. l : r[k] = h[k]
  BY <1>0, <1>1, <1>2, <1>3
<1>5. \A k \in 1 .. l + 1 : k \in 1 .. l \/ k = l + 1
  BY <1>3
<1>6. \A k \in 1 .. l : h[k].name # name /\ h[k].name \in Listed(h)
  BY <1>1 DEF Listed
<1>7. Distinct(r)
  BY <1>2, <1>3, <1>4, <1>5, <1>6 DEF Distinct
<1>8. Listed(r) = Listed(h) \cup {name}
  <2>1. \A k \in 1 .. l : k \in 1 .. l + 1
    BY <1>3
  <2>2. l + 1 \in 1 .. l + 1
    BY <1>3
  <2> QED
    BY <1>1, <1>2, <1>4, <1>5, <2>1, <2>2 DEF Listed
<1>9. PICK F : F = [n \in Listed(h) \cup {name} |-> IF n = name THEN FlattenSeq(values) ELSE Table(h)[n]]
  OBVIOUS
<1>10. F = [n \in Listed(r) |-> F[n]]
  BY <1>8, <1>9
<1>11. \A k \in 1 .. Len(r) : F[r[k].name] = FlattenSeq(r[k].values)
  <2>1. F[name] = FlattenSeq(values)
    BY <1>9
  <2>2. \A k \in 1 .. l : F[h[k].name] = FlattenSeq(h[k].values)
    <3>1. \A k \in 1 .. l : Table(h)[h[k].name] = FlattenSeq(h[k].values)
      BY <1>1, TableFacts
    <3> QED
      BY <1>6, <1>9, <3>1
  <2> QED
    BY <1>2, <1>4, <1>5, <2>1, <2>2
<1>12. Table(r) = F
  <2>1. IsTable(F, r)
    BY <1>10, <1>11, Zenon DEF IsTable
  <2> QED
    BY <1>7, <2>1, TableIs
<1> QED
  BY <1>0, <1>7, <1>8, <1>9, <1>12 DEF Gains

\* More values for a header that is there.
LEMMA Extends ==
  ASSUME NEW h, Distinct(h), NEW i, i \in 1 .. Len(h), NEW name, name = h[i].name,
         NEW values, values \in Seq(Seq(Atoms))
  PROVE  Gains([h EXCEPT ![i].values = Cat(@, values)], h, name,
               Cat(Table(h)[name], FlattenSeq(values)))
<1>0. PICK r : r = [h EXCEPT ![i].values = Cat(@, values)]
  OBVIOUS
<1>1. PICK l, x : l = Len(h) /\ x = [h[i] EXCEPT !.values = Cat(h[i].values, values)]
  OBVIOUS
<1>2. h \in Seq(Header) /\ l \in Nat /\ \A j, k \in 1 .. l : h[j].name = h[k].name => j = k
  BY <1>1 DEF Distinct
<1>3. /\ DOMAIN h = 1 .. l
      /\ \A k \in 1 .. l : h[k] \in Header /\ h[k].name \in Names /\ h[k].values \in Seq(Seq(Atoms))
      /\ h[i] = [name |-> h[i].name, values |-> h[i].values]
  BY <1>1, <1>2, HeaderFacts
<1>4. Cat(h[i].values, values) \in Seq(Seq(Atoms))
  BY <1>1, <1>3, Catted
<1>5. x \in Header /\ x.name = name /\ x.values = Cat(h[i].values, values)
  <2>1. x = [name |-> h[i].name, values |-> Cat(h[i].values, values)]
    BY <1>1, <1>3
  <2> QED
    BY <1>1, <1>3, <1>4, <2>1 DEF Header
<1>6. r = [h EXCEPT ![i] = x]
  BY <1>0, <1>1
<1>7. r \in Seq(Header) /\ Len(r) = l /\ \A k \in 1 .. l : r[k] = IF k = i THEN x ELSE h[k]
  BY <1>1, <1>2, <1>5, <1>6, ExceptSeq
<1>8. \A k \in 1 .. l : r[k].name = h[k].name
  BY <1>5, <1>7
<1>9. Distinct(r) /\ Listed(r) = Listed(h)
  <2>1. Distinct(r)
    BY <1>2, <1>7, <1>8 DEF Distinct
  <2>2. Listed(r) = Listed(h)
    BY <1>1, <1>7, <1>8 DEF Listed
  <2> QED
    BY <2>1, <2>2
<1>10. PICK F : F = [n \in Listed(h) |-> IF n = name THEN Cat(Table(h)[n], FlattenSeq(values))
                                         ELSE Table(h)[n]]
  OBVIOUS
<1>11. F = [n \in Listed(r) |-> F[n]]
  BY <1>9, <1>10
<1>12. ASSUME NEW k \in 1 .. l
       PROVE  F[r[k].name] = FlattenSeq(r[k].values)
  <2>1. h[k].name \in Listed(h) /\ Table(h)[h[k].name] = FlattenSeq(h[k].values)
    BY <1>1, TableFacts
  <2>2. CASE k = i
    <3>1. F[name] = Cat(Table(h)[name], FlattenSeq(values))
      BY <1>10, <2>1, <2>2
    <3>2. FlattenSeq(Cat(h[i].values, values)) = Cat(FlattenSeq(h[i].values), FlattenSeq(values))
      BY <1>1, <1>3, FlatJoined
    <3> QED
      BY <1>5, <1>7, <2>1, <2>2, <3>1, <3>2
  <2>3. CASE k # i
    <3>1. h[k].name # name
      BY <1>1, <1>2, <2>3
    <3> QED
      BY <1>7, <1>10, <2>1, <2>3, <3>1
  <2> QED
    BY <2>2, <2>3
<1>13. Table(r) = F
  <2>1. \A k \in 1 .. Len(r) : F[r[k].name] = FlattenSeq(r[k].values)
    BY <1>7, <1>12
  <2>2. IsTable(F, r)
    BY <1>11, <2>1, Zenon DEF IsTable
  <2> QED
    BY <1>9, <2>2, TableIs
<1>14. name \in Listed(h) /\ Listed(h) \cup {name} = Listed(h)
  BY DEF Listed
<1>15. F = [n \in Listed(h) \cup {name} |->
              IF n = name THEN Cat(Table(h)[name], FlattenSeq(values)) ELSE Table(h)[n]]
  BY <1>10, <1>14
<1> QED
  BY <1>0, <1>9, <1>13, <1>14, <1>15 DEF Gains

\* withAddedHeader(), and the callback of the parser.
LEMMA Added ==
  ASSUME NEW h, Distinct(h), NEW name, name \in Names, NEW values, values \in Seq(Seq(Atoms))
  PROVE  Gains(WithAdded(h, name, values), h, name, Cat(Prior(h, name), FlattenSeq(values)))
<1>1. Len(h) \in Nat /\ FlattenSeq(values) \in Seq(Atoms)
  BY FlatFew DEF Distinct
<1>2. CASE Find(h, name) = 0
  <2>1. name \notin Listed(h)
    BY <1>2, TableFacts
  <2>2. Cat(Prior(h, name), FlattenSeq(values)) = FlattenSeq(values)
    BY <1>1, <2>1, Catted DEF Prior
  <2>3. Gains(Append(h, [name |-> name, values |-> values]), h, name, FlattenSeq(values))
    BY <2>1, Appends
  <2>4. WithAdded(h, name, values) = Append(h, [name |-> name, values |-> values])
    BY <1>2 DEF WithAdded
  <2> QED
    BY <2>2, <2>3, <2>4
<1>3. CASE Find(h, name) # 0
  <2>1. PICK i : i = Find(h, name)
    OBVIOUS
  <2>2. i \in 1 .. Len(h) /\ name = h[i].name
    BY <1>1, <1>3, <2>1, Finds
  <2>3. WithAdded(h, name, values) = [h EXCEPT ![i].values = Cat(@, values)]
    BY <1>3, <2>1 DEF WithAdded, Cat
  <2>4. Prior(h, name) = Table(h)[name]
    BY <2>2 DEF Prior, Listed
  <2>5. Gains([h EXCEPT ![i].values = Cat(@, values)], h, name,
              Cat(Table(h)[name], FlattenSeq(values)))
    BY <2>2, Extends
  <2> QED
    BY <2>3, <2>4, <2>5
<1> QED
  BY <1>2, <1>3

\* withoutHeader()
LEMMA Deleted ==
  ASSUME NEW h, Distinct(h), NEW name
  PROVE  Loses(Delete(h, name), h, name)
<1>9. PICK r : r = Delete(h, name)
  OBVIOUS
<1>0. PICK l : l = Len(h)
  OBVIOUS
<1>1. h \in Seq(Header) /\ l \in Nat /\ \A j, k \in 1 .. l : h[j].name = h[k].name => j = k
  BY <1>0 DEF Distinct
<1>2. \A k \in 1 .. l : /\ h[k].name \in Listed(h)
                        /\ Table(h)[h[k].name] = FlattenSeq(h[k].values)
  BY <1>0, TableFacts
<1>3. CASE Find(h, name) = 0
  <2>1. name \notin Listed(h) /\ r = h
    BY <1>3, <1>9, TableFacts DEF Delete
  <2>2. Listed(h) \ {name} = Listed(h)
    BY <2>1
  <2>3. Table(h) = [n \in Listed(h) |-> Table(h)[n]]
    BY DEF Table
  <2> QED
    BY <1>9, <2>1, <2>2, <2>3 DEF Loses
<1>4. CASE Find(h, name) # 0
  <2>1. PICK i : i = Find(h, name)
    OBVIOUS
  <2>2. i \in 1 .. l /\ h[i].name = name
    BY <1>0, <1>1, <1>4, <2>1, Finds
  <2>3. PICK s, t : s = SubSeq(h, 1, i - 1) /\ t = SubSeq(h, i + 1, l)
    OBVIOUS
  <2>4. r = Cat(s, t)
    BY <1>0, <1>4, <1>9, <2>1, <2>3 DEF Delete, RemoveAt, Cat
  <2>5. s \in Seq(Header) /\ Len(s) = i - 1 /\ \A k \in 1 .. i - 1 : s[k] = h[k]
    <3>1. 1 \in Int /\ i - 1 \in Int /\ \A k \in 1 .. i - 1 : h[k] \in Header
      BY <1>0, <1>1, <2>2
    <3> QED
      BY <2>2, <2>3, <3>1, SubSeqProperties
  <2>6. t \in Seq(Header) /\ Len(t) = l - i /\ \A k \in 1 .. l - i : t[k] = h[i + k]
    <3>1. i + 1 \in Int /\ l \in Int /\ \A k \in i + 1 .. l : h[k] \in Header
      BY <1>0, <1>1, <2>2
    <3>2. /\ t \in Seq(Header) /\ Len(t) = (IF i + 1 <= l THEN l - (i + 1) + 1 ELSE 0)
          /\ \A k \in 1 .. l - (i + 1) + 1 : t[k] = h[(i + 1) + k - 1]
      BY <2>3, <3>1, SubSeqProperties
    <3>3. l - (i + 1) + 1 = l - i /\ \A k \in 1 .. l - i : (i + 1) + k - 1 = i + k
      BY <1>1, <2>2
    <3> QED
      BY <1>1, <2>2, <3>2, <3>3
  <2>7. Joins(r, s, t, i - 1, l - i) /\ r \in Seq(Header) /\ Len(r) = l - 1
    <3>1. Row(s, i - 1) /\ Row(t, l - i)
      BY <2>5, <2>6, RowFacts
    <3>2. Joins(r, s, t, i - 1, l - i)
      BY <2>4, <3>1, Joined
    <3>3. r \in Seq(Header) /\ Len(r) = Len(s) + Len(t)
      <4>1. Cat(s, t) \in Seq(Header) /\ Len(Cat(s, t)) = Len(s) + Len(t)
        BY <2>5, <2>6, Catted, Zenon
      <4> QED
        BY <2>4, <4>1, Zenon
    <3> QED
      BY <1>1, <2>2, <2>5, <2>6, <3>2, <3>3
  <2>8. \A k \in 1 .. l - 1 : r[k] = IF k < i THEN h[k] ELSE h[k + 1]
    <3> SUFFICES ASSUME NEW k \in 1 .. l - 1
                 PROVE  r[k] = IF k < i THEN h[k] ELSE h[k + 1]
      OBVIOUS
    <3>1. CASE k < i
      <4>1. k \in 1 .. i - 1
        BY <2>2, <3>1
      <4> QED
        BY <2>5, <2>7, <3>1, <4>1 DEF Joins
    <3>2. CASE ~(k < i)
      <4>1. PICK j : j = k - (i - 1)
        OBVIOUS
      <4>2. j \in 1 .. l - i /\ (i - 1) + j = k /\ i + j = k + 1
        BY <1>1, <2>2, <3>2, <4>1
      <4>3. r[(i - 1) + j] = t[j] /\ t[j] = h[i + j]
        BY <2>6, <2>7, <4>2 DEF Joins
      <4> QED
        BY <3>2, <4>2, <4>3
    <3> QED
      BY <3>1, <3>2
  <2>9. PICK at : at = [k \in 1 .. l - 1 |-> IF k < i THEN k ELSE k + 1]
    OBVIOUS
  <2>10. /\ \A k \in 1 .. l - 1 : at[k] \in 1 .. l /\ at[k] # i /\ r[k] = h[at[k]]
         /\ \A j, k \in 1 .. l - 1 : at[j] = at[k] => j = k
         /\ \A j \in 1 .. l : j # i => \E k \in 1 .. l - 1 : at[k] = j
    <3>1. \A k \in 1 .. l - 1 : at[k] \in 1 .. l /\ at[k] # i /\ r[k] = h[at[k]]
      BY <1>1, <2>2, <2>8, <2>9
    <3>2. \A j, k \in 1 .. l - 1 : at[j] = at[k] => j = k
      BY <1>1, <2>2, <2>9
    <3>3. ASSUME NEW j \in 1 .. l, j # i
          PROVE  \E k \in 1 .. l - 1 : at[k] = j
      <4>1. CASE j < i
        <5>1. j \in 1 .. l - 1 /\ at[j] = j
          BY <1>1, <2>2, <2>9, <4>1
        <5> QED
          BY <5>1
      <4>2. CASE j > i
        <5>1. j - 1 \in 1 .. l - 1 /\ ~(j - 1 < i) /\ (j - 1) + 1 = j
          BY <1>1, <2>2, <4>2
        <5>2. at[j - 1] = j
          BY <2>9, <5>1
        <5> QED
          BY <5>1, <5>2
      <4> QED
        BY <1>1, <2>2, <3>3, <4>1, <4>2
    <3> QED
      BY <3>1, <3>2, <3>3
  <2>11. Distinct(r)
    <3>1. \A j, k \in 1 .. l - 1 : r[j].name = r[k].name => j = k
      <4> SUFFICES ASSUME NEW j \in 1 .. l - 1, NEW k \in 1 .. l - 1, r[j].name = r[k].name
                   PROVE  j = k
        OBVIOUS
      <4>1. at[j] \in 1 .. l /\ at[k] \in 1 .. l /\ r[j] = h[at[j]] /\ r[k] = h[at[k]]
        BY <2>10
      <4>2. at[j] = at[k]
        BY <1>1, <4>1
      <4> QED
        BY <2>10, <4>2
    <3> QED
      BY <2>7, <3>1 DEF Distinct
  <2>12. \A k \in 1 .. l : h[k].name = name <=> k = i
    BY <1>1, <2>2
  <2>13. Listed(r) = Listed(h) \ {name}
    <3>1. \A n \in Listed(r) : n \in Listed(h) \ {name}
      BY <1>0, <2>7, <2>10, <2>12 DEF Listed
    <3>2. ASSUME NEW n \in Listed(h) \ {name}
          PROVE  n \in Listed(r)
      <4>1. PICK j \in 1 .. l : n = h[j].name
        BY <1>0 DEF Listed
      <4>2. PICK k \in 1 .. l - 1 : at[k] = j
        BY <2>10, <2>12, <4>1
      <4> QED
        BY <2>7, <2>10, <4>1, <4>2 DEF Listed
    <3> QED
      BY <3>1, <3>2
  <2>14. PICK F : F = [n \in Listed(h) \ {name} |-> Table(h)[n]]
    OBVIOUS
  <2>15. F = [n \in Listed(r) |-> F[n]]
    BY <2>13, <2>14
  <2>16. \A k \in 1 .. Len(r) : F[r[k].name] = FlattenSeq(r[k].values)
    BY <1>2, <2>7, <2>10, <2>12, <2>14
  <2>17. Table(r) = F
    <3>1. IsTable(F, r)
      BY <2>15, <2>16, Zenon DEF IsTable
    <3> QED
      BY <2>11, <3>1, TableIs
  <2> QED
    BY <1>9, <2>11, <2>13, <2>14, <2>17 DEF Loses
<1> QED
  BY <1>3, <1>4

\* withHeader()
LEMMA Replaced ==
  ASSUME NEW h, Distinct(h), NEW name, name \in Names, NEW values, values \in Seq(Seq(Atoms))
  PROVE  Gains(WithOnly(h, name, values), h, name, FlattenSeq(values))
<1>1. PICK d : d = Delete(h, name)
  OBVIOUS
<1>2. Distinct(d) /\ Listed(d) = Listed(h) \ {name} /\ Table(d) = [n \in Listed(h) \ {name} |-> Table(h)[n]]
  BY <1>1, Deleted DEF Loses
<1>3. name \notin Listed(d) /\ Listed(d) \cup {name} = Listed(h) \cup {name}
  BY <1>2
<1>4. PICK r : r = WithOnly(h, name, values)
  OBVIOUS
<1>5. r = Append(d, [name |-> name, values |-> values])
  BY <1>1, <1>4 DEF WithOnly
<1>6. /\ Distinct(r) /\ Listed(r) = Listed(d) \cup {name}
      /\ Table(r) = [n \in Listed(d) \cup {name} |-> IF n = name THEN FlattenSeq(values) ELSE Table(d)[n]]
  <2>1. Gains(Append(d, [name |-> name, values |-> values]), d, name, FlattenSeq(values))
    BY <1>2, <1>3, Appends
  <2> QED
    BY <1>5, <2>1 DEF Gains
<1>7. \A n \in Listed(h) \cup {name} :
        (IF n = name THEN FlattenSeq(values) ELSE Table(d)[n])
          = IF n = name THEN FlattenSeq(values) ELSE Table(h)[n]
  BY <1>2
<1> QED
  BY <1>3, <1>4, <1>6, <1>7 DEF Gains
-----------------------------------------------------------------------------
(***************************************************************************)
(* The callbacks of the parser.                                            *)
(***************************************************************************)
\* What the callbacks have kept.
Halfway(name, value, headers, body) == [name |-> name, value |-> value, headers |-> headers, body |-> body]
\* Lists of headers as they are kept, and what is kept between two callbacks.
HeaderLists == {h \in Seq(Header) : Distinct(h)}
Reading == [name : Names \cup {None}, value : Seq(Atoms), headers : HeaderLists, body : Seq(Seq(Atoms))]

\* A token the callbacks can take.
Legible(x) ==
  /\ x.kind = "header" => Lower[x.of] \in Names
  /\ x.kind \in {"value", "body"} => x.of \in Seq(Atoms)
Legibles(t) == Row(t, Len(t)) /\ \A k \in 1 .. Len(t) : Legible(t[k])

\* The fields of it,
LEMMA ReadingParts ==
  ASSUME NEW r, r \in Reading
  PROVE  /\ r = Halfway(r.name, r.value, r.headers, r.body)
         /\ r.name \in Names \cup {None} /\ r.value \in Seq(Atoms)
         /\ Distinct(r.headers) /\ r.body \in Seq(Seq(Atoms))
BY DEF Reading, Halfway, HeaderLists

\* ... how it is made,
LEMMA ReadingMade ==
  ASSUME NEW n, n \in Names \cup {None}, NEW v, v \in Seq(Atoms), NEW h, Distinct(h),
         NEW b, b \in Seq(Seq(Atoms))
  PROVE  Halfway(n, v, h, b) \in Reading
<1>1. h \in HeaderLists
  BY DEF HeaderLists, Distinct
<1> QED
  BY <1>1 DEF Reading, Halfway

\* ... and that these are its fields.
LEMMA ReadingFields ==
  \A n, v, h, b : /\ Halfway(n, v, h, b).name = n /\ Halfway(n, v, h, b).value = v
                  /\ Halfway(n, v, h, b).headers = h /\ Halfway(n, v, h, b).body = b
BY DEF Halfway

\* A sequence of one.
One(v) == <<v>>

\* What each callback does.
LEMMA Called ==
  ASSUME NEW n, NEW v, NEW h, NEW b, NEW x
  PROVE  /\ x.kind = "header" => Callback(Halfway(n, v, h, b), x) = Halfway(Lower[x.of], <<>>, h, b)
         /\ x.kind = "value" => Callback(Halfway(n, v, h, b), x) = Halfway(n, Cat(v, x.of), h, b)
         /\ x.kind = "body" => Callback(Halfway(n, v, h, b), x) = Halfway(n, v, h, Buffering(b, x.of))
         /\ x.kind = "CRLF" /\ n # None =>
              Callback(Halfway(n, v, h, b), x) = Halfway(None, v, WithAdded(h, n, One(v)), b)
         /\ x.kind \notin {"header", "value", "body"} /\ (x.kind # "CRLF" \/ n = None) =>
              Callback(Halfway(n, v, h, b), x) = Halfway(n, v, h, b)
<1>0. PICK r : r = Halfway(n, v, h, b)
  OBVIOUS
<1>1. r.name = n /\ r.value = v /\ r.headers = h /\ r.body = b
  BY <1>0 DEF Halfway
<1>2. /\ [r EXCEPT !.name = Lower[x.of], !.value = <<>>] = Halfway(Lower[x.of], <<>>, h, b)
      /\ [r EXCEPT !.value = r.value \o x.of] = Halfway(n, Cat(v, x.of), h, b)
      /\ [r EXCEPT !.body = Buffering(r.body, x.of)] = Halfway(n, v, h, Buffering(b, x.of))
      /\ [r EXCEPT !.name = None, !.headers = WithAdded(r.headers, r.name, <<r.value>>)]
           = Halfway(None, v, WithAdded(h, n, One(v)), b)
  <2>1. ASSUME NEW y, NEW z
        PROVE  [r EXCEPT !.name = y, !.value = z] = Halfway(y, z, h, b)
    <3>1. PICK p : p = [r EXCEPT !.name = y]
      OBVIOUS
    <3>2. p = Halfway(y, v, h, b)
      BY <1>0, <3>1 DEF Halfway
    <3>3. [p EXCEPT !.value = z] = Halfway(y, z, h, b)
      BY <3>2 DEF Halfway
    <3> QED
      BY <3>1, <3>3
  <2>2. \A y : [r EXCEPT !.value = y] = Halfway(n, y, h, b)
    BY <1>0 DEF Halfway
  <2>3. \A y : [r EXCEPT !.body = y] = Halfway(n, v, h, y)
    BY <1>0 DEF Halfway
  <2>4. ASSUME NEW y, NEW z
        PROVE  [r EXCEPT !.name = y, !.headers = z] = Halfway(y, v, z, b)
    <3>1. PICK p : p = [r EXCEPT !.name = y]
      OBVIOUS
    <3>2. p = Halfway(y, v, h, b)
      BY <1>0, <3>1 DEF Halfway
    <3>3. [p EXCEPT !.headers = z] = Halfway(y, v, z, b)
      BY <3>2 DEF Halfway
    <3> QED
      BY <3>1, <3>3
  <2>5. r.value \o x.of = Cat(v, x.of)
    BY <1>1 DEF Cat
  <2>6. WithAdded(r.headers, r.name, <<r.value>>) = WithAdded(h, n, One(v))
    BY <1>1 DEF One
  <2>7. [r EXCEPT !.value = r.value \o x.of] = Halfway(n, Cat(v, x.of), h, b)
    BY <2>2, <2>5
  <2>8. [r EXCEPT !.body = Buffering(r.body, x.of)] = Halfway(n, v, h, Buffering(b, x.of))
    BY <1>1, <2>3
  <2>9. [r EXCEPT !.name = None, !.headers = WithAdded(r.headers, r.name, <<r.value>>)]
           = Halfway(None, v, WithAdded(h, n, One(v)), b)
    BY <2>4, <2>6
  <2> QED
    BY <2>1, <2>7, <2>8, <2>9
<1>3. x.kind = "header" => Callback(r, x) = Halfway(Lower[x.of], <<>>, h, b)
  BY <1>2 DEF Callback
<1>4. x.kind = "value" => Callback(r, x) = Halfway(n, Cat(v, x.of), h, b)
  BY <1>2 DEF Callback
<1>5. x.kind = "body" => Callback(r, x) = Halfway(n, v, h, Buffering(b, x.of))
  BY <1>2 DEF Callback
<1>6. x.kind = "CRLF" /\ n # None => Callback(r, x) = Halfway(None, v, WithAdded(h, n, One(v)), b)
  BY <1>1, <1>2 DEF Callback
<1>7. x.kind \notin {"header", "value", "body"} /\ (x.kind # "CRLF" \/ n = None) => Callback(r, x) = r
  BY <1>1 DEF Callback
<1> QED
  BY <1>0, <1>3, <1>4, <1>5, <1>6, <1>7

\* A callback keeps a reading a reading.
LEMMA CallbackTyped ==
  ASSUME NEW r \in Reading, NEW x, Legible(x)
  PROVE  Callback(r, x) \in Reading
<1>1. PICK n, v, h, b : r = Halfway(n, v, h, b) /\ n = r.name /\ v = r.value /\ h = r.headers /\ b = r.body
  <2>1. r = Halfway(r.name, r.value, r.headers, r.body)
    BY ReadingParts
  <2> QED
    BY <2>1
<1>2. n \in Names \cup {None} /\ v \in Seq(Atoms) /\ Distinct(h) /\ b \in Seq(Seq(Atoms))
  BY <1>1, ReadingParts
<1>3. <<>> \in Seq(Atoms)
  OBVIOUS
<1>4. CASE x.kind = "header"
  <2>1. Callback(r, x) = Halfway(Lower[x.of], <<>>, h, b)
    <3>1. Callback(Halfway(n, v, h, b), x) = Halfway(Lower[x.of], <<>>, h, b)
      BY <1>4, Called
    <3> QED
      BY <1>1, <3>1
  <2>2. Lower[x.of] \in Names \cup {None}
    BY <1>4 DEF Legible
  <2>3. Halfway(Lower[x.of], <<>>, h, b) \in Reading
    BY <1>2, <1>3, <2>2, ReadingMade
  <2> QED
    BY <2>1, <2>3, Zenon
<1>5. CASE x.kind = "value"
  <2>0. Callback(r, x) = Halfway(n, Cat(v, x.of), h, b)
    <3>1. Callback(Halfway(n, v, h, b), x) = Halfway(n, Cat(v, x.of), h, b)
      BY <1>5, Called
    <3> QED
      BY <1>1, <3>1
  <2>1. Callback(r, x) = Halfway(n, Cat(v, x.of), h, b) /\ x.of \in Seq(Atoms)
    BY <1>5, <2>0 DEF Legible
  <2>2. Cat(v, x.of) \in Seq(Atoms)
    BY <1>2, <2>1, Catted
  <2> QED
    BY <1>2, <2>1, <2>2, ReadingMade
<1>6. CASE x.kind = "body"
  <2>0. Callback(r, x) = Halfway(n, v, h, Buffering(b, x.of))
    <3>1. Callback(Halfway(n, v, h, b), x) = Halfway(n, v, h, Buffering(b, x.of))
      BY <1>6, Called
    <3> QED
      BY <1>1, <3>1
  <2>1. Callback(r, x) = Halfway(n, v, h, Buffering(b, x.of)) /\ x.of \in Seq(Atoms)
    BY <1>6, <2>0 DEF Legible
  <2>2. Buffering(b, x.of) \in Seq(Seq(Atoms))
    <3>1. CASE b = <<>>
      BY <2>1, <3>1 DEF Buffering
    <3>2. CASE b # <<>>
      <4>1. b[1] \in Seq(Atoms)
        BY <1>2, <3>2
      <4>2. Cat(b[1], x.of) \in Seq(Atoms)
        BY <2>1, <4>1, Catted
      <4>3. Buffering(b, x.of) = <<Cat(b[1], x.of)>>
        BY <3>2 DEF Buffering, Cat
      <4> QED
        BY <4>2, <4>3
    <3> QED
      BY <3>1, <3>2
  <2> QED
    BY <1>2, <2>1, <2>2, ReadingMade
<1>7. CASE x.kind = "CRLF" /\ n # None
  <2>1. Callback(r, x) = Halfway(None, v, WithAdded(h, n, One(v)), b)
    <3>1. Callback(Halfway(n, v, h, b), x) = Halfway(None, v, WithAdded(h, n, One(v)), b)
      BY <1>7, Called
    <3> QED
      BY <1>1, <3>1
  <2>2. n \in Names /\ One(v) \in Seq(Seq(Atoms))
    BY <1>2, <1>7 DEF One
  <2>3. Distinct(WithAdded(h, n, One(v)))
    BY <1>2, <2>2, Added DEF Gains
  <2>4. Halfway(None, v, WithAdded(h, n, One(v)), b) \in Reading
    <3>1. None \in Names \cup {None}
      OBVIOUS
    <3> QED
      BY <1>2, <2>3, <3>1, ReadingMade
  <2> QED
    BY <2>1, <2>4, Zenon
<1>8. CASE x.kind \notin {"header", "value", "body"} /\ (x.kind # "CRLF" \/ n = None)
  <2>1. Callback(r, x) = r
    <3>1. Callback(Halfway(n, v, h, b), x) = Halfway(n, v, h, b)
      BY <1>8, Called
    <3> QED
      BY <1>1, <3>1
  <2> QED
    BY <2>1
<1> QED
  BY <1>4, <1>5, <1>6, <1>7, <1>8

\* g is what is kept after each token of t, beginning with x.
Resumes(g, x, t, m) ==
  /\ m \in Nat /\ g \in [0 .. m -> Reading] /\ g[0] = x
  /\ \A k \in 1 .. m : g[k] = Callback(g[k - 1], t[k])

\* Nothing has been read.
LEMMA NothingRead == Nothing \in Reading /\ Nothing = Halfway(None, <<>>, <<>>, <<>>)
<1>1. Nothing = Halfway(None, <<>>, <<>>, <<>>)
  BY DEF Nothing, Halfway
<1>2. Distinct(<<>>) /\ <<>> \in Seq(Seq(Atoms)) /\ <<>> \in Seq(Atoms)
  BY DEF Distinct
<1> QED
  BY <1>1, <1>2, ReadingMade

\* Every text can be read on from any reading,
LEMMA Resumed ==
  ASSUME NEW x \in Reading, NEW t, Legibles(t), NEW m, m = Len(t)
  PROVE  \E g : Resumes(g, x, t, m)
<1>1. m \in Nat /\ \A k \in 1 .. m : Legible(t[k])
  BY DEF Legibles, Row
<1>2. PICK step : step = [k \in 1 .. m |-> [r \in Reading |-> Callback(r, t[k])]]
  OBVIOUS
<1>3. /\ \A k \in 1 .. m : step[k] \in [Reading -> Reading]
      /\ \A k \in 1 .. m : \A r \in Reading : step[k][r] = Callback(r, t[k])
  BY <1>1, <1>2, CallbackTyped
<1>4. PICK f : Recursion(f, Reading, x, step, m)
  <2>1. Steps(step, Reading, m)
    BY <1>1, <1>3 DEF Steps
  <2> QED
    BY <2>1, RecursionExists
<1>5. f \in [0 .. m -> Reading] /\ f[0] = x /\ \A k \in 1 .. m : f[k] = step[k][f[k - 1]]
  BY <1>4 DEF Recursion
<1>6. \A k \in 1 .. m : k - 1 \in 0 .. m
  BY <1>1
<1>7. \A k \in 1 .. m : f[k] = Callback(f[k - 1], t[k])
  BY <1>3, <1>5, <1>6
<1> QED
  BY <1>1, <1>5, <1>7 DEF Resumes

\* ... in one way,
LEMMA Determined ==
  ASSUME NEW x, NEW t, NEW m, NEW g, Resumes(g, x, t, m),
         NEW e, e[0] = x, \A k \in 1 .. m : e[k - 1] = g[k - 1] => e[k] = Callback(e[k - 1], t[k])
  PROVE  \A k \in 0 .. m : e[k] = g[k]
<1>1. Follows(e, g, m)
  BY DEF Follows, Resumes
<1> QED
  BY <1>1, RecursionUnique DEF Agree

\* ... and Read(t) is where that ends when it begins with nothing.
LEMMA ReadIs ==
  ASSUME NEW t, NEW m, m = Len(t), NEW g, Resumes(g, Nothing, t, m)
  PROVE  Read(t) = g[m]
<1>1. m \in Nat /\ g \in [0 .. m -> Reading] /\ g[0] = Nothing
      /\ \A k \in 1 .. m : g[k] = Callback(g[k - 1], t[k])
  BY DEF Resumes
<1> DEFINE Is(f) == f = [k \in 0 .. Len(t) |-> IF k = 0 THEN Nothing ELSE Callback(f[k - 1], t[k])]
<1>2. Is(g)
  <2>1. \A k \in 0 .. m : k # 0 => k \in 1 .. m
    BY <1>1
  <2>2. \A k \in 0 .. m : g[k] = IF k = 0 THEN Nothing ELSE Callback(g[k - 1], t[k])
    BY <1>1, <2>1
  <2>3. g = [k \in 0 .. m |-> g[k]]
    BY <1>1
  <2> QED
    BY <2>2, <2>3, Zenon
<1>3. PICK f : Is(f) /\ Read(t) = f[Len(t)]
  <2>1. Read(t) = (CHOOSE f : Is(f))[Len(t)]
    BY DEF Read
  <2> HIDE DEF Is
  <2>2. Is(CHOOSE f : Is(f))
    BY <1>2
  <2> QED
    BY <2>1, <2>2
<1>4. f[0] = Nothing /\ \A k \in 1 .. m : f[k] = Callback(f[k - 1], t[k])
  <2>1. \A k \in 0 .. m : f[k] = IF k = 0 THEN Nothing ELSE Callback(f[k - 1], t[k])
    BY <1>3, Zenon
  <2>2. 0 \in 0 .. m /\ \A k \in 1 .. m : k \in 0 .. m /\ k # 0
    BY <1>1
  <2> QED
    BY <2>1, <2>2, Zenon
<1> HIDE DEF Is
<1>5. \A k \in 0 .. m : f[k] = g[k]
  BY <1>4, Determined
<1> QED
  BY <1>1, <1>3, <1>5
-----------------------------------------------------------------------------
(***************************************************************************)
(* What the callbacks keep of a line and of a body.                        *)
(***************************************************************************)
\* A text and then another: the second is read on from where the first has ended.
LEMMA ReadOn ==
  ASSUME NEW s, Legibles(s), NEW t, Legibles(t), NEW l, l = Len(s), NEW m, m = Len(t),
         NEW r, Joins(r, s, t, l, m)
  PROVE  /\ Legibles(r) /\ Read(s) \in Reading
         /\ \E g : Resumes(g, Read(s), t, m) /\ Read(r) = g[m]
<1>1. /\ l \in Nat /\ m \in Nat /\ Len(r) = l + m /\ Row(r, l + m)
      /\ \A k \in 1 .. l : Legible(s[k]) /\ r[k] = s[k]
      /\ \A k \in 1 .. m : Legible(t[k]) /\ r[l + k] = t[k]
  BY DEF Legibles, Joins, Row
<1>2. Legibles(r)
  <2>1. \A k \in 1 .. l + m : k \in 1 .. l \/ (k - l \in 1 .. m /\ l + (k - l) = k)
    BY <1>1
  <2>2. \A k \in 1 .. l + m : Legible(r[k])
    BY <1>1, <2>1
  <2> QED
    BY <1>1, <2>2 DEF Legibles
<1>3. PICK f : Resumes(f, Nothing, s, l)
  BY NothingRead, Resumed
<1>4. Read(s) = f[l] /\ f[l] \in Reading
  <2>1. Read(s) = f[l]
    BY <1>3, ReadIs
  <2>2. f \in [0 .. l -> Reading] /\ l \in 0 .. l
    BY <1>1, <1>3 DEF Resumes
  <2> QED
    BY <2>1, <2>2
<1>5. PICK g : Resumes(g, f[l], t, m)
  BY <1>4, Resumed
<1>6. /\ f \in [0 .. l -> Reading] /\ f[0] = Nothing
      /\ \A k \in 1 .. l : f[k] = Callback(f[k - 1], s[k])
      /\ g \in [0 .. m -> Reading] /\ g[0] = f[l]
      /\ \A k \in 1 .. m : g[k] = Callback(g[k - 1], t[k])
  BY <1>3, <1>5 DEF Resumes
<1>7. PICK h : h = [k \in 0 .. l + m |-> IF k <= l THEN f[k] ELSE g[k - l]]
  OBVIOUS
<1>8. (\A k \in 0 .. l : h[k] = f[k]) /\ \A k \in 0 .. m : h[l + k] = g[k]
  <2>1. \A k \in 0 .. l : h[k] = f[k]
    <3>1. \A k \in 0 .. l : k \in 0 .. l + m /\ k <= l
      BY <1>1
    <3> QED
      BY <1>7, <3>1
  <2>2. ASSUME NEW k \in 0 .. m
        PROVE  h[l + k] = g[k]
    <3>1. CASE k = 0
      BY <1>1, <1>6, <2>1, <3>1
    <3>2. CASE k # 0
      <4>1. l + k \in 0 .. l + m /\ ~(l + k <= l) /\ (l + k) - l = k
        BY <1>1, <3>2
      <4> QED
        BY <1>7, <4>1
    <3> QED
      BY <3>1, <3>2
  <2> QED
    BY <2>1, <2>2
<1>9. h \in [0 .. l + m -> Reading]
  <2>1. \A k \in 0 .. l + m : (k <= l => k \in 0 .. l) /\ (~(k <= l) => k - l \in 0 .. m)
    BY <1>1
  <2> QED
    BY <1>6, <1>7, <2>1
<1>10. ASSUME NEW k \in 1 .. l + m
       PROVE  h[k] = Callback(h[k - 1], r[k])
  <2>1. CASE k <= l
    <3>1. k \in 1 .. l /\ k \in 0 .. l /\ k - 1 \in 0 .. l
      BY <1>1, <2>1
    <3> QED
      BY <1>1, <1>6, <1>8, <3>1
  <2>2. CASE k > l
    <3>1. PICK j : j = k - l
      OBVIOUS
    <3>2. j \in 1 .. m /\ j \in 0 .. m /\ j - 1 \in 0 .. m /\ l + j = k /\ l + (j - 1) = k - 1
      BY <1>1, <2>2, <3>1
    <3>3. h[l + j] = g[j] /\ h[l + (j - 1)] = g[j - 1] /\ r[l + j] = t[j] /\ g[j] = Callback(g[j - 1], t[j])
      BY <1>1, <1>6, <1>8, <3>2
    <3> QED
      BY <3>2, <3>3
  <2> QED
    BY <1>1, <2>1, <2>2
<1>11. Resumes(h, Nothing, r, l + m)
  <2>1. h[0] = Nothing /\ l + m \in Nat
    BY <1>1, <1>6, <1>8
  <2> QED
    BY <1>9, <1>10, <2>1 DEF Resumes
<1>12. Read(r) = g[m]
  <2>1. Read(r) = h[l + m]
    <3>1. Resumes(h, Nothing, r, Len(r)) /\ Len(r) = l + m
      BY <1>1, <1>11
    <3>2. Read(r) = h[Len(r)]
      BY <3>1, ReadIs
    <3> QED
      BY <3>1, <3>2
  <2>2. m \in 0 .. m
    BY <1>1
  <2> QED
    BY <1>8, <2>1, <2>2
<1> QED
  BY <1>2, <1>4, <1>5, <1>12

\* What is neither a header nor a piece of the body is skipped.
LEMMA Skipped ==
  ASSUME NEW v, NEW h, NEW b, NEW t, NEW m, NEW g, Resumes(g, Halfway(None, v, h, b), t, m),
         \A k \in 1 .. m : t[k].kind \notin {"header", "value", "body"}
  PROVE  g[m] = Halfway(None, v, h, b)
<1>1. m \in Nat
  BY DEF Resumes
<1>2. PICK e : e = [k \in 0 .. m |-> Halfway(None, v, h, b)]
  OBVIOUS
<1>3. \A k \in 0 .. m : e[k] = Halfway(None, v, h, b)
  BY <1>2
<1>4. ASSUME NEW k \in 1 .. m
      PROVE  e[k] = Callback(e[k - 1], t[k])
  <2>1. k \in 0 .. m /\ k - 1 \in 0 .. m
    BY <1>1
  <2>2. Callback(Halfway(None, v, h, b), t[k]) = Halfway(None, v, h, b)
    BY Called
  <2> QED
    BY <1>3, <2>1, <2>2
<1>5. \A k \in 0 .. m : e[k] = g[k]
  <2>1. e[0] = Halfway(None, v, h, b)
    BY <1>1, <1>3
  <2> QED
    BY <1>4, <2>1, Determined
<1> QED
  BY <1>1, <1>3, <1>5

\* A line of a header.
IsLine(t, m, name, values) ==
  /\ m = 2 + 2 * Len(values)
  /\ t[1].kind = "header" /\ Lower[t[1].of] = name
  /\ t[m].kind = "CRLF"
  /\ \A j \in 1 .. Len(values) : /\ t[2 * j].kind \in {": ", ","}
                                 /\ t[2 * j + 1].kind = "value" /\ t[2 * j + 1].of = values[j]

\* Reading a line adds its values, joined to one, to the header.
LEMMA LineRead ==
  ASSUME NEW v, NEW h, NEW b, NEW name, name # None, NEW values, values \in Seq(Seq(Atoms)),
         NEW t, NEW m, IsLine(t, m, name, values),
         NEW g, Resumes(g, Halfway(None, v, h, b), t, m)
  PROVE  \E w : g[m] = Halfway(None, w, WithAdded(h, name, One(FlattenSeq(values))), b)
<1>1. PICK n : n = Len(values)
  OBVIOUS
<1>2. n \in Nat /\ m = 2 + 2 * n /\ m \in Nat
  <2>1. n \in Nat
    BY <1>1
  <2>2. m = 2 + 2 * n
    BY <1>1 DEF IsLine
  <2> QED
    BY <2>1, <2>2
<1>3. /\ t[1].kind = "header" /\ Lower[t[1].of] = name
      /\ t[m].kind = "CRLF"
      /\ \A j \in 1 .. n : /\ t[2 * j].kind \in {": ", ","}
                           /\ t[2 * j + 1].kind = "value" /\ t[2 * j + 1].of = values[j]
  BY <1>1 DEF IsLine
<1>4. g[0] = Halfway(None, v, h, b) /\ \A k \in 1 .. m : g[k] = Callback(g[k - 1], t[k])
  BY DEF Resumes
<1>5. PICK f : Flat(f, values, n, Atoms) /\ FlattenSeq(values) = f[n]
  BY <1>1, Flattens
<1>6. f[0] = <<>> /\ \A j \in 1 .. n : f[j] = Cat(f[j - 1], values[j])
  BY <1>5 DEF Flat
<1>7. PICK e, d : e = [j \in 0 .. n |-> g[2 * j + 1]] /\ d = [j \in 0 .. n |-> Halfway(name, f[j], h, b)]
  OBVIOUS
<1>8. \A j \in 0 .. n : e[j] = g[2 * j + 1] /\ d[j] = Halfway(name, f[j], h, b)
  BY <1>7
<1>9. e[0] = d[0]
  <2>1. 1 \in 1 .. m /\ 1 - 1 = 0 /\ 0 \in 0 .. n /\ 2 * 0 + 1 = 1
    BY <1>2
  <2>2. g[1] = Callback(Halfway(None, v, h, b), t[1])
    BY <1>4, <2>1
  <2>3. PICK y : y = t[1]
    OBVIOUS
  <2>4. y.kind = "header" /\ Lower[y.of] = name
    BY <1>3, <2>3
  <2>5. Callback(Halfway(None, v, h, b), y) = Halfway(name, <<>>, h, b)
    <3>1. Callback(Halfway(None, v, h, b), y) = Halfway(Lower[y.of], <<>>, h, b)
      BY <2>4, Called
    <3> QED
      BY <2>4, <3>1
  <2>6. g[1] = Halfway(name, <<>>, h, b)
    BY <2>2, <2>3, <2>5
  <2>7. d[0] = Halfway(name, <<>>, h, b)
    BY <1>6, <1>8, <2>1
  <2> QED
    BY <1>8, <2>1, <2>6, <2>7
<1>10. ASSUME NEW j \in 1 .. n, e[j - 1] = d[j - 1]
       PROVE  e[j] = d[j]
  <2>1. /\ j \in 0 .. n /\ j - 1 \in 0 .. n /\ 2 * j \in 1 .. m /\ 2 * j + 1 \in 1 .. m
        /\ 2 * (j - 1) + 1 = 2 * j - 1 /\ (2 * j + 1) - 1 = 2 * j
    BY <1>2
  <2>2. g[2 * j] = Callback(g[2 * j - 1], t[2 * j]) /\ g[2 * j + 1] = Callback(g[2 * j], t[2 * j + 1])
    BY <1>4, <2>1
  <2>3. g[2 * j - 1] = Halfway(name, f[j - 1], h, b)
    BY <1>8, <1>10, <2>1
  <2>11. PICK y, z, u : y = t[2 * j] /\ z = t[2 * j + 1] /\ u = f[j - 1]
    OBVIOUS
  <2>12. y.kind \in {": ", ","} /\ z.kind = "value"
    BY <1>3, <2>11
  <2>4. Callback(Halfway(name, f[j - 1], h, b), t[2 * j]) = Halfway(name, f[j - 1], h, b)
    <3>1. y.kind \notin {"header", "value", "body"} /\ y.kind # "CRLF"
      BY <2>12
    <3>2. Callback(Halfway(name, u, h, b), y) = Halfway(name, u, h, b)
      BY <3>1, Called
    <3> QED
      BY <2>11, <3>2
  <2>5. Callback(Halfway(name, f[j - 1], h, b), t[2 * j + 1]) = Halfway(name, Cat(f[j - 1], t[2 * j + 1].of), h, b)
    <3>1. z.kind = "value"
      BY <2>12
    <3>2. Callback(Halfway(name, u, h, b), z) = Halfway(name, Cat(u, z.of), h, b)
      BY <3>1, Called
    <3> QED
      BY <2>11, <3>2
  <2>6. Cat(f[j - 1], t[2 * j + 1].of) = f[j]
    BY <1>3, <1>6
  <2> QED
    BY <1>8, <2>1, <2>2, <2>3, <2>4, <2>5, <2>6
<1>11. e[n] = d[n]
  <2>1. Follows(e, d, n)
    BY <1>2, <1>9, <1>10 DEF Follows
  <2> QED
    BY <1>2, <2>1, RecursionUnique DEF Agree
<1>12. g[m] = Callback(Halfway(name, f[n], h, b), t[m])
  <2>1. m \in 1 .. m /\ m - 1 = 2 * n + 1 /\ n \in 0 .. n
    BY <1>2
  <2> QED
    BY <1>4, <1>8, <1>11, <2>1
<1>13. Callback(Halfway(name, f[n], h, b), t[m]) = Halfway(None, f[n], WithAdded(h, name, One(f[n])), b)
  <2>1. PICK y, u : y = t[m] /\ u = f[n]
    OBVIOUS
  <2>2. y.kind = "CRLF" /\ name # None
    BY <1>3, <2>1
  <2>3. Callback(Halfway(name, u, h, b), y) = Halfway(None, u, WithAdded(h, name, One(u)), b)
    BY <2>2, Called
  <2> QED
    BY <2>1, <2>3
<1> QED
  BY <1>5, <1>12, <1>13

\* The pieces of a body, one after the other.
IsBody(t, m, pieces) ==
  m = Len(pieces) /\ \A k \in 1 .. m : t[k].kind = "body" /\ t[k].of = pieces[k]
Gathered(pieces) == IF Len(pieces) = 0 THEN <<>> ELSE One(FlattenSeq(pieces))

\* Reading the pieces gathers them to one.
LEMMA BodyRead ==
  ASSUME NEW v, NEW h, NEW pieces, pieces \in Seq(Seq(Atoms)), NEW t, NEW m, IsBody(t, m, pieces),
         NEW g, Resumes(g, Halfway(None, v, h, <<>>), t, m)
  PROVE  g[m] = Halfway(None, v, h, Gathered(pieces))
<1>1. m = Len(pieces) /\ m \in Nat
  BY DEF IsBody
<1>2. \A k \in 1 .. m : t[k].kind = "body" /\ t[k].of = pieces[k] /\ pieces[k] \in Seq(Atoms)
  BY <1>1 DEF IsBody
<1>3. PICK f : Flat(f, pieces, m, Atoms) /\ FlattenSeq(pieces) = f[m]
  BY <1>1, Flattens
<1>4. f[0] = <<>> /\ \A j \in 1 .. m : f[j] = Cat(f[j - 1], pieces[j])
  BY <1>3 DEF Flat
<1>5. PICK bodies : bodies = [k \in 0 .. m |-> IF k = 0 THEN <<>> ELSE One(f[k])]
  OBVIOUS
<1>6. bodies[0] = <<>> /\ \A k \in 1 .. m : bodies[k] = One(f[k])
  BY <1>1, <1>5
<1>7. ASSUME NEW k \in 1 .. m
      PROVE  Buffering(bodies[k - 1], pieces[k]) = bodies[k]
  <2>1. CASE k = 1
    <3>1. k - 1 = 0
      BY <2>1
    <3>2. Buffering(<<>>, pieces[k]) = One(pieces[k])
      BY DEF Buffering, One
    <3>3. f[k] = pieces[k]
      <4>1. pieces[1] \in Seq(Atoms) /\ f[1] = Cat(f[0], pieces[1])
        BY <1>2, <1>4, <2>1
      <4>2. f[1] = Cat(<<>>, pieces[1])
        BY <1>4, <4>1
      <4>3. Cat(<<>>, pieces[1]) = pieces[1]
        BY <4>1, Catted
      <4> QED
        BY <2>1, <4>2, <4>3
    <3> QED
      BY <1>6, <3>1, <3>2, <3>3
  <2>2. CASE k # 1
    <3>1. k - 1 \in 1 .. m
      BY <1>1, <2>2
    <3>2. One(f[k - 1]) # <<>> /\ One(f[k - 1])[1] = f[k - 1]
      BY RowFacts DEF One
    <3>3. Buffering(One(f[k - 1]), pieces[k]) = One(Cat(f[k - 1], pieces[k]))
      BY <3>2 DEF Buffering, One, Cat
    <3> QED
      BY <1>4, <1>6, <3>1, <3>3
  <2> QED
    BY <2>1, <2>2
<1>8. PICK e : e = [k \in 0 .. m |-> Halfway(None, v, h, bodies[k])]
  OBVIOUS
<1>9. \A k \in 0 .. m : e[k] = Halfway(None, v, h, bodies[k])
  BY <1>8
<1>10. ASSUME NEW k \in 1 .. m
       PROVE  e[k] = Callback(e[k - 1], t[k])
  <2>1. k \in 0 .. m /\ k - 1 \in 0 .. m
    BY <1>1
  <2>2. Callback(Halfway(None, v, h, bodies[k - 1]), t[k])
          = Halfway(None, v, h, Buffering(bodies[k - 1], t[k].of))
    BY <1>2, Called
  <2> QED
    BY <1>2, <1>7, <1>9, <2>1, <2>2
<1>11. \A k \in 0 .. m : e[k] = g[k]
  <2>1. e[0] = Halfway(None, v, h, <<>>)
    BY <1>1, <1>6, <1>9
  <2> QED
    BY <1>10, <2>1, Determined
<1>12. g[m] = Halfway(None, v, h, bodies[m])
  BY <1>1, <1>9, <1>11
<1>13. bodies[m] = Gathered(pieces)
  <2>1. m # 0 => m \in 1 .. m
    BY <1>1
  <2> QED
    BY <1>1, <1>3, <1>6, <2>1 DEF Gathered
<1> QED
  BY <1>12, <1>13
-----------------------------------------------------------------------------
(***************************************************************************)
(* The bytes of a text.                                                    *)
(***************************************************************************)
\* What the tokens of t take, each.
Bytes(t) == [k \in 1 .. Len(t) |-> t[k].width]

\* The tokens of t take n bytes.
Sized(t, n) == Row(t, Len(t)) /\ Integral(Bytes(t), Len(t)) /\ Total(Bytes(t)) = n /\ n \in Int

\* Two texts one after the other take what each takes.
LEMMA SizedJoined ==
  ASSUME NEW s, NEW t, NEW m, NEW n, Sized(s, m), Sized(t, n)
  PROVE  Sized(Cat(s, t), m + n)
<1>1. PICK r, l, h : r = Cat(s, t) /\ l = Len(s) /\ h = Len(t)
  OBVIOUS
<1>2. Joins(r, s, t, l, h)
  BY <1>1, Joined DEF Sized
<1>3. l \in Nat /\ h \in Nat /\ Len(r) = l + h /\ Row(r, Len(r))
  BY <1>1, <1>2 DEF Sized, Joins, Row
<1>4. PICK v, w, x : v = Bytes(s) /\ w = Bytes(t) /\ x = Bytes(r)
  OBVIOUS
<1>5. /\ \A k \in 1 .. l : v[k] = s[k].width
      /\ \A k \in 1 .. h : w[k] = t[k].width
      /\ \A k \in 1 .. l + h : x[k] = r[k].width
  BY <1>1, <1>3, <1>4 DEF Bytes
<1>6. Row(x, l + h)
  <2>1. l + h \in Nat /\ DOMAIN x = 1 .. l + h /\ x = [k \in 1 .. l + h |-> x[k]]
    BY <1>3, <1>4 DEF Bytes
  <2> QED
    BY <2>1, RowMade
<1>7. Joins(x, v, w, l, h)
  <2>1. ASSUME NEW k \in 1 .. l
        PROVE  x[k] = v[k]
    <3>1. k \in 1 .. l + h /\ r[k] = s[k]
      BY <1>2, <1>3 DEF Joins
    <3> QED
      BY <1>5, <3>1
  <2>2. ASSUME NEW k \in 1 .. h
        PROVE  x[l + k] = w[k]
    <3>1. l + k \in 1 .. l + h /\ r[l + k] = t[k]
      BY <1>2, <1>3 DEF Joins
    <3> QED
      BY <1>5, <3>1
  <2> QED
    BY <1>6, <2>1, <2>2 DEF Joins
<1>8. Integral(v, l) /\ Integral(w, h) /\ Total(v) = m /\ Total(w) = n
  BY <1>1, <1>4 DEF Sized
<1>9. Total(x) = m + n /\ Integral(x, l + h)
  BY <1>7, <1>8, TotalJoined
<1>10. m + n \in Int
  BY DEF Sized
<1> QED
  BY <1>1, <1>3, <1>4, <1>9, <1>10 DEF Sized

\* ... and none, and one token.
LEMMA SizedFew ==
  /\ Sized(<<>>, 0)
  /\ \A a : a.width \in Int => Sized(One(a), a.width)
<1>1. Sized(<<>>, 0)
  <2>1. PICK s : s = <<>> /\ Len(s) = 0
    OBVIOUS
  <2>2. Bytes(s) = <<>>
    BY <2>1 DEF Bytes
  <2> QED
    BY <2>1, <2>2, RowFacts, TotalFew DEF Sized
<1>2. ASSUME NEW a, a.width \in Int
      PROVE  Sized(One(a), a.width)
  <2>0. PICK y : y = a.width
    OBVIOUS
  <2>1. PICK s, w : s = One(a) /\ Len(s) = 1 /\ s[1] = a /\ Row(s, 1) /\ w = Bytes(s)
    BY RowFacts DEF One
  <2>2. Row(w, 1) /\ w[1] = y
    <3>1. 1 \in Nat /\ DOMAIN w = 1 .. 1 /\ w = [k \in 1 .. 1 |-> w[k]] /\ w[1] = y
      BY <2>0, <2>1 DEF Bytes
    <3> QED
      BY <3>1, RowMade
  <2>3. w = <<y>>
    <3>1. PICK b : b = <<y>> /\ b[1] = y /\ Row(b, 1)
      BY RowFacts
    <3>2. \A k \in 1 .. 1 : w[k] = b[k]
      BY <2>2, <3>1
    <3> QED
      BY <2>2, <3>1, <3>2, RowsEqual
  <2>4. y \in Int
    BY <1>2, <2>0
  <2>5. Total(w) = y /\ Integral(w, 1)
    BY <2>3, <2>4, TotalFew
  <2> QED
    BY <2>0, <2>1, <2>4, <2>5 DEF Sized
<1> QED
  BY <1>1, <1>2

\* A sum of eight.
LEMMA TotalEight ==
  ASSUME NEW w, Integral(w, 8)
  PROVE  Total(w) = w[1] + w[2] + w[3] + w[4] + w[5] + w[6] + w[7] + w[8]
<1>1. PICK f : Sums(f, w, 8) /\ Total(w) = f[8]
  BY Totals
<1>2. f[0] = 0 /\ \A k \in 1 .. 8 : f[k] = f[k - 1] + w[k] /\ w[k] \in Int /\ f[k - 1] \in Int
  BY <1>1 DEF Sums, Integral
<1>3. /\ f[1] = 0 + w[1] /\ f[2] = f[1] + w[2] /\ f[3] = f[2] + w[3] /\ f[4] = f[3] + w[4]
      /\ f[5] = f[4] + w[5] /\ f[6] = f[5] + w[6] /\ f[7] = f[6] + w[7] /\ f[8] = f[7] + w[8]
  BY <1>2
<1>4. /\ w[1] \in Int /\ w[2] \in Int /\ w[3] \in Int /\ w[4] \in Int
      /\ w[5] \in Int /\ w[6] \in Int /\ w[7] \in Int /\ w[8] \in Int
  BY <1>2
<1> QED
  BY <1>1, <1>3, <1>4

\* Eight tokens, ...
Octet(t, a, b, c, d, e, f, g, h) == t = <<a, b, c, d, e, f, g, h>>

\* ... one by one.
LEMMA Eight ==
  ASSUME NEW t, NEW a, NEW b, NEW c, NEW d, NEW e, NEW f, NEW g, NEW h, Octet(t, a, b, c, d, e, f, g, h)
  PROVE  /\ Row(t, 8)
         /\ t[1] = a /\ t[2] = b /\ t[3] = c /\ t[4] = d
         /\ t[5] = e /\ t[6] = f /\ t[7] = g /\ t[8] = h
<1>1. t = <<a, b, c, d, e, f, g, h>>
  BY DEF Octet
<1>2. /\ t[1] = a /\ t[2] = b /\ t[3] = c /\ t[4] = d
      /\ t[5] = e /\ t[6] = f /\ t[7] = g /\ t[8] = h
  BY <1>1
<1>3. Len(t) = 8 /\ t \in Seq({a, b, c, d, e, f, g, h})
  BY <1>1
<1>4. Row(t, 8)
  BY <1>3 DEF Row
<1> QED
  BY <1>2, <1>4

\* What eight tokens take.
LEMMA SizedEight ==
  ASSUME NEW t, Row(t, 8), NEW n,
         \A k \in 1 .. 8 : t[k].width \in Int,
         n = t[1].width + t[2].width + t[3].width + t[4].width
             + t[5].width + t[6].width + t[7].width + t[8].width
  PROVE  Sized(t, n)
<1>1. Len(t) = 8
  BY DEF Row
<1>2. PICK w : w = Bytes(t)
  OBVIOUS
<1>3. Row(w, 8) /\ \A k \in 1 .. 8 : w[k] = t[k].width
  <2>1. 8 \in Nat /\ DOMAIN w = 1 .. 8 /\ w = [k \in 1 .. 8 |-> w[k]]
    BY <1>1, <1>2 DEF Bytes
  <2>2. \A k \in 1 .. 8 : w[k] = t[k].width
    BY <1>1, <1>2 DEF Bytes
  <2> QED
    BY <2>1, <2>2, RowMade
<1>4. Integral(w, 8)
  BY <1>3 DEF Integral
<1>5. Total(w) = w[1] + w[2] + w[3] + w[4] + w[5] + w[6] + w[7] + w[8]
  BY <1>4, TotalEight
<1>6. /\ w[1] = t[1].width /\ w[2] = t[2].width /\ w[3] = t[3].width /\ w[4] = t[4].width
      /\ w[5] = t[5].width /\ w[6] = t[6].width /\ w[7] = t[7].width /\ w[8] = t[8].width
  BY <1>3
<1>7. Total(w) = n
  BY <1>5, <1>6
<1>8. n \in Int
  <2>1. /\ t[1].width \in Int /\ t[2].width \in Int /\ t[3].width \in Int /\ t[4].width \in Int
        /\ t[5].width \in Int /\ t[6].width \in Int /\ t[7].width \in Int /\ t[8].width \in Int
    OBVIOUS
  <2> QED
    BY <2>1
<1> QED
  BY <1>1, <1>2, <1>4, <1>7, <1>8 DEF Sized
-----------------------------------------------------------------------------
(***************************************************************************)
(* The line of a header.                                                   *)
(***************************************************************************)
\* A header that has a value.
Valued(h) == h.name \in Names /\ h.values \in Seq(Seq(Atoms)) /\ h.values # <<>>

\* The fields of a token.
LEMMA Tokens ==
  /\ \A kind, x, w : /\ Token(kind, x, w).kind = kind /\ Token(kind, x, w).of = x
                     /\ Token(kind, x, w).width = w
  /\ \A kind : Mark(kind).kind = kind
  /\ Mark("CRLF").width = 2 /\ Mark(": ").width = 2 /\ Mark("HTTP").width = 4
  /\ Mark(" ").width = 1 /\ Mark("/").width = 1 /\ Mark(",").width = 1
BY DEF Token, Mark

\* The m tokens of a header of n values, one by one.
Spelt(t, h, n, m) ==
  /\ n \in Nat /\ n # 0 /\ n = Len(h.values) /\ m = 2 + 2 * n /\ Row(t, m)
  /\ t[1].kind = "header" /\ t[1].of = Camel[h.name] /\ t[1].width = 1
  /\ t[2].kind = ": " /\ t[2].width = 2
  /\ \A j \in 2 .. n : t[2 * j].kind = "," /\ t[2 * j].width = 1
  /\ \A j \in 1 .. n : /\ t[2 * j + 1].kind = "value" /\ t[2 * j + 1].of = h.values[j]
                       /\ t[2 * j + 1].width = ValueWidth(h.values[j])
  /\ t[m].kind = "CRLF" /\ t[m].width = 2

\* Line(h) is that.
LEMMA LineParts ==
  ASSUME NEW h, Valued(h)
  PROVE  \E n, m : Spelt(Line(h), h, n, m)
<1>0. PICK t, n : t = Line(h) /\ n = Len(h.values)
  OBVIOUS
<1>1. n \in Nat \ {0}
  <2>1. n \in Nat /\ (n = 0 => h.values = <<>>)
    BY <1>0, EmptySeq DEF Valued
  <2> QED
    BY <2>1 DEF Valued
<1>2. PICK m : m = 2 + 2 * n
  OBVIOUS
<1>3. m \in Nat /\ Needs(h) = m
  BY <1>0, <1>1, <1>2 DEF Needs
<1>4. t = [k \in 1 .. m |->
             IF k = m THEN Mark("CRLF")
             ELSE IF k = 1 THEN Token("header", Camel[h.name], 1)
             ELSE IF k = 2 THEN Mark(": ")
             ELSE IF k % 2 = 0 THEN Mark(",")
             ELSE Token("value", h.values[(k - 1) \div 2], ValueWidth(h.values[(k - 1) \div 2]))]
  BY <1>0, <1>3, Zenon DEF Line
<1>5. \A k \in 1 .. m : t[k] =
             IF k = m THEN Mark("CRLF")
             ELSE IF k = 1 THEN Token("header", Camel[h.name], 1)
             ELSE IF k = 2 THEN Mark(": ")
             ELSE IF k % 2 = 0 THEN Mark(",")
             ELSE Token("value", h.values[(k - 1) \div 2], ValueWidth(h.values[(k - 1) \div 2]))
  BY <1>4, Zenon
<1>6. Row(t, m)
  <2>1. DOMAIN t = 1 .. m
    BY <1>4, Zenon
  <2>2. t = [k \in 1 .. m |-> t[k]]
    BY <1>4
  <2> QED
    BY <1>3, <2>1, <2>2, RowMade
<1>7. /\ t[1] = Token("header", Camel[h.name], 1)
      /\ t[2] = Mark(": ") /\ t[m] = Mark("CRLF")
  <2>1. 1 \in 1 .. m /\ 2 \in 1 .. m /\ m \in 1 .. m /\ m # 1 /\ m # 2 /\ 2 # 1
    BY <1>1, <1>2
  <2> QED
    BY <1>5, <2>1, Zenon
<1>8. /\ t[1].kind = "header" /\ t[1].of = Camel[h.name] /\ t[1].width = 1
      /\ t[2].kind = ": " /\ t[2].width = 2 /\ t[m].kind = "CRLF" /\ t[m].width = 2
  <2>1. PICK y, z, w : y = t[1] /\ z = t[2] /\ w = t[m]
    OBVIOUS
  <2>2. y = Token("header", Camel[h.name], 1) /\ z = Mark(": ") /\ w = Mark("CRLF")
    BY <1>7, <2>1, Zenon
  <2>3. y.kind = "header" /\ y.of = Camel[h.name] /\ y.width = 1
    <3>1. PICK x : x = Camel[h.name]
      OBVIOUS
    <3>2. y = Token("header", x, 1)
      BY <2>2, <3>1
    <3>3. y.kind = "header" /\ y.of = x /\ y.width = 1
      BY <3>2 DEF Token
    <3> QED
      BY <3>1, <3>3
  <2>4. z.kind = ": " /\ z.width = 2 /\ w.kind = "CRLF" /\ w.width = 2
    BY <2>2, Tokens
  <2> QED
    BY <2>1, <2>3, <2>4
<1>9. ASSUME NEW j \in 2 .. n
      PROVE  t[2 * j].kind = "," /\ t[2 * j].width = 1
  <2>1. PICK k, y : k = 2 * j /\ y = t[k]
    OBVIOUS
  <2>2. k \in 1 .. m /\ k # m /\ k # 1 /\ k # 2 /\ k % 2 = 0
    BY <1>1, <1>2, <2>1
  <2>3. y = Mark(",")
    BY <1>5, <2>1, <2>2, Zenon
  <2>4. y.kind = "," /\ y.width = 1
    BY <2>3, Tokens
  <2> QED
    BY <2>1, <2>4
<1>10. ASSUME NEW j \in 1 .. n
       PROVE  /\ t[2 * j + 1].kind = "value" /\ t[2 * j + 1].of = h.values[j]
              /\ t[2 * j + 1].width = ValueWidth(h.values[j])
  <2>1. PICK k, y : k = 2 * j + 1 /\ y = t[k]
    OBVIOUS
  <2>2. k \in 1 .. m /\ k # m /\ k # 1 /\ k # 2 /\ k % 2 # 0 /\ (k - 1) \div 2 = j
    BY <1>1, <1>2, <2>1
  <2>3. y = Token("value", h.values[(k - 1) \div 2], ValueWidth(h.values[(k - 1) \div 2]))
    BY <1>5, <2>1, <2>2, Zenon
  <2>4. /\ y.kind = "value" /\ y.of = h.values[(k - 1) \div 2]
        /\ y.width = ValueWidth(h.values[(k - 1) \div 2])
    <3>1. PICK x, w : x = h.values[(k - 1) \div 2] /\ w = ValueWidth(h.values[(k - 1) \div 2])
      OBVIOUS
    <3>2. y = Token("value", x, w)
      BY <2>3, <3>1
    <3>3. y.kind = "value" /\ y.of = x /\ y.width = w
      BY <3>2 DEF Token
    <3> QED
      BY <3>1, <3>3
  <2> QED
    BY <2>1, <2>2, <2>4
<1>11. Spelt(t, h, n, m)
  BY <1>0, <1>1, <1>2, <1>6, <1>8, <1>9, <1>10 DEF Spelt
<1> QED
  BY <1>0, <1>11

\* The parser takes it for a line with the name and the values of h.
LEMMA LineIs ==
  ASSUME NEW h, Valued(h)
  PROVE  IsLine(Line(h), Needs(h), h.name, h.values) /\ Row(Line(h), Needs(h)) /\ Legibles(Line(h))
<1>1. PICK t : t = Line(h)
  OBVIOUS
<1>2. PICK n, m : Spelt(t, h, n, m)
  BY <1>1, LineParts
<1>3. n \in Nat /\ n # 0 /\ m = 2 + 2 * n /\ m \in Nat
  <2>1. n \in Nat /\ n # 0 /\ m = 2 + 2 * n
    BY <1>2 DEF Spelt
  <2> QED
    BY <2>1
<1>4. Needs(h) = m /\ Row(t, m) /\ Len(t) = m /\ n = Len(h.values)
  BY <1>2 DEF Needs, Row, Spelt
<1>5. Lower[Camel[h.name]] = h.name
  BY SpellingsAssumption DEF Valued
<1>6. \A j \in 1 .. n : h.values[j] \in Seq(Atoms)
  BY <1>4 DEF Valued
<1>7. t[1].kind = "header" /\ Lower[t[1].of] = h.name /\ t[m].kind = "CRLF"
  BY <1>2, <1>5 DEF Spelt
<1>8. \A j \in 1 .. n : t[2 * j].kind \in {": ", ","}
  <2>1. \A j \in 1 .. n : j = 1 \/ j \in 2 .. n
    BY <1>3
  <2>2. 2 * 1 = 2
    OBVIOUS
  <2> QED
    BY <1>2, <2>1, <2>2 DEF Spelt
<1>9. \A j \in 1 .. n : t[2 * j + 1].kind = "value" /\ t[2 * j + 1].of = h.values[j]
  BY <1>2 DEF Spelt
<1>10. IsLine(t, m, h.name, h.values)
  BY <1>3, <1>4, <1>7, <1>8, <1>9 DEF IsLine
<1>11. \A k \in 1 .. m : Legible(t[k])
  <2> SUFFICES ASSUME NEW k \in 1 .. m
               PROVE  Legible(t[k])
    OBVIOUS
  <2>1. k = 1 \/ k = m \/ (\E j \in 1 .. n : k = 2 * j) \/ \E j \in 1 .. n : k = 2 * j + 1
    <3>1. CASE k % 2 = 0
      <4>1. PICK j : j = k \div 2
        OBVIOUS
      <4>2. j \in Int /\ k = 2 * j
        BY <1>3, <3>1, <4>1
      <4>3. j \in 1 .. n \/ k = m
        BY <1>3, <4>2
      <4> QED
        BY <4>2, <4>3
    <3>2. CASE k % 2 # 0
      <4>1. PICK j : j = k \div 2
        OBVIOUS
      <4>2. j \in Int /\ k = 2 * j + 1
        BY <1>3, <3>2, <4>1
      <4>3. j \in 1 .. n \/ k = 1
        BY <1>3, <4>2
      <4> QED
        BY <4>2, <4>3
    <3> QED
      BY <3>1, <3>2
  <2>2. Legible(t[1])
    BY <1>7 DEF Legible, Valued
  <2>3. Legible(t[m])
    BY <1>7 DEF Legible
  <2>4. ASSUME NEW j \in 1 .. n
        PROVE  Legible(t[2 * j])
    BY <1>8 DEF Legible
  <2>5. ASSUME NEW j \in 1 .. n
        PROVE  Legible(t[2 * j + 1])
    BY <1>6, <1>9 DEF Legible
  <2> QED
    BY <2>1, <2>2, <2>3, <2>4, <2>5
<1> QED
  BY <1>1, <1>4, <1>10, <1>11 DEF Legibles

\* The bytes that are summed for a header are those of its line.
LEMMA LineSized ==
  ASSUME NEW h, Valued(h)
  PROVE  Sized(Line(h), LineSize(h))
<1>1. PICK t : t = Line(h)
  OBVIOUS
<1>2. PICK n, m : Spelt(t, h, n, m)
  BY <1>1, LineParts
<1>3. n \in Nat /\ n # 0 /\ m = 2 + 2 * n /\ m \in Nat
  <2>1. n \in Nat /\ n # 0 /\ m = 2 + 2 * n
    BY <1>2 DEF Spelt
  <2> QED
    BY <2>1
<1>4. m \in Nat /\ Row(t, m) /\ Len(t) = m /\ n = Len(h.values)
  BY <1>2, <1>3 DEF Spelt, Row
<1>5. PICK v : v = [j \in 1 .. n |-> ValueWidth(h.values[j])]
  OBVIOUS
<1>6. \A j \in 1 .. n : v[j] = ValueWidth(h.values[j]) /\ v[j] \in Int
  <2>1. \A j \in 1 .. n : h.values[j] \in Seq(Atoms)
    BY <1>4 DEF Valued
  <2>2. \A x \in Seq(Atoms) : 2 * Len(x) - 1 \in Int
    OBVIOUS
  <2> QED
    BY <1>5, <2>1, <2>2 DEF ValueWidth
<1>7. PICK w : w = Bytes(t)
  OBVIOUS
<1>8. Row(w, m) /\ \A k \in 1 .. m : w[k] = t[k].width
  <2>1. DOMAIN w = 1 .. m /\ w = [k \in 1 .. m |-> w[k]]
    BY <1>4, <1>7 DEF Bytes
  <2>2. \A k \in 1 .. m : w[k] = t[k].width
    BY <1>4, <1>7 DEF Bytes
  <2> QED
    BY <1>4, <2>1, <2>2, RowMade
<1>9. /\ w[1] = 1 /\ w[2] = 2 /\ w[m] = 2
      /\ \A j \in 2 .. n : w[2 * j] = 1
      /\ \A j \in 1 .. n : w[2 * j + 1] = v[j]
  <2>1. /\ 1 \in 1 .. m /\ 2 \in 1 .. m /\ m \in 1 .. m
        /\ \A j \in 1 .. n : 2 * j \in 1 .. m /\ 2 * j + 1 \in 1 .. m
        /\ \A j \in 2 .. n : j \in 1 .. n
    BY <1>3
  <2>2. w[1] = 1 /\ w[2] = 2 /\ w[m] = 2
    BY <1>2, <1>8, <2>1 DEF Spelt
  <2>3. \A j \in 2 .. n : w[2 * j] = 1
    BY <1>2, <1>8, <2>1 DEF Spelt
  <2>4. \A j \in 1 .. n : w[2 * j + 1] = v[j]
    BY <1>2, <1>6, <1>8, <2>1 DEF Spelt
  <2> QED
    BY <2>2, <2>3, <2>4
<1>10. Integral(w, m)
  <2> SUFFICES ASSUME NEW k \in 1 .. m
               PROVE  w[k] \in Int
    BY <1>8 DEF Integral
  <2>1. CASE k % 2 = 0
    <3>1. PICK j : j = k \div 2
      OBVIOUS
    <3>2. j \in Int /\ k = 2 * j
      BY <1>4, <2>1, <3>1
    <3>3. j \in 2 .. n \/ k = 2 \/ k = m
      BY <1>3, <3>2
    <3> QED
      BY <1>9, <3>2, <3>3
  <2>2. CASE k % 2 # 0
    <3>1. PICK j : j = k \div 2
      OBVIOUS
    <3>2. j \in Int /\ k = 2 * j + 1
      BY <1>4, <2>2, <3>1
    <3>3. j \in 1 .. n \/ k = 1
      BY <1>3, <3>2
    <3> QED
      BY <1>6, <1>9, <3>2, <3>3
  <2> QED
    BY <2>1, <2>2
<1>11. PICK f : Sums(f, w, m) /\ Total(w) = f[m]
  BY <1>10, Totals
<1>12. f[0] = 0 /\ (\A k \in 0 .. m : f[k] \in Int) /\ \A k \in 1 .. m : f[k] = f[k - 1] + w[k]
  BY <1>11 DEF Sums
<1>13. PICK x : x = [j \in 1 .. n |-> v[j] + 1]
  OBVIOUS
<1>14. Integral(x, n) /\ \A j \in 1 .. n : x[j] = v[j] + 1
  <2>1. DOMAIN x = 1 .. n /\ x = [j \in 1 .. n |-> x[j]] /\ \A j \in 1 .. n : x[j] = v[j] + 1
    BY <1>13
  <2>2. \A j \in 1 .. n : x[j] \in Int
    BY <1>6, <2>1
  <2>3. Row(x, n)
    BY <1>3, <2>1, RowMade
  <2> QED
    BY <2>1, <2>2, <2>3 DEF Integral
<1>15. PICK g : Sums(g, x, n) /\ Total(x) = g[n]
  BY <1>14, Totals
<1>16. g[0] = 0 /\ (\A k \in 0 .. n : g[k] \in Int) /\ \A k \in 1 .. n : g[k] = g[k - 1] + x[k]
  BY <1>15 DEF Sums
<1>17. PICK e, d : e = [j \in 0 .. n - 1 |-> f[2 * j + 2]] /\ d = [j \in 0 .. n - 1 |-> 3 + g[j]]
  OBVIOUS
<1>18. \A j \in 0 .. n - 1 : e[j] = f[2 * j + 2] /\ d[j] = 3 + g[j]
  BY <1>17
<1>19. e[0] = d[0]
  <2>1. f[1] = f[0] + w[1] /\ f[2] = f[1] + w[2]
    <3>1. 1 \in 1 .. m /\ 2 \in 1 .. m /\ 1 - 1 = 0 /\ 2 - 1 = 1
      BY <1>3
    <3> QED
      BY <1>12, <3>1
  <2>2. f[2] = 3
    BY <1>9, <1>12, <2>1
  <2>3. 0 \in 0 .. n - 1 /\ 2 * 0 + 2 = 2
    BY <1>3
  <2> QED
    BY <1>16, <1>18, <2>2, <2>3
<1>20. ASSUME NEW j \in 1 .. n - 1, e[j - 1] = d[j - 1]
       PROVE  e[j] = d[j]
  <2>1. /\ j \in 0 .. n - 1 /\ j - 1 \in 0 .. n - 1 /\ j \in 1 .. n /\ j + 1 \in 2 .. n /\ 2 * (j + 1) = 2 * j + 2
        /\ 2 * (j - 1) + 2 = 2 * j /\ 2 * j \in 0 .. m /\ 2 * j + 1 \in 1 .. m /\ 2 * j + 2 \in 1 .. m
        /\ (2 * j + 1) - 1 = 2 * j /\ (2 * j + 2) - 1 = 2 * j + 1 /\ j - 1 \in 0 .. n
    BY <1>3
  <2>2. f[2 * j + 1] = f[2 * j] + w[2 * j + 1] /\ f[2 * j + 2] = f[2 * j + 1] + w[2 * j + 2]
    BY <1>12, <2>1
  <2>3. w[2 * j + 1] = v[j] /\ w[2 * j + 2] = 1 /\ v[j] \in Int
    BY <1>6, <1>9, <2>1
  <2>4. e[j] = f[2 * j + 2] /\ e[j - 1] = f[2 * j] /\ d[j] = 3 + g[j] /\ d[j - 1] = 3 + g[j - 1]
    BY <1>18, <2>1
  <2>5. g[j] = g[j - 1] + (v[j] + 1) /\ g[j - 1] \in Int
    BY <1>14, <1>16, <2>1
  <2>6. PICK a, b, c : a = v[j] /\ b = g[j - 1] /\ c = f[2 * j]
    OBVIOUS
  <2>7. a \in Int /\ b \in Int /\ c = 3 + b
    BY <1>20, <2>3, <2>4, <2>5, <2>6
  <2>8. e[j] = (c + a) + 1 /\ d[j] = 3 + (b + (a + 1))
    BY <2>2, <2>3, <2>4, <2>5, <2>6
  <2> QED
    BY <2>7, <2>8
<1>21. e[n - 1] = d[n - 1]
  <2>1. Follows(e, d, n - 1)
    BY <1>3, <1>19, <1>20 DEF Follows
  <2> QED
    BY <1>3, <2>1, RecursionUnique DEF Agree
<1>22. Total(w) = 4 + Total(x)
  <2>1. /\ n - 1 \in 0 .. n - 1 /\ 2 * (n - 1) + 2 = 2 * n /\ 2 * n + 1 \in 1 .. m /\ (2 * n + 1) - 1 = 2 * n
        /\ m \in 1 .. m /\ m - 1 = 2 * n + 1 /\ n \in 1 .. n /\ n - 1 \in 0 .. n
    BY <1>3
  <2>2. f[2 * n] = 3 + g[n - 1]
    BY <1>18, <1>21, <2>1
  <2>3. f[2 * n + 1] = f[2 * n] + v[n] /\ f[m] = f[2 * n + 1] + 2
    BY <1>9, <1>12, <2>1
  <2>4. g[n] = g[n - 1] + (v[n] + 1) /\ g[n - 1] \in Int /\ v[n] \in Int
    BY <1>6, <1>14, <1>16, <2>1
  <2>5. PICK a, b, c : a = v[n] /\ b = g[n - 1] /\ c = f[2 * n]
    OBVIOUS
  <2>6. f[m] = (c + a) + 2 /\ g[n] = b + (a + 1) /\ c = 3 + b /\ a \in Int /\ b \in Int
    BY <2>2, <2>3, <2>4, <2>5
  <2> QED
    BY <1>11, <1>15, <2>6
<1>23. LineSize(h) = 4 + Total(x)
  <2>1. x = [k \in 1 .. n |-> ValueWidth(h.values[k]) + 1]
    BY <1>6, <1>13
  <2>2. CASE n = 1
    <3>1. x = <<x[1]>> /\ x[1] \in Int /\ x[1] = v[1] + 1 /\ v[1] \in Int
      <4>1. PICK y : y = x[1]
        OBVIOUS
      <4>2. PICK b : b = <<y>> /\ b[1] = y /\ Row(b, 1)
        BY RowFacts
      <4>3. \A k \in 1 .. 1 : x[k] = b[k]
        BY <4>1, <4>2
      <4>4. x = b
        BY <1>14, <2>2, <4>2, <4>3, RowsEqual DEF Integral
      <4>5. 1 \in 1 .. n
        BY <2>2
      <4>6. x[1] \in Int /\ x[1] = v[1] + 1 /\ v[1] \in Int
        BY <1>6, <1>14, <4>5
      <4> QED
        BY <4>1, <4>2, <4>4, <4>6
    <3>2. Total(x) = x[1]
      <4>1. PICK y : y = x[1]
        OBVIOUS
      <4> QED
        BY <3>1, <4>1, TotalFew
    <3>3. LineSize(h) = 1 + 4 + v[1]
      BY <1>4, <1>6, <2>2 DEF LineSize
    <3> QED
      BY <3>1, <3>2, <3>3
  <2>3. CASE n # 1
    <3>1. LineSize(h) = 1 + 3 + Total(x)
      BY <1>4, <2>1, <2>3, Zenon DEF LineSize
    <3>2. Total(x) \in Int
      BY <1>3, <1>15, <1>16
    <3> QED
      BY <3>1, <3>2
  <2> QED
    BY <2>2, <2>3
<1>24. 4 + Total(x) \in Int
  BY <1>3, <1>15, <1>16
<1> QED
  BY <1>1, <1>4, <1>7, <1>10, <1>22, <1>23, <1>24 DEF Sized
-----------------------------------------------------------------------------
(***************************************************************************)
(* Start lines.                                                            *)
(***************************************************************************)
\* A message by its fields.
Msg(type, version, method, target, url, status, reason, headers, body) ==
  [type |-> type, version |-> version, method |-> method, target |-> target, uri |-> url,
   status |-> status, reason |-> reason, headers |-> headers, body |-> body]

\* A URI as it is kept.
Located(u) == u = [part \in Parts |-> u[part]] /\ u.port \in 0 .. PortRange - 1

\* A message as it is kept.
Typed(m) ==
  /\ m = Msg(m.type, m.version, m.method, m.target, m.uri, m.status, m.reason, m.headers, m.body)
  /\ m.type \in {"request", "response"}
  /\ m.type = "response" => m.method = None /\ m.target = None /\ m.uri = None
  /\ m.type = "request" => m.status = 0 /\ m.reason = None
  /\ m.target \in Targets \cup {None}
  /\ m.uri # None => Located(m.uri)
  /\ m.status \in 0 .. 999 /\ (m.reason = None => m.status \in Known \cup 0 .. Byte - 1)
  /\ Distinct(m.headers)
  /\ m.body \in Seq(Seq(Atoms)) /\ Len(m.body) \in {0, 1}

\* A start line that says what m is.
Begins(s, m) ==
  /\ m.type = "response" => s[5].of = m.status /\ s[7].of = Reason(m)
  /\ m.type = "request" => /\ s[1].of = Or(m.method, Get) /\ s[3].of = RequestLine(m)
                           /\ s[7].of = Or(m.version, DefaultVersion)
Silent(s) == Row(s, 8) /\ \A k \in 1 .. 8 : s[k].kind \notin {"header", "value", "body"}

\* The token of a kind with a text and a width.
Is(x, kind, of, width) == x.kind = kind /\ x.of = of /\ x.width = width

\* The tokens of a start line.
LEMMA TokenMade ==
  /\ \A kind, x, w : Is(Token(kind, x, w), kind, x, w)
  /\ Is(Mark("CRLF"), "CRLF", None, 2) /\ Is(Mark("HTTP"), "HTTP", None, 4)
  /\ Is(Mark(" "), " ", None, 1) /\ Is(Mark("/"), "/", None, 1)
BY DEF Is, Token, Mark

\* The start line says what the message is, and takes what is summed for it.
LEMMA StartLineSays ==
  ASSUME NEW m, Typed(m)
  PROVE  Begins(StartLine(m), m) /\ Silent(StartLine(m)) /\ Sized(StartLine(m), HeadSize(m))
<1>1. PICK s, v : s = StartLine(m) /\ v = Or(m.version, DefaultVersion)
  OBVIOUS
<1>2. CASE m.type = "response"
  <2>1. PICK st, re, w : st = m.status /\ re = Reason(m) /\ w = Digits(m.status)
    OBVIOUS
  <2>2. w \in Nat
    <3>1. st \in 0 .. PortRange - 1
      <4>1. st \in 0 .. 999
        BY <2>1 DEF Typed
      <4> QED
        BY <4>1 DEF PortRange
    <3>2. Digits(st) \in Nat
      BY <3>1, DigitsCounted
    <3> QED
      BY <2>1, <3>2
  <2>3. PICK a, b, c, d, e, f, g, h :
          /\ a = Mark("HTTP") /\ b = Mark("/") /\ c = Token("version", v, 1) /\ d = Mark(" ")
          /\ e = Token("status", st, w) /\ f = Mark(" ") /\ g = Token("reason", re, 1)
          /\ h = Mark("CRLF")
    OBVIOUS
  <2>4. Octet(s, a, b, c, d, e, f, g, h)
    BY <1>1, <1>2, <2>1, <2>3 DEF StartLine, Octet
  <2>5. /\ Is(a, "HTTP", None, 4) /\ Is(b, "/", None, 1) /\ Is(c, "version", v, 1)
        /\ Is(d, " ", None, 1) /\ Is(e, "status", st, w) /\ Is(f, " ", None, 1)
        /\ Is(g, "reason", re, 1) /\ Is(h, "CRLF", None, 2)
    BY <2>3, TokenMade, Zenon
  <2>6. /\ Row(s, 8)
        /\ s[1] = a /\ s[2] = b /\ s[3] = c /\ s[4] = d
        /\ s[5] = e /\ s[6] = f /\ s[7] = g /\ s[8] = h
    BY <2>4, Eight
  <2>7. \A k \in 1 .. 8 : k = 1 \/ k = 2 \/ k = 3 \/ k = 4 \/ k = 5 \/ k = 6 \/ k = 7 \/ k = 8
    OBVIOUS
  <2>8. Silent(s)
    BY <2>5, <2>6, <2>7 DEF Silent, Is
  <2>9. Begins(s, m)
    <3>1. m.type # "request" /\ s[5].of = st /\ s[7].of = re
      BY <1>2, <2>5, <2>6 DEF Is
    <3> QED
      BY <2>1, <3>1 DEF Begins
  <2>10. HeadSize(m) = 9 + (c.width + e.width + g.width)
    BY <1>1, <1>2, <2>6 DEF HeadSize
  <2>11. Sized(s, HeadSize(m))
    <3>1. /\ a.width = 4 /\ b.width = 1 /\ c.width = 1 /\ d.width = 1
          /\ e.width = w /\ f.width = 1 /\ g.width = 1 /\ h.width = 2
      BY <2>5 DEF Is
    <3>2. \A k \in 1 .. 8 : s[k].width \in Int
      BY <2>2, <2>6, <2>7, <3>1
    <3>3. /\ s[1].width = 4 /\ s[2].width = 1 /\ s[3].width = 1 /\ s[4].width = 1
          /\ s[5].width = w /\ s[6].width = 1 /\ s[7].width = 1 /\ s[8].width = 2
      BY <2>6, <3>1
    <3>4. HeadSize(m) = 9 + (1 + w + 1)
      BY <2>10, <3>1
    <3>5. HeadSize(m) = s[1].width + s[2].width + s[3].width + s[4].width
                        + s[5].width + s[6].width + s[7].width + s[8].width
      BY <2>2, <3>3, <3>4
    <3> QED
      BY <2>6, <3>2, <3>5, SizedEight
  <2> QED
    BY <1>1, <2>8, <2>9, <2>11
<1>3. CASE m.type = "request"
  <2>1. PICK me, li, w : /\ me = Or(m.method, Get) /\ li = RequestLine(m)
                         /\ w = IF m.target = None /\ m.uri # None THEN Length(m.uri, Parts) ELSE 1
    OBVIOUS
  <2>2. w \in Int
    <3>1. CASE m.target = None /\ m.uri # None
      <4>1. PICK u : u = m.uri
        OBVIOUS
      <4>2. u.port \in 0 .. PortRange - 1
        BY <3>1, <4>1 DEF Typed, Located
      <4>3. Length(u, Parts) \in Int
        BY <4>2, Lengths
      <4> QED
        BY <2>1, <3>1, <4>1, <4>3
    <3> QED
      BY <2>1, <3>1
  <2>3. PICK a, b, c, d, e, f, g, h :
          /\ a = Token("method", me, 1) /\ b = Mark(" ") /\ c = Token("target", li, w) /\ d = Mark(" ")
          /\ e = Mark("HTTP") /\ f = Mark("/") /\ g = Token("version", v, 1) /\ h = Mark("CRLF")
    OBVIOUS
  <2>4. Octet(s, a, b, c, d, e, f, g, h)
    <3>1. Target(m) = c
      BY <2>1, <2>3 DEF Target
    <3> QED
      BY <1>1, <1>3, <2>1, <2>3, <3>1 DEF StartLine, Octet
  <2>5. /\ Is(a, "method", me, 1) /\ Is(b, " ", None, 1) /\ Is(c, "target", li, w)
        /\ Is(d, " ", None, 1) /\ Is(e, "HTTP", None, 4) /\ Is(f, "/", None, 1)
        /\ Is(g, "version", v, 1) /\ Is(h, "CRLF", None, 2)
    BY <2>3, TokenMade, Zenon
  <2>6. /\ Row(s, 8)
        /\ s[1] = a /\ s[2] = b /\ s[3] = c /\ s[4] = d
        /\ s[5] = e /\ s[6] = f /\ s[7] = g /\ s[8] = h
    BY <2>4, Eight
  <2>7. \A k \in 1 .. 8 : k = 1 \/ k = 2 \/ k = 3 \/ k = 4 \/ k = 5 \/ k = 6 \/ k = 7 \/ k = 8
    OBVIOUS
  <2>8. Silent(s)
    BY <2>5, <2>6, <2>7 DEF Silent, Is
  <2>9. Begins(s, m)
    <3>1. m.type # "response" /\ s[1].of = me /\ s[3].of = li /\ s[7].of = v
      BY <1>3, <2>5, <2>6 DEF Is
    <3> QED
      BY <1>1, <2>1, <3>1 DEF Begins
  <2>10. HeadSize(m) = 9 + (a.width + c.width + g.width)
    BY <1>1, <1>3, <2>6 DEF HeadSize
  <2>11. Sized(s, HeadSize(m))
    <3>1. /\ a.width = 1 /\ b.width = 1 /\ c.width = w /\ d.width = 1
          /\ e.width = 4 /\ f.width = 1 /\ g.width = 1 /\ h.width = 2
      BY <2>5 DEF Is
    <3>2. \A k \in 1 .. 8 : s[k].width \in Int
      BY <2>2, <2>6, <2>7, <3>1
    <3>3. /\ s[1].width = 1 /\ s[2].width = 1 /\ s[3].width = w /\ s[4].width = 1
          /\ s[5].width = 4 /\ s[6].width = 1 /\ s[7].width = 1 /\ s[8].width = 2
      BY <2>6, <3>1
    <3>4. HeadSize(m) = 9 + (1 + w + 1)
      BY <2>10, <3>1
    <3>5. HeadSize(m) = s[1].width + s[2].width + s[3].width + s[4].width
                        + s[5].width + s[6].width + s[7].width + s[8].width
      BY <2>2, <3>3, <3>4
    <3> QED
      BY <2>6, <3>2, <3>5, SizedEight
  <2> QED
    BY <1>1, <2>8, <2>9, <2>11
<1> QED
  BY <1>2, <1>3 DEF Typed

\* Nothing is kept of a start line.
LEMMA Quiet ==
  ASSUME NEW s, Silent(s)
  PROVE  Legibles(s) /\ Read(s) = Nothing
<1>1. Row(s, 8) /\ Len(s) = 8 /\ \A k \in 1 .. 8 : s[k].kind \notin {"header", "value", "body"}
  BY DEF Silent, Row
<1>2. \A k \in 1 .. 8 : Legible(s[k])
  BY <1>1 DEF Legible
<1>3. Legibles(s)
  BY <1>1, <1>2 DEF Legibles
<1>4. PICK g : Resumes(g, Nothing, s, 8)
  <2>1. 8 = Len(s)
    BY <1>1
  <2> QED
    BY <1>3, <2>1, NothingRead, Resumed
<1>5. Read(s) = g[8]
  <2>1. 8 = Len(s)
    BY <1>1
  <2> QED
    BY <1>4, <2>1, ReadIs
<1>6. g[8] = Halfway(None, <<>>, <<>>, <<>>)
  <2>1. Resumes(g, Halfway(None, <<>>, <<>>, <<>>), s, 8)
    BY <1>4, NothingRead
  <2>2. \A k \in 1 .. 8 : s[k].kind \notin {"header", "value", "body"}
    BY <1>1
  <2> QED
    BY <2>1, <2>2, Skipped
<1> QED
  BY <1>3, <1>5, <1>6, NothingRead

\* The end of the head and what follows.
LEMMA Ends ==
  ASSUME NEW b, b \in Seq(Seq(Atoms)), NEW t, Legibles(t), NEW v, NEW h,
         Read(t) = Halfway(None, v, h, <<>>), Distinct(h)
  PROVE  \E r : /\ r = Cat(Cat(t, One(Mark("CRLF"))), BodyTokens(b)) /\ Legibles(r)
                /\ Read(r) = Halfway(None, v, h, Gathered(b))
                /\ \A k \in 1 .. Len(t) : r[k] = t[k]
<1>1. PICK c : c = One(Mark("CRLF"))
  OBVIOUS
<1>2. Row(c, 1) /\ Len(c) = 1 /\ c[1].kind = "CRLF"
  <2>1. PICK x : x = Mark("CRLF") /\ x.kind = "CRLF"
    BY Tokens
  <2>2. Row(One(x), 1) /\ One(x)[1] = x
    BY RowFacts DEF One
  <2> QED
    BY <1>1, <2>1, <2>2 DEF Row
<1>3. Legibles(c)
  <2>1. Legible(c[1])
    BY <1>2 DEF Legible
  <2> QED
    BY <1>2, <2>1 DEF Legibles
<1>4. PICK l : l = Len(t) /\ l \in Nat /\ Row(t, l)
  BY DEF Legibles, Row
<1>5. PICK s : s = Cat(t, c) /\ Joins(s, t, c, l, 1)
  BY <1>2, <1>4, Joined
<1>6. Legibles(s) /\ Read(s) = Halfway(None, v, h, <<>>)
  <2>1. PICK n : n = 1
    OBVIOUS
  <2>9. n = Len(c) /\ Joins(s, t, c, l, n) /\ l = Len(t)
    BY <1>2, <1>4, <1>5, <2>1
  <2>8. Legibles(s) /\ \E g : Resumes(g, Read(t), c, n) /\ Read(s) = g[n]
    BY <1>3, <2>9, ReadOn
  <2>2. Legibles(s) /\ \E g : Resumes(g, Read(t), c, 1) /\ Read(s) = g[1]
    BY <2>1, <2>8
  <2>3. PICK g : Resumes(g, Halfway(None, v, h, <<>>), c, 1) /\ Read(s) = g[1]
    BY <2>2
  <2>4. \A k \in 1 .. 1 : c[k].kind \notin {"header", "value", "body"}
    BY <1>2
  <2>5. g[1] = Halfway(None, v, h, <<>>)
    BY <2>3, <2>4, Skipped
  <2> QED
    BY <2>2, <2>3, <2>5
<1>7. PICK d, m : d = BodyTokens(b) /\ m = Len(b)
  OBVIOUS
<1>8. /\ m \in Nat /\ Row(d, m) /\ Len(d) = m
      /\ \A k \in 1 .. m : d[k] = Token("body", b[k], Len(b[k])) /\ b[k] \in Seq(Atoms)
  <2>1. m \in Nat /\ DOMAIN b = 1 .. m /\ \A k \in 1 .. m : b[k] \in Seq(Atoms)
    BY <1>7
  <2>2. d = [k \in 1 .. m |-> Token("body", b[k], Len(b[k]))]
    BY <1>7, <2>1 DEF BodyTokens
  <2>3. DOMAIN d = 1 .. m /\ d = [k \in 1 .. m |-> d[k]] /\ \A k \in 1 .. m : d[k] = Token("body", b[k], Len(b[k]))
    BY <2>2
  <2>4. Row(d, m)
    BY <2>1, <2>3, RowMade
  <2> QED
    BY <2>1, <2>3, <2>4 DEF Row
<1>9. \A k \in 1 .. m : d[k].kind = "body" /\ d[k].of = b[k]
  <2> SUFFICES ASSUME NEW k \in 1 .. m
               PROVE  d[k].kind = "body" /\ d[k].of = b[k]
    OBVIOUS
  <2>1. PICK x, y, w : x = d[k] /\ y = b[k] /\ w = Len(b[k])
    OBVIOUS
  <2>2. x = Token("body", y, w)
    BY <1>8, <2>1
  <2>3. x.kind = "body" /\ x.of = y
    BY <2>2 DEF Token
  <2> QED
    BY <2>1, <2>3
<1>10. IsBody(d, m, b)
  BY <1>7, <1>9 DEF IsBody
<1>11. Legibles(d)
  <2>1. \A k \in 1 .. m : Legible(d[k])
    BY <1>8, <1>9 DEF Legible
  <2> QED
    BY <1>8, <2>1 DEF Legibles
<1>12. PICK r : r = Cat(s, d) /\ Joins(r, s, d, l + 1, m)
  <2>1. Row(s, l + 1)
    BY <1>5 DEF Joins
  <2> QED
    BY <1>8, <2>1, Joined
<1>13. Legibles(r) /\ Read(r) = Halfway(None, v, h, Gathered(b))
  <2>1. l + 1 = Len(s) /\ m = Len(d)
    BY <1>5, <1>8 DEF Joins, Row
  <2>2. Legibles(r) /\ \E g : Resumes(g, Read(s), d, m) /\ Read(r) = g[m]
    BY <1>6, <1>11, <1>12, <2>1, ReadOn
  <2>3. PICK g : Resumes(g, Halfway(None, v, h, <<>>), d, m) /\ Read(r) = g[m]
    BY <1>6, <2>2
  <2>4. g[m] = Halfway(None, v, h, Gathered(b))
    BY <1>10, <2>3, BodyRead
  <2> QED
    BY <2>2, <2>3, <2>4
<1>14. \A k \in 1 .. l : r[k] = t[k]
  <2>1. \A k \in 1 .. l : k \in 1 .. l + 1
    BY <1>4
  <2> QED
    BY <1>5, <1>12, <2>1 DEF Joins
<1> QED
  BY <1>1, <1>4, <1>5, <1>7, <1>12, <1>13, <1>14
-----------------------------------------------------------------------------
(***************************************************************************)
(* A text that grows: its headers, its end, its body.                      *)
(***************************************************************************)
\* h is what has been read of the head t.
Collecting(t, h) == Legibles(t) /\ Distinct(h) /\ \E v : Read(t) = Halfway(None, v, h, <<>>)
Keeps(r, t) == \A k \in 1 .. Len(t) : r[k] = t[k]

\* No header is called None.
LEMMA NoName == None \notin Names
BY NoneAssumption

\* A line more: what was there stays, and the headers gain the line.
LEMMA Longer ==
  ASSUME NEW t, NEW h, Collecting(t, h), NEW x, Legibles(x), NEW n, n = Len(x),
         NEW name, name \in Names, NEW values, values \in Seq(Seq(Atoms)), IsLine(x, n, name, values)
  PROVE  /\ Keeps(Cat(t, x), t)
         /\ \E r : Collecting(Cat(t, x), r) /\ Gains(r, h, name, Cat(Prior(h, name), FlattenSeq(values)))
<1>1. PICK v : Legibles(t) /\ Distinct(h) /\ Read(t) = Halfway(None, v, h, <<>>)
  BY DEF Collecting
<1>2. PICK l : l = Len(t) /\ l \in Nat /\ Row(t, l)
  BY <1>1 DEF Legibles, Row
<1>3. Row(x, n)
  BY DEF Legibles
<1>4. PICK s : s = Cat(t, x) /\ Joins(s, t, x, l, n)
  BY <1>2, <1>3, Joined
<1>5. Legibles(s) /\ \E g : Resumes(g, Read(t), x, n) /\ Read(s) = g[n]
  BY <1>1, <1>2, <1>4, ReadOn
<1>6. PICK g : Resumes(g, Halfway(None, v, h, <<>>), x, n) /\ Read(s) = g[n]
  BY <1>1, <1>5
<1>7. name # None
  BY NoName
<1>8. PICK w : g[n] = Halfway(None, w, WithAdded(h, name, One(FlattenSeq(values))), <<>>)
  BY <1>6, <1>7, LineRead
<1>9. PICK y : y = FlattenSeq(values) /\ y \in Seq(Atoms)
  BY FlatFew
<1>10. One(y) \in Seq(Seq(Atoms)) /\ FlattenSeq(One(y)) = y
  BY <1>9, FlatFew DEF One
<1>11. PICK r : r = WithAdded(h, name, One(y))
  OBVIOUS
<1>12. Gains(r, h, name, Cat(Prior(h, name), y))
  <2>1. PICK z : z = One(y)
    OBVIOUS
  <2>2. z \in Seq(Seq(Atoms)) /\ FlattenSeq(z) = y
    BY <1>10, <2>1
  <2>3. Gains(WithAdded(h, name, z), h, name, Cat(Prior(h, name), FlattenSeq(z)))
    BY <1>1, <2>2, Added
  <2> QED
    BY <1>11, <2>1, <2>2, <2>3
<1>13. Collecting(s, r)
  <2>1. Read(s) = Halfway(None, w, r, <<>>)
    BY <1>6, <1>8, <1>9, <1>11
  <2>2. Distinct(r)
    BY <1>12 DEF Gains
  <2> QED
    BY <1>5, <2>1, <2>2 DEF Collecting
<1>14. Keeps(s, t)
  BY <1>2, <1>4 DEF Keeps, Joins
<1> QED
  BY <1>4, <1>9, <1>12, <1>13, <1>14

\* The head is over, the body follows.
LEMMA Over ==
  ASSUME NEW t, NEW h, Collecting(t, h), NEW b, b \in Seq(Seq(Atoms))
  PROVE  \E r : /\ r = Cat(Cat(t, One(Mark("CRLF"))), BodyTokens(b)) /\ Legibles(r)
                /\ Keeps(r, t)
                /\ \E v : Read(r) = Halfway(None, v, h, Gathered(b))
<1>1. PICK v : Legibles(t) /\ Distinct(h) /\ Read(t) = Halfway(None, v, h, <<>>)
  BY DEF Collecting
<1>2. PICK r : /\ r = Cat(Cat(t, One(Mark("CRLF"))), BodyTokens(b)) /\ Legibles(r)
               /\ Read(r) = Halfway(None, v, h, Gathered(b))
               /\ \A k \in 1 .. Len(t) : r[k] = t[k]
  BY <1>1, Ends
<1> QED
  BY <1>2 DEF Keeps

\* The bytes of a body.
BodySize(b) == Len(FlattenSeq(b))

\* The end of the head and the body take what is summed for them.
LEMMA OverSized ==
  ASSUME NEW t, NEW n, Sized(t, n), NEW b, b \in Seq(Seq(Atoms)), Len(b) \in {0, 1}
  PROVE  Sized(Cat(Cat(t, One(Mark("CRLF"))), BodyTokens(b)), n + 2 + BodySize(b))
<1>1. PICK c : c = One(Mark("CRLF"))
  OBVIOUS
<1>2. Sized(c, 2)
  <2>1. PICK x : x = Mark("CRLF") /\ x.width = 2
    BY Tokens
  <2>2. Sized(One(x), x.width)
    BY <2>1, SizedFew
  <2> QED
    BY <1>1, <2>1, <2>2
<1>3. PICK d : d = BodyTokens(b)
  OBVIOUS
<1>4. Sized(d, BodySize(b))
  <2>1. CASE Len(b) = 0
    <3>1. b = <<>>
      BY <2>1, EmptySeq
    <3>2. d = <<>>
      BY <1>3, <3>1 DEF BodyTokens
    <3>3. BodySize(b) = 0
      BY <3>1, FlatFew DEF BodySize
    <3> QED
      BY <3>2, <3>3, SizedFew
  <2>2. CASE Len(b) = 1
    <3>1. PICK y : y = b[1] /\ y \in Seq(Atoms)
      BY <2>2
    <3>2. b = <<y>>
      <4>1. PICK z : z = <<y>> /\ z[1] = y /\ Row(z, 1)
        BY RowFacts
      <4>2. Row(b, 1)
        BY <2>2, RowFacts
      <4>3. \A k \in 1 .. 1 : b[k] = z[k]
        BY <3>1, <4>1
      <4> QED
        BY <4>1, <4>2, <4>3, RowsEqual
    <3>3. BodySize(b) = Len(y)
      BY <3>1, <3>2, FlatFew DEF BodySize
    <3>4. PICK x : x = Token("body", y, Len(y))
      OBVIOUS
    <3>5. x.width = Len(y) /\ Len(y) \in Int
      BY <3>1, <3>4 DEF Token
    <3>6. d = One(x)
      <4>1. DOMAIN b = 1 .. 1
        BY <2>2
      <4>2. d = [k \in 1 .. 1 |-> Token("body", b[k], Len(b[k]))]
        BY <1>3, <4>1 DEF BodyTokens
      <4>3. d[1] = x /\ DOMAIN d = 1 .. 1 /\ d = [k \in 1 .. 1 |-> d[k]]
        BY <3>1, <3>4, <4>2
      <4>4. Row(d, 1)
        BY <4>3, RowMade
      <4>5. Row(One(x), 1) /\ One(x)[1] = x
        BY RowFacts DEF One
      <4>6. \A k \in 1 .. 1 : d[k] = One(x)[k]
        BY <4>3, <4>5
      <4> QED
        BY <4>4, <4>5, <4>6, RowsEqual
    <3>7. Sized(One(x), x.width)
      BY <3>5, SizedFew
    <3> QED
      BY <3>3, <3>5, <3>6, <3>7
  <2> QED
    BY <2>1, <2>2
<1>5. PICK s : s = Cat(t, c)
  OBVIOUS
<1>6. Sized(s, n + 2)
  BY <1>2, <1>5, SizedJoined
<1>7. Sized(Cat(s, d), n + 2 + BodySize(b))
  BY <1>4, <1>6, SizedJoined
<1> QED
  BY <1>1, <1>3, <1>5, <1>7

-----------------------------------------------------------------------------
\* A path alone.
LEMMA Paths ==
  ASSUME NEW x, x \in Targets \cup {Slash}
  PROVE  \E p : /\ p = [Blank EXCEPT !.path = x] /\ p # None /\ Located(p) /\ Regained(p)
                /\ Stringify(p, Parts) = Text(x)
<1>1. PICK p : p = [Blank EXCEPT !.path = x]
  OBVIOUS
<1>2. x # None /\ p # None
  BY <1>1, NoneAssumption
<1>3. /\ p = [part \in Parts |-> p[part]]
      /\ p.scheme = None /\ p.user = None /\ p.pass = None /\ p.host = None /\ p.query = None
      /\ p.fragment = None /\ p.port = 0 /\ p.path = x
  BY <1>1 DEF Blank, Absent, Parts, Strings
<1>4. 0 \in 0 .. PortRange - 1 /\ 0 < PortRange
  BY DEF PortRange
<1>5. Located(p) /\ Regained(p)
  BY <1>3, <1>4 DEF Located, Regained, Regular
<1>6. Stringify(p, Parts) = Text(x)
  <2>1. Present(p) \cap Parts = {"path"}
    BY <1>2, <1>3 DEF Present, Absent, Parts, Strings
  <2>2. Stringify(p, Parts) = <<>> \o <<>> \o <<>> \o <<>> \o Text(x) \o <<>> \o <<>>
    BY <1>3, <2>1 DEF Stringify
  <2>3. PICK s : s = Text(x)
    OBVIOUS
  <2>4. PICK T : s \in Seq(T)
    <3>1. s \in Seq({[text |-> x]})
      BY <2>3 DEF Text
    <3> QED
      BY <3>1
  <2>5. <<>> \o <<>> \o <<>> \o <<>> \o s \o <<>> \o <<>> = s
    <3>1. <<>> \in Seq(T)
      OBVIOUS
    <3>2. <<>> \o <<>> = <<>>
      BY <3>1, ConcatEmptySeq
    <3>3. <<>> \o s = s /\ s \o <<>> = s
      BY <2>4, ConcatEmptySeq
    <3> QED
      BY <3>2, <3>3
  <2> QED
    BY <2>2, <2>3, <2>5
<1> QED
  BY <1>1, <1>2, <1>5, <1>6

\* What a request line is read as.
Aimed(m) == m.type = "request" /\ m.target = None /\ m.uri # None => Locates(m.uri)

\* The text of a request line is read as the URI it stands for.
LEMMA Retrieved ==
  ASSUME NEW m, Typed(m), Aimed(m), m.type = "request", NEW s, s = RequestLine(m)
  PROVE  \E u : /\ u = IF s = Text(Slash) THEN [Blank EXCEPT !.path = Slash] ELSE Parse(s)
                /\ u # None /\ Located(u) /\ u = Addressed(m)
<1>1. PICK u : u = IF s = Text(Slash) THEN [Blank EXCEPT !.path = Slash] ELSE Parse(s)
  OBVIOUS
<1>2. PICK p : /\ p = [Blank EXCEPT !.path = Slash] /\ p # None /\ Located(p) /\ Regained(p)
               /\ Stringify(p, Parts) = Text(Slash)
  <2>1. Slash \in Targets \cup {Slash}
    OBVIOUS
  <2> QED
    BY <2>1, Paths
<1>3. PICK x : x = Addressed(m) /\ x # None /\ Located(x) /\ Regained(x) /\ s = Stringify(x, Parts)
  <2>1. CASE m.target # None
    <3>1. PICK y, q : /\ y = m.target /\ q = [Blank EXCEPT !.path = y] /\ q # None /\ Located(q) /\ Regained(q)
                      /\ Stringify(q, Parts) = Text(y)
      <4>1. PICK y : y = m.target /\ y \in Targets \cup {Slash}
        BY <2>1 DEF Typed
      <4> QED
        BY <4>1, Paths
    <3>2. Addressed(m) = q
      BY <2>1, <3>1 DEF Addressed, PathOnly
    <3>3. s = Text(y)
      BY <2>1, <3>1 DEF RequestLine
    <3> QED
      BY <3>1, <3>2, <3>3
  <2>2. CASE m.target = None /\ m.uri # None
    <3>1. PICK y : y = m.uri
      OBVIOUS
    <3>2. Addressed(m) = y /\ s = Stringify(y, Parts) /\ y # None
      BY <2>2, <3>1 DEF Addressed, Or, RequestLine
    <3>3. Located(y) /\ Regained(y)
      BY <2>2, <3>1 DEF Typed, Aimed, Locates, Regained
    <3> QED
      BY <3>2, <3>3
  <2>3. CASE m.target = None /\ m.uri = None
    <3>1. Addressed(m) = p
      BY <1>2, <2>3 DEF Addressed, Or, PathOnly
    <3>2. s = Text(Slash)
      BY <2>3 DEF RequestLine
    <3> QED
      BY <1>2, <3>1, <3>2
  <2> QED
    BY <2>1, <2>2, <2>3
<1>4. Parse(Stringify(x, Parts)) = x /\ Parse(Stringify(p, Parts)) = p
  BY <1>2, <1>3, ReadBack DEF Located
<1>5. s = Text(Slash) => x = p
  BY <1>2, <1>3, <1>4
<1> QED
  BY <1>1, <1>2, <1>3, <1>4, <1>5
-----------------------------------------------------------------------------
(***************************************************************************)
(* A text is read as the message it was built of.                          *)
(***************************************************************************)
\* What a message means, by its fields: what its getters answer, with the
\* phrase that is built.
Meant(type, version, method, target, url, status, reason, headers, body) ==
  [type |-> type, version |-> version, method |-> method, target |-> target, uri |-> url,
   status |-> status, reason |-> reason, headers |-> headers, body |-> body]
Meaning(m) ==
  Meant(m.type, Or(m.version, DefaultVersion), Or(m.method, Get), m.target, m.uri, m.status,
        Reason(m), Headers(m), FlattenSeq(m.body))

\* With these headers the message has a body.
Carries(m, h) ==
  \/ LengthHeader \in Listed(h) \/ EncodingHeader \in Listed(h)
  \/ m.type = "response" /\ ~(m.status \in 100 .. 199 \cup {204, 304})

\* The table of a message is the one its headers stand for.
LEMMA MeaningIs ==
  ASSUME NEW m, Typed(m)
  PROVE  /\ Meaning(m) = Meant(m.type, Or(m.version, DefaultVersion), Or(m.method, Get), m.target, m.uri,
                               m.status, Reason(m), Table(m.headers), FlattenSeq(m.body))
         /\ HasBody(m) <=> Carries(m, m.headers)
<1>1. PICK h : h = m.headers
  OBVIOUS
<1>2. Distinct(h)
  BY <1>1 DEF Typed
<1>3. DOMAIN h = 1 .. Len(h)
  BY <1>2, HeaderFacts DEF Distinct
<1>4. Headers(m) = Table(h)
  BY <1>1, <1>3 DEF Headers, Table, Listed
<1>5. HasBody(m) <=> Carries(m, h)
  <2>1. \A n : Find(h, n) = 0 <=> n \notin Listed(h)
    BY <1>2, TableFacts
  <2> QED
    BY <1>1, <2>1 DEF HasBody, Carries
<1> QED
  BY <1>1, <1>4, <1>5 DEF Meaning, Meant

\* m has these fields.
IsMsg(m, a, b, c, d, e, f, g, h, i) == m = Msg(a, b, c, d, e, f, g, h, i)

\* They are its fields.
LEMMA Fields ==
  ASSUME NEW m, NEW a, NEW b, NEW c, NEW d, NEW e, NEW f, NEW g, NEW h, NEW i,
         IsMsg(m, a, b, c, d, e, f, g, h, i)
  PROVE  /\ m.type = a /\ m.version = b /\ m.method = c /\ m.target = d /\ m.uri = e
         /\ m.status = f /\ m.reason = g /\ m.headers = h /\ m.body = i
BY DEF Msg, IsMsg

\* What a text says that begins as m does, and whose headers and body are h, b.
Says(r, m, h, b) ==
  /\ Typed(r)
  /\ HasBody(r) <=> Carries(m, h)
  /\ Meaning(r) = Meant(m.type, IF m.type = "response" THEN DefaultVersion ELSE Or(m.version, DefaultVersion),
                        Or(m.method, Get), None, Addressed(m), m.status, Reason(m), Table(h),
                        IF Carries(m, h) THEN FlattenSeq(b) ELSE <<>>)

\* ... and it says that.
LEMMA Parsed ==
  ASSUME NEW m, Typed(m), Aimed(m), NEW t, Begins(t, m), NEW h, Distinct(h),
         NEW b, b \in Seq(Seq(Atoms)), Len(b) \in {0, 1}, NEW v, Read(t) = Halfway(None, v, h, b)
  PROVE  Says(ParseText(m.type, t), m, h, b)
<1>1. PICK type : type = m.type
  OBVIOUS
<1>2. PICK start : start = IF type = "response"
               THEN [NewMessage(type) EXCEPT !.status = t[5].of, !.reason = t[7].of]
               ELSE [NewMessage(type) EXCEPT !.method = t[1].of, !.version = t[7].of,
                       !.uri = IF t[3].of = Text(Slash) THEN [Blank EXCEPT !.path = Slash]
                               ELSE Parse(t[3].of)]
  OBVIOUS
<1>3. PICK head : head = [start EXCEPT !.headers = h]
  OBVIOUS
<1>4. PICK r : r = IF HasBody(head) THEN [head EXCEPT !.body = b] ELSE head
  OBVIOUS
<1>5. ParseText(type, t) = r
  <2>1. Read(t).headers = h /\ Read(t).body = b
    BY DEF Halfway
  <2> QED
    BY <1>2, <1>3, <1>4, <2>1 DEF ParseText
<1>6. PICK new : new = NewMessage(type) /\ IsMsg(new, type, None, None, None, None, 0, None, <<>>, <<>>)
  BY DEF NewMessage, Msg, IsMsg
<1>7. PICK version, method, url, status, reason :
        /\ IsMsg(start, type, version, method, None, url, status, reason, <<>>, <<>>)
        /\ type = "response" => /\ version = None /\ method = None /\ url = None
                                /\ status = m.status /\ reason = Reason(m)
        /\ type = "request" => /\ version = Or(m.version, DefaultVersion) /\ method = Or(m.method, Get)
                               /\ status = 0 /\ reason = None
                               /\ url # None /\ Located(url) /\ url = Addressed(m)
  <2>1. CASE type = "response"
    <3>1. PICK st, re : st = m.status /\ re = Reason(m) /\ t[5].of = st /\ t[7].of = re
      BY <1>1, <2>1 DEF Begins
    <3>2. PICK p : p = [new EXCEPT !.status = st]
      OBVIOUS
    <3>3. IsMsg(p, type, None, None, None, None, st, None, <<>>, <<>>)
      BY <1>6, <3>2 DEF IsMsg, Msg
    <3>4. IsMsg([p EXCEPT !.reason = re], type, None, None, None, None, st, re, <<>>, <<>>)
      BY <3>3 DEF IsMsg, Msg
    <3>5. start = [p EXCEPT !.reason = re]
      BY <1>2, <1>6, <2>1, <3>1, <3>2
    <3> QED
      BY <2>1, <3>1, <3>4, <3>5
  <2>2. CASE type = "request"
    <3>1. PICK me, li, ve : /\ me = Or(m.method, Get) /\ li = RequestLine(m) /\ ve = Or(m.version, DefaultVersion)
                            /\ t[1].of = me /\ t[3].of = li /\ t[7].of = ve
      BY <1>1, <2>2 DEF Begins
    <3>2. PICK u : /\ u = IF li = Text(Slash) THEN [Blank EXCEPT !.path = Slash] ELSE Parse(li)
                   /\ u # None /\ Located(u) /\ u = Addressed(m)
      BY <1>1, <2>2, <3>1, Retrieved
    <3>3. PICK p : p = [new EXCEPT !.method = me]
      OBVIOUS
    <3>4. PICK q : q = [p EXCEPT !.version = ve]
      OBVIOUS
    <3>5. IsMsg(p, type, None, me, None, None, 0, None, <<>>, <<>>)
      BY <1>6, <3>3 DEF IsMsg, Msg
    <3>6. IsMsg(q, type, ve, me, None, None, 0, None, <<>>, <<>>)
      BY <3>4, <3>5 DEF IsMsg, Msg
    <3>7. IsMsg([q EXCEPT !.uri = u], type, ve, me, None, u, 0, None, <<>>, <<>>)
      BY <3>6 DEF IsMsg, Msg
    <3>8. start = [q EXCEPT !.uri = u]
      BY <1>2, <1>6, <2>2, <3>1, <3>2, <3>3, <3>4
    <3> QED
      BY <2>2, <3>1, <3>2, <3>7, <3>8
  <2> QED
    BY <1>1, <2>1, <2>2 DEF Typed
<1>24. PICK st : st = m.status
  OBVIOUS
<1>25. /\ type = "response" => status = st
       /\ type = "request" => status = 0
  BY <1>7, <1>24
<1>26. st \in 0 .. 999 /\ (type = "request" => st = 0) /\ type \in {"request", "response"}
  BY <1>1, <1>24 DEF Typed
<1>27. status = st
  BY <1>25, <1>26
<1>8. IsMsg(head, type, version, method, None, url, status, reason, h, <<>>)
  BY <1>3, <1>7 DEF IsMsg, Msg
<1>9. IsMsg([head EXCEPT !.body = b], type, version, method, None, url, status, reason, h, b)
  BY <1>8 DEF IsMsg, Msg
<1>10. HasBody(head) <=> Carries(m, h)
  <2>1. head.headers = h /\ head.type = type /\ head.status = status
    BY <1>8, Fields
  <2>2. \A n : Find(h, n) = 0 <=> n \notin Listed(h)
    BY TableFacts
  <2> QED
    BY <1>1, <1>24, <1>27, <2>1, <2>2 DEF HasBody, Carries
<1>11. PICK body : body = IF Carries(m, h) THEN b ELSE <<>>
  OBVIOUS
<1>12. IsMsg(r, type, version, method, None, url, status, reason, h, body)
  BY <1>4, <1>8, <1>9, <1>10, <1>11
<1>13. /\ r.type = type /\ r.version = version /\ r.method = method /\ r.target = None /\ r.uri = url
       /\ r.status = status /\ r.reason = reason /\ r.headers = h /\ r.body = body
  BY <1>12, Fields
<1>14. body \in Seq(Seq(Atoms)) /\ Len(body) \in {0, 1}
  <2>1. <<>> \in Seq(Seq(Atoms)) /\ Len(<<>>) = 0
    OBVIOUS
  <2> QED
    BY <1>11, <2>1
<1>15. type \in {"request", "response"} /\ status \in 0 .. 999
  BY <1>26, <1>27
<1>16. Typed(r)
  <2>1. IsMsg(r, r.type, r.version, r.method, r.target, r.uri, r.status, r.reason, r.headers, r.body)
    BY <1>12, <1>13 DEF IsMsg
  <2>2. type = "response" => version = None /\ method = None /\ url = None
    BY <1>7
  <2>3. type = "request" => status = 0 /\ reason = None
    BY <1>7
  <2>4. url # None => Located(url)
    BY <1>7, <1>15
  <2>5. r = Msg(r.type, r.version, r.method, r.target, r.uri, r.status, r.reason, r.headers, r.body)
    BY <2>1 DEF IsMsg
  <2>6. /\ r.type \in {"request", "response"}
        /\ r.type = "response" => r.method = None /\ r.target = None /\ r.uri = None
        /\ r.type = "request" => r.status = 0 /\ r.reason = None
        /\ r.target \in Targets \cup {None}
        /\ r.uri # None => Located(r.uri)
    BY <1>13, <1>15, <2>2, <2>3, <2>4
  <2>7. /\ r.status \in 0 .. 999 /\ Distinct(r.headers)
        /\ r.body \in Seq(Seq(Atoms)) /\ Len(r.body) \in {0, 1}
    BY <1>13, <1>14, <1>15
  <2>8. r.reason = None => r.status \in Known \cup 0 .. Byte - 1
    <3>1. m.reason = None => st \in Known \cup 0 .. Byte - 1
      BY <1>24 DEF Typed
    <3>2. type = "response" /\ reason = None => m.reason = None \/ st \in Known
      BY <1>7, <1>24 DEF Reason
    <3>3. type = "request" => st \in 0 .. Byte - 1
      BY <1>26 DEF Byte
    <3> QED
      BY <1>13, <1>15, <1>27, <3>1, <3>2, <3>3
  <2> QED
    BY <2>5, <2>6, <2>7, <2>8, Zenon DEF Typed
<1>17. HasBody(r) <=> Carries(m, h)
  <2>1. HasBody(r) <=> Carries(r, h)
    BY <1>13, <1>16, MeaningIs
  <2>2. Carries(r, h) <=> Carries(m, h)
    BY <1>1, <1>13, <1>24, <1>27 DEF Carries
  <2> QED
    BY <2>1, <2>2
<1>18. FlattenSeq(body) = IF Carries(m, h) THEN FlattenSeq(b) ELSE <<>>
  BY <1>11, FlatFew
<1>19. Or(r.version, DefaultVersion)
         = IF type = "response" THEN DefaultVersion ELSE Or(m.version, DefaultVersion)
  BY <1>7, <1>13, <1>15 DEF Or
<1>20. Or(r.method, Get) = Or(m.method, Get)
  BY <1>1, <1>7, <1>13, <1>15 DEF Or, Typed
<1>21. r.target = None /\ r.uri = Addressed(m)
  <2>1. type = "response" => url = Addressed(m)
    BY <1>1, <1>7 DEF Addressed
  <2> QED
    BY <1>7, <1>13, <1>15, <2>1
<1>22. r.status = m.status /\ Reason(r) = Reason(m)
  <2>1. CASE type = "response"
    BY <1>7, <1>13, <2>1 DEF Reason
  <2>2. CASE type = "request"
    BY <1>1, <1>7, <1>13, <2>2 DEF Reason, Typed
  <2> QED
    BY <1>15, <2>1, <2>2
<1>23. Meaning(r) = Meant(type, IF type = "response" THEN DefaultVersion ELSE Or(m.version, DefaultVersion),
                          Or(m.method, Get), None, Addressed(m), m.status, Reason(m), Table(h),
                          IF Carries(m, h) THEN FlattenSeq(b) ELSE <<>>)
  <2>1. Meaning(r) = Meant(r.type, Or(r.version, DefaultVersion), Or(r.method, Get), r.target, r.uri,
                           r.status, Reason(r), Table(r.headers), FlattenSeq(r.body))
    BY <1>16, MeaningIs
  <2> QED
    BY <1>13, <1>18, <1>19, <1>20, <1>21, <1>22, <2>1
<1> QED
  BY <1>1, <1>5, <1>16, <1>17, <1>23 DEF Says
-----------------------------------------------------------------------------
(***************************************************************************)
(* The lines of a peer.                                                    *)
(***************************************************************************)
\* Induction up to a number.
LEMMA Climbs ==
  ASSUME NEW m \in Nat, NEW S, 0 \in S, \A k \in 1 .. m : k - 1 \in S => k \in S
  PROVE  m \in S
<1> DEFINE B == {k \in 0 .. m : k \notin S}
<1> SUFFICES ASSUME B # {}
             PROVE  FALSE
  OBVIOUS
<1>1. PICK k \in B : \A j \in B : k <= j
  <2>1. B \subseteq Nat
    OBVIOUS
  <2> HIDE DEF B
  <2> QED
    BY <2>1, LeastOf
<1>2. k # 0 /\ k \in 1 .. m /\ k - 1 \in 0 .. m /\ ~(k <= k - 1)
  OBVIOUS
<1>3. k - 1 \in S
  BY <1>1, <1>2
<1> QED
  BY <1>2, <1>3

\* Concatenation of sequences over one set, with names for them.
LEMMA Assoc ==
  ASSUME NEW T, NEW x, x \in Seq(T), NEW y, y \in Seq(T), NEW z, z \in Seq(T)
  PROVE  Cat(Cat(x, y), z) = Cat(x, Cat(y, z))
BY ConcatAssociative DEF Cat

LEMMA Unit ==
  ASSUME NEW T, NEW x, x \in Seq(T)
  PROVE  Cat(x, <<>>) = x
BY ConcatEmptySeq DEF Cat

\* What is there of a name after a header is added.
LEMMA PriorGains ==
  ASSUME NEW r, NEW h, NEW name, NEW list, Gains(r, h, name, list), NEW n
  PROVE  Prior(r, n) = IF n = name THEN list ELSE Prior(h, n)
BY DEF Gains, Prior

\* f collects the values of a name.
Gathers(f, head, name, m) ==
  /\ m = Len(head) /\ m \in Nat /\ f \in [0 .. m -> Seq(Atoms)] /\ f[0] = <<>>
  /\ \A k \in 1 .. m : f[k] = IF Lower[head[k][1]] = name THEN Append(f[k - 1], head[k][2]) ELSE f[k - 1]

\* There is one for every head,
LEMMA GathersExists ==
  ASSUME NEW head, head \in Seq(Spellings \X Atoms), NEW name
  PROVE  \E f : Gathers(f, head, name, Len(head))
<1>1. PICK m : m = Len(head) /\ m \in Nat
  OBVIOUS
<1>2. \A k \in 1 .. m : head[k][2] \in Atoms
  BY <1>1
<1>3. PICK step : step = [k \in 1 .. m |-> [x \in Seq(Atoms) |->
                            IF Lower[head[k][1]] = name THEN Append(x, head[k][2]) ELSE x]]
  OBVIOUS
<1>4. /\ \A k \in 1 .. m : step[k] \in [Seq(Atoms) -> Seq(Atoms)]
      /\ \A k \in 1 .. m : \A x \in Seq(Atoms) :
           step[k][x] = IF Lower[head[k][1]] = name THEN Append(x, head[k][2]) ELSE x
  BY <1>2, <1>3
<1>5. PICK f : Recursion(f, Seq(Atoms), <<>>, step, m)
  <2>1. Steps(step, Seq(Atoms), m)
    BY <1>1, <1>4 DEF Steps
  <2>2. <<>> \in Seq(Atoms)
    OBVIOUS
  <2> QED
    BY <2>1, <2>2, RecursionExists
<1>6. \A k \in 1 .. m : k - 1 \in 0 .. m
  BY <1>1
<1>7. f \in [0 .. m -> Seq(Atoms)] /\ f[0] = <<>> /\ \A k \in 1 .. m : f[k] = step[k][f[k - 1]]
  BY <1>5 DEF Recursion
<1>8. \A k \in 1 .. m : f[k - 1] \in Seq(Atoms)
  BY <1>6, <1>7
<1>9. \A k \in 1 .. m : f[k] = IF Lower[head[k][1]] = name THEN Append(f[k - 1], head[k][2]) ELSE f[k - 1]
  BY <1>4, <1>7, <1>8
<1>10. Gathers(f, head, name, m)
  BY <1>1, <1>7, <1>9 DEF Gathers
<1> QED
  BY <1>1, <1>10

\* ... and Repeated is where it ends.
LEMMA RepeatedIs ==
  ASSUME NEW head, NEW name, NEW m, NEW g, Gathers(g, head, name, m)
  PROVE  Repeated(head, name) = g[m]
<1>1. /\ m = Len(head) /\ m \in Nat /\ g \in [0 .. m -> Seq(Atoms)] /\ g[0] = <<>>
      /\ \A k \in 1 .. m : g[k] = IF Lower[head[k][1]] = name THEN Append(g[k - 1], head[k][2]) ELSE g[k - 1]
  BY DEF Gathers
<1> DEFINE Defines(f) == f = [k \in 0 .. Len(head) |->
             IF k = 0 THEN <<>>
             ELSE IF Lower[head[k][1]] = name THEN Append(f[k - 1], head[k][2]) ELSE f[k - 1]]
<1>2. Defines(g)
  <2>1. \A k \in 0 .. m : k # 0 => k \in 1 .. m
    BY <1>1
  <2>2. \A k \in 0 .. m : g[k] = IF k = 0 THEN <<>>
             ELSE IF Lower[head[k][1]] = name THEN Append(g[k - 1], head[k][2]) ELSE g[k - 1]
    BY <1>1, <2>1
  <2>3. g = [k \in 0 .. m |-> g[k]]
    BY <1>1
  <2>4. [k \in 0 .. m |-> g[k]] = [k \in 0 .. m |->
             IF k = 0 THEN <<>>
             ELSE IF Lower[head[k][1]] = name THEN Append(g[k - 1], head[k][2]) ELSE g[k - 1]]
    BY <2>2, Zenon
  <2> QED
    BY <1>1, <2>3, <2>4, Zenon
<1>3. PICK f : Defines(f) /\ Repeated(head, name) = f[Len(head)]
  <2>1. Repeated(head, name) = (CHOOSE f : Defines(f))[Len(head)]
    BY Zenon DEF Repeated
  <2> HIDE DEF Defines
  <2>2. Defines(CHOOSE f : Defines(f))
    BY <1>2
  <2> QED
    BY <2>1, <2>2
<1>4. f[0] = <<>> /\ \A k \in 1 .. m : f[k] =
             IF Lower[head[k][1]] = name THEN Append(f[k - 1], head[k][2]) ELSE f[k - 1]
  <2>1. \A k \in 0 .. m : f[k] = IF k = 0 THEN <<>>
             ELSE IF Lower[head[k][1]] = name THEN Append(f[k - 1], head[k][2]) ELSE f[k - 1]
    BY <1>1, <1>3, Zenon
  <2>2. 0 \in 0 .. m /\ \A k \in 1 .. m : k \in 0 .. m /\ k # 0
    BY <1>1
  <2> QED
    BY <2>1, <2>2, Zenon
<1> HIDE DEF Defines
<1>5. Follows(f, g, m)
  BY <1>1, <1>4 DEF Follows
<1>6. f[m] = g[m]
  <2>1. m \in 0 .. m
    BY <1>1
  <2> QED
    BY <1>5, <2>1, RecursionUnique DEF Agree
<1> QED
  BY <1>1, <1>3, <1>6

\* A line of another.
LEMMA SentLineIs ==
  ASSUME NEW x, x \in Spellings \X Atoms
  PROVE  \E y : /\ y = SentLine(x) /\ Row(y, 4) /\ Legibles(y)
                /\ IsLine(y, 4, Lower[x[1]], One(One(x[2])))
<1>1. PICK s, a : s = x[1] /\ a = x[2] /\ s \in Spellings /\ a \in Atoms
  OBVIOUS
<1>2. PICK c, d, e, f : c = Token("header", s, 1) /\ d = Mark(": ") /\ e = Token("value", One(a), 1) /\ f = Mark("CRLF")
  OBVIOUS
<1>3. c.kind = "header" /\ c.of = s /\ d.kind = ": " /\ e.kind = "value" /\ e.of = One(a) /\ f.kind = "CRLF"
  BY <1>2 DEF Token, Mark
<1>4. PICK y : y = SentLine(x)
  OBVIOUS
<1>5. y = <<c, d, e, f>>
  BY <1>1, <1>2, <1>4 DEF SentLine, One
<1>6. Row(y, 4) /\ y[1] = c /\ y[2] = d /\ y[3] = e /\ y[4] = f
  <2>1. y[1] = c /\ y[2] = d /\ y[3] = e /\ y[4] = f /\ Len(y) = 4 /\ y \in Seq({c, d, e, f})
    BY <1>5
  <2> QED
    BY <2>1 DEF Row
<1>7. PICK v : v = One(One(a)) /\ Len(v) = 1 /\ v[1] = One(a)
  <2>1. PICK z : z = One(a)
    OBVIOUS
  <2>2. Row(One(z), 1) /\ One(z)[1] = z
    BY RowFacts DEF One
  <2> QED
    BY <2>1, <2>2 DEF Row
<1>8. IsLine(y, 4, Lower[s], v)
  <2>1. \A j \in 1 .. 1 : j = 1 /\ 2 * j = 2 /\ 2 * j + 1 = 3
    OBVIOUS
  <2>2. 4 = 2 + 2 * Len(v)
    BY <1>7
  <2>3. \A j \in 1 .. Len(v) : /\ y[2 * j].kind \in {": ", ","}
                               /\ y[2 * j + 1].kind = "value" /\ y[2 * j + 1].of = v[j]
    BY <1>3, <1>6, <1>7, <2>1
  <2> QED
    BY <1>3, <1>6, <2>2, <2>3 DEF IsLine
<1>9. One(a) \in Seq(Atoms) /\ Lower[s] \in Names
  BY <1>1 DEF One, Names
<1>10. \A k \in 1 .. 4 : Legible(y[k])
  <2>1. Legible(c) /\ Legible(d) /\ Legible(e) /\ Legible(f)
    BY <1>3, <1>9 DEF Legible
  <2>2. \A k \in 1 .. 4 : k = 1 \/ k = 2 \/ k = 3 \/ k = 4
    OBVIOUS
  <2> QED
    BY <1>6, <2>1, <2>2
<1>11. Legibles(y)
  BY <1>6, <1>10 DEF Legibles, Row
<1> QED
  BY <1>1, <1>4, <1>6, <1>7, <1>8, <1>11

\* The names of the first k lines.
Heading(head, k) == {Lower[head[j][1]] : j \in 1 .. k}

\* The headers of a peer are read as those it has repeated.
LEMMA SentRead ==
  ASSUME NEW head, head \in Seq(Spellings \X Atoms), NEW s, Collecting(s, <<>>)
  PROVE  /\ \E l : Row(SentLines(head), l)
         /\ \E h : /\ Collecting(Cat(s, SentLines(head)), h)
                   /\ Table(h) = [n \in {Lower[head[k][1]] : k \in DOMAIN head} |-> Repeated(head, n)]
<1>1. PICK m : m = Len(head) /\ m \in Nat /\ DOMAIN head = 1 .. m
  OBVIOUS
<1>2. \A k \in 1 .. m : /\ head[k] \in Spellings \X Atoms /\ head[k][2] \in Atoms
                        /\ Lower[head[k][1]] \in Names
  BY <1>1 DEF Names
<1>3. PICK lines : lines = [k \in 1 .. m |-> SentLine(head[k])]
  OBVIOUS
<1>4. \A k \in 1 .. m : /\ Row(lines[k], 4) /\ Legibles(lines[k])
                        /\ IsLine(lines[k], 4, Lower[head[k][1]], One(One(head[k][2])))
  <2> SUFFICES ASSUME NEW k \in 1 .. m
               PROVE  /\ Row(lines[k], 4) /\ Legibles(lines[k])
                      /\ IsLine(lines[k], 4, Lower[head[k][1]], One(One(head[k][2])))
    OBVIOUS
  <2>1. PICK x : x = head[k] /\ x \in Spellings \X Atoms
    BY <1>2
  <2>2. lines[k] = SentLine(x)
    BY <1>3, <2>1
  <2> QED
    BY <2>1, <2>2, SentLineIs
<1>5. PICK l, S : l = Len(s) /\ s \in Seq(S) /\ Row(s, l)
  BY DEF Collecting, Legibles, Row
<1>6. PICK T : T = S \cup UNION {{lines[k][j] : j \in 1 .. 4} : k \in 1 .. m}
  OBVIOUS
<1>7. s \in Seq(T)
  BY <1>5, <1>6
<1>8. lines \in Seq(Seq(T)) /\ Len(lines) = m
  <2>1. \A k \in 1 .. m : lines[k] \in Seq(T)
    <3> SUFFICES ASSUME NEW k \in 1 .. m
                 PROVE  lines[k] \in Seq(T)
      OBVIOUS
    <3>1. PICK y : y = lines[k] /\ Row(y, 4)
      BY <1>4
    <3>2. \A j \in 1 .. 4 : y[j] \in T
      BY <1>6, <3>1
    <3>3. PICK U : y \in Seq(U) /\ Len(y) = 4
      BY <3>1 DEF Row
    <3>4. y \in Seq(T)
      <4>1. y = [j \in 1 .. 4 |-> y[j]]
        BY <3>3
      <4>2. \A j \in 1 .. 4 : y[j] \in T
        BY <3>2
      <4> HIDE <1>6
      <4>3. [j \in 1 .. 4 |-> y[j]] \in Seq(T)
        BY <4>2
      <4> QED
        BY <4>1, <4>3
    <3> QED
      BY <3>1, <3>4
  <2> QED
    BY <1>1, <1>3, <2>1
<1>9. PICK L : Flat(L, lines, m, T) /\ FlattenSeq(lines) = L[m]
  BY <1>8, Flattens
<1>10. /\ \A k \in 0 .. m : L[k] \in Seq(T)
       /\ L[0] = <<>> /\ \A k \in 1 .. m : L[k] = Cat(L[k - 1], lines[k])
  BY <1>9 DEF Flat
<1>11. PICK P : P = [k \in 0 .. m |-> Cat(s, L[k])]
  OBVIOUS
<1>12. P[0] = s /\ \A k \in 1 .. m : P[k] = Cat(P[k - 1], lines[k])
  <2>1. P[0] = s
    <3>1. P[0] = Cat(s, <<>>)
      BY <1>1, <1>10, <1>11
    <3>2. Cat(s, <<>>) = s
      BY <1>7, Unit
    <3> QED
      BY <3>1, <3>2
  <2>2. ASSUME NEW k \in 1 .. m
        PROVE  P[k] = Cat(P[k - 1], lines[k])
    <3>1. k \in 0 .. m /\ k - 1 \in 0 .. m
      BY <1>1
    <3>2. PICK x, y : x = L[k - 1] /\ y = lines[k] /\ x \in Seq(T) /\ y \in Seq(T)
      BY <1>8, <1>10, <3>1
    <3>3. Cat(Cat(s, x), y) = Cat(s, Cat(x, y))
      BY <1>7, <3>2, Assoc
    <3> QED
      BY <1>10, <1>11, <3>1, <3>2, <3>3
  <2> QED
    BY <2>1, <2>2
<1>13. SentLines(head) = L[m] /\ P[m] = Cat(s, SentLines(head))
  <2>1. SentLines(head) = L[m]
    BY <1>1, <1>3, <1>9 DEF SentLines
  <2>2. m \in 0 .. m
    BY <1>1
  <2> QED
    BY <1>11, <2>1, <2>2
<1>14. PICK F : F = [n \in Names |-> CHOOSE f : Gathers(f, head, n, m)]
  OBVIOUS
<1>15. \A n \in Names : Gathers(F[n], head, n, m)
  <2> SUFFICES ASSUME NEW n \in Names
               PROVE  Gathers(F[n], head, n, m)
    OBVIOUS
  <2>1. F[n] = CHOOSE f : Gathers(f, head, n, m)
    BY <1>14
  <2>2. \E f : Gathers(f, head, n, m)
    BY <1>1, GathersExists
  <2> QED
    BY <2>1, <2>2
<1>16. /\ \A n \in Names : F[n][0] = <<>>
       /\ \A n \in Names : \A k \in 1 .. m :
            F[n][k] = IF Lower[head[k][1]] = n THEN Append(F[n][k - 1], head[k][2]) ELSE F[n][k - 1]
       /\ \A n \in Names : \A k \in 0 .. m : F[n][k] \in Seq(Atoms)
       /\ \A n \in Names : Repeated(head, n) = F[n][m]
  <2>1. ASSUME NEW n \in Names
        PROVE  /\ F[n][0] = <<>>
               /\ \A k \in 1 .. m : F[n][k] = IF Lower[head[k][1]] = n THEN Append(F[n][k - 1], head[k][2])
                                            ELSE F[n][k - 1]
               /\ \A k \in 0 .. m : F[n][k] \in Seq(Atoms)
               /\ Repeated(head, n) = F[n][m]
    <3>1. PICK f : f = F[n] /\ Gathers(f, head, n, m)
      BY <1>15
    <3>2. Repeated(head, n) = f[m]
      BY <3>1, RepeatedIs
    <3>3. /\ f[0] = <<>> /\ f \in [0 .. m -> Seq(Atoms)]
          /\ \A k \in 1 .. m : f[k] = IF Lower[head[k][1]] = n THEN Append(f[k - 1], head[k][2])
                                       ELSE f[k - 1]
      BY <3>1 DEF Gathers
    <3>4. \A k \in 0 .. m : f[k] \in Seq(Atoms)
      BY <3>3
    <3> QED
      BY <3>1, <3>2, <3>3, <3>4
  <2> QED
    BY <2>1, Zenon
<1> DEFINE Has(k, h) == /\ Collecting(P[k], h) /\ Listed(h) = Heading(head, k)
                        /\ \A n \in Names : Prior(h, n) = F[n][k]
           A == {k \in 0 .. m : \E h : Has(k, h)}
<1>17. 0 \in A
  <2>1. Listed(<<>>) = Heading(head, 0)
    BY DEF Listed, Heading
  <2>2. \A n \in Names : Prior(<<>>, n) = F[n][0]
    BY <1>16, <2>1 DEF Prior, Heading
  <2>3. Has(0, <<>>)
    BY <1>12, <2>1, <2>2
  <2> QED
    BY <1>1, <2>3
<1>18. ASSUME NEW k \in 1 .. m, k - 1 \in A
       PROVE  k \in A
  <2>1. PICK h : Has(k - 1, h)
    BY <1>18
  <2>2. PICK t, x, name, a : t = P[k - 1] /\ x = lines[k] /\ name = Lower[head[k][1]] /\ a = head[k][2]
    OBVIOUS
  <2>3. Collecting(t, h) /\ Listed(h) = Heading(head, k - 1) /\ \A n \in Names : Prior(h, n) = F[n][k - 1]
    BY <2>1, <2>2
  <2>4. /\ Row(x, 4) /\ Legibles(x) /\ IsLine(x, 4, name, One(One(a)))
        /\ name \in Names /\ a \in Atoms
    BY <1>2, <1>4, <2>2
  <2>5. PICK v : v = One(One(a)) /\ v \in Seq(Seq(Atoms)) /\ FlattenSeq(v) = One(a)
    <3>1. One(a) \in Seq(Atoms)
      BY <2>4 DEF One
    <3>2. PICK z : z = One(a) /\ z \in Seq(Atoms)
      BY <3>1
    <3>4. z \in Seq(Atoms)
      BY <3>2
    <3>3. One(z) \in Seq(Seq(Atoms)) /\ FlattenSeq(One(z)) = z
      BY <3>4, FlatFew DEF One
    <3> QED
      BY <3>2, <3>3
  <2>6. PICK q : q = 4
    OBVIOUS
  <2>7. q = Len(x) /\ IsLine(x, q, name, v)
    BY <2>4, <2>5, <2>6 DEF Row
  <2>8. PICK r : Collecting(Cat(t, x), r) /\ Gains(r, h, name, Cat(Prior(h, name), FlattenSeq(v)))
    BY <2>3, <2>4, <2>5, <2>7, Longer
  <2>9. Collecting(P[k], r)
    BY <1>12, <2>2, <2>8
  <2>10. Listed(r) = Heading(head, k)
    <3>1. Listed(r) = Listed(h) \cup {name}
      BY <2>8 DEF Gains
    <3>2. \A j : j \in 1 .. k <=> j \in 1 .. k - 1 \/ j = k
      BY <1>1
    <3>3. Heading(head, k) = Heading(head, k - 1) \cup {name}
      BY <2>2, <3>2 DEF Heading
    <3> QED
      BY <2>3, <3>1, <3>3
  <2>11. ASSUME NEW n \in Names
         PROVE  Prior(r, n) = F[n][k]
    <3>1. Prior(r, n) = IF n = name THEN Cat(Prior(h, name), FlattenSeq(v)) ELSE Prior(h, n)
      BY <2>8, PriorGains
    <3>2. F[n][k] = IF name = n THEN Append(F[n][k - 1], a) ELSE F[n][k - 1]
      BY <1>16, <2>2
    <3>3. CASE n = name
      <4>1. PICK p : p = F[n][k - 1] /\ p \in Seq(Atoms)
        <5>1. k - 1 \in 0 .. m
          BY <1>1
        <5> QED
          BY <1>16, <5>1
      <4>2. Cat(p, One(a)) = Append(p, a)
        BY <2>4, <4>1 DEF Cat, One
      <4> QED
        BY <2>3, <2>5, <3>1, <3>2, <3>3, <4>1, <4>2
    <3>4. CASE n # name
      BY <2>3, <3>1, <3>2, <3>4
    <3> QED
      BY <3>3, <3>4
  <2>12. Has(k, r)
    BY <2>9, <2>10, <2>11
  <2> QED
    BY <1>1, <2>12
<1>19. m \in A
  <2> HIDE DEF A
  <2> QED
    BY <1>1, <1>17, <1>18, Climbs
<1>20. PICK h : Has(m, h)
  BY <1>19
<1>21. Table(h) = [n \in {Lower[head[k][1]] : k \in DOMAIN head} |-> Repeated(head, n)]
  <2>1. Listed(h) = {Lower[head[k][1]] : k \in DOMAIN head}
    BY <1>1, <1>20 DEF Heading
  <2>2. Table(h) = [n \in Listed(h) |-> Table(h)[n]]
    BY DEF Table
  <2>3. \A n \in Listed(h) : Table(h)[n] = Repeated(head, n)
    <3>1. Listed(h) \subseteq Names
      BY <1>1, <1>2, <1>20 DEF Heading
    <3>2. \A n \in Listed(h) : Prior(h, n) = Table(h)[n]
      BY DEF Prior
    <3> QED
      BY <1>16, <1>20, <3>1, <3>2
  <2>4. [n \in Listed(h) |-> Table(h)[n]] = [n \in Listed(h) |-> Repeated(head, n)]
    BY <2>3
  <2> QED
    BY <2>1, <2>2, <2>4
<1>22. \E j : Row(SentLines(head), j)
  <2>1. m \in 0 .. m
    BY <1>1
  <2> QED
    BY <1>10, <1>13, <2>1, RowFacts
<1> QED
  BY <1>13, <1>20, <1>21, <1>22
-----------------------------------------------------------------------------
(***************************************************************************)
(* Methods: what a changed message means.                                  *)
(***************************************************************************)
\* The phrase, from the fields.
Phrase(status, reason) == IF reason = None /\ status \in Known THEN Reasons[status] ELSE reason

\* Fields that a message may have.
Sound(a, b, c, d, e, f, g, h, i) ==
  /\ a \in {"request", "response"}
  /\ a = "response" => c = None /\ d = None /\ e = None
  /\ a = "request" => f = 0 /\ g = None
  /\ d \in Targets \cup {None} /\ (e # None => Located(e)) /\ f \in 0 .. 999
  /\ g = None => f \in Known \cup 0 .. Byte - 1
  /\ Distinct(h) /\ i \in Seq(Seq(Atoms)) /\ Len(i) \in {0, 1}

\* w is the meaning of such fields.
IsMeant(w, a, b, c, d, e, f, g, h, i) == w = Meant(a, b, c, d, e, f, g, h, i)

\* A message with sound fields is one, and means what they do.
LEMMA Typing ==
  ASSUME NEW m, NEW a, NEW b, NEW c, NEW d, NEW e, NEW f, NEW g, NEW h, NEW i,
         IsMsg(m, a, b, c, d, e, f, g, h, i), Sound(a, b, c, d, e, f, g, h, i)
  PROVE  /\ Typed(m)
         /\ IsMeant(Meaning(m), a, Or(b, DefaultVersion), Or(c, Get), d, e, f, Phrase(f, g),
                    Table(h), FlattenSeq(i))
<1>1. /\ m.type = a /\ m.version = b /\ m.method = c /\ m.target = d /\ m.uri = e
      /\ m.status = f /\ m.reason = g /\ m.headers = h /\ m.body = i
  BY Fields
<1>2. m = Msg(m.type, m.version, m.method, m.target, m.uri, m.status, m.reason, m.headers, m.body)
  BY <1>1 DEF IsMsg
<1>3. Typed(m)
  BY <1>1, <1>2 DEF Typed, Sound
<1>4. Meaning(m) = Meant(m.type, Or(m.version, DefaultVersion), Or(m.method, Get), m.target, m.uri,
                         m.status, Reason(m), Table(m.headers), FlattenSeq(m.body))
  BY <1>3, MeaningIs
<1>5. Reason(m) = Phrase(f, g)
  BY <1>1 DEF Reason, Phrase
<1>6. IsMeant(Meaning(m), a, Or(b, DefaultVersion), Or(c, Get), d, e, f, Phrase(f, g),
              Table(h), FlattenSeq(i))
  BY <1>1, <1>4, <1>5 DEF IsMeant
<1> QED
  BY <1>3, <1>6

\* A message has sound fields.
LEMMA Untyping ==
  ASSUME NEW m, Typed(m)
  PROVE  \E a, b, c, d, e, f, g, h, i :
           IsMsg(m, a, b, c, d, e, f, g, h, i) /\ Sound(a, b, c, d, e, f, g, h, i)
<1>1. PICK a, b, c, d, e, f, g, h, i :
        /\ a = m.type /\ b = m.version /\ c = m.method /\ d = m.target /\ e = m.uri
        /\ f = m.status /\ g = m.reason /\ h = m.headers /\ i = m.body
  OBVIOUS
<1>2. IsMsg(m, a, b, c, d, e, f, g, h, i)
  BY <1>1 DEF Typed, IsMsg
<1>3. Sound(a, b, c, d, e, f, g, h, i)
  BY <1>1 DEF Typed, Sound
<1> QED
  BY <1>2, <1>3

\* n is m with another value somewhere, and means y.
Turns(n, y) == Typed(n) /\ Meaning(n) = y

\* withProtocolVersion()
LEMMA EditVersion ==
  ASSUME NEW m, Typed(m), NEW v, v \in Versions
  PROVE  Turns([m EXCEPT !.version = v], [Meaning(m) EXCEPT !.version = v])
<1>1. PICK a, b, c, d, e, f, g, h, i :
        IsMsg(m, a, b, c, d, e, f, g, h, i) /\ Sound(a, b, c, d, e, f, g, h, i)
  BY Untyping
<1>2. PICK n, w : n = [m EXCEPT !.version = v] /\ w = Meaning(m)
  OBVIOUS
<1>3. IsMsg(n, a, v, c, d, e, f, g, h, i)
  BY <1>1, <1>2 DEF IsMsg, Msg
<1>4. Sound(a, v, c, d, e, f, g, h, i)
  BY <1>1 DEF Sound
<1>5. Typed(n) /\ IsMeant(Meaning(n), a, Or(v, DefaultVersion), Or(c, Get), d, e, f, Phrase(f, g),
                          Table(h), FlattenSeq(i))
  BY <1>3, <1>4, Typing
<1>6. IsMeant(w, a, Or(b, DefaultVersion), Or(c, Get), d, e, f, Phrase(f, g), Table(h), FlattenSeq(i))
  BY <1>1, <1>2, Typing
<1>7. Or(v, DefaultVersion) = v
  BY NoneAssumption DEF Or
<1>8. Meaning(n) = [w EXCEPT !.version = v]
  BY <1>5, <1>6, <1>7 DEF IsMeant, Meant
<1> QED
  BY <1>2, <1>5, <1>8 DEF Turns

\* withBody()
LEMMA EditBody ==
  ASSUME NEW m, Typed(m), NEW y, y \in Seq(Atoms)
  PROVE  Turns([m EXCEPT !.body = One(y)], [Meaning(m) EXCEPT !.body = y])
<1>1. PICK a, b, c, d, e, f, g, h, i :
        IsMsg(m, a, b, c, d, e, f, g, h, i) /\ Sound(a, b, c, d, e, f, g, h, i)
  BY Untyping
<1>2. PICK n, w, z : n = [m EXCEPT !.body = z] /\ w = Meaning(m) /\ z = One(y)
  OBVIOUS
<1>3. IsMsg(n, a, b, c, d, e, f, g, h, z)
  BY <1>1, <1>2 DEF IsMsg, Msg
<1>7. z \in Seq(Seq(Atoms)) /\ Len(z) = 1 /\ FlattenSeq(z) = y
  <2>1. One(y) \in Seq(Seq(Atoms)) /\ Len(One(y)) = 1 /\ FlattenSeq(One(y)) = y
    BY FlatFew DEF One
  <2> QED
    BY <1>2, <2>1
<1>4. Sound(a, b, c, d, e, f, g, h, z)
  BY <1>1, <1>7 DEF Sound
<1>5. Typed(n) /\ IsMeant(Meaning(n), a, Or(b, DefaultVersion), Or(c, Get), d, e, f, Phrase(f, g),
                          Table(h), FlattenSeq(z))
  BY <1>3, <1>4, Typing
<1>6. IsMeant(w, a, Or(b, DefaultVersion), Or(c, Get), d, e, f, Phrase(f, g), Table(h), FlattenSeq(i))
  BY <1>1, <1>2, Typing
<1>8. Meaning(n) = [w EXCEPT !.body = y]
  BY <1>5, <1>6, <1>7 DEF IsMeant, Meant
<1> QED
  BY <1>2, <1>5, <1>8 DEF Turns

\* withMethod()
LEMMA EditMethod ==
  ASSUME NEW m, Typed(m), m.type = "request", NEW x, x \in Methods
  PROVE  Turns([m EXCEPT !.method = x], [Meaning(m) EXCEPT !.method = x])
<1>1. PICK a, b, c, d, e, f, g, h, i :
        IsMsg(m, a, b, c, d, e, f, g, h, i) /\ Sound(a, b, c, d, e, f, g, h, i)
  BY Untyping
<1>2. PICK n, w : n = [m EXCEPT !.method = x] /\ w = Meaning(m)
  OBVIOUS
<1>3. IsMsg(n, a, b, x, d, e, f, g, h, i)
  BY <1>1, <1>2 DEF IsMsg, Msg
<1>4. Sound(a, b, x, d, e, f, g, h, i)
  <2>1. a = "request"
    BY <1>1, Fields
  <2> QED
    BY <1>1, <2>1 DEF Sound
<1>5. Typed(n) /\ IsMeant(Meaning(n), a, Or(b, DefaultVersion), Or(x, Get), d, e, f, Phrase(f, g),
                          Table(h), FlattenSeq(i))
  BY <1>3, <1>4, Typing
<1>6. IsMeant(w, a, Or(b, DefaultVersion), Or(c, Get), d, e, f, Phrase(f, g), Table(h), FlattenSeq(i))
  BY <1>1, <1>2, Typing
<1>7. Or(x, Get) = x
  BY NoneAssumption DEF Or
<1>8. Meaning(n) = [w EXCEPT !.method = x]
  BY <1>5, <1>6, <1>7 DEF IsMeant, Meant
<1> QED
  BY <1>2, <1>5, <1>8 DEF Turns

\* withRequestTarget()
LEMMA EditTarget ==
  ASSUME NEW m, Typed(m), m.type = "request", NEW x, x \in Targets
  PROVE  Turns([m EXCEPT !.target = x], [Meaning(m) EXCEPT !.target = x])
<1>1. PICK a, b, c, d, e, f, g, h, i :
        IsMsg(m, a, b, c, d, e, f, g, h, i) /\ Sound(a, b, c, d, e, f, g, h, i)
  BY Untyping
<1>2. PICK n, w : n = [m EXCEPT !.target = x] /\ w = Meaning(m)
  OBVIOUS
<1>3. IsMsg(n, a, b, c, x, e, f, g, h, i)
  BY <1>1, <1>2 DEF IsMsg, Msg
<1>4. Sound(a, b, c, x, e, f, g, h, i)
  <2>1. a = "request"
    BY <1>1, Fields
  <2> QED
    BY <1>1, <2>1 DEF Sound
<1>5. Typed(n) /\ IsMeant(Meaning(n), a, Or(b, DefaultVersion), Or(c, Get), x, e, f, Phrase(f, g),
                          Table(h), FlattenSeq(i))
  BY <1>3, <1>4, Typing
<1>6. IsMeant(w, a, Or(b, DefaultVersion), Or(c, Get), d, e, f, Phrase(f, g), Table(h), FlattenSeq(i))
  BY <1>1, <1>2, Typing
<1>8. Meaning(n) = [w EXCEPT !.target = x]
  BY <1>5, <1>6 DEF IsMeant, Meant
<1> QED
  BY <1>2, <1>5, <1>8 DEF Turns

\* withStatus(): a code that a byte holds is kept.
LEMMA EditStatus ==
  ASSUME NEW m, Typed(m), m.type = "response", NEW code, code \in Known, NEW x
  PROVE  /\ Typed([m EXCEPT !.status = code % Byte, !.reason = x])
         /\ code < Byte => Turns([m EXCEPT !.status = code % Byte, !.reason = x],
                                 [Meaning(m) EXCEPT !.status = code, !.reason = Or(x, Reasons[code])])
<1>1. PICK a, b, c, d, e, f, g, h, i :
        IsMsg(m, a, b, c, d, e, f, g, h, i) /\ Sound(a, b, c, d, e, f, g, h, i)
  BY Untyping
<1>2. PICK st : st = code % Byte
  OBVIOUS
<1>3. code \in Nat /\ st \in 0 .. 999 /\ st \in 0 .. Byte - 1 /\ (code < Byte => st = code)
  <2>1. code \in 100 .. 999
    BY InputsAssumption
  <2> QED
    BY <1>2, <2>1 DEF Byte
<1>4. PICK n, p, w, q, re :
        /\ p = [m EXCEPT !.status = st] /\ n = [p EXCEPT !.reason = x]
        /\ w = Meaning(m) /\ q = [w EXCEPT !.status = code] /\ re = Or(x, Reasons[code])
  OBVIOUS
<1>5. n = [m EXCEPT !.status = st, !.reason = x]
  BY <1>4
<1>6. IsMsg(p, a, b, c, d, e, st, g, h, i)
  BY <1>1, <1>4 DEF IsMsg, Msg
<1>0. n = [p EXCEPT !.reason = x]
  BY <1>4
<1>7. IsMsg(n, a, b, c, d, e, st, x, h, i)
  BY <1>0, <1>6 DEF IsMsg, Msg
<1>8. Sound(a, b, c, d, e, st, x, h, i)
  <2>1. a = "response"
    BY <1>1, Fields
  <2> QED
    BY <1>1, <1>3, <2>1 DEF Sound
<1>9. Typed(n) /\ IsMeant(Meaning(n), a, Or(b, DefaultVersion), Or(c, Get), d, e, st, Phrase(st, x),
                          Table(h), FlattenSeq(i))
  BY <1>7, <1>8, Typing
<1>10. IsMeant(w, a, Or(b, DefaultVersion), Or(c, Get), d, e, f, Phrase(f, g), Table(h), FlattenSeq(i))
  BY <1>1, <1>4, Typing
<1>11. ASSUME code < Byte
       PROVE  Meaning(n) = [w EXCEPT !.status = code, !.reason = re]
  <2>1. st = code /\ Phrase(st, x) = re
    BY <1>3, <1>4, <1>11 DEF Phrase, Or
  <2>2. IsMeant(q, a, Or(b, DefaultVersion), Or(c, Get), d, e, code, Phrase(f, g), Table(h), FlattenSeq(i))
    BY <1>4, <1>10 DEF IsMeant, Meant
  <2>3. Meaning(n) = [q EXCEPT !.reason = re]
    BY <1>9, <2>1, <2>2 DEF IsMeant, Meant
  <2> QED
    BY <1>4, <2>3
<1> QED
  BY <1>2, <1>4, <1>5, <1>9, <1>11 DEF Turns

\* An option of a factory: the URI,
LEMMA OptionTurnsURI ==
  ASSUME NEW m, Typed(m), m.type = "request", NEW u, u \in Uris
  PROVE  Turns([m EXCEPT !.uri = u], [Meaning(m) EXCEPT !.uri = u])
<1>1. PICK a, b, c, d, e, f, g, h, i :
        IsMsg(m, a, b, c, d, e, f, g, h, i) /\ Sound(a, b, c, d, e, f, g, h, i)
  BY Untyping
<1>2. PICK n, w : n = [m EXCEPT !.uri = u] /\ w = Meaning(m)
  OBVIOUS
<1>3. IsMsg(n, a, b, c, d, u, f, g, h, i)
  BY <1>1, <1>2 DEF IsMsg, Msg
<1>4. Sound(a, b, c, d, u, f, g, h, i)
  <2>1. a = "request"
    BY <1>1, Fields
  <2>2. Located(u)
    BY InputsAssumption DEF Located
  <2> QED
    BY <1>1, <2>1, <2>2 DEF Sound
<1>5. Typed(n) /\ IsMeant(Meaning(n), a, Or(b, DefaultVersion), Or(c, Get), d, u, f, Phrase(f, g),
                          Table(h), FlattenSeq(i))
  BY <1>3, <1>4, Typing
<1>6. IsMeant(w, a, Or(b, DefaultVersion), Or(c, Get), d, e, f, Phrase(f, g), Table(h), FlattenSeq(i))
  BY <1>1, <1>2, Typing
<1>7. Meaning(n) = [w EXCEPT !.uri = u]
  BY <1>5, <1>6 DEF IsMeant, Meant
<1> QED
  BY <1>2, <1>5, <1>7 DEF Turns

\* ... the phrase,
LEMMA OptionTurnsReason ==
  ASSUME NEW m, Typed(m), m.type = "response", NEW x, x # None
  PROVE  Turns([m EXCEPT !.reason = x], [Meaning(m) EXCEPT !.reason = x])
<1>1. PICK a, b, c, d, e, f, g, h, i :
        IsMsg(m, a, b, c, d, e, f, g, h, i) /\ Sound(a, b, c, d, e, f, g, h, i)
  BY Untyping
<1>2. PICK n, w : n = [m EXCEPT !.reason = x] /\ w = Meaning(m)
  OBVIOUS
<1>3. IsMsg(n, a, b, c, d, e, f, x, h, i)
  BY <1>1, <1>2 DEF IsMsg, Msg
<1>4. Sound(a, b, c, d, e, f, x, h, i)
  <2>1. a = "response"
    BY <1>1, Fields
  <2> QED
    BY <1>1, <2>1 DEF Sound
<1>5. Typed(n) /\ IsMeant(Meaning(n), a, Or(b, DefaultVersion), Or(c, Get), d, e, f, Phrase(f, x),
                          Table(h), FlattenSeq(i))
  BY <1>3, <1>4, Typing
<1>6. IsMeant(w, a, Or(b, DefaultVersion), Or(c, Get), d, e, f, Phrase(f, g), Table(h), FlattenSeq(i))
  BY <1>1, <1>2, Typing
<1>7. Phrase(f, x) = x
  BY DEF Phrase
<1>8. Meaning(n) = [w EXCEPT !.reason = x]
  BY <1>5, <1>6, <1>7 DEF IsMeant, Meant
<1> QED
  BY <1>2, <1>5, <1>8 DEF Turns

\* ... the status, whole.
LEMMA OptionTurnsStatus ==
  ASSUME NEW m, Typed(m), m.type = "response", NEW code, code \in Known
  PROVE  Turns([m EXCEPT !.status = code, !.reason = None],
               [Meaning(m) EXCEPT !.status = code, !.reason = Reasons[code]])
<1>1. PICK a, b, c, d, e, f, g, h, i :
        IsMsg(m, a, b, c, d, e, f, g, h, i) /\ Sound(a, b, c, d, e, f, g, h, i)
  BY Untyping
<1>2. PICK n, p, w, q, re :
        /\ p = [m EXCEPT !.status = code] /\ n = [p EXCEPT !.reason = None]
        /\ w = Meaning(m) /\ q = [w EXCEPT !.status = code] /\ re = Reasons[code]
  OBVIOUS
<1>3. p = [m EXCEPT !.status = code]
  BY <1>2
<1>0. n = [p EXCEPT !.reason = None]
  BY <1>2
<1>4. IsMsg(p, a, b, c, d, e, code, g, h, i)
  BY <1>1, <1>3 DEF IsMsg, Msg
<1>5. IsMsg(n, a, b, c, d, e, code, None, h, i)
  BY <1>0, <1>4 DEF IsMsg, Msg
<1>6. Sound(a, b, c, d, e, code, None, h, i)
  <2>1. a = "response"
    BY <1>1, Fields
  <2>2. code \in 0 .. 999
    <3>1. code \in 100 .. 999
      BY InputsAssumption
    <3> QED
      BY <3>1
  <2> QED
    BY <1>1, <2>1, <2>2 DEF Sound
<1>7. Typed(n) /\ IsMeant(Meaning(n), a, Or(b, DefaultVersion), Or(c, Get), d, e, code, Phrase(code, None),
                          Table(h), FlattenSeq(i))
  BY <1>5, <1>6, Typing
<1>8. IsMeant(w, a, Or(b, DefaultVersion), Or(c, Get), d, e, f, Phrase(f, g), Table(h), FlattenSeq(i))
  BY <1>1, <1>2, Typing
<1>9. Phrase(code, None) = re
  BY <1>2 DEF Phrase
<1>10. IsMeant(q, a, Or(b, DefaultVersion), Or(c, Get), d, e, code, Phrase(f, g), Table(h), FlattenSeq(i))
  BY <1>2, <1>8 DEF IsMeant, Meant
<1>11. Meaning(n) = [q EXCEPT !.reason = re]
  BY <1>7, <1>9, <1>10 DEF IsMeant, Meant
<1> QED
  BY <1>2, <1>7, <1>11 DEF Turns

\* Any change of the headers.
LEMMA EditHeaders ==
  ASSUME NEW m, Typed(m), NEW x, Distinct(x)
  PROVE  /\ Turns([m EXCEPT !.headers = x], [Meaning(m) EXCEPT !.headers = Table(x)])
         /\ Meaning(m).headers = Table(m.headers)
<1>1. PICK a, b, c, d, e, f, g, h, i :
        IsMsg(m, a, b, c, d, e, f, g, h, i) /\ Sound(a, b, c, d, e, f, g, h, i)
  BY Untyping
<1>2. PICK n, w, l : n = [m EXCEPT !.headers = x] /\ w = Meaning(m) /\ l = Table(x)
  OBVIOUS
<1>3. IsMsg(n, a, b, c, d, e, f, g, x, i)
  BY <1>1, <1>2 DEF IsMsg, Msg
<1>4. Sound(a, b, c, d, e, f, g, x, i)
  BY <1>1 DEF Sound
<1>5. Typed(n) /\ IsMeant(Meaning(n), a, Or(b, DefaultVersion), Or(c, Get), d, e, f, Phrase(f, g),
                          Table(x), FlattenSeq(i))
  BY <1>3, <1>4, Typing
<1>6. IsMeant(w, a, Or(b, DefaultVersion), Or(c, Get), d, e, f, Phrase(f, g), Table(h), FlattenSeq(i))
  BY <1>1, <1>2, Typing
<1>8. Meaning(n) = [w EXCEPT !.headers = l]
  BY <1>2, <1>5, <1>6 DEF IsMeant, Meant
<1>9. w.headers = Table(m.headers)
  <2>1. m.headers = h
    BY <1>1, Fields
  <2>2. w.headers = Table(h)
    BY <1>6 DEF IsMeant, Meant
  <2> QED
    BY <2>1, <2>2
<1> QED
  BY <1>2, <1>5, <1>8, <1>9 DEF Turns
-----------------------------------------------------------------------------
(***************************************************************************)
(* Building.                                                               *)
(***************************************************************************)
\* h is what the first k headers of g say.
Upto(h, g, k) ==
  /\ Listed(h) = {g[j].name : j \in 1 .. k}
  /\ \A n \in Listed(h) : Table(h)[n] = Table(g)[n]

\* The pipe holds t, and the header to collect is the kth.
Room(t, size, k) ==
  /\ Row(t, Len(t)) /\ Len(t) <= size /\ size \in Nat /\ size >= PipeSize /\ k \in Nat \ {0}

\* t begins with the start line of m.
Leads(t, m) == Row(t, Len(t)) /\ Len(t) >= 8 /\ Begins(t, m)

\* t is the start line of m and its headers before the kth, n its length.
Collected(m, t, n, k) ==
  /\ ~Unreadable(m) /\ Sized(t, n) /\ Leads(t, m)
  /\ k \in Nat \ {0} /\ k <= Len(m.headers) + 1
  /\ \E h : Collecting(t, h) /\ Upto(h, m.headers, k - 1)

\* t is m, n its length.
Complete(m, t, n) ==
  /\ ~Unreadable(m) /\ Sized(t, n) /\ Leads(t, m)
  /\ \E v, h : Distinct(h) /\ Table(h) = Table(m.headers) /\ Read(t) = Halfway(None, v, h, m.body)

\* No headers.
LEMMA EmptyList == Distinct(<<>>) /\ Listed(<<>>) = {}
BY DEF Distinct, Listed

\* A start line fits into a new pipe, and begins a message.
LEMMA HeadBuilt ==
  ASSUME NEW m, Typed(m)
  PROVE  /\ Room(StartLine(m), PipeSize, 1)
         /\ ~Unreadable(m) => Collected(m, StartLine(m), HeadSize(m), 1)
<1>1. PICK s, h : s = StartLine(m) /\ h = <<>>
  OBVIOUS
<1>2. Silent(s) /\ Sized(s, HeadSize(m)) /\ Begins(s, m)
  BY <1>1, StartLineSays
<1>3. Legibles(s) /\ Read(s) = Nothing
  BY <1>2, Quiet
<1>4. Row(s, Len(s)) /\ Len(s) = 8
  BY <1>2 DEF Silent, Row
<1>5. Room(s, PipeSize, 1)
  BY <1>4, PipeAssumption DEF Room
<1>6. Distinct(h) /\ Listed(h) = {}
  BY <1>1, EmptyList
<1>7. Collecting(s, h)
  BY <1>1, <1>3, <1>6, NothingRead DEF Collecting
<1>8. Upto(h, m.headers, 0)
  BY <1>6 DEF Upto
<1>9. Leads(s, m)
  BY <1>2, <1>4 DEF Leads
<1>10. Len(m.headers) \in Nat
  BY HeaderFacts DEF Typed, Distinct
<1>11. ASSUME ~Unreadable(m)
       PROVE  Collected(m, s, HeadSize(m), 1)
  BY <1>1, <1>2, <1>7, <1>8, <1>9, <1>10, <1>11 DEF Collected
<1> QED
  BY <1>1, <1>5, <1>11

\* A header takes as many slots as are counted for it.
LEMMA LineRow ==
  ASSUME NEW h, h \in Header
  PROVE  Needs(h) \in Nat /\ Needs(h) >= 2 /\ Row(Line(h), Needs(h))
<1>1. Len(h.values) \in Nat
  BY DEF Header
<1>2. PICK n, r : n = Needs(h) /\ r = Line(h)
  OBVIOUS
<1>3. n \in Nat /\ n >= 2
  BY <1>1, <1>2 DEF Needs
<1>4. DOMAIN r = 1 .. n /\ r = [k \in 1 .. n |-> r[k]]
  BY <1>2 DEF Line
<1>5. Row(r, n)
  BY <1>3, <1>4, RowMade
<1> QED
  BY <1>2, <1>3, <1>5

\* A header fits into the pipe, made larger or not, unless it has more values
\* than a new pipe has room for.
LEMMA Roomy ==
  ASSUME NEW t, NEW size, NEW k, Room(t, size, k), NEW h, h \in Header
  PROVE  LET r == Grown(h, Len(t), size)
         IN /\ Len(t) + Needs(h) <= r => Room(Cat(t, Line(h)), r, k + 1)
            /\ Len(t) + Needs(h) > r => Needs(h) > PipeSize
            /\ Len(t) + Needs(h) \in Int /\ r \in Int
<1>1. PICK r, l, n : r = Grown(h, Len(t), size) /\ l = Len(t) /\ n = Needs(h)
  OBVIOUS
<1>2. l \in Nat /\ n \in Nat /\ size \in Nat /\ l <= size /\ size >= PipeSize /\ PipeSize \in Nat
  BY <1>1, LineRow, PipeAssumption DEF Room, Row
<1>3. r = IF l + n > size THEN 2 * size ELSE size
  BY <1>1 DEF Grown
<1>4. r \in Nat /\ r >= size
  BY <1>2, <1>3
<1>5. l + n > r => n > PipeSize
  BY <1>2, <1>3
<1>6. ASSUME l + n <= r
      PROVE  Room(Cat(t, Line(h)), r, k + 1)
  <2>1. Row(t, l) /\ Row(Line(h), n)
    BY <1>1, LineRow DEF Room
  <2>2. Row(Cat(t, Line(h)), l + n)
    BY <2>1, Joined DEF Joins
  <2>3. PICK y : y = Cat(t, Line(h))
    OBVIOUS
  <2>4. Len(y) = l + n /\ Row(y, Len(y))
    BY <2>2, <2>3 DEF Row
  <2>5. Room(y, r, k + 1)
    BY <1>2, <1>4, <1>6, <2>4 DEF Room
  <2> QED
    BY <2>3, <2>5
<1> QED
  BY <1>1, <1>2, <1>4, <1>5, <1>6

\* What can be read: a URI that locates, headers with values.
LEMMA Readable ==
  ASSUME NEW m, Typed(m), ~Unreadable(m)
  PROVE  Aimed(m) /\ \A k \in 1 .. Len(m.headers) : Valued(m.headers[k])
<1>1. PICK g : g = m.headers
  OBVIOUS
<1>2. DOMAIN g = 1 .. Len(g) /\ \A k \in 1 .. Len(g) : g[k].name \in Names /\ g[k].values \in Seq(Seq(Atoms))
  BY <1>1, HeaderFacts DEF Typed, Distinct
<1>3. \A k \in DOMAIN g : g[k].values # <<>>
  BY <1>1 DEF Unreadable
<1>4. Aimed(m)
  BY DEF Unreadable, Aimed
<1> QED
  BY <1>1, <1>2, <1>3, <1>4 DEF Valued

\* A line more takes what is summed for it.
LEMMA SizedLine ==
  ASSUME NEW t, NEW n, Sized(t, n), NEW h, Valued(h)
  PROVE  Sized(Cat(t, Line(h)), n + LineSize(h))
BY LineSized, SizedJoined

\* What follows leaves the start line alone.
LEMMA LeadsOn ==
  ASSUME NEW t, NEW m, Leads(t, m), NEW x, NEW l, Row(x, l), NEW y, y = Cat(t, x)
  PROVE  Leads(y, m)
<1>1. PICK j : j = Len(t)
  OBVIOUS
<1>2. Row(t, j) /\ j >= 8 /\ j \in Nat
  BY <1>1 DEF Leads, Row
<1>3. Joins(y, t, x, j, l) /\ l \in Nat
  BY <1>2, Joined DEF Row
<1>4. Row(y, j + l) /\ \A k \in 1 .. j : y[k] = t[k]
  BY <1>3 DEF Joins
<1>5. Row(y, Len(y)) /\ Len(y) >= 8
  BY <1>2, <1>3, <1>4 DEF Row
<1>6. y[1] = t[1] /\ y[3] = t[3] /\ y[5] = t[5] /\ y[7] = t[7]
  BY <1>2, <1>4
<1>7. Begins(y, m)
  BY <1>6 DEF Leads, Begins
<1> QED
  BY <1>5, <1>7 DEF Leads

\* What has been collected says what the headers before k say; with header k
\* it says that too.
LEMMA UptoOn ==
  ASSUME NEW g, Distinct(g), NEW k, k \in 1 .. Len(g), NEW h, Distinct(h), Upto(h, g, k - 1),
         NEW r, Gains(r, h, g[k].name, Cat(Prior(h, g[k].name), FlattenSeq(g[k].values)))
  PROVE  Upto(r, g, k)
<1>1. PICK name, list : name = g[k].name /\ list = FlattenSeq(g[k].values)
  OBVIOUS
<1>2. k \in Nat /\ Len(g) \in Nat /\ k >= 1 /\ k <= Len(g)
  BY HeaderFacts DEF Distinct
<1>3. Listed(h) = {g[j].name : j \in 1 .. k - 1} /\ \A n \in Listed(h) : Table(h)[n] = Table(g)[n]
  BY DEF Upto
<1>4. name \notin Listed(h)
  <2>1. \A j \in 1 .. k - 1 : j \in 1 .. Len(g) /\ j # k
    BY <1>2
  <2>2. \A j \in 1 .. k - 1 : g[j].name # name
    BY <1>1, <2>1 DEF Distinct
  <2> QED
    BY <1>3, <2>2
<1>5. Cat(Prior(h, name), list) = list
  <2>1. Prior(h, name) = <<>>
    BY <1>4 DEF Prior
  <2>2. list \in Seq(Atoms)
    <3>1. g[k].values \in Seq(Seq(Atoms))
      BY HeaderFacts DEF Distinct
    <3> QED
      BY <1>1, <3>1, FlatFew
  <2> QED
    BY <2>1, <2>2, Catted
<1>6. Table(g)[name] = list
  BY <1>1, TableFacts
<1>7. Listed(r) = Listed(h) \cup {name}
  BY <1>1 DEF Gains
<1>8. \A n \in Listed(r) : Table(r)[n] = IF n = name THEN list ELSE Table(h)[n]
  <2>1. Gains(r, h, name, list)
    BY <1>1, <1>5
  <2> QED
    BY <2>1 DEF Gains
<1>9. \A n \in Listed(r) : Table(r)[n] = Table(g)[n]
  BY <1>3, <1>6, <1>7, <1>8
<1>10. Listed(r) = {g[j].name : j \in 1 .. k}
  <2>1. \A j : j \in 1 .. k <=> j \in 1 .. k - 1 \/ j = k
    BY <1>2
  <2> QED
    BY <1>1, <1>3, <1>7, <2>1
<1> QED
  BY <1>9, <1>10 DEF Upto

\* One more header is collected.
LEMMA Collects ==
  ASSUME NEW m, Typed(m), NEW t, NEW n, NEW k, Collected(m, t, n, k), k <= Len(m.headers)
  PROVE  Collected(m, Cat(t, Line(m.headers[k])), n + LineSize(m.headers[k]), k + 1)
<1>1. PICK g, x, l, name, values, y :
        /\ g = m.headers /\ x = g[k] /\ l = Line(g[k]) /\ name = x.name /\ values = x.values
        /\ y = Cat(t, l)
  OBVIOUS
<1>2. k \in Nat /\ k # 0 /\ ~Unreadable(m) /\ Sized(t, n) /\ Leads(t, m) /\ k <= Len(g)
  BY <1>1 DEF Collected
<1>3. Len(g) \in Nat /\ Distinct(g)
  BY <1>1, HeaderFacts DEF Typed, Distinct
<1>4. k \in 1 .. Len(g)
  BY <1>2, <1>3
<1>5. Valued(x)
  BY <1>1, <1>2, <1>4, Readable
<1>6. IsLine(l, Needs(x), name, values) /\ Row(l, Needs(x)) /\ Legibles(l)
  BY <1>1, <1>5, LineIs
<1>7. name \in Names /\ values \in Seq(Seq(Atoms))
  BY <1>1, <1>5 DEF Valued
<1>8. PICK h : Collecting(t, h) /\ Upto(h, g, k - 1)
  BY <1>1 DEF Collected
<1>9. PICK j : j = Len(l) /\ IsLine(l, j, name, values)
  BY <1>6 DEF Row
<1>10. PICK r : Collecting(y, r) /\ Gains(r, h, name, Cat(Prior(h, name), FlattenSeq(values)))
  BY <1>1, <1>6, <1>7, <1>8, <1>9, Longer
<1>11. Distinct(h)
  BY <1>8 DEF Collecting
<1>12. Upto(r, g, k)
  BY <1>1, <1>3, <1>4, <1>8, <1>10, <1>11, UptoOn
<1>13. Leads(y, m)
  BY <1>1, <1>2, <1>6, LeadsOn
<1>14. Sized(y, n + LineSize(x))
  BY <1>1, <1>2, <1>5, SizedLine
<1>15. k + 1 \in Nat /\ k + 1 # 0 /\ k + 1 <= Len(g) + 1 /\ (k + 1) - 1 = k
  BY <1>2, <1>3
<1>16. Collected(m, y, n + LineSize(x), k + 1)
  BY <1>1, <1>2, <1>10, <1>12, <1>13, <1>14, <1>15 DEF Collected
<1> QED
  BY <1>1, <1>16

\* A body that is kept is in one piece.
LEMMA WholeOne ==
  ASSUME NEW b, b \in Seq(Seq(Atoms)), Len(b) \in {0, 1}
  PROVE  Gathered(b) = b
<1>1. CASE Len(b) = 0
  BY <1>1 DEF Gathered
<1>2. CASE Len(b) = 1
  <2>1. PICK x : x = b[1]
    OBVIOUS
  <2>2. x \in Seq(Atoms) /\ b = <<x>>
    BY <1>2, <2>1
  <2>3. FlattenSeq(b) = x
    BY <2>2, FlatFew
  <2> QED
    BY <1>2, <2>2, <2>3 DEF Gathered, One
<1> QED
  BY <1>1, <1>2

\* After the last header the text is the message.
LEMMA Completes ==
  ASSUME NEW m, Typed(m), NEW t, NEW n, NEW k, Collected(m, t, n, k), k > Len(m.headers)
  PROVE  Complete(m, Cat(Cat(t, One(Mark("CRLF"))), BodyTokens(m.body)), n + 2 + BodySize(m.body))
<1>1. PICK g, b, y : g = m.headers /\ b = m.body /\ y = Cat(Cat(t, One(Mark("CRLF"))), BodyTokens(b))
  OBVIOUS
<1>2. k \in Nat /\ k # 0 /\ ~Unreadable(m) /\ Sized(t, n) /\ Leads(t, m) /\ k <= Len(g) + 1
  BY <1>1 DEF Collected
<1>3. Len(g) \in Nat /\ Distinct(g) /\ b \in Seq(Seq(Atoms)) /\ Len(b) \in {0, 1}
  BY <1>1, HeaderFacts DEF Typed, Distinct
<1>4. k - 1 = Len(g)
  BY <1>1, <1>2, <1>3
<1>5. PICK h : Collecting(t, h) /\ Upto(h, g, Len(g))
  BY <1>1, <1>4 DEF Collected
<1>6. Distinct(h)
  BY <1>5 DEF Collecting
<1>7. Table(h) = Table(g)
  <2>1. Listed(h) = Listed(g) /\ \A a \in Listed(h) : Table(h)[a] = Table(g)[a]
    BY <1>5 DEF Upto, Listed
  <2> QED
    BY <2>1 DEF Table
<1>8. PICK v : Read(y) = Halfway(None, v, h, Gathered(b))
  BY <1>1, <1>3, <1>5, Over
<1>9. Gathered(b) = b
  BY <1>3, WholeOne
<1>10. Sized(y, n + 2 + BodySize(b))
  BY <1>1, <1>2, <1>3, OverSized
<1>11. Leads(y, m)
  <2>1. Row(One(Mark("CRLF")), 1)
    BY RowFacts DEF One
  <2>2. Row(BodyTokens(b), Len(b))
    <3>1. PICK r, l : r = BodyTokens(b) /\ l = Len(b)
      OBVIOUS
    <3>2. l \in Nat /\ DOMAIN r = 1 .. l /\ r = [i \in 1 .. l |-> r[i]]
      BY <1>3, <3>1 DEF BodyTokens
    <3> QED
      BY <3>1, <3>2, RowMade
  <2>3. PICK z : z = Cat(t, One(Mark("CRLF")))
    OBVIOUS
  <2>4. Leads(z, m)
    BY <1>2, <2>1, <2>3, LeadsOn
  <2> QED
    BY <1>1, <2>2, <2>3, <2>4, LeadsOn
<1> QED
  BY <1>1, <1>2, <1>6, <1>7, <1>8, <1>9, <1>10, <1>11 DEF Complete

\* A reader understands what was built, but for the version of a response, a
\* body that is not announced, and that a target is a URI to it.
LEMMA Understands ==
  ASSUME NEW m, Typed(m), NEW t, NEW n, Complete(m, t, n)
  PROVE  /\ Typed(ParseText(m.type, t))
         /\ Meaning(ParseText(m.type, t)) =
              [Meaning(m) EXCEPT !.version = IF m.type = "response" THEN DefaultVersion ELSE @,
                                 !.target = None, !.uri = Addressed(m),
                                 !.body = IF HasBody(m) THEN @ ELSE <<>>]
<1>1. PICK g, b, r, w : g = m.headers /\ b = m.body /\ r = ParseText(m.type, t) /\ w = Meaning(m)
  OBVIOUS
<1>2. Aimed(m)
  BY Readable DEF Complete
<1>3. Begins(t, m)
  BY DEF Complete, Leads
<1>4. PICK v, h : Distinct(h) /\ Table(h) = Table(g) /\ Read(t) = Halfway(None, v, h, b)
  BY <1>1 DEF Complete
<1>5. b \in Seq(Seq(Atoms)) /\ Len(b) \in {0, 1} /\ Distinct(g)
  BY <1>1 DEF Typed
<1>6. Says(r, m, h, b)
  BY <1>1, <1>2, <1>3, <1>4, <1>5, Parsed
<1>7. HasBody(m) <=> Carries(m, h)
  <2>1. Listed(h) = Listed(g)
    BY <1>4, <1>5, TableFacts
  <2> QED
    BY <1>1, <2>1, MeaningIs DEF Carries
<1>8. PICK a, vo, c, d, e, u, st, re, ta, fl :
        /\ a = m.type /\ vo = Or(m.version, DefaultVersion) /\ c = Or(m.method, Get)
        /\ d = m.target /\ e = m.uri /\ u = Addressed(m)
        /\ st = m.status /\ re = Reason(m) /\ ta = Table(g) /\ fl = FlattenSeq(b)
  OBVIOUS
<1>9. PICK ve, bo : /\ ve = IF a = "response" THEN DefaultVersion ELSE vo
                    /\ bo = IF Carries(m, h) THEN fl ELSE <<>>
  OBVIOUS
<1>10. w = Meant(a, vo, c, d, e, st, re, ta, fl)
  BY <1>1, <1>8, MeaningIs
<1>11. Meaning(r) = Meant(a, ve, c, None, u, st, re, ta, bo)
  BY <1>4, <1>6, <1>8, <1>9 DEF Says
<1>12. /\ ve = IF m.type = "response" THEN DefaultVersion ELSE w.version
       /\ bo = IF HasBody(m) THEN w.body ELSE <<>>
  BY <1>7, <1>8, <1>9, <1>10 DEF Meant
<1>13. PICK q, p, o : /\ q = [w EXCEPT !.version = ve] /\ p = [q EXCEPT !.target = None]
                      /\ o = [p EXCEPT !.uri = u]
  OBVIOUS
<1>14. q = Meant(a, ve, c, d, e, st, re, ta, fl)
  BY <1>10, <1>13 DEF Meant
<1>15. p = Meant(a, ve, c, None, e, st, re, ta, fl)
  <2>1. p = [q EXCEPT !.target = None]
    BY <1>13
  <2> QED
    BY <1>14, <2>1 DEF Meant
<1>16. o = Meant(a, ve, c, None, u, st, re, ta, fl)
  <2>1. o = [p EXCEPT !.uri = u]
    BY <1>13
  <2> QED
    BY <1>15, <2>1 DEF Meant
<1>17. Meaning(r) = [o EXCEPT !.body = bo]
  BY <1>11, <1>16 DEF Meant
<1>18. Meaning(r) = [w EXCEPT !.version = ve, !.target = None, !.uri = u, !.body = bo]
  BY <1>13, <1>17
<1> QED
  BY <1>1, <1>6, <1>8, <1>12, <1>18 DEF Says

\* A message and what it means stand for the same URI.
LEMMA AddressedBy ==
  ASSUME NEW m, Typed(m)
  PROVE  Addressed(Meaning(m)) = Addressed(m)
BY DEF Addressed, Meaning, Meant

\* The getters answer what is meant, but for the phrase of a status that no byte
\* holds, which is empty.
LEMMA AnswersIs ==
  ASSUME NEW m, Typed(m)
  PROVE  Answers(m) = [Meaning(m) EXCEPT !.reason = IF Unphrased(m) THEN None ELSE @]
<1>1. PICK st, re : st = m.status /\ re = m.reason
  OBVIOUS
<1>2. /\ st \in 0 .. 999 /\ (re = None => st \in Known \cup 0 .. 255)
      /\ m.type \in {"request", "response"} /\ (m.type = "request" => st = 0)
  BY <1>1 DEF Typed, Byte
<1>3. PICK y, z : y = GetReasonPhrase(m) /\ z = Reason(m)
  OBVIOUS
<1>4. y = IF Unphrased(m) THEN None ELSE z
  <2>1. CASE re # None
    BY <1>1, <1>3, <2>1 DEF GetReasonPhrase, Reason, Unphrased
  <2>2. CASE re = None /\ st <= 255
    <3>1. st % 256 = st
      BY <1>2, <2>2
    <3>2. ~Unphrased(m)
      BY <1>1, <1>2, <2>2 DEF Unphrased, Byte
    <3> QED
      BY <1>1, <1>3, <2>2, <3>1, <3>2 DEF GetReasonPhrase, Reason, Byte
  <2>3. CASE re = None /\ st > 255
    <3>1. st \in Known /\ m.type = "response" /\ st >= 256
      BY <1>2, <2>3
    <3>2. st % 256 \notin Known
      BY <3>1, ReasonsAssumption DEF Byte
    <3>3. Unphrased(m)
      BY <1>1, <2>3, <3>1 DEF Unphrased, Byte
    <3> QED
      BY <1>1, <1>3, <2>3, <3>2, <3>3 DEF GetReasonPhrase, Byte
  <2> QED
    BY <1>2, <2>1, <2>2, <2>3
<1>5. PICK a, b, c, d, e, h, i :
        /\ a = m.type /\ b = Or(m.version, DefaultVersion) /\ c = Or(m.method, Get) /\ d = m.target
        /\ e = m.uri /\ h = Headers(m) /\ i = FlattenSeq(m.body)
  OBVIOUS
<1>6. Meaning(m) = Meant(a, b, c, d, e, st, z, h, i)
  BY <1>1, <1>3, <1>5 DEF Meaning
<1>7. Answers(m) = Meant(a, b, c, d, e, st, y, h, i)
  BY <1>1, <1>3, <1>5 DEF Answers, Meant, GetRequestTarget
<1>8. Answers(m) = [Meaning(m) EXCEPT !.reason = y]
  BY <1>6, <1>7 DEF Meant
<1>9. Meaning(m).reason = z
  BY <1>6 DEF Meant
<1> QED
  BY <1>4, <1>8, <1>9
-----------------------------------------------------------------------------
(***************************************************************************)
(* The first states.                                                       *)
(***************************************************************************)
\* The object and what has been put into it.
Begun(m, w) == Typed(m) /\ Meaning(m) = w

\* A new object,
LEMMA NewIs ==
  ASSUME NEW type, NEW m, m = NewMessage(type)
  PROVE  IsMsg(m, type, None, None, None, None, 0, None, <<>>, <<>>)
BY DEF NewMessage, IsMsg, Msg

\* ... its fields,
LEMMA EmptySound ==
  ASSUME NEW type, NEW c, NEW e, NEW f, NEW g,
         type = "response" => c = None /\ e = None, type = "request" => f = 0 /\ g = None,
         type \in {"request", "response"}, e # None => Located(e), f \in 0 .. 999, f \in 0 .. Byte - 1
  PROVE  Sound(type, None, c, None, e, f, g, <<>>, <<>>)
BY EmptyList DEF Sound

\* ... and what it answers.
LEMMA NewTyped ==
  ASSUME NEW type, type \in {"request", "response"}
  PROVE  LET m == NewMessage(type) IN Begun(m, Answers(m))
<1>1. PICK m : m = NewMessage(type)
  OBVIOUS
<1>2. IsMsg(m, type, None, None, None, None, 0, None, <<>>, <<>>)
  BY <1>1, NewIs
<1>3. Sound(type, None, None, None, None, 0, None, <<>>, <<>>)
  <2>1. 0 \in 0 .. 999 /\ 0 \in 0 .. Byte - 1
    BY DEF Byte
  <2> QED
    BY <2>1, EmptySound
<1>4. Typed(m)
  BY <1>2, <1>3, Typing
<1>5. Answers(m) = Meaning(m)
  <2>1. ~Unphrased(m)
    BY <1>2, Fields DEF Unphrased, Byte
  <2>2. PICK w : w = Meaning(m)
    OBVIOUS
  <2>3. w = Meant(w.type, w.version, w.method, w.target, w.uri, w.status, w.reason, w.headers, w.body)
    BY <2>2 DEF Meaning, Meant
  <2>4. Answers(m) = [w EXCEPT !.reason = w.reason]
    BY <1>4, <2>1, <2>2, AnswersIs
  <2>5. [w EXCEPT !.reason = w.reason] = w
    BY <2>3 DEF Meant
  <2> QED
    BY <2>2, <2>4, <2>5
<1> QED
  BY <1>1, <1>4, <1>5 DEF Begun

\* The start line of a message that a peer sends.
StartOf(type) ==
  IF type = "request" THEN [NewMessage(type) EXCEPT !.method = Get]
  ELSE [NewMessage(type) EXCEPT !.status = 200, !.reason = Reasons[200]]

\* It is one.
LEMMA StartTyped ==
  ASSUME NEW type, type \in {"request", "response"}
  PROVE  /\ Typed(StartOf(type)) /\ Aimed(StartOf(type)) /\ StartOf(type).type = type
         /\ Or(StartOf(type).version, DefaultVersion) = DefaultVersion
         /\ StartOf(type).target = None /\ ~Unphrased(StartOf(type))
<1>1. PICK m, n : m = NewMessage(type) /\ n = StartOf(type)
  OBVIOUS
<1>2. IsMsg(m, type, None, None, None, None, 0, None, <<>>, <<>>)
  BY <1>1, NewIs
<1>3. CASE type = "request"
  <2>1. n = [m EXCEPT !.method = Get]
    BY <1>1, <1>3 DEF StartOf
  <2>2. IsMsg(n, type, None, Get, None, None, 0, None, <<>>, <<>>)
    BY <1>2, <2>1 DEF IsMsg, Msg
  <2>3. Sound(type, None, Get, None, None, 0, None, <<>>, <<>>)
    <3>1. 0 \in 0 .. 999 /\ 0 \in 0 .. Byte - 1
      BY DEF Byte
    <3> QED
      BY <1>3, <3>1, EmptySound
  <2>4. Typed(n)
    BY <2>2, <2>3, Typing
  <2>5. n.type = type /\ n.uri = None /\ n.version = None /\ n.target = None
    BY <2>2, Fields
  <2>6. ~Unphrased(n)
    BY <1>3, <2>5 DEF Unphrased
  <2> QED
    BY <1>1, <2>4, <2>5, <2>6 DEF Aimed, Or
<1>4. CASE type = "response"
  <2>1. PICK re, st, p : re = Reasons[200] /\ st = 200 /\ p = [m EXCEPT !.status = st]
    OBVIOUS
  <2>2. n = [p EXCEPT !.reason = re]
    BY <1>1, <1>4, <2>1 DEF StartOf
  <2>3. p = [m EXCEPT !.status = st]
    BY <2>1
  <2>4. IsMsg(p, type, None, None, None, None, st, None, <<>>, <<>>)
    BY <1>2, <2>3 DEF IsMsg, Msg
  <2>5. IsMsg(n, type, None, None, None, None, st, re, <<>>, <<>>)
    BY <2>2, <2>4 DEF IsMsg, Msg
  <2>6. st \in 0 .. 999 /\ st \in 0 .. Byte - 1
    BY <2>1 DEF Byte
  <2>7. Sound(type, None, None, None, None, st, re, <<>>, <<>>)
    BY <1>4, <2>6, EmptySound
  <2>8. Typed(n)
    BY <2>5, <2>7, Typing
  <2>9. n.type = type /\ n.uri = None /\ n.version = None /\ n.target = None /\ n.status = st
    BY <2>5, Fields
  <2>10. ~Unphrased(n)
    BY <2>1, <2>9 DEF Unphrased, Byte
  <2> QED
    BY <1>1, <2>8, <2>9, <2>10 DEF Aimed, Or
<1> QED
  BY <1>3, <1>4

\* A message from a peer says what the peer has put into it.
LEMMA Received ==
  ASSUME NEW type, type \in {"request", "response"}, NEW head, head \in Foreign, NEW body, body \in Bodies,
         Sent(type, head, body)
  PROVE  Begun(message, want) /\ phase = "edit"
<1> DEFINE start == StartOf(type)
<1>0. PICK n, w : n = message /\ w = want
  OBVIOUS
<1>a. n = ParseText(type, StartLine(start) \o SentLines(head) \o <<Mark("CRLF")>> \o BodyTokens(body))
  BY <1>0 DEF Sent, StartOf
<1>b. w = [Answers(start) EXCEPT
             !.uri = Addressed(Answers(start)),
             !.headers = [a \in {Lower[head[k][1]] : k \in DOMAIN head} |-> Repeated(head, a)],
             !.body = IF HasBody(n) THEN FlattenSeq(body) ELSE <<>>]
  BY <1>0 DEF Sent, StartOf
<1> HIDE DEF start
<1>1. head \in Seq(Spellings \X Atoms) /\ body \in Seq(Seq(Atoms))
  BY InputsAssumption
<1>2. /\ Typed(start) /\ Aimed(start) /\ start.type = type /\ Or(start.version, DefaultVersion) = DefaultVersion
      /\ start.target = None /\ ~Unphrased(start)
  BY StartTyped DEF start
<1>3. PICK s, lines, t : s = StartLine(start) /\ lines = SentLines(head) /\ t = Cat(s, lines)
  OBVIOUS
<1>4. Begins(s, start) /\ Silent(s)
  BY <1>2, <1>3, StartLineSays
<1>5. Legibles(s) /\ Read(s) = Nothing
  BY <1>4, Quiet
<1>6. Collecting(s, <<>>)
  BY <1>5, EmptyList, NothingRead DEF Collecting
<1>7. PICK h : /\ Collecting(t, h)
               /\ Table(h) = [a \in {Lower[head[k][1]] : k \in DOMAIN head} |-> Repeated(head, a)]
  BY <1>1, <1>3, <1>6, SentRead
<1>8. PICK l : Row(lines, l)
  BY <1>1, <1>3, <1>6, SentRead
<1>9. Leads(t, start)
  <2>1. Row(s, Len(s)) /\ Len(s) = 8
    BY <1>4 DEF Silent, Row
  <2>2. Leads(s, start)
    BY <1>4, <2>1 DEF Leads
  <2> QED
    BY <1>3, <1>8, <2>2, LeadsOn
<1>10. PICK r : r = Cat(Cat(t, One(Mark("CRLF"))), BodyTokens(body))
  OBVIOUS
<1>11. Keeps(r, t)
  BY <1>1, <1>7, <1>10, Over
<1>12. PICK v : Read(r) = Halfway(None, v, h, Gathered(body))
  BY <1>1, <1>7, <1>10, Over
<1>13. Begins(r, start)
  <2>1. Len(t) \in Nat /\ Len(t) >= 8
    BY <1>9 DEF Leads, Row
  <2>2. r[1] = t[1] /\ r[3] = t[3] /\ r[5] = t[5] /\ r[7] = t[7]
    BY <1>11, <2>1 DEF Keeps
  <2> QED
    BY <1>9, <2>2 DEF Leads, Begins
<1>14. PICK b : b = Gathered(body)
  OBVIOUS
<1>15. b \in Seq(Seq(Atoms)) /\ Len(b) \in {0, 1} /\ FlattenSeq(b) = FlattenSeq(body)
  <2>1. PICK y : y = FlattenSeq(body) /\ y \in Seq(Atoms)
    BY <1>1, FlatFew
  <2>2. y \in Seq(Atoms)
    BY <2>1
  <2>3. CASE Len(body) = 0
    <3>1. body = <<>> /\ b = <<>>
      BY <1>1, <1>14, <2>3 DEF Gathered
    <3> QED
      BY <3>1
  <2>4. CASE Len(body) # 0
    <3>1. b = One(y)
      BY <1>14, <2>1, <2>4 DEF Gathered
    <3>2. One(y) \in Seq(Seq(Atoms)) /\ Len(One(y)) = 1 /\ FlattenSeq(One(y)) = y
      BY <2>2, FlatFew DEF One
    <3> QED
      BY <2>1, <3>1, <3>2
  <2> QED
    BY <2>3, <2>4
<1>16. Distinct(h)
  BY <1>7 DEF Collecting
<1>17. Says(ParseText(type, r), start, h, b)
  <2>1. Read(r) = Halfway(None, v, h, b)
    BY <1>12, <1>14
  <2> QED
    BY <1>2, <1>13, <1>15, <1>16, <2>1, Parsed
<1>18. n = ParseText(type, r)
  <2>1. r = StartLine(start) \o SentLines(head) \o <<Mark("CRLF")>> \o BodyTokens(body)
    BY <1>3, <1>10 DEF Cat, One
  <2> QED
    BY <1>a, <2>1
<1>19. PICK a, vo, c, e, u, st, re, tb, fl :
        /\ a = start.type /\ vo = DefaultVersion /\ c = Or(start.method, Get) /\ e = start.uri
        /\ u = Addressed(start) /\ st = start.status /\ re = Reason(start)
        /\ tb = Table(start.headers) /\ fl = FlattenSeq(start.body)
  OBVIOUS
<1>20. PICK m : m = Answers(start) /\ m = Meant(a, vo, c, None, e, st, re, tb, fl) /\ Addressed(m) = u
  <2>1. PICK x : x = Meaning(start)
    OBVIOUS
  <2>2. x = Meant(a, vo, c, None, e, st, re, tb, fl)
    BY <1>2, <1>19, <2>1, MeaningIs
  <2>3. Answers(start) = [x EXCEPT !.reason = x.reason]
    BY <1>2, <2>1, AnswersIs
  <2>4. [x EXCEPT !.reason = x.reason] = x
    BY <2>2 DEF Meant
  <2>5. Addressed(x) = u
    BY <1>2, <1>19, <2>1, AddressedBy
  <2> QED
    BY <2>2, <2>3, <2>4, <2>5
<1>21. PICK bo, ta : bo = (IF Carries(start, h) THEN FlattenSeq(b) ELSE <<>>) /\ ta = Table(h)
  OBVIOUS
<1>22. /\ Typed(n) /\ (HasBody(n) <=> Carries(start, h))
       /\ Meaning(n) = Meant(a, vo, c, None, u, st, re, ta, bo)
  BY <1>2, <1>17, <1>18, <1>19, <1>21 DEF Says
<1>23. PICK p, q : p = [m EXCEPT !.uri = u] /\ q = [p EXCEPT !.headers = ta]
  OBVIOUS
<1>24. Meaning(n) = [q EXCEPT !.body = bo]
  <2>1. p = Meant(a, vo, c, None, u, st, re, tb, fl)
    <3>1. p = [m EXCEPT !.uri = u] /\ m = Meant(a, vo, c, None, e, st, re, tb, fl)
      BY <1>20, <1>23
    <3> QED
      BY <3>1 DEF Meant
  <2>2. q = Meant(a, vo, c, None, u, st, re, ta, fl)
    <3>1. q = [p EXCEPT !.headers = ta]
      BY <1>23
    <3> QED
      BY <2>1, <3>1 DEF Meant
  <2> QED
    BY <1>22, <2>2 DEF Meant
<1>25. bo = IF HasBody(n) THEN FlattenSeq(body) ELSE <<>>
  BY <1>15, <1>21, <1>22
<1>26. w = [m EXCEPT !.uri = u, !.headers = ta, !.body = bo]
  BY <1>b, <1>7, <1>20, <1>21, <1>25
<1>27. Meaning(n) = w
  BY <1>23, <1>24, <1>26
<1>28. phase = "edit"
  BY DEF Sent
<1> QED
  BY <1>0, <1>22, <1>27, <1>28 DEF Begun
-----------------------------------------------------------------------------
(***************************************************************************)
(* The invariant.                                                          *)
(***************************************************************************)
\* The object is one that the methods make; it means what was put into it; the
\* pipe has room, and holds what has been collected of the message, or all of it.
HttpInv ==
  /\ Typed(message)
  /\ ~odd => Meaning(message) = want
  /\ phase = "headers" => Room(pipe, pipe_size, next_header)
  /\ PipeFits
  /\ phase = "headers" /\ ~odd => Collected(message, pipe, message_size, next_header)
  /\ phase = "built" /\ ~odd => Complete(message, pipe, message_size)

\* It holds of a new object and of one that was received.
LEMMA HttpInitial == HttpInit => HttpInv
<1> SUFFICES ASSUME HttpInit PROVE HttpInv
  OBVIOUS
<1>1. PICK type \in {"request", "response"} :
        New(type) \/ \E head \in Foreign, body \in Bodies : Sent(type, head, body)
  BY DEF HttpInit
<1>2. Begun(message, want) /\ phase \in {"factory", "edit"}
  <2>1. CASE New(type)
    BY <2>1, NewTyped DEF New
  <2>2. CASE \E head \in Foreign, body \in Bodies : Sent(type, head, body)
    BY <2>2, Received
  <2> QED
    BY <1>1, <2>1, <2>2
<1> QED
  BY <1>2 DEF HttpInv, Begun, PipeFits

\* A method leaves a message that means what is wanted.
LEMMA EditStep ==
  ASSUME NEW m, NEW w, Edit(m, w), Typed(m), ~odd' => Meaning(m) = w
  PROVE  HttpInv'
<1>1. message' = m /\ want' = w /\ phase' = "edit"
  BY DEF Edit
<1> QED
  BY <1>1 DEF HttpInv, PipeFits

\* ... when it turns the old message into that.
LEMMA EditTurns ==
  ASSUME NEW m, NEW w, NEW y, Edit(m, w), Turns(m, y), ~odd' => y = w
  PROVE  HttpInv'
<1>1. Typed(m) /\ (~odd' => Meaning(m) = w)
  BY DEF Turns
<1> QED
  BY <1>1, EditStep

\* The same of an option.
LEMMA OptionTurns ==
  ASSUME NEW m, NEW w, NEW y, Option(m, w), Turns(m, y), ~odd' => y = w
  PROVE  HttpInv'
<1>1. message' = m /\ want' = w /\ phase' = "factory"
  BY DEF Option
<1>2. Typed(m) /\ (~odd' => Meaning(m) = w)
  BY DEF Turns
<1> QED
  BY <1>1, <1>2 DEF HttpInv, PipeFits

LEMMA OptionURIStep ==
  ASSUME HttpInv, NEW u \in Uris, OptionURI(u)
  PROVE  HttpInv'
<1>1. /\ Option([message EXCEPT !.uri = u], [want EXCEPT !.uri = u])
      /\ odd' = odd /\ message.type = "request"
  BY DEF OptionURI
<1>2. Turns([message EXCEPT !.uri = u], [Meaning(message) EXCEPT !.uri = u])
  BY <1>1, OptionTurnsURI DEF HttpInv
<1>3. ~odd' => [Meaning(message) EXCEPT !.uri = u] = [want EXCEPT !.uri = u]
  BY <1>1 DEF HttpInv
<1> QED
  BY <1>1, <1>2, <1>3, OptionTurns

LEMMA OptionReasonStep ==
  ASSUME HttpInv, NEW x \in Phrases, OptionReason(x)
  PROVE  HttpInv'
<1>1. /\ Option([message EXCEPT !.reason = x], [want EXCEPT !.reason = x])
      /\ odd' = odd /\ message.type = "response" /\ x # None
  BY NoneAssumption DEF OptionReason
<1>2. Turns([message EXCEPT !.reason = x], [Meaning(message) EXCEPT !.reason = x])
  BY <1>1, OptionTurnsReason DEF HttpInv
<1>3. ~odd' => [Meaning(message) EXCEPT !.reason = x] = [want EXCEPT !.reason = x]
  BY <1>1 DEF HttpInv
<1> QED
  BY <1>1, <1>2, <1>3, OptionTurns

LEMMA OptionStatusStep ==
  ASSUME HttpInv, NEW code, OptionStatus(code)
  PROVE  HttpInv'
<1>1. PICK re : re = Reasons[code]
  OBVIOUS
<1>2. /\ Option([message EXCEPT !.status = code, !.reason = None],
                [want EXCEPT !.status = code, !.reason = Or(@, re)])
      /\ odd' = (odd \/ message.reason # None)
      /\ message.type = "response" /\ message.status = 0 /\ code \in Known
  BY <1>1 DEF OptionStatus
<1>3. Turns([message EXCEPT !.status = code, !.reason = None],
            [Meaning(message) EXCEPT !.status = code, !.reason = re])
  BY <1>1, <1>2, OptionTurnsStatus DEF HttpInv
<1>4. ~odd' => [Meaning(message) EXCEPT !.status = code, !.reason = re]
                 = [want EXCEPT !.status = code, !.reason = Or(@, re)]
  <2>1. ~odd' => Meaning(message) = want /\ message.reason = None
    BY <1>2 DEF HttpInv
  <2>2. Meaning(message).reason = Reason(message)
    BY DEF Meaning, Meant
  <2>3. message.reason = None => Reason(message) = None
    <3>1. 0 \notin Known
      <4>1. Known \subseteq 100 .. 999
        BY InputsAssumption
      <4>2. 0 \notin 100 .. 999
        OBVIOUS
      <4> QED
        BY <4>1, <4>2
    <3> QED
      BY <1>2, <3>1 DEF Reason
  <2>4. ~odd' => Or(want.reason, re) = re
    BY <2>1, <2>2, <2>3 DEF Or
  <2> QED
    BY <2>1, <2>4
<1> QED
  BY <1>2, <1>3, <1>4, OptionTurns

LEMMA VersionStep ==
  ASSUME HttpInv, NEW v \in Versions, WithProtocolVersion(v)
  PROVE  HttpInv'
<1>1. Turns([message EXCEPT !.version = v], [Meaning(message) EXCEPT !.version = v])
  BY EditVersion DEF HttpInv
<1>2. Edit([message EXCEPT !.version = v], [want EXCEPT !.version = v]) /\ odd' = odd
  BY DEF WithProtocolVersion
<1>3. ~odd' => [Meaning(message) EXCEPT !.version = v] = [want EXCEPT !.version = v]
  BY <1>2 DEF HttpInv
<1> QED
  BY <1>1, <1>2, <1>3, EditTurns

LEMMA BodyStep ==
  ASSUME HttpInv, NEW b \in Seq(Atoms), WithBody(b)
  PROVE  HttpInv'
<1>1. Turns([message EXCEPT !.body = <<b>>], [Meaning(message) EXCEPT !.body = b])
  BY EditBody DEF HttpInv, One
<1>2. Edit([message EXCEPT !.body = <<b>>], [want EXCEPT !.body = b]) /\ odd' = odd
  BY DEF WithBody
<1>3. ~odd' => [Meaning(message) EXCEPT !.body = b] = [want EXCEPT !.body = b]
  BY <1>2 DEF HttpInv
<1> QED
  BY <1>1, <1>2, <1>3, EditTurns

LEMMA MethodStep ==
  ASSUME HttpInv, NEW x \in Methods, WithMethod(x)
  PROVE  HttpInv'
<1>1. /\ Edit([message EXCEPT !.method = x], [want EXCEPT !.method = x])
      /\ odd' = odd /\ message.type = "request"
  BY DEF WithMethod
<1>2. Turns([message EXCEPT !.method = x], [Meaning(message) EXCEPT !.method = x])
  BY <1>1, EditMethod DEF HttpInv
<1>3. ~odd' => [Meaning(message) EXCEPT !.method = x] = [want EXCEPT !.method = x]
  BY <1>1 DEF HttpInv
<1> QED
  BY <1>1, <1>2, <1>3, EditTurns

LEMMA TargetStep ==
  ASSUME HttpInv, NEW t \in Targets, WithRequestTarget(t)
  PROVE  HttpInv'
<1>1. /\ Edit([message EXCEPT !.target = t], [want EXCEPT !.target = t])
      /\ odd' = odd /\ message.type = "request"
  BY DEF WithRequestTarget
<1>2. Turns([message EXCEPT !.target = t], [Meaning(message) EXCEPT !.target = t])
  BY <1>1, EditTarget DEF HttpInv
<1>3. ~odd' => [Meaning(message) EXCEPT !.target = t] = [want EXCEPT !.target = t]
  BY <1>1 DEF HttpInv
<1> QED
  BY <1>1, <1>2, <1>3, EditTurns

LEMMA StatusStep ==
  ASSUME HttpInv, NEW code, NEW phrase, WithStatus(code, phrase)
  PROVE  HttpInv'
<1>1. /\ Edit([message EXCEPT !.status = code % Byte, !.reason = phrase],
              [want EXCEPT !.status = code, !.reason = Or(phrase, Reasons[code])])
      /\ odd' = (odd \/ code >= Byte) /\ message.type = "response" /\ code \in Known
  BY DEF WithStatus
<1>2. Known \subseteq 100 .. 999
  BY InputsAssumption
<1>3. ~odd' => ~odd /\ code < Byte
  <2>1. code \in 100 .. 999
    BY <1>1, <1>2
  <2>2. odd' = (odd \/ code >= Byte)
    BY <1>1
  <2>3. code >= Byte \/ code < Byte
    BY <2>1 DEF Byte
  <2> QED
    BY <2>2, <2>3
<1>4. /\ Typed([message EXCEPT !.status = code % Byte, !.reason = phrase])
      /\ code < Byte => Turns([message EXCEPT !.status = code % Byte, !.reason = phrase],
                              [Meaning(message) EXCEPT !.status = code, !.reason = Or(phrase, Reasons[code])])
  BY <1>1, EditStatus DEF HttpInv
<1>5. ~odd => Meaning(message) = want
  BY DEF HttpInv
<1>6. ~odd' => Meaning([message EXCEPT !.status = code % Byte, !.reason = phrase])
                 = [want EXCEPT !.status = code, !.reason = Or(phrase, Reasons[code])]
  BY <1>3, <1>4, <1>5 DEF Turns
<1> QED
  BY <1>1, <1>4, <1>6, EditStep

LEMMA HeaderStep ==
  ASSUME HttpInv, NEW spelling \in Spellings, NEW values \in Lists, WithHeader(spelling, values)
  PROVE  HttpInv'
<1>1. PICK name, h, r, list, w :
        /\ name = Lower[spelling] /\ h = message.headers /\ r = WithOnly(h, name, values)
        /\ list = FlattenSeq(values) /\ w = [want EXCEPT !.headers = Named(name, list)]
  OBVIOUS
<1>2. Edit([message EXCEPT !.headers = r], w) /\ odd' = odd
  BY <1>1 DEF WithHeader
<1>3. Typed(message) /\ Distinct(h) /\ (~odd => Meaning(message) = want)
  BY <1>1 DEF HttpInv, Typed
<1>4. name \in Names /\ values \in Seq(Seq(Atoms))
  BY <1>1, InputsAssumption DEF Names
<1>5. Gains(r, h, name, list)
  BY <1>1, <1>3, <1>4, Replaced
<1>6. Turns([message EXCEPT !.headers = r], [Meaning(message) EXCEPT !.headers = Table(r)])
  BY <1>3, <1>5, EditHeaders DEF Gains
<1>7. ASSUME ~odd
      PROVE  [Meaning(message) EXCEPT !.headers = Table(r)] = w
  <2>1. want.headers = Table(h)
    BY <1>1, <1>3, <1>7, EditHeaders
  <2>2. DOMAIN want.headers = Listed(h)
    BY <1>3, <2>1, TableFacts
  <2>3. Named(name, list) = Table(r)
    BY <1>5, <2>1, <2>2 DEF Named, Gains
  <2> QED
    BY <1>1, <1>3, <1>7, <2>3
<1> QED
  BY <1>2, <1>6, <1>7, EditTurns

LEMMA AddedStep ==
  ASSUME HttpInv, NEW spelling \in Spellings, NEW values \in Lists, WithAddedHeader(spelling, values)
  PROVE  HttpInv'
<1>1. PICK name, h, r, list, w, before :
        /\ name = Lower[spelling] /\ h = message.headers /\ r = WithAdded(h, name, values)
        /\ before = IF name \in DOMAIN want.headers THEN want.headers[name] ELSE <<>>
        /\ list = before \o FlattenSeq(values) /\ w = [want EXCEPT !.headers = Named(name, list)]
  OBVIOUS
<1>2. Edit([message EXCEPT !.headers = r], w) /\ odd' = odd
  BY <1>1 DEF WithAddedHeader
<1>3. Typed(message) /\ Distinct(h) /\ (~odd => Meaning(message) = want)
  BY <1>1 DEF HttpInv, Typed
<1>4. name \in Names /\ values \in Seq(Seq(Atoms))
  BY <1>1, InputsAssumption DEF Names
<1>5. Gains(r, h, name, Cat(Prior(h, name), FlattenSeq(values)))
  BY <1>1, <1>3, <1>4, Added
<1>6. Turns([message EXCEPT !.headers = r], [Meaning(message) EXCEPT !.headers = Table(r)])
  BY <1>3, <1>5, EditHeaders DEF Gains
<1>7. ASSUME ~odd
      PROVE  [Meaning(message) EXCEPT !.headers = Table(r)] = w
  <2>1. want.headers = Table(h)
    BY <1>1, <1>3, <1>7, EditHeaders
  <2>2. DOMAIN want.headers = Listed(h)
    BY <1>3, <2>1, TableFacts
  <2>3. before = Prior(h, name)
    BY <1>1, <2>1, <2>2 DEF Prior
  <2>4. Gains(r, h, name, list)
    BY <1>1, <1>5, <2>3 DEF Cat
  <2>5. Named(name, list) = Table(r)
    BY <2>1, <2>2, <2>4 DEF Named, Gains
  <2> QED
    BY <1>1, <1>3, <1>7, <2>5
<1> QED
  BY <1>2, <1>6, <1>7, EditTurns

LEMMA WithoutStep ==
  ASSUME HttpInv, NEW spelling \in Spellings, WithoutHeader(spelling)
  PROVE  HttpInv'
<1>1. PICK name, h, r, w :
        /\ name = Lower[spelling] /\ h = message.headers /\ r = Delete(h, name)
        /\ w = [want EXCEPT !.headers = [n \in DOMAIN @ \ {name} |-> @[n]]]
  OBVIOUS
<1>2. Edit([message EXCEPT !.headers = r], w) /\ odd' = odd
  BY <1>1 DEF WithoutHeader
<1>3. Typed(message) /\ Distinct(h) /\ (~odd => Meaning(message) = want)
  BY <1>1 DEF HttpInv, Typed
<1>5. Loses(r, h, name)
  BY <1>1, <1>3, Deleted
<1>6. Turns([message EXCEPT !.headers = r], [Meaning(message) EXCEPT !.headers = Table(r)])
  BY <1>3, <1>5, EditHeaders DEF Loses
<1>7. ASSUME ~odd
      PROVE  [Meaning(message) EXCEPT !.headers = Table(r)] = w
  <2>1. want.headers = Table(h)
    BY <1>1, <1>3, <1>7, EditHeaders
  <2>2. DOMAIN want.headers = Listed(h)
    BY <1>3, <2>1, TableFacts
  <2>3. [n \in DOMAIN want.headers \ {name} |-> want.headers[n]] = Table(r)
    BY <1>5, <2>1, <2>2 DEF Loses
  <2> QED
    BY <1>1, <1>3, <1>7, <2>3
<1> QED
  BY <1>2, <1>6, <1>7, EditTurns

LEMMA HeadStep ==
  ASSUME HttpInv, BuildHead
  PROVE  HttpInv'
<1>1. /\ phase' = "headers" /\ pipe' = StartLine(message) /\ pipe_size' = PipeSize
      /\ message_size' = HeadSize(message) /\ next_header' = 1
      /\ odd' = (odd \/ Unreadable(message)) /\ message' = message /\ want' = want
  BY DEF BuildHead
<1>2. Typed(message) /\ (~odd => Meaning(message) = want)
  BY DEF HttpInv
<1>3. Room(pipe', pipe_size', next_header')
  BY <1>1, <1>2, HeadBuilt
<1>4. ~odd' => Collected(message', pipe', message_size', next_header')
  BY <1>1, <1>2, HeadBuilt
<1> QED
  BY <1>1, <1>2, <1>3, <1>4 DEF HttpInv, PipeFits

LEMMA CollectStep ==
  ASSUME HttpInv, BuildHeader
  PROVE  HttpInv'
<1>1. PICK h, size :
        /\ h = message.headers[next_header] /\ size = Grown(h, Len(pipe), pipe_size)
  OBVIOUS
<1>2. /\ phase = "headers" /\ next_header <= Len(message.headers)
      /\ pipe' = Cat(pipe, Line(h)) /\ pipe_size' = size
      /\ message_size' = message_size + LineSize(h)
      /\ phase' = IF Len(pipe) + Needs(h) > size THEN "overrun" ELSE "headers"
      /\ next_header' = next_header + 1 /\ message' = message /\ want' = want /\ odd' = odd
  BY <1>1 DEF BuildHeader, Cat
<1>3. /\ Typed(message) /\ (~odd => Meaning(message) = want)
      /\ Room(pipe, pipe_size, next_header)
      /\ ~odd => Collected(message, pipe, message_size, next_header)
  BY <1>2 DEF HttpInv
<1>4. next_header \in 1 .. Len(message.headers) /\ DOMAIN message.headers = 1 .. Len(message.headers)
  <2>1. Len(message.headers) \in Nat /\ DOMAIN message.headers = 1 .. Len(message.headers)
    BY <1>3, HeaderFacts DEF Typed, Distinct
  <2> QED
    BY <1>2, <1>3, <2>1 DEF Room
<1>5. h \in Header
  BY <1>1, <1>3, <1>4, HeaderFacts DEF Typed, Distinct
<1>6. /\ Len(pipe) + Needs(h) <= size => Room(Cat(pipe, Line(h)), size, next_header + 1)
      /\ Len(pipe) + Needs(h) > size => Needs(h) > PipeSize
      /\ Len(pipe) + Needs(h) \in Int /\ size \in Int
  BY <1>1, <1>3, <1>5, Roomy
<1>7. PICK i : i = Len(pipe) + Needs(h)
  OBVIOUS
<1>8. phase' = "headers" => i <= size
  BY <1>2, <1>6, <1>7
<1>9. phase' = "headers" => Room(pipe', pipe_size', next_header')
  BY <1>2, <1>6, <1>7, <1>8
<1>10. PipeFits'
  BY <1>1, <1>2, <1>4, <1>6 DEF PipeFits
<1>11. ~odd' => Collected(message', pipe', message_size', next_header')
  BY <1>1, <1>2, <1>3, Collects
<1>12. phase' # "built"
  BY <1>2
<1>13. Typed(message') /\ (~odd' => Meaning(message') = want')
  BY <1>2, <1>3
<1> QED
  BY <1>9, <1>10, <1>11, <1>12, <1>13 DEF HttpInv

LEMMA EndStep ==
  ASSUME HttpInv, BuildEnd
  PROVE  HttpInv'
<1>1. /\ phase = "headers" /\ next_header > Len(message.headers) /\ phase' = "built"
      /\ pipe' = Cat(Cat(pipe, One(Mark("CRLF"))), BodyTokens(message.body))
      /\ message_size' = message_size + 2 + BodySize(message.body)
      /\ message' = message /\ want' = want /\ odd' = odd
  BY DEF BuildEnd, Cat, One, BodySize
<1>2. /\ Typed(message) /\ (~odd => Meaning(message) = want)
      /\ ~odd => Collected(message, pipe, message_size, next_header)
  BY <1>1 DEF HttpInv
<1>3. ~odd' => Complete(message', pipe', message_size')
  BY <1>1, <1>2, Completes
<1> QED
  BY <1>1, <1>2, <1>3 DEF HttpInv, PipeFits

LEMMA ParseStep ==
  ASSUME HttpInv, ParseBuilt
  PROVE  HttpInv'
<1>1. /\ phase = "built" /\ ~odd /\ odd' = odd /\ phase' = "edit"
      /\ message' = ParseText(message.type, pipe)
      /\ want' = [want EXCEPT !.version = IF message.type = "response" THEN DefaultVersion ELSE @,
                              !.target = None, !.uri = Addressed(want),
                              !.body = IF HasBody(message) THEN @ ELSE <<>>]
  BY DEF ParseBuilt
<1>2. Typed(message) /\ Meaning(message) = want /\ Complete(message, pipe, message_size)
  BY <1>1 DEF HttpInv
<1>4. Addressed(want) = Addressed(message)
  BY <1>2, AddressedBy
<1>3. Typed(message') /\ Meaning(message') = want'
  BY <1>1, <1>2, <1>4, Understands
<1> QED
  BY <1>1, <1>3 DEF HttpInv, PipeFits

\* Every step keeps it.
LEMMA HttpKeeps == HttpInv /\ [HttpNext]_httpVars => HttpInv'
<1> SUFFICES ASSUME HttpInv, [HttpNext]_httpVars
             PROVE  HttpInv'
  OBVIOUS
<1>1. ASSUME NEW v \in Versions, WithProtocolVersion(v)
      PROVE  HttpInv'
  BY <1>1, VersionStep
<1>2. ASSUME NEW b \in Bodies, WithBody(FlattenSeq(b))
      PROVE  HttpInv'
  <2>1. b \in Seq(Seq(Atoms))
    BY InputsAssumption
  <2>2. FlattenSeq(b) \in Seq(Atoms)
    BY <2>1, FlatFew
  <2> QED
    BY <1>2, <2>2, BodyStep
<1>3. ASSUME NEW x \in Methods, WithMethod(x)
      PROVE  HttpInv'
  BY <1>3, MethodStep
<1>4. ASSUME NEW t \in Targets, WithRequestTarget(t)
      PROVE  HttpInv'
  BY <1>4, TargetStep
<1>5. ASSUME NEW code \in Statuses, NEW phrase \in Phrases \cup {None}, WithStatus(code, phrase)
      PROVE  HttpInv'
  BY <1>5, StatusStep
<1>6. ASSUME NEW s \in Spellings, NEW values \in Lists, WithHeader(s, values)
      PROVE  HttpInv'
  BY <1>6, HeaderStep
<1>7. ASSUME NEW s \in Spellings, NEW values \in Lists, WithAddedHeader(s, values)
      PROVE  HttpInv'
  BY <1>7, AddedStep
<1>8. ASSUME NEW s \in Spellings, WithoutHeader(s)
      PROVE  HttpInv'
  BY <1>8, WithoutStep
<1>9. CASE Discard \/ FactoryThrows \/ FactoryReturns
  BY <1>9 DEF Discard, FactoryThrows, FactoryReturns, HttpInv, PipeFits
<1>10. CASE UNCHANGED httpVars
  <2>1. /\ message' = message /\ want' = want /\ odd' = odd /\ phase' = phase /\ next_header' = next_header
        /\ pipe' = pipe /\ pipe_size' = pipe_size /\ message_size' = message_size
    BY <1>10 DEF httpVars, building
  <2> QED
    BY <2>1 DEF HttpInv, PipeFits
<1> QED
  BY <1>1, <1>2, <1>3, <1>4, <1>5, <1>6, <1>7, <1>8, <1>9, <1>10,
     OptionURIStep, OptionStatusStep, OptionReasonStep, HeadStep, CollectStep, EndStep, ParseStep DEF HttpNext

\* It implies what is to be shown.
LEMMA HttpReads == HttpInv => PipeFits /\ HttpReadBack
<1> SUFFICES ASSUME HttpInv PROVE PipeFits /\ HttpReadBack
  OBVIOUS
<1>1. PipeFits
  BY DEF HttpInv
<1>2. ASSUME ~odd, phase = "built"
      PROVE  message_size = Total([k \in 1 .. Len(pipe) |-> pipe[k].width])
  <2>1. Sized(pipe, message_size)
    BY <1>2 DEF HttpInv, Complete
  <2> QED
    BY <2>1 DEF Sized, Bytes
<1>3. ~odd => Answers(message) = [want EXCEPT !.reason = IF Unphrased(message) THEN None ELSE @]
  <2>1. Typed(message) /\ (~odd => Meaning(message) = want)
    BY DEF HttpInv
  <2> QED
    BY <2>1, AnswersIs
<1>4. HttpReadBack
  BY <1>2, <1>3 DEF HttpReadBack
<1> QED
  BY <1>1, <1>4

\* pion_http_message_build() writes behind its array only with a header that has
\* more values than a new array has room for, whatever the other headers are.
THEOREM Fitting == HttpSpec => []PipeFits
<1>1. HttpInit => HttpInv
  BY HttpInitial
<1>2. HttpInv /\ [HttpNext]_httpVars => HttpInv'
  BY HttpKeeps
<1>3. HttpInv => PipeFits
  BY HttpReads
<1> QED
  BY <1>1, <1>2, <1>3, PTL DEF HttpSpec

\* While the code keeps what it is given (~odd), the getters of an object answer
\* what the program or its peer has put into it, before and after it was built and
\* parsed, but for the phrase of a status that no byte holds, which is empty; and
\* the text that is copied fills the string that was allocated for it.
THEOREM Understood == HttpSpec => []HttpReadBack
<1>1. HttpInit => HttpInv
  BY HttpInitial
<1>2. HttpInv /\ [HttpNext]_httpVars => HttpInv'
  BY HttpKeeps
<1>3. HttpInv => HttpReadBack
  BY HttpReads
<1> QED
  BY <1>1, <1>2, <1>3, PTL DEF HttpSpec
=============================================================================
