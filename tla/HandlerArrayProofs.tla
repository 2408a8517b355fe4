------------------------- MODULE HandlerArrayProofs ------------------------
(***************************************************************************)
(* What ion_promisor_cleanup() keeps of an array of handlers, for arrays   *)
(* of any length.                                                          *)
(***************************************************************************)
EXTENDS HandlerArray, FiniteSetTheorems, TLAPS

\* The places are the numbers from 1 on, in the order of the slots.
LEMMA PlaceFacts ==
  ASSUME NEW S, NEW s \in Seq(S), NEW gone
  PROVE  /\ IsFiniteSet(Staying(s, gone)) /\ Cardinality(Staying(s, gone)) \in Nat
         /\ \A k \in Staying(s, gone) : Place(s, gone, k) \in 1 .. k
         /\ \A k \in Staying(s, gone) : Place(s, gone, k) <= Cardinality(Staying(s, gone))
         /\ \A j, k \in Staying(s, gone) : j < k => Place(s, gone, j) < Place(s, gone, k)
<1> DEFINE T == Staying(s, gone)
           U(k) == {j \in T : j <= k}
<1>0. \A n \in Nat : IsFiniteSet(1 .. n) /\ Cardinality(1 .. n) = n
  <2>1. ASSUME NEW n \in Nat
        PROVE  IsFiniteSet(1 .. n) /\ Cardinality(1 .. n) = n
    <3>1. n \in Int /\ 1 \in Int /\ (IF 1 > n THEN 0 ELSE n - 1 + 1) = n
      OBVIOUS
    <3> QED
      BY <3>1, FS_Interval
  <2> QED
    BY <2>1
<1>1. /\ T \subseteq 1 .. Len(s) /\ Len(s) \in Nat /\ IsFiniteSet(1 .. Len(s))
      /\ T \subseteq Nat \ {0}
  <2>1. T \subseteq 1 .. Len(s) /\ Len(s) \in Nat
    BY DEF Staying
  <2> QED
    BY <2>1, <1>0
<1>2. IsFiniteSet(T) /\ Cardinality(T) \in Nat
  BY <1>1, FS_Subset, FS_CardinalityType
<1>3. ASSUME NEW k \in T
      PROVE  /\ IsFiniteSet(U(k)) /\ Cardinality(U(k)) \in Nat /\ Cardinality(U(k)) <= Cardinality(T)
             /\ Cardinality(U(k)) <= k /\ Cardinality(U(k)) # 0
  <2>1. U(k) \in SUBSET T /\ U(k) \in SUBSET (1 .. k) /\ k \in U(k) /\ k \in Nat
    BY <1>1
  <2>2. IsFiniteSet(U(k)) /\ Cardinality(U(k)) <= Cardinality(T)
    BY <1>2, <2>1, FS_Subset
  <2>3. IsFiniteSet(1 .. k) /\ Cardinality(1 .. k) <= k
    BY <2>1, <1>0
  <2>4. Cardinality(U(k)) <= Cardinality(1 .. k) /\ Cardinality(U(k)) \in Nat /\ Cardinality(1 .. k) \in Nat
    BY <2>1, <2>2, <2>3, FS_Subset, FS_CardinalityType
  <2>5. Cardinality(U(k)) # 0
    BY <2>1, <2>2, FS_EmptySet
  <2>6. Cardinality(U(k)) <= k
    BY <2>1, <2>3, <2>4
  <2> QED
    BY <2>2, <2>4, <2>5, <2>6
<1>4. ASSUME NEW j \in T, NEW k \in T, j < k
      PROVE  Cardinality(U(j)) < Cardinality(U(k))
  <2>1. U(j) \in SUBSET U(k) /\ k \in U(k) /\ k \notin U(j)
    BY <1>1, <1>4
  <2>2. Cardinality(U(j)) <= Cardinality(U(k)) /\ Cardinality(U(j)) # Cardinality(U(k))
    <3> HIDE DEF U
    <3> QED
      BY <1>3, <2>1, FS_Subset
  <2>3. Cardinality(U(j)) \in Nat /\ Cardinality(U(k)) \in Nat
    <3> HIDE DEF U
    <3> QED
      BY <1>3
  <2>4. \A m, n \in Nat : m <= n /\ m # n => m < n
    OBVIOUS
  <2> QED
    BY <2>2, <2>3, <2>4
<1>5. \A k \in T : Place(s, gone, k) = Cardinality(U(k))
  BY DEF Place
<1>6. \A k \in T : Place(s, gone, k) \in 1 .. k
  <2> HIDE DEF U
  <2> QED
    BY <1>1, <1>3, <1>5
<1> QED
  BY <1>2, <1>3, <1>4, <1>5, <1>6

\* Every place of the new array up to the last one taken is taken.
LEMMA PlacesTaken ==
  ASSUME NEW S, NEW s \in Seq(S), NEW gone, NEW n \in 1 .. Cardinality(Staying(s, gone))
  PROVE  \E k \in Staying(s, gone) : Place(s, gone, k) = n
<1> DEFINE T == Staying(s, gone)
           C == Cardinality(T)
           f == [k \in T |-> Place(s, gone, k)]
<1>1. /\ IsFiniteSet(T) /\ C \in Nat
      /\ \A k \in T : Place(s, gone, k) \in 1 .. k /\ Place(s, gone, k) <= C
      /\ \A j, k \in T : j < k => Place(s, gone, j) < Place(s, gone, k)
  BY PlaceFacts
<1>2. T \subseteq Nat
  BY DEF Staying
<1>3. f \in [T -> 1 .. C]
  <2>1. \A k \in T : Place(s, gone, k) \in 1 .. C
    <3> HIDE DEF T
    <3> QED
      BY <1>1, <1>2
  <2> QED
    BY <2>1
<1>4. ASSUME NEW j \in T, NEW k \in T, f[j] = f[k]
      PROVE  j = k
  <2>1. Place(s, gone, j) = Place(s, gone, k) /\ Place(s, gone, j) \in Nat /\ j \in Nat /\ k \in Nat
    BY <1>1, <1>2, <1>4
  <2>2. ~(j < k) /\ ~(k < j)
    BY <1>1, <2>1
  <2> QED
    BY <2>1, <2>2
<1>5. f \in Injection(T, 1 .. C)
  <2> HIDE DEF T, C, f
  <2> QED
    BY <1>3, <1>4 DEF Injection, IsInjective
<1>6. IsFiniteSet(1 .. C) /\ Cardinality(1 .. C) = C
  <2> HIDE DEF C
  <2>1. ~(1 > C) => C - 1 + 1 = C
    BY <1>1
  <2> QED
    BY <1>1, <2>1, FS_Interval
<1>7. f \in Surjection(T, 1 .. C)
  <2> HIDE DEF f
  <2> QED
    BY <1>5, <1>6, FS_Injection
<1> QED
  BY <1>7 DEF Surjection

(***************************************************************************)
(* The arrays before and after.  When no more is removed than there are    *)
(* emptied slots, whatever stays is found again, no further from the start *)
(* and in as many slots; and if all of them were removed nothing else is.  *)
(***************************************************************************)
Emptied(s, gone) == {k \in DOMAIN s : s[k] \in gone}

THEOREM CleanedFacts ==
  ASSUME NEW S, NEW s \in Seq(S \cup {Junk}), NEW gone,
         NEW removed \in Nat, removed <= Cardinality(Emptied(s, gone))
  PROVE  /\ Cleaned(s, gone, removed) \in Seq(S \cup {Junk})
         /\ removed = 0 => Cleaned(s, gone, removed) = s
         /\ \A n \in DOMAIN Cleaned(s, gone, removed) : Cleaned(s, gone, removed)[n] # Junk =>
              \E j \in DOMAIN s : n <= j /\ s[j] = Cleaned(s, gone, removed)[n]
         /\ \A m, n \in DOMAIN Cleaned(s, gone, removed) :
              m # n /\ Cleaned(s, gone, removed)[m] # Junk
              /\ Cleaned(s, gone, removed)[m] = Cleaned(s, gone, removed)[n] =>
              \E i, j \in DOMAIN s : /\ i # j /\ m <= i /\ n <= j
                                     /\ s[i] = Cleaned(s, gone, removed)[m] /\ s[j] = s[i]
         /\ \A j \in DOMAIN s : s[j] \notin gone =>
              \E n \in DOMAIN Cleaned(s, gone, removed) : Cleaned(s, gone, removed)[n] = s[j]
         /\ removed = Cardinality(Emptied(s, gone)) =>
              \A n \in DOMAIN Cleaned(s, gone, removed) :
                \E j \in DOMAIN s : s[j] = Cleaned(s, gone, removed)[n]
<1> DEFINE E == Emptied(s, gone)
           T == Staying(s, gone)
           m == Len(s) - removed
           At(n) == CHOOSE k \in T : Place(s, gone, k) = n
           new == [n \in 1 .. m |-> IF \E k \in T : Place(s, gone, k) = n THEN s[At(n)] ELSE Junk]
<1>1. Cleaned(s, gone, removed) = IF removed = 0 THEN s ELSE new
  BY DEF Cleaned
<1>2. /\ IsFiniteSet(T) /\ Cardinality(T) \in Nat
      /\ \A k \in T : Place(s, gone, k) \in 1 .. k /\ Place(s, gone, k) <= Cardinality(T)
  BY PlaceFacts
<1>3. /\ T \subseteq DOMAIN s /\ \A k \in T : s[k] \in S \cup {Junk}
      /\ \A k \in DOMAIN s : s[k] \notin gone => k \in T
      /\ DOMAIN s = 1 .. Len(s) /\ Len(s) \in Nat
  BY DEF Staying
<1>4. /\ m \in Nat /\ Cardinality(T) <= m
      /\ removed = Cardinality(E) => Cardinality(T) = m
  <2>1. IsFiniteSet(1 .. Len(s)) /\ Cardinality(1 .. Len(s)) = Len(s)
    <3>1. \A n \in Nat : n \in Int /\ 1 \in Int /\ (IF 1 > n THEN 0 ELSE n - 1 + 1) = n
      OBVIOUS
    <3> QED
      BY <1>3, <3>1, FS_Interval
  <2>2. E \in SUBSET (1 .. Len(s)) /\ (1 .. Len(s)) \cap E = E /\ T = (1 .. Len(s)) \ E
    BY <1>3 DEF Emptied, Staying
  <2> DEFINE N == 1 .. Len(s)
  <2>3. IsFiniteSet(N) /\ Cardinality(N) = Len(s) /\ N \cap E = E /\ E \in SUBSET N /\ T = N \ E
    BY <2>1, <2>2
  <2> HIDE DEF N, E, T
  <2>4. IsFiniteSet(N \ E) /\ Cardinality(N \ E) = Cardinality(N) - Cardinality(N \cap E)
    BY <2>3, FS_Difference
  <2>5. IsFiniteSet(E) /\ Cardinality(E) <= Cardinality(N)
    BY <2>3, FS_Subset
  <2>6. Cardinality(E) \in Nat
    BY <2>5, FS_CardinalityType
  <2>7. Cardinality(T) = Len(s) - Cardinality(E) /\ Cardinality(E) <= Len(s)
    BY <2>3, <2>4, <2>5
  <2>8. removed <= Cardinality(E)
    BY DEF E
  <2> QED
    BY <1>3, <2>6, <2>7, <2>8
<1>5. ASSUME NEW n, \E k \in T : Place(s, gone, k) = n
      PROVE  At(n) \in T /\ Place(s, gone, At(n)) = n
  <2> HIDE DEF T
  <2> QED
    BY <1>5
<1> HIDE DEF T, At, E
<1>6. new \in Seq(S \cup {Junk}) /\ DOMAIN new = 1 .. m
  <2> HIDE DEF m
  <2>1. \A n \in 1 .. m : new[n] \in S \cup {Junk}
    BY <1>3, <1>5
  <2> QED
    BY <1>4, <2>1
<1>7. \A n \in 1 .. m : new[n] # Junk =>
        At(n) \in T /\ Place(s, gone, At(n)) = n /\ new[n] = s[At(n)] /\ n <= At(n)
  <2> HIDE DEF m
  <2>1. ASSUME NEW n \in 1 .. m, new[n] # Junk
        PROVE  At(n) \in T /\ Place(s, gone, At(n)) = n /\ new[n] = s[At(n)]
    BY <1>5, <2>1
  <2>2. \A k \in T : Place(s, gone, k) \in 1 .. k /\ k \in Nat
    BY <1>2, <1>3
  <2>3. \A k \in Nat : \A n \in 1 .. k : n <= k
    OBVIOUS
  <2> QED
    BY <2>1, <2>2, <2>3
<1>8. \A j \in DOMAIN s : s[j] \notin gone => \E n \in 1 .. m : new[n] = s[j]
  <2> SUFFICES ASSUME NEW j \in DOMAIN s, s[j] \notin gone
               PROVE  \E n \in 1 .. m : new[n] = s[j]
    OBVIOUS
  <2>1. j \in T /\ Place(s, gone, j) \in 1 .. j /\ Place(s, gone, j) <= Cardinality(T) /\ j \in Nat
    BY <1>2, <1>3
  <2>2. Place(s, gone, j) \in 1 .. m
    <3> HIDE DEF m
    <3> QED
      BY <1>2, <1>4, <2>1
  <2>3. At(Place(s, gone, j)) = j
    <3>1. At(Place(s, gone, j)) \in T /\ Place(s, gone, At(Place(s, gone, j))) = Place(s, gone, j)
      BY <2>1, <1>5
    <3>2. \A a, b \in T : a < b => Place(s, gone, a) < Place(s, gone, b)
      BY PlaceFacts DEF T
    <3>3. \A a, b \in T : a \in Nat /\ b \in Nat
      BY <1>3
    <3>4. ~(At(Place(s, gone, j)) < j) /\ ~(j < At(Place(s, gone, j)))
      BY <2>1, <3>1, <3>2
    <3> QED
      BY <2>1, <3>1, <3>3, <3>4
  <2>4. new[Place(s, gone, j)] = s[j]
    <3> HIDE DEF m
    <3> QED
      BY <2>1, <2>2, <2>3
  <2> QED
    BY <2>2, <2>4
<1>9. ASSUME removed = Cardinality(E), NEW n \in 1 .. m
      PROVE  \E j \in DOMAIN s : s[j] = new[n]
  <2>1. n \in 1 .. Cardinality(T)
    <3> HIDE DEF m
    <3> QED
      BY <1>4, <1>9
  <2>2. \E k \in T : Place(s, gone, k) = n
    BY <2>1, PlacesTaken DEF T
  <2>3. new[n] = s[At(n)]
    <3> HIDE DEF m
    <3> QED
      BY <1>9, <2>2
  <2> QED
    BY <1>3, <1>5, <2>2, <2>3
<1>10. ASSUME NEW a \in 1 .. m, NEW b \in 1 .. m, a # b, new[a] # Junk, new[a] = new[b]
       PROVE  \E i, j \in DOMAIN s : /\ i # j /\ a <= i /\ b <= j
                                     /\ s[i] = new[a] /\ s[j] = s[i]
  <2> HIDE DEF new, m
  <2>1. /\ At(a) # At(b) /\ s[At(a)] = new[a] /\ s[At(b)] = new[a]
        /\ a <= At(a) /\ b <= At(b)
    BY <1>7, <1>10
  <2>2. At(a) \in DOMAIN s /\ At(b) \in DOMAIN s
    BY <1>3, <1>7, <1>10
  <2> QED
    BY <2>1, <2>2
<1>11. \A n \in 1 .. m : new[n] # Junk => \E j \in DOMAIN s : n <= j /\ s[j] = new[n]
  <2> HIDE DEF new, m
  <2> QED
    BY <1>3, <1>7
<1> HIDE DEF new, m
<1>12. CASE removed = 0
  <2>1. Cleaned(s, gone, removed) = s
    BY <1>1, <1>12
  <2>2. \A j \in DOMAIN s : j <= j
    OBVIOUS
  <2> QED
    BY <2>1, <2>2
<1>13. CASE removed # 0
  <2>1. Cleaned(s, gone, removed) = new
    BY <1>1, <1>13
  <2>2. \A i, j \in DOMAIN new :
          i # j /\ new[i] # Junk /\ new[i] = new[j] =>
          \E k, l \in DOMAIN s : k # l /\ i <= k /\ j <= l /\ s[k] = new[i] /\ s[l] = s[k]
    BY <1>6, <1>10
  <2>3. /\ new \in Seq(S \cup {Junk})
        /\ \A n \in DOMAIN new : new[n] # Junk =>
             \E j \in DOMAIN s : n <= j /\ s[j] = new[n]
    BY <1>6, <1>11, Zenon
  <2>4. /\ \A j \in DOMAIN s : s[j] \notin gone => \E n \in DOMAIN new : new[n] = s[j]
        /\ removed = Cardinality(Emptied(s, gone)) =>
             \A n \in DOMAIN new : \E j \in DOMAIN s : s[j] = new[n]
    BY <1>6, <1>8, <1>9, Zenon DEF E
  <2> QED
    BY <1>13, <2>1, <2>2, <2>3, <2>4
<1> QED
  BY <1>12, <1>13
============================================================================
