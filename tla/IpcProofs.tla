----------------------------- MODULE IpcProofs -----------------------------
(***************************************************************************)
(* The pair of IPC objects implements the channel of Channel.tla, for any  *)
(* messages and sizes, wherever the stream of bytes is cut.                *)
(*                                                                         *)
(* The stream to an end is what its parser, the kernel and the peer's      *)
(* output buffer hold, in this order.  The invariant follows it byte by    *)
(* byte: each byte has a place, the index of its message among those sent  *)
(* and the offset in it, and each place is the successor of the one before *)
(* it, the first of the place where the parser stands.                     *)
(***************************************************************************)
EXTENDS Ipc, SequenceTheorems, TLAPS

Byte == [of : Messages, n : Nat]
Places == [i : Nat, n : Nat]

\* How many bytes of its message follow a place; i = 0 is before the first.
Room(msgs, p) == IF p.i = 0 THEN 0 ELSE Size[msgs[p.i]] - p.n

Sound(msgs, p) ==
  /\ p.i <= Len(msgs)
  /\ p.i = 0 => p.n = 0
  /\ p.i > 0 => p.n <= Size[msgs[p.i]]

Traced(s, msgs, pos) ==
  /\ pos \in [0 .. Len(s) -> Places]
  /\ \A k \in 0 .. Len(s) : Sound(msgs, pos[k])
  /\ \A a, b \in 0 .. Len(s) : a <= b /\ b - a <= Room(msgs, pos[a]) =>
       pos[b].i = pos[a].i /\ pos[b].n = pos[a].n + (b - a)
  /\ \A a \in 0 .. Len(s) - 1 : Room(msgs, pos[a]) = 0 =>
       pos[a + 1].i = pos[a].i + 1 /\ pos[a + 1].n = 0
  /\ \A k \in 1 .. Len(s) : pos[k].i > 0 /\ s[k] = [of |-> msgs[pos[k].i], n |-> pos[k].n]

\* t is s without its first n bytes.
Drops(s, n, t) ==
  /\ s \in Seq(Byte) /\ t \in Seq(Byte)
  /\ n \in 0 .. Len(s) /\ Len(t) = Len(s) - n
  /\ \A k \in 1 .. Len(t) : t[k] = s[n + k]

\* The stream s continues the place; if it is all, it ends with the messages.
Follows(s, msgs, place, all) ==
  \E pos \in [0 .. Len(s) -> Places] :
    /\ Traced(s, msgs, pos)
    /\ pos[0] = place
    /\ all => Room(msgs, pos[Len(s)]) = 0 /\ pos[Len(s)].i = Len(msgs)
-----------------------------------------------------------------------------
(***************************************************************************)
(* Streams.                                                                *)
(***************************************************************************)
LEMMA FunctionIsSeq ==
  ASSUME NEW S, NEW n \in Nat, NEW f \in [1 .. n -> S]
  PROVE  f \in Seq(S) /\ Len(f) = n
<1>1. f \in Seq(S)
  OBVIOUS
<1> QED
  BY <1>1

LEMMA RoomIs ==
  ASSUME NEW msgs \in Seq(Messages), NEW p \in Places, Sound(msgs, p)
  PROVE  /\ p.i \in Nat /\ p.n \in Nat /\ Room(msgs, p) \in Nat
         /\ p.i > 0 => /\ p.i \in 1 .. Len(msgs) /\ msgs[p.i] \in Messages
                       /\ Size[msgs[p.i]] \in Nat
                       /\ Room(msgs, p) = Size[msgs[p.i]] - p.n
<1>1. p.i \in Nat /\ p.n \in Nat /\ p.i <= Len(msgs) /\ Len(msgs) \in Nat
  BY DEF Places, Sound
<1>2. p.i > 0 => p.i \in 1 .. Len(msgs)
  BY <1>1
<1>3. p.i > 0 => msgs[p.i] \in Messages
  BY <1>2
<1>4. p.i > 0 => Size[msgs[p.i]] \in Nat
  BY <1>3, SizeAssumption
<1> QED
  BY <1>1, <1>2, <1>3, <1>4 DEF Room, Sound

LEMMA FramedBytes ==
  ASSUME NEW m \in Messages
  PROVE  /\ Framed(m) \in Seq(Byte) /\ Len(Framed(m)) = Size[m] + 1
         /\ \A k \in 1 .. Size[m] + 1 : Framed(m)[k] = [of |-> m, n |-> k - 1]
<1>1. Size[m] \in Nat
  BY SizeAssumption
<1>2. Body(m) \in Seq(Byte) /\ Len(Body(m)) = Size[m]
      /\ \A k \in 1 .. Size[m] : Body(m)[k] = [of |-> m, n |-> k]
  <2>1. Body(m) \in [1 .. Size[m] -> Byte]
    BY <1>1 DEF Body, Byte
  <2>2. \A k \in 1 .. Size[m] : Body(m)[k] = [of |-> m, n |-> k]
    BY DEF Body
  <2> QED
    BY <1>1, <2>1, <2>2, FunctionIsSeq
<1>3. <<[of |-> m, n |-> 0]>> \in Seq(Byte) /\ Len(<<[of |-> m, n |-> 0]>>) = 1
      /\ <<[of |-> m, n |-> 0]>>[1] = [of |-> m, n |-> 0]
  BY DEF Byte
<1> HIDE DEF Body
<1> DEFINE h == <<[of |-> m, n |-> 0]>>
<1>4. /\ h \o Body(m) \in Seq(Byte)
      /\ Len(h \o Body(m)) = 1 + Size[m]
      /\ \A k \in 1 .. 1 + Size[m] : (h \o Body(m))[k] = IF k <= 1 THEN h[k] ELSE Body(m)[k - 1]
  <2> HIDE DEF h
  <2> QED
    BY <1>2, <1>3, ConcatProperties DEF h
<1> QED
  BY <1>1, <1>2, <1>3, <1>4 DEF Framed

\* Another message is appended to a stream that is all.
LEMMA FollowsSend ==
  ASSUME NEW s \in Seq(Byte), NEW msgs \in Seq(Messages), NEW place, NEW m \in Messages,
         Follows(s, msgs, place, TRUE)
  PROVE  Follows(s \o Framed(m), Append(msgs, m), place, TRUE)
<1> DEFINE L == Len(s)  N == Size[m]  M == Len(msgs)  S == s \o Framed(m)  Ms == Append(msgs, m)
<1>1. PICK pos \in [0 .. L -> Places] :
        /\ Traced(s, msgs, pos) /\ pos[0] = place
        /\ Room(msgs, pos[L]) = 0 /\ pos[L].i = M
  BY DEF Follows
<1>2. L \in Nat /\ M \in Nat /\ N \in Nat
  BY SizeAssumption
<1>3. /\ S \in Seq(Byte) /\ Len(S) = L + N + 1
      /\ \A k \in 1 .. L : S[k] = s[k]
      /\ \A k \in L + 1 .. L + N + 1 : S[k] = [of |-> m, n |-> k - L - 1]
  <2> DEFINE F == Framed(m)
  <2>1. F \in Seq(Byte) /\ Len(F) = N + 1 /\ \A k \in 1 .. N + 1 : F[k] = [of |-> m, n |-> k - 1]
    BY FramedBytes
  <2> HIDE DEF F
  <2>2. /\ s \o F \in Seq(Byte) /\ Len(s \o F) = L + (N + 1)
        /\ \A i \in 1 .. L + (N + 1) : (s \o F)[i] = IF i <= L THEN s[i] ELSE F[i - L]
    BY <2>1, ConcatProperties
  <2> USE DEF F
  <2> QED
    BY <1>2, <2>1, <2>2
<1>4. /\ Ms \in Seq(Messages) /\ Len(Ms) = M + 1
      /\ \A i \in 1 .. M : Ms[i] = msgs[i]
      /\ Ms[M + 1] = m
  BY AppendProperties
<1> DEFINE q == [k \in 0 .. L + N + 1 |-> IF k <= L THEN pos[k] ELSE [i |-> M + 1, n |-> k - L - 1]]
<1>5. /\ q \in [0 .. Len(S) -> Places]
      /\ \A k \in 0 .. L : q[k] = pos[k]
      /\ \A k \in L + 1 .. L + N + 1 : q[k].i = M + 1 /\ q[k].n = k - L - 1
  BY <1>2, <1>3 DEF Places
<1> HIDE DEF S, Ms, q, L, M
<1>6. ASSUME NEW k \in 0 .. L
      PROVE  /\ pos[k] \in Places /\ Sound(msgs, pos[k])
             /\ pos[k].i \in 0 .. M /\ pos[k].n \in Nat /\ Room(msgs, pos[k]) \in Nat
             /\ Room(Ms, pos[k]) = Room(msgs, pos[k])
             /\ Sound(Ms, pos[k])
  <2>1. pos[k] \in Places /\ Sound(msgs, pos[k])
    BY <1>1 DEF Traced, L
  <2>2. /\ pos[k].i \in Nat /\ pos[k].n \in Nat /\ Room(msgs, pos[k]) \in Nat
        /\ pos[k].i <= M /\ (pos[k].i > 0 => pos[k].i \in 1 .. M)
    BY <2>1, RoomIs DEF Sound, M
  <2>3. pos[k].i > 0 => Ms[pos[k].i] = msgs[pos[k].i]
    BY <1>4, <2>2
  <2> QED
    BY <1>2, <1>4, <2>1, <2>2, <2>3 DEF Room, Sound, M
<1>7. ASSUME NEW k \in L + 1 .. L + N + 1
      PROVE  Room(Ms, q[k]) = N - (k - L - 1) /\ Sound(Ms, q[k])
  <2>1. q[k].i = M + 1 /\ q[k].n = k - L - 1 /\ Ms[q[k].i] = m /\ M + 1 > 0
    BY <1>2, <1>4, <1>5
  <2>2. Size[Ms[q[k].i]] = N
    BY <2>1
  <2> HIDE DEF N
  <2>3. q[k].n <= N
    BY <1>2, <2>1
  <2> QED
    BY <1>2, <1>4, <2>1, <2>2, <2>3 DEF Sound, Room
<1>8. \A a, b \in 0 .. L : a <= b /\ b - a <= Room(msgs, pos[a]) =>
        pos[b].i = pos[a].i /\ pos[b].n = pos[a].n + (b - a)
  BY <1>1 DEF Traced, L
<1>9. ASSUME NEW k \in 0 .. L PROVE Room(msgs, pos[k]) <= L - k
  <2> SUFFICES ASSUME Room(msgs, pos[k]) > L - k PROVE FALSE
    BY <1>2, <1>6
  <2>1. L \in 0 .. L /\ k <= L /\ L - k <= Room(msgs, pos[k])
    BY <1>2, <1>6
  <2>2. pos[L].i = pos[k].i /\ pos[L].n = pos[k].n + (L - k)
    BY <1>8, <2>1
  <2>4. pos[k].i > 0
    BY <1>2, <1>6 DEF Room
  <2>5. Room(msgs, pos[k]) = Size[msgs[pos[k].i]] - pos[k].n /\ Size[msgs[pos[k].i]] \in Nat
    BY <1>6, <2>4, RoomIs
  <2>6. Room(msgs, pos[L]) = Size[msgs[pos[k].i]] - (pos[k].n + (L - k))
    BY <2>2, <2>4 DEF Room
  <2> QED
    BY <1>1, <1>2, <1>6, <2>5, <2>6 DEF L
<1> HIDE DEF N
<1>10. \A k \in 0 .. Len(S) : Sound(Ms, q[k])
  BY <1>2, <1>3, <1>5, <1>6, <1>7
<1>11. ASSUME NEW a \in 0 .. Len(S), NEW b \in 0 .. Len(S), a <= b, b - a <= Room(Ms, q[a])
       PROVE  q[b].i = q[a].i /\ q[b].n = q[a].n + (b - a)
  <2>1. CASE a <= L
    <3>1. a \in 0 .. L /\ q[a] = pos[a] /\ Room(Ms, q[a]) = Room(msgs, pos[a])
      BY <1>2, <1>3, <1>5, <1>6, <2>1
    <3>2. b \in Nat /\ a \in Nat /\ b - a <= Room(msgs, pos[a])
      BY <1>2, <1>3, <1>11, <3>1
    <3>3. Room(msgs, pos[a]) <= L - a /\ Room(msgs, pos[a]) \in Nat
      BY <1>6, <1>9, <3>1
    <3>4. b \in 0 .. L /\ q[b] = pos[b]
      BY <1>2, <1>5, <3>2, <3>3
    <3> QED
      BY <1>8, <1>11, <3>1, <3>2, <3>4
  <2>2. CASE a > L
    <3>1. a \in L + 1 .. L + N + 1 /\ b \in L + 1 .. L + N + 1
      BY <1>2, <1>3, <1>11, <2>2
    <3>2. /\ q[a].i = M + 1 /\ q[a].n = a - L - 1
          /\ q[b].i = M + 1 /\ q[b].n = b - L - 1
      BY <1>5, <3>1
    <3> QED
      BY <1>2, <3>1, <3>2
  <2> QED
    BY <1>2, <2>1, <2>2
<1>12. ASSUME NEW a \in 0 .. Len(S) - 1, Room(Ms, q[a]) = 0
       PROVE  q[a + 1].i = q[a].i + 1 /\ q[a + 1].n = 0
  <2>1. CASE a < L
    <3>1. a \in 0 .. L - 1 /\ a \in 0 .. L /\ a + 1 \in 0 .. L
      BY <1>2, <1>3, <2>1
    <3>2. q[a] = pos[a] /\ q[a + 1] = pos[a + 1] /\ Room(msgs, pos[a]) = 0
      BY <1>5, <1>6, <1>12, <3>1
    <3> QED
      BY <1>1, <3>1, <3>2 DEF Traced, L
  <2>2. CASE a = L
    BY <1>1, <1>2, <1>3, <1>5, <2>2
  <2>3. CASE a > L
    BY <1>2, <1>3, <1>7, <1>12, <2>3
  <2> QED
    BY <1>2, <2>1, <2>2, <2>3
<1>13. ASSUME NEW k \in 1 .. Len(S)
       PROVE  q[k].i > 0 /\ S[k] = [of |-> Ms[q[k].i], n |-> q[k].n]
  <2>1. CASE k <= L
    <3>1. k \in 1 .. L /\ k \in 0 .. L
      BY <1>2, <2>1
    <3>2. pos[k].i > 0 /\ s[k] = [of |-> msgs[pos[k].i], n |-> pos[k].n]
      BY <1>1, <3>1 DEF Traced, L
    <3>3. pos[k].i \in 1 .. M
      <4>1. pos[k].i \in 0 .. M
        BY <1>6, <3>1
      <4> QED
        BY <1>2, <3>2, <4>1
    <3> QED
      BY <1>3, <1>4, <1>5, <3>1, <3>2, <3>3
  <2>2. CASE k > L
    <3>1. k \in L + 1 .. L + N + 1
      BY <1>2, <1>3, <2>2
    <3>2. q[k].i = M + 1 /\ q[k].n = k - L - 1
      BY <1>5, <3>1
    <3>3. S[k] = [of |-> m, n |-> k - L - 1]
      BY <1>3, <3>1
    <3> QED
      BY <1>2, <1>4, <3>2, <3>3
  <2> QED
    BY <1>2, <2>1, <2>2
<1>14. Traced(S, Ms, q)
  BY <1>5, <1>10, <1>11, <1>12, <1>13 DEF Traced
<1>15. q[0] = place
  BY <1>1, <1>2, <1>5
<1>16. Room(Ms, q[Len(S)]) = 0 /\ q[Len(S)].i = Len(Ms)
  BY <1>2, <1>3, <1>4, <1>5, <1>7
<1> QED
  BY <1>5, <1>14, <1>15, <1>16 DEF Follows, S, Ms

\* What is left of a stream when its end is lost.
LEMMA FollowsCut ==
  ASSUME NEW s \in Seq(Byte), NEW msgs \in Seq(Messages), NEW place, NEW all,
         NEW t \in Seq(Byte), Len(t) <= Len(s), \A k \in 1 .. Len(t) : t[k] = s[k],
         Follows(s, msgs, place, all)
  PROVE  Follows(t, msgs, place, FALSE)
<1>1. PICK pos \in [0 .. Len(s) -> Places] : Traced(s, msgs, pos) /\ pos[0] = place
  BY DEF Follows
<1> DEFINE q == [k \in 0 .. Len(t) |-> pos[k]]
<1>2. \A k \in 0 .. Len(t) : k \in 0 .. Len(s)
  OBVIOUS
<1>3. q \in [0 .. Len(t) -> Places] /\ \A k \in 0 .. Len(t) : q[k] = pos[k]
  BY <1>2
<1> HIDE DEF q
<1>4. \A k \in 0 .. Len(t) : Sound(msgs, q[k])
  BY <1>1, <1>2, <1>3 DEF Traced
<1>5. \A a, b \in 0 .. Len(t) : a <= b /\ b - a <= Room(msgs, q[a]) =>
        q[b].i = q[a].i /\ q[b].n = q[a].n + (b - a)
  BY <1>1, <1>2, <1>3 DEF Traced
<1>6. ASSUME NEW a \in 0 .. Len(t) - 1, Room(msgs, q[a]) = 0
      PROVE  q[a + 1].i = q[a].i + 1 /\ q[a + 1].n = 0
  <2>1. a \in 0 .. Len(t) /\ a + 1 \in 0 .. Len(t) /\ a \in 0 .. Len(s) - 1
    OBVIOUS
  <2> QED
    BY <1>1, <1>3, <1>6, <2>1 DEF Traced
<1>7. ASSUME NEW k \in 1 .. Len(t)
      PROVE  q[k].i > 0 /\ t[k] = [of |-> msgs[q[k].i], n |-> q[k].n]
  <2>1. k \in 0 .. Len(t) /\ k \in 1 .. Len(s)
    OBVIOUS
  <2> QED
    BY <1>1, <1>3, <2>1 DEF Traced
<1>8. Traced(t, msgs, q)
  BY <1>3, <1>4, <1>5, <1>6, <1>7 DEF Traced
<1> QED
  BY <1>1, <1>3, <1>8 DEF Follows

\* The next bytes are read: those of the message begun, or a head.
LEMMA FollowsDrop ==
  ASSUME NEW s \in Seq(Byte), NEW msgs \in Seq(Messages), NEW place \in Places,
         NEW all, Follows(s, msgs, place, all),
         NEW n \in 0 .. Len(s),
         NEW t \in Seq(Byte), Len(t) = Len(s) - n, \A k \in 1 .. Len(t) : t[k] = s[n + k]
  PROVE  /\ Sound(msgs, place)
         /\ n <= Room(msgs, place) =>
              /\ Follows(t, msgs, [i |-> place.i, n |-> place.n + n], all)
              /\ \A k \in 1 .. n : s[k] = [of |-> msgs[place.i], n |-> place.n + k]
         /\ Room(msgs, place) = 0 /\ n = 1 =>
              /\ Follows(t, msgs, [i |-> place.i + 1, n |-> 0], all)
              /\ place.i + 1 <= Len(msgs)
              /\ s[1] = [of |-> msgs[place.i + 1], n |-> 0]
<1> DEFINE L == Len(s)
<1>1. PICK pos \in [0 .. L -> Places] :
        /\ Traced(s, msgs, pos) /\ pos[0] = place
        /\ all => Room(msgs, pos[L]) = 0 /\ pos[L].i = Len(msgs)
  BY DEF Follows
<1>2. L \in Nat /\ n \in Nat /\ n <= L /\ Len(t) = L - n
  OBVIOUS
<1> HIDE DEF L
<1>3. /\ \A k \in 0 .. L : Sound(msgs, pos[k])
      /\ \A a, b \in 0 .. L : a <= b /\ b - a <= Room(msgs, pos[a]) =>
           pos[b].i = pos[a].i /\ pos[b].n = pos[a].n + (b - a)
      /\ \A a \in 0 .. L - 1 : Room(msgs, pos[a]) = 0 =>
           pos[a + 1].i = pos[a].i + 1 /\ pos[a + 1].n = 0
      /\ \A k \in 1 .. L : pos[k].i > 0 /\ s[k] = [of |-> msgs[pos[k].i], n |-> pos[k].n]
  BY <1>1 DEF Traced, L
<1> DEFINE q == [k \in 0 .. Len(t) |-> pos[n + k]]
<1>4. /\ \A k \in 0 .. Len(t) : n + k \in 0 .. L
      /\ \A k \in 1 .. Len(t) : n + k \in 1 .. L /\ t[k] = s[n + k]
      /\ \A a \in 0 .. Len(t) - 1 : n + a \in 0 .. L - 1 /\ a + 1 \in 0 .. Len(t) /\ a \in 0 .. Len(t)
  BY <1>2
<1>5. q \in [0 .. Len(t) -> Places] /\ \A k \in 0 .. Len(t) : q[k] = pos[n + k]
  BY <1>4 DEF L
<1> HIDE DEF q
<1>6. \A k \in 0 .. Len(t) : Sound(msgs, q[k])
  BY <1>3, <1>4, <1>5
<1>7. ASSUME NEW a \in 0 .. Len(t), NEW b \in 0 .. Len(t), a <= b, b - a <= Room(msgs, q[a])
      PROVE  q[b].i = q[a].i /\ q[b].n = q[a].n + (b - a)
  <2>1. /\ n + a \in 0 .. L /\ n + b \in 0 .. L /\ n + a <= n + b
        /\ (n + b) - (n + a) = b - a
    BY <1>2, <1>4, <1>7
  <2> QED
    BY <1>3, <1>5, <1>7, <2>1
<1>8. ASSUME NEW a \in 0 .. Len(t) - 1, Room(msgs, q[a]) = 0
      PROVE  q[a + 1].i = q[a].i + 1 /\ q[a + 1].n = 0
  <2>1. n + (a + 1) = (n + a) + 1
    BY <1>2
  <2> QED
    BY <1>3, <1>4, <1>5, <1>8, <2>1
<1>9. ASSUME NEW k \in 1 .. Len(t)
      PROVE  q[k].i > 0 /\ t[k] = [of |-> msgs[q[k].i], n |-> q[k].n]
  BY <1>3, <1>4, <1>5
<1>10. Traced(t, msgs, q)
  BY <1>5, <1>6, <1>7, <1>8, <1>9 DEF Traced
<1>11. q[0] = pos[n] /\ q[Len(t)] = pos[L] /\ pos[n] \in Places
  <2>1. /\ 0 \in 0 .. Len(t) /\ Len(t) \in 0 .. Len(t) /\ n \in 0 .. L
        /\ n + 0 = n /\ n + Len(t) = L
    BY <1>2
  <2>2. q[0] = pos[n + 0] /\ q[Len(t)] = pos[n + Len(t)]
    BY <1>5, <2>1
  <2> QED
    BY <1>1, <2>1, <2>2 DEF L
<1>12. Follows(t, msgs, pos[n], all)
  BY <1>1, <1>5, <1>10, <1>11 DEF Follows
<1>13. Sound(msgs, place)
  BY <1>1, <1>2, <1>3
<1>14. ASSUME n <= Room(msgs, place)
       PROVE  /\ Follows(t, msgs, [i |-> place.i, n |-> place.n + n], all)
              /\ \A k \in 1 .. n : s[k] = [of |-> msgs[place.i], n |-> place.n + k]
  <2>1. \A k \in 0 .. n : pos[k].i = place.i /\ pos[k].n = place.n + k
    <3>1. Room(msgs, place) \in Nat /\ place.n \in Nat
      BY <1>13, RoomIs
    <3>2. ASSUME NEW k \in 0 .. n PROVE pos[k].i = pos[0].i /\ pos[k].n = pos[0].n + (k - 0)
      <4>1. 0 \in 0 .. L /\ k \in 0 .. L /\ 0 <= k /\ k - 0 <= Room(msgs, pos[0])
        BY <1>1, <1>2, <1>14, <3>1
      <4> QED
        BY <1>3, <4>1
    <3> QED
      BY <1>1, <1>2, <3>1, <3>2
  <2>2. pos[n] = [i |-> place.i, n |-> place.n + n]
    BY <1>2, <1>11, <2>1 DEF Places
  <2>3. ASSUME NEW k \in 1 .. n PROVE s[k] = [of |-> msgs[place.i], n |-> place.n + k]
    <3>1. k \in 1 .. L /\ k \in 0 .. n
      BY <1>2
    <3>2. s[k] = [of |-> msgs[pos[k].i], n |-> pos[k].n]
      BY <1>3, <3>1
    <3> QED
      BY <2>1, <3>1, <3>2
  <2> QED
    BY <1>12, <2>2, <2>3
<1>15. ASSUME Room(msgs, place) = 0, n = 1
       PROVE  /\ Follows(t, msgs, [i |-> place.i + 1, n |-> 0], all)
              /\ place.i + 1 <= Len(msgs)
              /\ s[1] = [of |-> msgs[place.i + 1], n |-> 0]
  <2>1. 0 \in 0 .. L - 1 /\ 1 \in 1 .. L /\ 1 \in 0 .. L
    BY <1>2, <1>15
  <2>2. pos[1].i = place.i + 1 /\ pos[1].n = 0
    BY <1>1, <1>3, <1>15, <2>1
  <2>3. pos[1] = [i |-> place.i + 1, n |-> 0]
    BY <1>11, <1>15, <2>2 DEF Places
  <2> QED
    BY <1>3, <1>12, <1>15, <2>1, <2>2, <2>3 DEF Sound
<1> QED
  BY <1>13, <1>14, <1>15
-----------------------------------------------------------------------------
(***************************************************************************)
(* The invariant.                                                          *)
(***************************************************************************)
TypeInv ==
  /\ sent \in [Ends -> Seq(Messages)] /\ taken \in [Ends -> Seq(Messages)]
  /\ outgoing \in [Ends -> Seq(Byte)] /\ wire \in [Ends -> Seq(Byte)] /\ chunk \in [Ends -> Seq(Byte)]
  /\ frame \in [Ends -> [busy : BOOLEAN, length : Nat, offset : Nat]]
  /\ frame_body = [e \in Ends |-> frame_body[e]]
  /\ disconnect \in [Ends -> {"none", "asked", "told"}]
  /\ at \in [Ends -> {"loop", "parse", "message", "disconnect"}]
  /\ open \in SUBSET Ends

\* What is on its way to an end, and the place where its parser stands.
Stream(e) == chunk[e] \o (wire[e] \o outgoing[Peer(e)])
Cursor(e) ==
  IF frame[e].busy THEN [i |-> Len(taken[e]) + 1, n |-> frame[e].offset]
  ELSE [i |-> Len(taken[e]),
        n |-> IF Len(taken[e]) = 0 THEN 0 ELSE Size[sent[Peer(e)][Len(taken[e])]]]

Delivers(e) == Follows(Stream(e), sent[Peer(e)], Cursor(e), Peer(e) \in open)

\* The message under way: so much of its body as has been read.
Current(e) == sent[Peer(e)][Len(taken[e]) + 1]
Filled(e) ==
  IF frame[e].busy
  THEN /\ frame[e].length = Size[Current(e)]
       /\ frame[e].length = 0 => frame_body[e] \in {Null, Freed}
       /\ frame[e].length > 0 =>
            /\ frame_body[e] = [k \in 1 .. frame[e].length |-> frame_body[e][k]]
            /\ \A k \in 1 .. frame[e].offset : frame_body[e][k] = [of |-> Current(e), n |-> k]
  ELSE frame_body[e] \in {Null, Freed}

\* A chunk is parsed to its end before the next one is read.
Idle(e) == at[e] \in {"loop", "disconnect"} => chunk[e] = <<>>

EndInv(e) == Delivers(e) /\ Filled(e) /\ Idle(e)
IInv == TypeInv /\ \A e \in Ends : EndInv(e)
-----------------------------------------------------------------------------
LEMMA Peers ==
  ASSUME NEW e \in Ends
  PROVE  /\ Peer(e) \in Ends /\ Peer(e) # e /\ Peer(Peer(e)) = e
         /\ \A f \in Ends : f = e \/ f = Peer(e)
<1>1. PICK a, b \in Ends : a # b /\ Ends = {a, b}
  BY EndsAssumption
<1>2. \A x \in Ends : (\E f \in Ends : f # x) => Peer(x) \in Ends /\ Peer(x) # x
  BY DEF Peer
<1> QED
  BY <1>1, <1>2

\* An end that a step does not concern.
LEMMA SameEnd ==
  ASSUME NEW x \in Ends, EndInv(x),
         chunk'[x] = chunk[x], wire'[x] = wire[x], outgoing'[Peer(x)] = outgoing[Peer(x)],
         sent'[Peer(x)] = sent[Peer(x)], taken'[x] = taken[x], frame'[x] = frame[x],
         frame_body'[x] = frame_body[x], Peer(x) \in open' <=> Peer(x) \in open,
         at'[x] = at[x] \/ at'[x] \in {"parse", "message"} \/ chunk[x] = <<>>
  PROVE  EndInv(x)'
<1>1. Stream(x)' = Stream(x) /\ Cursor(x)' = Cursor(x) /\ Current(x)' = Current(x)
  BY DEF Stream, Cursor, Current
<1>2. Delivers(x)'
  BY <1>1 DEF EndInv, Delivers
<1>3. Filled(x)' /\ Idle(x)'
  BY <1>1 DEF EndInv, Filled, Idle
<1> QED
  BY <1>2, <1>3 DEF EndInv

LEMMA Cursors ==
  ASSUME TypeInv, NEW e \in Ends, Delivers(e)
  PROVE  /\ Cursor(e) \in Places /\ Sound(sent[Peer(e)], Cursor(e))
         /\ Stream(e) \in Seq(Byte) /\ Len(taken[e]) <= Len(sent[Peer(e)])
         /\ frame[e].busy => /\ Len(taken[e]) + 1 <= Len(sent[Peer(e)]) /\ Current(e) \in Messages
                             /\ frame[e].offset <= Size[Current(e)]
                             /\ Room(sent[Peer(e)], Cursor(e)) = Size[Current(e)] - frame[e].offset
         /\ ~frame[e].busy => Room(sent[Peer(e)], Cursor(e)) = 0
<1> DEFINE f == Peer(e)
<1>1. f \in Ends
  BY Peers
<1> HIDE DEF f
<1>2. PICK pos \in [0 .. Len(Stream(e)) -> Places] :
        Traced(Stream(e), sent[f], pos) /\ pos[0] = Cursor(e)
  BY DEF Delivers, Follows, f
<1>3. chunk[e] \in Seq(Byte) /\ wire[e] \in Seq(Byte) /\ outgoing[f] \in Seq(Byte)
      /\ taken[e] \in Seq(Messages) /\ sent[f] \in Seq(Messages)
      /\ frame[e] \in [busy : BOOLEAN, length : Nat, offset : Nat]
  BY <1>1 DEF TypeInv
<1>4. Stream(e) \in Seq(Byte) /\ Len(Stream(e)) \in Nat
  <2>1. wire[e] \o outgoing[f] \in Seq(Byte)
    BY <1>3, ConcatProperties
  <2>2. chunk[e] \o (wire[e] \o outgoing[f]) \in Seq(Byte)
    BY <1>3, <2>1, ConcatProperties
  <2>3. Stream(e) = chunk[e] \o (wire[e] \o outgoing[f])
    BY DEF Stream, f
  <2>4. Stream(e) \in Seq(Byte)
    BY <2>2, <2>3
  <2> HIDE DEF f
  <2> QED
    BY <2>4, LenProperties
<1>5. 0 \in 0 .. Len(Stream(e))
  BY <1>4
<1>6. Cursor(e) \in Places /\ Sound(sent[f], Cursor(e))
  BY <1>2, <1>5 DEF Traced
<1>7. Cursor(e).i \in Nat /\ Cursor(e).i <= Len(sent[f])
  BY <1>6 DEF Places, Sound
<1>8. CASE frame[e].busy
  <2>1. Cursor(e).i = Len(taken[e]) + 1 /\ Cursor(e).n = frame[e].offset
    BY <1>8 DEF Cursor
  <2>2. Len(taken[e]) \in Nat /\ Len(taken[e]) + 1 \in 1 .. Len(sent[f])
    BY <1>3, <1>7, <2>1
  <2>3. Current(e) \in Messages
    BY <1>3, <2>2 DEF Current, f
  <2> QED
    BY <1>3, <1>4, <1>6, <1>8, <2>1, <2>2, <2>3 DEF Sound, Room, Current, f
<1>9. CASE ~frame[e].busy
  <2>1. Cursor(e).i = Len(taken[e])
        /\ Cursor(e).n = IF Len(taken[e]) = 0 THEN 0 ELSE Size[sent[f][Len(taken[e])]]
    BY <1>9 DEF Cursor, f
  <2>2. Len(taken[e]) \in Nat /\ (Len(taken[e]) > 0 => Len(taken[e]) \in 1 .. Len(sent[f]))
    BY <1>3, <1>7, <2>1
  <2>3. Len(taken[e]) > 0 => Size[sent[f][Len(taken[e])]] \in Nat
    BY <1>3, <2>2, SizeAssumption
  <2> QED
    BY <1>4, <1>6, <1>7, <1>9, <2>1, <2>2, <2>3 DEF Room, f
<1> QED
  BY <1>8, <1>9
-----------------------------------------------------------------------------
(***************************************************************************)
(* Every step.                                                             *)
(***************************************************************************)
\* Steps that move no byte.
LEMMA QuietStep ==
  ASSUME IInv, UNCHANGED <<traffic, parsing, open>>,
         disconnect' \in [Ends -> {"none", "asked", "told"}],
         at' \in [Ends -> {"loop", "parse", "message", "disconnect"}],
         \A x \in Ends : at'[x] = at[x] \/ at'[x] \in {"parse", "message"} \/ chunk[x] = <<>>
  PROVE  IInv'
<1>1. TypeInv'
  BY DEF IInv, TypeInv, traffic, parsing
<1>2. ASSUME NEW x \in Ends PROVE EndInv(x)'
  BY SameEnd DEF IInv, traffic, parsing
<1> QED
  BY <1>1, <1>2 DEF IInv

LEMMA QuietSteps ==
  ASSUME IInv, NEW e \in Ends,
         \/ WhenIncoming(e) \/ WhenDisconnected(e) \/ EnableIpc(e) \/ Drop(e) \/ SiblingEnds
         \/ Notified(e) \/ Disconnected(e) \/ EmptyMessage(e) \/ MessageHandled(e) \/ Parsed(e)
  PROVE  IInv'
<1>1. TypeInv /\ \A x \in Ends : Idle(x)
  BY DEF IInv, EndInv
<1>2. CASE WhenIncoming(e) \/ WhenDisconnected(e) \/ EnableIpc(e) \/ Drop(e) \/ SiblingEnds \/ EmptyMessage(e)
  BY <1>1, <1>2, QuietStep DEF WhenIncoming, WhenDisconnected, EnableIpc, Drop, SiblingEnds, EmptyMessage,
     Crash, asked, TypeInv
<1>3. CASE Notified(e) \/ Disconnected(e)
  <2>1. chunk[e] = <<>>
    BY <1>1, <1>3 DEF Notified, Disconnected, Idle
  <2> QED
    BY <1>1, <1>3, <2>1, QuietStep DEF Notified, Disconnected, TypeInv, asked
<1>4. CASE MessageHandled(e) \/ Parsed(e)
  BY <1>1, <1>4, QuietStep DEF MessageHandled, Parsed, TypeInv, asked
<1> QED
  BY <1>2, <1>3, <1>4

LEMMA Associative ==
  ASSUME NEW s \in Seq(Byte), NEW t \in Seq(Byte), NEW u \in Seq(Byte)
  PROVE  s \o (t \o u) = (s \o t) \o u
<1> HIDE DEF Byte
<1> QED
  BY ConcatAssociative

LEMMA SendStep ==
  ASSUME IInv, NEW e \in Ends, NEW m \in Messages, Send(e, m)
  PROVE  IInv'
<1> DEFINE f == Peer(e)
<1>1. f \in Ends /\ f # e /\ Peer(f) = e /\ \A x \in Ends : x = e \/ x = f
  BY Peers
<1> HIDE DEF f
<1>2. /\ e \in open
      /\ sent' = [sent EXCEPT ![e] = Append(@, m)]
      /\ outgoing' = [outgoing EXCEPT ![e] = @ \o Framed(m)]
      /\ UNCHANGED <<taken, wire, chunk, frame, frame_body, disconnect, at, open>>
  BY DEF Send, UserCode, Alive, parsing, asked
<1>3. TypeInv /\ EndInv(e) /\ EndInv(f)
  BY <1>1 DEF IInv
<1>4. /\ sent[e] \in Seq(Messages) /\ outgoing[e] \in Seq(Byte) /\ Framed(m) \in Seq(Byte)
      /\ wire[f] \in Seq(Byte) /\ chunk[f] \in Seq(Byte)
  BY <1>1, <1>3, FramedBytes DEF TypeInv
<1>5. outgoing[e] \o Framed(m) \in Seq(Byte) /\ Append(sent[e], m) \in Seq(Messages)
  BY <1>4, ConcatProperties, AppendProperties
<1>6. TypeInv'
  BY <1>2, <1>3, <1>5 DEF TypeInv
<1>7. EndInv(e)'
  BY <1>1, <1>2, <1>3, SameEnd, Peers DEF TypeInv
<1>8. sent'[e] = Append(sent[e], m) /\ outgoing'[e] = outgoing[e] \o Framed(m)
  BY <1>2, <1>3 DEF TypeInv
<1>9. Stream(f)' = Stream(f) \o Framed(m)
  <2>1. Stream(f) = chunk[f] \o (wire[f] \o outgoing[e])
        /\ Stream(f)' = chunk[f] \o (wire[f] \o (outgoing[e] \o Framed(m)))
    BY <1>1, <1>2, <1>8 DEF Stream
  <2>2. wire[f] \o (outgoing[e] \o Framed(m)) = (wire[f] \o outgoing[e]) \o Framed(m)
    BY <1>4, Associative
  <2>3. wire[f] \o outgoing[e] \in Seq(Byte)
    BY <1>4, ConcatProperties
  <2>4. chunk[f] \o ((wire[f] \o outgoing[e]) \o Framed(m)) = (chunk[f] \o (wire[f] \o outgoing[e])) \o Framed(m)
    BY <1>4, <2>3, Associative
  <2> QED
    BY <2>1, <2>2, <2>4
<1>10. /\ Len(taken[f]) <= Len(sent[e]) /\ Len(taken[f]) \in Nat
       /\ frame[f].busy => Len(taken[f]) + 1 <= Len(sent[e])
       /\ Stream(f) \in Seq(Byte)
  BY <1>1, <1>3, Cursors DEF EndInv, TypeInv
<1>11. \A k \in 1 .. Len(sent[e]) : sent'[e][k] = sent[e][k]
  BY <1>4, <1>8, AppendProperties
<1>12. /\ frame[f].busy => Current(f)' = Current(f)
       /\ Cursor(f)' = Cursor(f)
  <2>1. frame[f].busy => Len(taken[f]) + 1 \in 1 .. Len(sent[e])
    BY <1>4, <1>10
  <2>2. Len(taken[f]) # 0 => Len(taken[f]) \in 1 .. Len(sent[e])
    BY <1>4, <1>10
  <2> QED
    BY <1>1, <1>2, <1>11, <2>1, <2>2 DEF Current, Cursor
<1>13. Follows(Stream(f), sent[e], Cursor(f), TRUE)
  BY <1>1, <1>2, <1>3 DEF EndInv, Delivers
<1>14. Follows(Stream(f) \o Framed(m), Append(sent[e], m), Cursor(f), TRUE)
  BY <1>4, <1>10, <1>13, FollowsSend
<1>15. Delivers(f)'
  BY <1>1, <1>2, <1>8, <1>9, <1>12, <1>14 DEF Delivers
<1>16. Filled(f)' /\ Idle(f)'
  BY <1>2, <1>3, <1>12 DEF EndInv, Filled, Idle
<1> QED
  BY <1>1, <1>6, <1>7, <1>15, <1>16 DEF IInv, EndInv

\* What the dead end had not written is lost; its peer reads a part of a
\* stream.
LEMMA CloseStep ==
  ASSUME IInv, NEW e \in Ends, Close(e)
  PROVE  IInv'
<1> DEFINE f == Peer(e)
<1>1. f \in Ends /\ f # e /\ Peer(f) = e /\ \A x \in Ends : x = e \/ x = f
  BY Peers
<1> HIDE DEF f
<1>2. /\ open' = open \ {e}
      /\ outgoing' = [outgoing EXCEPT ![e] = <<>>]
      /\ UNCHANGED <<sent, taken, wire, chunk, frame, frame_body, disconnect, at>>
  BY DEF Close, parsing, asked
<1>3. TypeInv /\ EndInv(e) /\ EndInv(f)
  BY <1>1 DEF IInv
<1>4. TypeInv'
  BY <1>2, <1>3 DEF TypeInv
<1>5. EndInv(e)'
  <2>1. outgoing'[f] = outgoing[f] /\ (f \in open' <=> f \in open)
    BY <1>1, <1>2, <1>3 DEF TypeInv
  <2> QED
    BY <1>1, <1>2, <1>3, <2>1, SameEnd DEF f
<1>6. /\ chunk[f] \in Seq(Byte) /\ wire[f] \in Seq(Byte) /\ outgoing[e] \in Seq(Byte)
      /\ sent[e] \in Seq(Messages) /\ outgoing'[e] = <<>> /\ e \notin open'
  BY <1>1, <1>2, <1>3 DEF TypeInv
<1>7. /\ Stream(f) = chunk[f] \o (wire[f] \o outgoing[e])
      /\ Stream(f)' = chunk[f] \o (wire[f] \o <<>>)
      /\ Cursor(f)' = Cursor(f) /\ Current(f)' = Current(f)
  BY <1>1, <1>2, <1>6 DEF Stream, Cursor, Current
<1>8. Stream(f)' = chunk[f] \o wire[f]
  BY <1>6, <1>7, ConcatEmptySeq
<1>9. Stream(f) = (chunk[f] \o wire[f]) \o outgoing[e]
  BY <1>6, <1>7, Associative
<1> DEFINE t == chunk[f] \o wire[f]
<1>10. t \in Seq(Byte)
  BY <1>6, ConcatProperties
<1> HIDE DEF t
<1>11. /\ t \o outgoing[e] \in Seq(Byte) /\ Len(t) <= Len(t \o outgoing[e])
       /\ \A k \in 1 .. Len(t) : t[k] = (t \o outgoing[e])[k]
  BY <1>6, <1>10, ConcatProperties
<1>12. Follows(t \o outgoing[e], sent[e], Cursor(f), e \in open)
  BY <1>1, <1>3, <1>9 DEF EndInv, Delivers, t
<1>13. Follows(t, sent[e], Cursor(f), FALSE)
  BY <1>6, <1>10, <1>11, <1>12, FollowsCut
<1>14. Delivers(f)'
  <2>1. Follows(t, sent[e], Cursor(f), e \in open')
    BY <1>6, <1>13 DEF Follows
  <2> QED
    BY <1>1, <1>2, <1>7, <1>8, <2>1 DEF Delivers, t
<1>15. Filled(f)' /\ Idle(f)'
  BY <1>2, <1>3, <1>7 DEF EndInv, Filled, Idle
<1> QED
  BY <1>1, <1>4, <1>5, <1>14, <1>15 DEF IInv, EndInv

\* Bytes that move within the stream.
LEMMA Split ==
  ASSUME NEW s \in Seq(Byte), NEW k \in 1 .. Len(s)
  PROVE  /\ SubSeq(s, 1, k) \in Seq(Byte) /\ SubSeq(s, k + 1, Len(s)) \in Seq(Byte)
         /\ SubSeq(s, 1, k) \o SubSeq(s, k + 1, Len(s)) = s
<1>1. Len(s) \in Nat /\ 1 \in 1 .. Len(s) + 1 /\ k \in 1 - 1 .. Len(s) /\ Len(s) \in k .. Len(s)
  OBVIOUS
<1>2. SubSeq(s, 1, k) \o SubSeq(s, k + 1, Len(s)) = SubSeq(s, 1, Len(s))
  <2> HIDE DEF Byte
  <2> QED
    BY <1>1, ConcatAdjacentSubSeq
<1>3. SubSeq(s, 1, Len(s)) = s
  OBVIOUS
<1>4. \A j \in 1 .. Len(s) : s[j] \in Byte
  OBVIOUS
<1>5. SubSeq(s, 1, k) \in Seq(Byte) /\ SubSeq(s, k + 1, Len(s)) \in Seq(Byte)
  <2> HIDE DEF Byte
  <2> QED
    BY <1>1, <1>4, SubSeqProperties
<1> QED
  BY <1>2, <1>3, <1>5

LEMMA FlushStep ==
  ASSUME IInv, NEW e \in Ends, NEW k \in 1 .. Len(outgoing[e]), WriteOut(e, k)
  PROVE  IInv'
<1> DEFINE f == Peer(e)
<1>1. f \in Ends /\ f # e /\ Peer(f) = e /\ \A x \in Ends : x = e \/ x = f
  BY Peers
<1> DEFINE a == SubSeq(outgoing[e], 1, k)
<1> DEFINE b == SubSeq(outgoing[e], k + 1, Len(outgoing[e]))
<1>2. /\ wire' = [wire EXCEPT ![f] = @ \o a]
      /\ outgoing' = [outgoing EXCEPT ![e] = b]
      /\ UNCHANGED <<sent, taken, chunk, frame, frame_body, disconnect, at, open>>
  BY DEF WriteOut, parsing, asked
<1>3. TypeInv /\ EndInv(e) /\ EndInv(f)
  BY <1>1 DEF IInv
<1>4. chunk[f] \in Seq(Byte) /\ wire[f] \in Seq(Byte) /\ outgoing[e] \in Seq(Byte)
  BY <1>1, <1>3 DEF TypeInv
<1>5. a \in Seq(Byte) /\ b \in Seq(Byte) /\ a \o b = outgoing[e]
  BY <1>4, Split
<1> HIDE DEF f, a, b
<1>6. wire[f] \o a \in Seq(Byte)
  BY <1>4, <1>5, ConcatProperties
<1>7. TypeInv'
  BY <1>1, <1>2, <1>3, <1>5, <1>6 DEF TypeInv
<1>8. EndInv(e)'
  <2>1. outgoing'[f] = outgoing[f] /\ wire'[e] = wire[e]
    BY <1>1, <1>2, <1>3 DEF TypeInv
  <2> QED
    BY <1>1, <1>2, <1>3, <2>1, SameEnd DEF f
<1>9. wire'[f] = wire[f] \o a /\ outgoing'[e] = b
  BY <1>1, <1>2, <1>3 DEF TypeInv
<1>10. Stream(f)' = chunk[f] \o ((wire[f] \o a) \o b)
       /\ Stream(f) = chunk[f] \o (wire[f] \o (a \o b))
  BY <1>1, <1>2, <1>5, <1>9 DEF Stream
<1>11. Stream(f)' = Stream(f)
  BY <1>4, <1>5, <1>10, Associative
<1>12. Cursor(f)' = Cursor(f) /\ Current(f)' = Current(f)
  BY <1>2 DEF Cursor, Current
<1>13. Delivers(f)' /\ Filled(f)' /\ Idle(f)'
  BY <1>2, <1>3, <1>11, <1>12 DEF EndInv, Delivers, Filled, Idle
<1> QED
  BY <1>1, <1>7, <1>8, <1>13 DEF IInv, EndInv

LEMMA IncomingStep ==
  ASSUME IInv, NEW e \in Ends, NEW k \in 1 .. Len(wire[e]), ReadIn(e, k)
  PROVE  IInv'
<1> DEFINE f == Peer(e)
<1>1. f \in Ends /\ f # e /\ Peer(f) = e /\ \A x \in Ends : x = e \/ x = f
  BY Peers
<1> DEFINE a == SubSeq(wire[e], 1, k)
<1> DEFINE b == SubSeq(wire[e], k + 1, Len(wire[e]))
<1>2. /\ chunk' = [chunk EXCEPT ![e] = a]
      /\ wire' = [wire EXCEPT ![e] = b]
      /\ at[e] = "loop" /\ at' = [at EXCEPT ![e] = "parse"]
      /\ UNCHANGED <<sent, taken, outgoing, frame, frame_body, disconnect, open>>
  BY DEF ReadIn, asked
<1>3. TypeInv /\ EndInv(e) /\ EndInv(f)
  BY <1>1 DEF IInv
<1>4. chunk[e] = <<>> /\ wire[e] \in Seq(Byte) /\ outgoing[f] \in Seq(Byte)
  BY <1>1, <1>2, <1>3 DEF TypeInv, EndInv, Idle
<1>5. a \in Seq(Byte) /\ b \in Seq(Byte) /\ a \o b = wire[e]
  BY <1>4, Split
<1> HIDE DEF f, a, b
<1>6. TypeInv'
  BY <1>2, <1>3, <1>5 DEF TypeInv
<1>7. EndInv(f)'
  <2>1. chunk'[f] = chunk[f] /\ wire'[f] = wire[f] /\ at'[f] = at[f]
    BY <1>1, <1>2, <1>3 DEF TypeInv
  <2> QED
    BY <1>1, <1>2, <1>3, <2>1, SameEnd
<1>8. chunk'[e] = a /\ wire'[e] = b /\ at'[e] = "parse"
  BY <1>2, <1>3 DEF TypeInv
<1>9. Stream(e)' = a \o (b \o outgoing[f]) /\ Stream(e) = <<>> \o ((a \o b) \o outgoing[f])
  BY <1>2, <1>4, <1>5, <1>8 DEF Stream, f
<1>10. Stream(e)' = Stream(e)
  <2>1. wire[e] \o outgoing[f] \in Seq(Byte)
    BY <1>4, ConcatProperties
  <2>2. Stream(e) = (a \o b) \o outgoing[f]
    BY <1>5, <1>9, <2>1, ConcatEmptySeq
  <2> QED
    BY <1>4, <1>5, <1>9, <2>2, Associative
<1>11. Cursor(e)' = Cursor(e) /\ Current(e)' = Current(e)
  BY <1>2 DEF Cursor, Current
<1>12. Delivers(e)' /\ Filled(e)' /\ Idle(e)'
  BY <1>2, <1>3, <1>8, <1>10, <1>11 DEF EndInv, Delivers, Filled, Idle
<1> QED
  BY <1>1, <1>6, <1>7, <1>12 DEF IInv, EndInv

LEMMA FollowsHead ==
  ASSUME NEW s, NEW t, Drops(s, 1, t), NEW msgs \in Seq(Messages), NEW place \in Places, NEW all,
         Follows(s, msgs, place, all), Room(msgs, place) = 0
  PROVE  /\ Follows(t, msgs, [i |-> place.i + 1, n |-> 0], all)
         /\ place.i + 1 <= Len(msgs)
         /\ s[1] = [of |-> msgs[place.i + 1], n |-> 0]
<1> DEFINE n == 1
<1>1. /\ s \in Seq(Byte) /\ t \in Seq(Byte)
      /\ n \in 0 .. Len(s) /\ Len(t) = Len(s) - n /\ \A k \in 1 .. Len(t) : t[k] = s[n + k]
  BY DEF Drops
<1>2. n = 1
  OBVIOUS
<1> HIDE DEF n
<1> QED
  BY <1>1, <1>2, FollowsDrop

LEMMA FollowsBody ==
  ASSUME NEW s, NEW n, NEW t, Drops(s, n, t), NEW msgs \in Seq(Messages), NEW place \in Places,
         NEW all, Follows(s, msgs, place, all), n <= Room(msgs, place)
  PROVE  /\ Follows(t, msgs, [i |-> place.i, n |-> place.n + n], all)
         /\ \A k \in 1 .. n : s[k] = [of |-> msgs[place.i], n |-> place.n + k]
BY FollowsDrop DEF Drops

\* The first n bytes of the chunk are taken from the stream.
LEMMA Dropped ==
  ASSUME NEW s, NEW n, NEW t, Drops(s, n, t), NEW r \in Seq(Byte)
  PROVE  Drops(s \o r, n, t \o r) /\ \A k \in 1 .. n : (s \o r)[k] = s[k]
<1> DEFINE sr == s \o r  tr == t \o r
<1>0. /\ s \in Seq(Byte) /\ t \in Seq(Byte)
      /\ n \in 0 .. Len(s) /\ Len(t) = Len(s) - n /\ \A k \in 1 .. Len(t) : t[k] = s[n + k]
  BY DEF Drops
<1>1. Len(s) \in Nat /\ Len(t) \in Nat /\ Len(r) \in Nat /\ n \in Nat /\ n <= Len(s)
      /\ Len(t) = Len(s) - n
  BY <1>0, LenProperties
<1>2. /\ sr \in Seq(Byte) /\ Len(sr) = Len(s) + Len(r)
      /\ \A k \in 1 .. Len(s) + Len(r) : sr[k] = IF k <= Len(s) THEN s[k] ELSE r[k - Len(s)]
  BY <1>0, ConcatProperties
<1>3. /\ tr \in Seq(Byte) /\ Len(tr) = Len(t) + Len(r)
      /\ \A k \in 1 .. Len(t) + Len(r) : tr[k] = IF k <= Len(t) THEN t[k] ELSE r[k - Len(t)]
  BY <1>0, ConcatProperties
<1> HIDE DEF sr, tr
<1>4. n \in 0 .. Len(sr) /\ Len(tr) = Len(sr) - n
  BY <1>1, <1>2, <1>3
<1>5. ASSUME NEW k \in 1 .. Len(tr) PROVE tr[k] = sr[n + k]
  <2>0. k \in 1 .. Len(t) + Len(r) /\ n + k \in 1 .. Len(s) + Len(r)
    BY <1>1, <1>3
  <2>1. CASE k <= Len(t)
    <3>1. k \in 1 .. Len(t) /\ n + k <= Len(s)
      BY <1>1, <2>0, <2>1
    <3> QED
      BY <1>0, <1>2, <1>3, <2>0, <2>1, <3>1
  <2>2. CASE ~(k <= Len(t))
    <3>1. ~(n + k <= Len(s)) /\ k - Len(t) = (n + k) - Len(s)
      BY <1>1, <2>0, <2>2
    <3>2. tr[k] = r[k - Len(t)]
      BY <1>3, <2>0, <2>2
    <3>3. sr[n + k] = r[(n + k) - Len(s)]
      BY <1>2, <2>0, <3>1
    <3> QED
      BY <3>1, <3>2, <3>3
  <2> QED
    BY <2>1, <2>2
<1>6. \A k \in 1 .. n : sr[k] = s[k]
  BY <1>1, <1>2
<1> QED
  BY <1>2, <1>3, <1>4, <1>5, <1>6 DEF Drops, sr, tr

\* A head is read, at a place where there is no room for a body.
LEMMA MessageBeginStep ==
  ASSUME IInv, NEW e \in Ends, MessageBegin(e)
  PROVE  IInv'
<1> DEFINE f == Peer(e)
<1>1. f \in Ends /\ f # e /\ Peer(f) = e /\ \A x \in Ends : x = e \/ x = f
  BY Peers
<1> DEFINE n == Size[chunk[e][1].of]
<1>2. /\ at[e] = "parse" /\ ~frame[e].busy /\ chunk[e] # <<>>
      /\ frame' = [frame EXCEPT ![e] = [busy |-> TRUE, length |-> n, offset |-> 0]]
      /\ frame_body' = IF n = 0 THEN frame_body
                       ELSE [frame_body EXCEPT ![e] = [i \in 1 .. n |-> Junk]]
      /\ chunk' = [chunk EXCEPT ![e] = Tail(@)]
      /\ UNCHANGED <<sent, taken, outgoing, wire, disconnect, at, open>>
  BY DEF MessageBegin, Parsing, traffic, asked
<1>3. TypeInv /\ EndInv(e) /\ EndInv(f)
  BY <1>1 DEF IInv
<1> HIDE DEF f, n
<1>4. /\ chunk[e] \in Seq(Byte) /\ wire[e] \in Seq(Byte) /\ outgoing[f] \in Seq(Byte)
      /\ sent[f] \in Seq(Messages) /\ Len(taken[e]) \in Nat
      /\ frame[e] \in [busy : BOOLEAN, length : Nat, offset : Nat]
  BY <1>1, <1>3 DEF TypeInv
<1> DEFINE r == wire[e] \o outgoing[f]
<1>5. r \in Seq(Byte)
  BY <1>4, ConcatProperties
<1> DEFINE c == chunk[e]  u == Tail(chunk[e])  s == c \o r  t == u \o r
<1> HIDE DEF r
<1>6. Stream(e) = s /\ Tail(chunk[e]) \in Seq(Byte)
  BY <1>2, <1>4 DEF Stream, f, r
<1>7. Drops(s, 1, t) /\ s[1] = c[1]
  <2>1. Drops(c, 1, u)
    BY <1>2, <1>4 DEF Drops
  <2>2. s = c \o r /\ t = u \o r /\ 1 \in 1 .. 1
    OBVIOUS
  <2> HIDE DEF c, u, s, t
  <2> QED
    BY <1>5, <2>1, <2>2, Dropped
<1>8. Delivers(e) /\ Cursor(e) \in Places /\ Room(sent[f], Cursor(e)) = 0
  BY <1>2, <1>3, Cursors DEF EndInv, f
<1>9. Follows(s, sent[f], Cursor(e), f \in open)
  BY <1>6, <1>8 DEF Delivers, f
<1> HIDE DEF s, t
<1>10. /\ Follows(t, sent[f], [i |-> Cursor(e).i + 1, n |-> 0], f \in open)
       /\ Cursor(e).i + 1 <= Len(sent[f])
       /\ s[1] = [of |-> sent[f][Cursor(e).i + 1], n |-> 0]
  BY <1>4, <1>7, <1>8, <1>9, FollowsHead
<1>11. Cursor(e).i = Len(taken[e])
  BY <1>2 DEF Cursor
<1>12. n = Size[Current(e)] /\ Current(e) \in Messages
  <2>1. chunk[e][1] = [of |-> Current(e), n |-> 0]
    BY <1>7, <1>10, <1>11 DEF Current, f
  <2>2. Len(taken[e]) + 1 \in 1 .. Len(sent[f])
    BY <1>4, <1>10, <1>11
  <2> QED
    BY <1>4, <2>1, <2>2 DEF n, Current, f
<1>13. n \in Nat
  BY <1>12, SizeAssumption
<1>14. /\ frame'[e] = [busy |-> TRUE, length |-> n, offset |-> 0]
       /\ chunk'[e] = Tail(chunk[e])
       /\ frame_body' = [x \in Ends |-> frame_body'[x]]
       /\ frame_body'[e] = IF n = 0 THEN frame_body[e] ELSE [i \in 1 .. n |-> Junk]
       /\ frame'[f] = frame[f] /\ chunk'[f] = chunk[f] /\ frame_body'[f] = frame_body[f]
  BY <1>1, <1>2, <1>3 DEF TypeInv
<1>15. TypeInv'
  BY <1>2, <1>3, <1>6, <1>13, <1>14 DEF TypeInv
<1>16. EndInv(f)'
  BY <1>1, <1>2, <1>3, <1>14, SameEnd
<1>17. Current(e)' = Current(e) /\ Cursor(e)' = [i |-> Cursor(e).i + 1, n |-> 0] /\ Stream(e)' = t
  <2>1. Current(e)' = Current(e) /\ Stream(e)' = t
    BY <1>2, <1>14 DEF Current, Stream, f, t, r
  <2>2. Cursor(e)' = [i |-> Len(taken[e]) + 1, n |-> 0]
    BY <1>2, <1>14 DEF Cursor
  <2> QED
    BY <1>11, <2>1, <2>2
<1>18. Delivers(e)'
  BY <1>2, <1>10, <1>17 DEF Delivers, f
<1>19. Filled(e)'
  <2>1. frame'[e].busy /\ frame'[e].length = Size[Current(e)'] /\ frame'[e].offset = 0
        /\ frame'[e].length = n
    BY <1>12, <1>14, <1>17
  <2>2. n = 0 => frame_body'[e] \in {Null, Freed}
    BY <1>2, <1>3, <1>14 DEF EndInv, Filled
  <2>3. n > 0 => frame_body'[e] = [k \in 1 .. n |-> frame_body'[e][k]]
    <3>1. n > 0 => frame_body'[e] = [i \in 1 .. n |-> Junk]
      BY <1>13, <1>14
    <3> QED
      BY <3>1
  <2> QED
    BY <2>1, <2>2, <2>3 DEF Filled
<1>20. Idle(e)'
  BY <1>2 DEF Idle
<1> QED
  BY <1>1, <1>15, <1>16, <1>18, <1>19, <1>20 DEF IInv, EndInv

\* A piece of the body is copied to its place.
LEMMA MessageBodyStep ==
  ASSUME IInv, NEW e \in Ends, MessageBody(e)
  PROVE  IInv'
<1> DEFINE f == Peer(e)
<1>1. f \in Ends /\ f # e /\ Peer(f) = e /\ \A x \in Ends : x = e \/ x = f
  BY Peers
<1> DEFINE c == chunk[e]  o == frame[e].offset  l == frame[e].length
<1> DEFINE n == IF l - o < Len(c) THEN l - o ELSE Len(c)
<1> DEFINE u == SubSeq(c, n + 1, Len(c))
<1> DEFINE body == [i \in DOMAIN frame_body[e] |-> IF i \in o + 1 .. o + n THEN c[i - o] ELSE frame_body[e][i]]
<1>2. /\ at[e] = "parse" /\ frame[e].busy /\ o # l /\ c # <<>>
      /\ frame_body' = [frame_body EXCEPT ![e] = body]
      /\ frame' = [frame EXCEPT ![e].offset = @ + n]
      /\ chunk' = [chunk EXCEPT ![e] = u]
      /\ UNCHANGED <<sent, taken, outgoing, wire, disconnect, at, open>>
  BY DEF MessageBody, Parsing, Whole, Place, traffic, asked
<1>3. TypeInv /\ EndInv(e) /\ EndInv(f)
  BY <1>1 DEF IInv
<1> HIDE DEF f
<1>4. /\ c \in Seq(Byte) /\ wire[e] \in Seq(Byte) /\ outgoing[f] \in Seq(Byte)
      /\ sent[f] \in Seq(Messages) /\ Len(taken[e]) \in Nat
      /\ frame[e] \in [busy : BOOLEAN, length : Nat, offset : Nat]
  BY <1>1, <1>3 DEF TypeInv
<1>5. /\ Delivers(e) /\ Cursor(e) \in Places /\ Current(e) \in Messages
      /\ o <= l /\ Room(sent[f], Cursor(e)) = l - o /\ l = Size[Current(e)]
      /\ l > 0 /\ o < l /\ o \in Nat /\ l \in Nat
  <2>1. Delivers(e) /\ l = Size[Current(e)]
    BY <1>2, <1>3 DEF EndInv, Filled
  <2>2. /\ Cursor(e) \in Places /\ Current(e) \in Messages /\ o <= Size[Current(e)]
        /\ Room(sent[f], Cursor(e)) = Size[Current(e)] - o
    BY <1>2, <1>3, <2>1, Cursors DEF f
  <2> QED
    BY <1>2, <1>4, <2>1, <2>2
<1> DEFINE r == wire[e] \o outgoing[f]
<1>6. r \in Seq(Byte)
  BY <1>4, ConcatProperties
<1> DEFINE s == c \o r  t == u \o r
<1>7. Stream(e) = s
  BY DEF Stream, f
<1> HIDE DEF r, n, o, l, c
<1>8. n \in Nat /\ n \in 0 .. Len(c) /\ n <= l - o /\ Len(c) \in Nat
  BY <1>4, <1>5 DEF n
<1>9. Drops(c, n, u) /\ u \in Seq(Byte)
  BY <1>4, <1>8 DEF Drops
<1> HIDE DEF u
<1>10. Drops(s, n, t) /\ \A k \in 1 .. n : s[k] = c[k]
  <2>1. s = c \o r /\ t = u \o r
    OBVIOUS
  <2> HIDE DEF s, t
  <2> QED
    BY <1>6, <1>9, <2>1, Dropped
<1> HIDE DEF s, t
<1>11. Follows(s, sent[f], Cursor(e), f \in open)
  BY <1>5, <1>7 DEF Delivers, f
<1>12. /\ Follows(t, sent[f], [i |-> Cursor(e).i, n |-> Cursor(e).n + n], f \in open)
       /\ \A k \in 1 .. n : s[k] = [of |-> sent[f][Cursor(e).i], n |-> Cursor(e).n + k]
  <2>1. n <= Room(sent[f], Cursor(e)) /\ Cursor(e) \in Places
    BY <1>5, <1>8
  <2> QED
    BY <1>4, <1>10, <1>11, <2>1, FollowsBody
<1>13. Cursor(e).i = Len(taken[e]) + 1 /\ Cursor(e).n = o
  BY <1>2 DEF Cursor, o
<1>14. /\ frame'[e].busy /\ frame'[e].length = l /\ frame'[e].offset = o + n
       /\ frame'[e] \in [busy : BOOLEAN, length : Nat, offset : Nat]
       /\ chunk'[e] = u
       /\ frame_body' = [x \in Ends |-> frame_body'[x]]
       /\ frame_body'[e] = body
       /\ frame'[f] = frame[f] /\ chunk'[f] = chunk[f] /\ frame_body'[f] = frame_body[f]
  <2>1. frame'[e] = [frame[e] EXCEPT !.offset = o + n]
    BY <1>2, <1>3 DEF TypeInv, o
  <2>2. /\ frame'[e].busy /\ frame'[e].length = l /\ frame'[e].offset = o + n
        /\ frame'[e] \in [busy : BOOLEAN, length : Nat, offset : Nat]
    BY <1>2, <1>4, <1>5, <1>8, <2>1 DEF l
  <2> HIDE DEF body
  <2>3. /\ chunk'[e] = u /\ frame_body' = [x \in Ends |-> frame_body'[x]] /\ frame_body'[e] = body
        /\ frame'[f] = frame[f] /\ chunk'[f] = chunk[f] /\ frame_body'[f] = frame_body[f]
    BY <1>1, <1>2, <1>3 DEF TypeInv
  <2> QED
    BY <2>2, <2>3
<1>15. TypeInv'
  <2>1. chunk' \in [Ends -> Seq(Byte)] /\ frame' \in [Ends -> [busy : BOOLEAN, length : Nat, offset : Nat]]
    BY <1>2, <1>3, <1>9, <1>14 DEF TypeInv
  <2> QED
    BY <1>2, <1>3, <1>14, <2>1 DEF TypeInv
<1>16. EndInv(f)'
  BY <1>1, <1>2, <1>3, <1>14, SameEnd
<1>17. Current(e)' = Current(e) /\ Stream(e)' = t
       /\ Cursor(e)' = [i |-> Cursor(e).i, n |-> Cursor(e).n + n]
  <2>1. Current(e)' = Current(e) /\ Stream(e)' = t
    BY <1>2, <1>14 DEF Current, Stream, f, t, r
  <2>2. Cursor(e)' = [i |-> Len(taken[e]) + 1, n |-> o + n]
    BY <1>2, <1>14 DEF Cursor
  <2> QED
    BY <1>13, <2>1, <2>2
<1>18. Delivers(e)'
  BY <1>2, <1>12, <1>17 DEF Delivers, f
<1>19. /\ frame_body[e] = [k \in 1 .. l |-> frame_body[e][k]]
       /\ \A k \in 1 .. o : frame_body[e][k] = [of |-> Current(e), n |-> k]
  BY <1>2, <1>3, <1>5 DEF EndInv, Filled, l, o
<1>20. \A k \in 1 .. n : c[k] = [of |-> Current(e), n |-> o + k]
  BY <1>10, <1>12, <1>13 DEF Current, f
<1>21. DOMAIN frame_body[e] = 1 .. l
  BY <1>19
<1>22. frame_body'[e] = [k \in 1 .. l |-> frame_body'[e][k]]
  BY <1>14, <1>21
<1>23. ASSUME NEW k \in 1 .. o + n PROVE frame_body'[e][k] = [of |-> Current(e), n |-> k]
  <2>1. k \in 1 .. l /\ k \in Nat
    BY <1>5, <1>8
  <2>2. frame_body'[e][k] = IF k \in o + 1 .. o + n THEN c[k - o] ELSE frame_body[e][k]
    BY <1>14, <1>21, <2>1
  <2>3. CASE k <= o
    <3>1. k \in 1 .. o /\ k \notin o + 1 .. o + n
      BY <1>5, <1>8, <2>1, <2>3
    <3> QED
      BY <1>19, <2>2, <3>1
  <2>4. CASE k > o
    <3>1. k \in o + 1 .. o + n /\ k - o \in 1 .. n /\ o + (k - o) = k
      BY <1>5, <1>8, <2>1, <2>4
    <3> QED
      BY <1>20, <2>2, <3>1
  <2> QED
    BY <1>5, <2>1, <2>3, <2>4
<1>24. Filled(e)'
  BY <1>5, <1>14, <1>17, <1>22, <1>23 DEF Filled
<1>25. Idle(e)'
  BY <1>2 DEF Idle
<1> QED
  BY <1>1, <1>15, <1>16, <1>18, <1>24, <1>25 DEF IInv, EndInv

\* A body that is filled is that of one message.
LEMMA Decode ==
  ASSUME NEW m \in Messages, Size[m] > 0
  PROVE  Decoded(Body(m)) = m
<1>1. ASSUME NEW k \in Messages, Body(k) = Body(m) PROVE k = m
  <2>1. Size[k] \in Nat /\ Size[m] \in Nat
    BY SizeAssumption
  <2>2. DOMAIN Body(k) = 1 .. Size[k] /\ DOMAIN Body(m) = 1 .. Size[m]
    BY DEF Body
  <2>3. 1 \in 1 .. Size[m] /\ 1 \in 1 .. Size[k]
    BY <1>1, <2>1, <2>2
  <2>4. Body(k)[1] = [of |-> k, n |-> 1] /\ Body(m)[1] = [of |-> m, n |-> 1]
    BY <2>3 DEF Body
  <2> QED
    BY <1>1, <2>4
<1> QED
  BY <1>1 DEF Decoded

\* The message read is the next one of those sent.
LEMMA Complete ==
  ASSUME IInv, NEW e \in Ends, MessageEnd(e)
  PROVE  /\ Decoded(frame_body[e]) = Current(e) /\ Current(e) \in Messages
         /\ Len(taken[e]) + 1 <= Len(sent[Peer(e)])
         /\ frame[e].busy /\ frame[e].offset = Size[Current(e)] /\ Size[Current(e)] \in Nat
<1>1. /\ frame[e].busy /\ frame[e].offset = frame[e].length /\ frame_body[e] \notin {Null, Freed}
  BY DEF MessageEnd, Whole
<1>2. TypeInv /\ Delivers(e) /\ Filled(e)
  BY DEF IInv, EndInv
<1>3. Len(taken[e]) + 1 <= Len(sent[Peer(e)]) /\ Current(e) \in Messages
  BY <1>1, <1>2, Cursors
<1>4. Size[Current(e)] \in Nat /\ frame[e].length = Size[Current(e)]
  BY <1>1, <1>2, <1>3, SizeAssumption DEF Filled
<1>5. Size[Current(e)] > 0
  BY <1>1, <1>2, <1>4 DEF Filled
<1>6. frame_body[e] = Body(Current(e))
  <2>1. /\ frame_body[e] = [k \in 1 .. Size[Current(e)] |-> frame_body[e][k]]
        /\ \A k \in 1 .. Size[Current(e)] : frame_body[e][k] = [of |-> Current(e), n |-> k]
    BY <1>1, <1>2, <1>4, <1>5 DEF Filled
  <2> QED
    BY <2>1 DEF Body
<1> QED
  BY <1>1, <1>3, <1>4, <1>5, <1>6, Decode

LEMMA MessageEndStep ==
  ASSUME IInv, NEW e \in Ends, MessageEnd(e)
  PROVE  IInv'
<1> DEFINE f == Peer(e)  m == Current(e)
<1>1. f \in Ends /\ f # e /\ Peer(f) = e /\ \A x \in Ends : x = e \/ x = f
  BY Peers
<1>2. /\ m \in Messages /\ Len(taken[e]) + 1 <= Len(sent[f])
      /\ frame[e].busy /\ frame[e].offset = Size[m] /\ Size[m] \in Nat
      /\ Decoded(frame_body[e]) = m
  BY Complete
<1>3. /\ at[e] = "parse"
      /\ taken' = [taken EXCEPT ![e] = Append(@, m)]
      /\ frame' = [frame EXCEPT ![e] = Between]
      /\ frame_body' = [frame_body EXCEPT ![e] = Freed]
      /\ at' = [at EXCEPT ![e] = IF e \in on_message THEN "message" ELSE "parse"]
      /\ UNCHANGED <<sent, outgoing, wire, chunk, disconnect, open>>
  BY <1>2 DEF MessageEnd, Parsing, asked
<1>4. TypeInv /\ EndInv(e) /\ EndInv(f)
  BY <1>1 DEF IInv
<1>5. m = sent[f][Len(taken[e]) + 1]
  BY DEF Current
<1> HIDE DEF f, m
<1>6. Between \in [busy : BOOLEAN, length : Nat, offset : Nat] /\ ~Between.busy
  BY DEF Between
<1>7. /\ taken[e] \in Seq(Messages) /\ Len(taken[e]) \in Nat
      /\ Append(taken[e], m) \in Seq(Messages) /\ Len(Append(taken[e], m)) = Len(taken[e]) + 1
  BY <1>2, <1>4, AppendProperties DEF TypeInv
<1>8. TypeInv'
  BY <1>3, <1>4, <1>6, <1>7 DEF TypeInv
<1>9. /\ taken'[e] = Append(taken[e], m) /\ ~frame'[e].busy /\ frame_body'[e] = Freed
      /\ taken'[f] = taken[f] /\ frame'[f] = frame[f] /\ frame_body'[f] = frame_body[f]
      /\ at'[f] = at[f] /\ at'[e] \in {"message", "parse"}
  BY <1>1, <1>3, <1>4, <1>6 DEF TypeInv
<1>10. EndInv(f)'
  BY <1>1, <1>3, <1>4, <1>9, SameEnd
<1>11. Cursor(e) = [i |-> Len(taken[e]) + 1, n |-> Size[m]]
  BY <1>2 DEF Cursor
<1>12. Cursor(e)' = [i |-> Len(taken[e]) + 1, n |-> Size[m]]
  <2>1. Len(taken'[e]) = Len(taken[e]) + 1 /\ Len(taken'[e]) # 0
    BY <1>7, <1>9
  <2> QED
    BY <1>3, <1>5, <1>9, <2>1 DEF Cursor, f
<1>13. Delivers(e)'
  BY <1>3, <1>4, <1>11, <1>12 DEF EndInv, Delivers, Stream
<1>14. Filled(e)' /\ Idle(e)'
  BY <1>9 DEF Filled, Idle
<1> QED
  BY <1>1, <1>8, <1>10, <1>13, <1>14 DEF IInv, EndInv
-----------------------------------------------------------------------------
LEMMA IpcInitial == IpcInit => IInv
<1> SUFFICES ASSUME IpcInit PROVE IInv
  OBVIOUS
<1>1. TypeInv
  BY DEF IpcInit, TypeInv, Between
<1>2. ASSUME NEW e \in Ends PROVE EndInv(e)
  <2>1. Peer(e) \in Ends
    BY Peers
  <2>2. Filled(e) /\ Idle(e)
    BY DEF IpcInit, Filled, Idle, Between
  <2>3. sent[Peer(e)] = <<>> /\ Stream(e) = <<>> /\ Cursor(e) = [i |-> 0, n |-> 0]
    <3>1. chunk[e] = <<>> /\ wire[e] = <<>> /\ outgoing[Peer(e)] = <<>> /\ taken[e] = <<>> /\ ~frame[e].busy
      BY <2>1 DEF IpcInit, Between
    <3>2. <<>> \in Seq(Byte)
      OBVIOUS
    <3>3. <<>> \o (<<>> \o <<>>) = <<>>
      BY <3>2, ConcatEmptySeq
    <3> QED
      BY <2>1, <3>1, <3>3 DEF IpcInit, Stream, Cursor
  <2> DEFINE pos == [k \in 0 .. 0 |-> [i |-> 0, n |-> 0]]
  <2>4. /\ pos \in [0 .. Len(<<>>) -> Places] /\ pos[0] = [i |-> 0, n |-> 0]
        /\ pos[0].i = 0 /\ pos[0].n = 0
    BY DEF Places
  <2> HIDE DEF pos
  <2>5. Traced(<<>>, <<>>, pos)
    BY <2>4 DEF Traced, Sound, Room
  <2>6. Follows(<<>>, <<>>, [i |-> 0, n |-> 0], TRUE)
    BY <2>4, <2>5 DEF Follows, Room
  <2>7. Delivers(e)
    BY <2>3, <2>6 DEF Delivers, Follows
  <2> QED
    BY <2>2, <2>7 DEF EndInv
<1> QED
  BY <1>1, <1>2 DEF IInv

LEMMA IpcInductive == IInv /\ [IpcNext]_ipcVars => IInv'
<1> SUFFICES ASSUME IInv, [IpcNext]_ipcVars PROVE IInv'
  OBVIOUS
<1>1. CASE UNCHANGED ipcVars
  BY <1>1, QuietStep DEF ipcVars, asked, IInv, TypeInv
<1>2. CASE SiblingEnds
  BY <1>2, EndsAssumption, QuietSteps
<1>3. ASSUME NEW e \in Ends, IpcProgram(e) PROVE IInv'
  BY <1>3, SendStep, QuietSteps, CloseStep DEF IpcProgram
<1>4. ASSUME NEW e \in Ends, IpcMachine(e) PROVE IInv'
  BY <1>4, FlushStep, IncomingStep, QuietSteps, MessageBeginStep, MessageBodyStep, MessageEndStep DEF IpcMachine
<1> QED
  BY <1>1, <1>2, <1>3, <1>4 DEF IpcNext

LEMMA ChannelInitial == IpcInit => C!Init
BY DEF IpcInit, C!Init

\* Every step of the pair is one of the channel, or none.
LEMMA ChannelStep ==
  ASSUME IInv, [IpcNext]_ipcVars
  PROVE  [C!Next]_<<sent, taken, open, {e \in Ends : disconnect[e] = "told"}>>
<1> DEFINE told == {e \in Ends : disconnect[e] = "told"}
<1> DEFINE Stutter == UNCHANGED <<sent, taken, open, told>>
<1>0. TypeInv
  BY DEF IInv
<1>1. CASE UNCHANGED ipcVars
  BY <1>1 DEF ipcVars, traffic, asked
<1>2. CASE SiblingEnds
  BY <1>2 DEF SiblingEnds, traffic, asked
<1>3. ASSUME NEW e \in Ends, NEW m \in Messages, Send(e, m) PROVE C!Next
  <2>1. C!Send(e, m)
    BY <1>3 DEF Send, C!Send, UserCode, Alive, asked
  <2> QED
    BY <2>1 DEF C!Next
<1>4. ASSUME NEW e \in Ends, Close(e) PROVE C!Next
  <2>1. C!Close(e)
    BY <1>4 DEF Close, C!Close, asked
  <2> QED
    BY <2>1 DEF C!Next
<1>5. ASSUME NEW e \in Ends, WhenIncoming(e) \/ EnableIpc(e) \/ Drop(e) \/ Disconnected(e)
                              \/ EmptyMessage(e) \/ MessageHandled(e) \/ Parsed(e)
                              \/ MessageBegin(e) \/ MessageBody(e)
      PROVE  Stutter
  BY <1>5 DEF WhenIncoming, EnableIpc, Drop, Disconnected, EmptyMessage, MessageHandled, Parsed,
     MessageBegin, MessageBody, Crash, traffic, asked
<1>6. ASSUME NEW e \in Ends, WhenDisconnected(e) PROVE Stutter
  BY <1>0, <1>6 DEF WhenDisconnected, TypeInv, traffic
<1>7. ASSUME NEW e \in Ends, NEW k \in Int, WriteOut(e, k) \/ ReadIn(e, k) PROVE Stutter
  BY <1>7 DEF WriteOut, ReadIn, asked
<1>8. ASSUME NEW e \in Ends, Notified(e) PROVE Stutter \/ C!Next
  <2>1. e \in open /\ Peer(e) \notin open /\ UNCHANGED <<sent, taken, open>>
    BY <1>8 DEF Notified, Alive, traffic
  <2>2. CASE disconnect' = [disconnect EXCEPT ![e] = "told"]
    <3>1. told' = told \cup {e}
      BY <1>0, <2>2 DEF TypeInv
    <3>2. C!Tell(e)
      BY <2>1, <3>1 DEF C!Tell, C!Peer, Peer
    <3> QED
      BY <3>2 DEF C!Next
  <2>3. CASE UNCHANGED disconnect
    BY <2>1, <2>3
  <2> QED
    BY <1>8, <2>2, <2>3 DEF Notified
<1>9. ASSUME NEW e \in Ends, MessageEnd(e) PROVE C!Next
  <2>1. /\ Decoded(frame_body[e]) = sent[Peer(e)][Len(taken[e]) + 1]
        /\ Len(taken[e]) + 1 <= Len(sent[Peer(e)])
    BY <1>9, Complete DEF Current
  <2>2. Peer(e) \in Ends
    BY Peers
  <2>3. Len(taken[e]) \in Nat /\ Len(sent[Peer(e)]) \in Nat
    BY <1>0, <2>2 DEF TypeInv
  <2>4. Len(taken[e]) < Len(sent[Peer(e)])
    BY <2>1, <2>3
  <2>5. C!Take(e)
    BY <1>9, <2>1, <2>4 DEF MessageEnd, Parsing, Alive, C!Take, C!Peer, Peer, asked
  <2> QED
    BY <2>5 DEF C!Next
<1> QED
  BY <1>1, <1>2, <1>3, <1>4, <1>5, <1>6, <1>7, <1>8, <1>9 DEF IpcNext, IpcProgram, IpcMachine

\* ion_ipc_create(), send(), the message callbacks and the death of an end
\* implement the channel: messages arrive whole, once and in order, and no
\* end is told of a disconnection that has not happened.
THEOREM Implements == IpcSpec => IsChannel
BY IpcInitial, IpcInductive, ChannelInitial, ChannelStep, PTL DEF IpcSpec, IsChannel, C!Spec
=============================================================================
