------------------------- MODULE XdpMirrorProofs --------------------------
(***************************************************************************)
(* For every ring size, batch size and stream, with lost and foreign       *)
(* packets and the threads running in any order: no umem frame is lost or  *)
(* in two places, outstanding_tx is exact, and packets are sent back in    *)
(* order.                                                                  *)
(*                                                                         *)
(* The argument: put the rings in a row, from the completion ring back to  *)
(* the fill ring.  A step of the kernel, the NIC or the Rx thread moves    *)
(* the boundary between two neighbours and changes nothing in the row; the *)
(* Tx thread also takes completed frames from its front to its end.        *)
(***************************************************************************)
EXTENDS XdpMirror, TLAPS, SequenceTheorems, WellFoundedInduction

\* s followed by t.  The name keeps the provers from looking into concatenations
\* where associativity is enough.
Cat(s, t) == s \o t

\* Received packets on their way back, the oldest first.
Pipe == Cat(Cat(Cat(nic, submitted), reserved), rx)

\* All rings in a row.
Row == Cat(Cat(cq, Pipe), fq)

\* A sequence that holds every umem frame once.
Perm(s) ==
    /\ s \in Seq(Frames) /\ Len(s) = RingSize
    /\ \A i, j \in 1 .. Len(s) : i # j => s[i] # s[j]
    /\ \A f \in Frames : \E i \in 1 .. Len(s) : s[i] = f

TypeInv ==
    /\ conf \in Configs /\ next \in Nat
    /\ fq \in Seq(Frames) /\ rx \in Seq(Frames) /\ reserved \in Seq(Frames)
    /\ submitted \in Seq(Frames) /\ nic \in Seq(Frames) /\ cq \in Seq(Frames)
    /\ packet \in [Frames -> Int]
    /\ received_frames \in Nat /\ outstanding_tx \in Int
    /\ wire \in Seq(Int)

\* What the Rx thread reports it has stored; what is outstanding.
CountInv == received_frames <= Len(reserved) /\ OutstandingIsExact

\* With the frames of y on their way, holding the packets pk, and w sent: the
\* stream before n is in order on the wire, in the rings, and between the two.
Ordered(y, pk, w, n) ==
    /\ \A i \in 1 .. Len(y) : pk[y[i]] < n
    /\ \A i, j \in 1 .. Len(y) :
          i < j /\ pk[y[i]] # Foreign /\ pk[y[j]] # Foreign => pk[y[i]] < pk[y[j]]
    /\ \A k \in 1 .. Len(w) : w[k] < n
    /\ \A k \in 1 .. Len(w), i \in 1 .. Len(y) : pk[y[i]] # Foreign => w[k] < pk[y[i]]
    /\ \A k, l \in 1 .. Len(w) : k < l => w[k] < w[l]

OrderInv == Ordered(Pipe, packet, wire, next)

Inv == TypeInv /\ Perm(Row) /\ CountInv /\ OrderInv

---------------------------------------------------------------------------
(***************************************************************************)
(* Sequences                                                               *)
(***************************************************************************)

\* Type, length and elements of a concatenation.
LEMMA CatIs ==
    ASSUME NEW S, NEW s \in Seq(S), NEW t \in Seq(S)
    PROVE  /\ Cat(s, t) \in Seq(S)
           /\ Len(s) \in Nat /\ Len(t) \in Nat /\ Len(Cat(s, t)) = Len(s) + Len(t)
           /\ \A i \in 1 .. Len(s) + Len(t) :
                 Cat(s, t)[i] = IF i <= Len(s) THEN s[i] ELSE t[i - Len(s)]
BY ConcatProperties DEF Cat

\* The first half of it.
LEMMA CatLength ==
    ASSUME NEW S, NEW s \in Seq(S), NEW t \in Seq(S)
    PROVE  Cat(s, t) \in Seq(S) /\ Len(Cat(s, t)) = Len(s) + Len(t)
BY CatIs, Zenon

\* Brackets do not matter.
LEMMA CatAssoc ==
    ASSUME NEW S, NEW x \in Seq(S), NEW s \in Seq(S), NEW t \in Seq(S)
    PROVE  Cat(x, s) \in Seq(S) /\ Cat(Cat(x, s), t) = Cat(x, Cat(s, t))
<1>1. (x \o s) \o t = x \o (s \o t)
  OBVIOUS
<1>2. x \o s \in Seq(S)
  OBVIOUS
<1> QED BY <1>1, <1>2 DEF Cat

\* Moving the head of t to the end of s changes nothing in the row of both.
LEMMA MoveHead ==
    ASSUME NEW S, NEW s \in Seq(S), NEW t \in Seq(S), t # << >>
    PROVE  /\ Append(s, Head(t)) \in Seq(S) /\ Tail(t) \in Seq(S)
           /\ Cat(Append(s, Head(t)), Tail(t)) = Cat(s, t)
<1>1. /\ Len(t) \in Nat \ {0} /\ Head(t) = t[1] /\ Head(t) \in S
      /\ Tail(t) \in Seq(S) /\ Len(Tail(t)) = Len(t) - 1
      /\ \A i \in 1 .. Len(t) - 1 : Tail(t)[i] = t[i + 1]
  BY EmptySeq, HeadTailProperties
<1> DEFINE a == Append(s, Head(t))
<1>2. /\ a \in Seq(S) /\ Len(a) = Len(s) + 1 /\ Len(s) \in Nat
      /\ \A i \in 1 .. Len(s) : a[i] = s[i]
      /\ a[Len(s) + 1] = t[1]
  BY <1>1
<1> HIDE DEF a
<1> DEFINE u == Tail(t)
<1>3. u \in Seq(S) /\ Len(u) = Len(t) - 1 /\ \A i \in 1 .. Len(t) - 1 : u[i] = t[i + 1]
  BY <1>1
<1> HIDE DEF u
<1>4. /\ a \o u \in Seq(S) /\ Len(a \o u) = Len(s) + Len(t)
      /\ \A i \in 1 .. Len(s) + Len(t) :
            (a \o u)[i] = IF i <= Len(s) + 1 THEN a[i] ELSE u[i - (Len(s) + 1)]
  <2>1. /\ a \o u \in Seq(S) /\ Len(a \o u) = Len(a) + Len(u)
        /\ \A i \in 1 .. Len(a) + Len(u) : (a \o u)[i] = IF i <= Len(a) THEN a[i] ELSE u[i - Len(a)]
    BY <1>2, <1>3, ConcatProperties, Zenon
  <2>2. Len(a) + Len(u) = Len(s) + Len(t)
    BY <1>1, <1>2, <1>3
  <2> QED BY <1>2, <2>1, <2>2, Zenon
<1>5. /\ s \o t \in Seq(S) /\ Len(s \o t) = Len(s) + Len(t)
      /\ \A i \in 1 .. Len(s) + Len(t) :
            (s \o t)[i] = IF i <= Len(s) THEN s[i] ELSE t[i - Len(s)]
  BY ConcatProperties
<1>6. \A i \in 1 .. Len(s) + Len(t) : (a \o u)[i] = (s \o t)[i]
  <2> SUFFICES ASSUME NEW i \in 1 .. Len(s) + Len(t) PROVE (a \o u)[i] = (s \o t)[i]
    BY Zenon
  <2>1. CASE i <= Len(s)
    BY <1>1, <1>2, <1>4, <1>5, <2>1
  <2>2. CASE i = Len(s) + 1
    BY <1>1, <1>2, <1>4, <1>5, <2>2
  <2>3. CASE i > Len(s) + 1
    <3>1. (a \o u)[i] = u[i - (Len(s) + 1)] /\ (s \o t)[i] = t[i - Len(s)]
      BY <1>1, <1>2, <1>4, <1>5, <2>3
    <3>2. i - (Len(s) + 1) \in 1 .. Len(t) - 1
      BY <1>1, <1>2, <2>3
    <3>3. u[i - (Len(s) + 1)] = t[(i - (Len(s) + 1)) + 1]
      BY <1>3, <3>2, Zenon
    <3> QED BY <1>2, <3>1, <3>3
  <2>4. i <= Len(s) \/ i = Len(s) + 1 \/ i > Len(s) + 1
    BY <1>1, <1>2
  <2> QED BY <2>1, <2>2, <2>3, <2>4, Zenon
<1>7. a \o u = s \o t
  BY <1>4, <1>5, <1>6, SeqEqual, Zenon
<1>8. Cat(a, u) = Cat(s, t)
  BY <1>7, Zenon DEF Cat
<1> QED BY <1>1, <1>2, <1>8 DEF a, u

\* The first n elements of t and the others make up t.
LEMMA MovePrefix ==
    ASSUME NEW S, NEW t \in Seq(S), NEW n \in 0 .. Len(t)
    PROVE  /\ SubSeq(t, 1, n) \in Seq(S) /\ SubSeq(t, n + 1, Len(t)) \in Seq(S)
           /\ Len(SubSeq(t, 1, n)) = n /\ Len(SubSeq(t, n + 1, Len(t))) = Len(t) - n
           /\ Cat(SubSeq(t, 1, n), SubSeq(t, n + 1, Len(t))) = t
<1>0. Len(t) \in Nat /\ \A i \in 1 .. Len(t) : t[i] \in S
  BY LenProperties
<1>1. SubSeq(t, 1, n) \in Seq(S) /\ Len(SubSeq(t, 1, n)) = n
  <2>1. \A i \in 1 .. n : t[i] \in S
    BY <1>0
  <2> QED BY <1>0, <2>1, SubSeqProperties
<1>2. SubSeq(t, n + 1, Len(t)) \in Seq(S) /\ Len(SubSeq(t, n + 1, Len(t))) = Len(t) - n
  <2>1. \A i \in n + 1 .. Len(t) : t[i] \in S
    BY <1>0
  <2> QED BY <1>0, <2>1, SubSeqProperties
<1>3. SubSeq(t, 1, n) \o SubSeq(t, n + 1, Len(t)) = t
  <2>1. 1 \in 1 .. Len(t) + 1 /\ n \in 1 - 1 .. Len(t) /\ Len(t) \in n .. Len(t)
    BY <1>0
  <2>2. SubSeq(t, 1, n) \o SubSeq(t, n + 1, Len(t)) = SubSeq(t, 1, Len(t))
    BY <2>1, ConcatAdjacentSubSeq, Zenon
  <2> QED BY <2>2, SubSeqFull, Zenon
<1> QED BY <1>1, <1>2, <1>3, Zenon DEF Cat

\* A row that holds every frame once still does after a rotation.
LEMMA RotatePerm ==
    ASSUME NEW a \in Seq(Frames), NEW b \in Seq(Frames), Perm(Cat(a, b))
    PROVE  Perm(Cat(b, a))
<1>0. /\ Len(a) \in Nat /\ Len(b) \in Nat /\ Len(Cat(a, b)) = Len(a) + Len(b)
      /\ \A i \in 1 .. Len(a) + Len(b) :
            Cat(a, b)[i] = IF i <= Len(a) THEN a[i] ELSE b[i - Len(a)]
      /\ Cat(b, a) \in Seq(Frames) /\ Len(Cat(b, a)) = Len(b) + Len(a)
      /\ \A i \in 1 .. Len(b) + Len(a) :
            Cat(b, a)[i] = IF i <= Len(b) THEN b[i] ELSE a[i - Len(b)]
  BY CatIs, Zenon
<1>1. RingSize = Len(a) + Len(b) /\ RingSize = Len(b) + Len(a) /\ Len(a) \in Nat /\ Len(b) \in Nat
  BY <1>0 DEF Perm
<1>2. Cat(b, a) \in Seq(Frames) /\ Len(Cat(b, a)) = RingSize
  BY <1>0, <1>1
<1> DEFINE Turn == [i \in 1 .. RingSize |-> IF i <= Len(b) THEN i + Len(a) ELSE i - Len(b)]
<1>3. \A i \in 1 .. RingSize : Turn[i] \in 1 .. RingSize
  BY <1>1
<1>4. ASSUME NEW i \in 1 .. RingSize PROVE Cat(b, a)[i] = Cat(a, b)[Turn[i]]
  <2>1. CASE i <= Len(b)
    <3>1. Turn[i] = i + Len(a) /\ ~(Turn[i] <= Len(a)) /\ Turn[i] - Len(a) = i
      BY <1>1, <2>1
    <3>2. Cat(b, a)[i] = b[i]
      BY <1>0, <1>1, <2>1, Zenon
    <3>3. Cat(a, b)[Turn[i]] = b[Turn[i] - Len(a)]
      BY <1>0, <1>1, <1>3, <3>1, Zenon
    <3> QED BY <3>1, <3>2, <3>3, Zenon
  <2>2. CASE ~(i <= Len(b))
    <3>1. Turn[i] = i - Len(b) /\ Turn[i] <= Len(a)
      BY <1>1, <2>2
    <3>2. Cat(b, a)[i] = a[i - Len(b)]
      BY <1>0, <1>1, <2>2, Zenon
    <3>3. Cat(a, b)[Turn[i]] = a[Turn[i]]
      BY <1>0, <1>1, <1>3, <3>1, Zenon
    <3> QED BY <3>1, <3>2, <3>3, Zenon
  <2> QED BY <2>1, <2>2
<1>5. \A i, j \in 1 .. RingSize : i # j => Turn[i] # Turn[j]
  BY <1>1
<1>6. \A k \in 1 .. RingSize : \E i \in 1 .. RingSize : Turn[i] = k
  <2> TAKE k \in 1 .. RingSize
  <2>1. CASE k <= Len(a)
    <3>1. k + Len(b) \in 1 .. RingSize /\ Turn[k + Len(b)] = k
      BY <1>1, <2>1
    <3> QED BY <3>1
  <2>2. CASE k > Len(a)
    <3>1. k - Len(a) \in 1 .. RingSize /\ Turn[k - Len(a)] = k
      BY <1>1, <2>2
    <3> QED BY <3>1
  <2> QED BY <1>1, <2>1, <2>2
<1>7. PICK l, r, T : l = Cat(a, b) /\ r = Cat(b, a) /\ T = Turn
  BY Zenon
<1>8. /\ \A i \in 1 .. RingSize : T[i] \in 1 .. RingSize /\ r[i] = l[T[i]]
      /\ \A i, j \in 1 .. RingSize : i # j => T[i] # T[j]
      /\ \A k \in 1 .. RingSize : \E i \in 1 .. RingSize : T[i] = k
      /\ \A i, j \in 1 .. RingSize : i # j => l[i] # l[j]
      /\ \A f \in Frames : \E k \in 1 .. RingSize : l[k] = f
  <2> HIDE DEF Turn
  <2>1. /\ \A i, j \in 1 .. RingSize : i # j => l[i] # l[j]
        /\ \A f \in Frames : \E k \in 1 .. RingSize : l[k] = f
    BY <1>7, Zenon DEF Perm
  <2> QED BY <1>3, <1>4, <1>5, <1>6, <1>7, <2>1, Zenon
<1>9. ASSUME NEW i \in 1 .. RingSize, NEW j \in 1 .. RingSize, i # j
      PROVE  r[i] # r[j]
  <2>1. T[i] \in 1 .. RingSize /\ T[j] \in 1 .. RingSize /\ T[i] # T[j]
    BY <1>8, <1>9, Zenon
  <2>2. l[T[i]] # l[T[j]]
    BY <1>8, <2>1, Zenon
  <2> QED BY <1>8, <2>2, Zenon
<1>10. \A f \in Frames : \E i \in 1 .. RingSize : r[i] = f
  <2> TAKE f \in Frames
  <2>1. PICK k \in 1 .. RingSize : l[k] = f
    BY <1>8, Zenon
  <2>2. PICK i \in 1 .. RingSize : T[i] = k
    BY <1>8, Zenon
  <2> QED BY <1>8, <2>1, <2>2, Zenon
<1>11. r \in Seq(Frames) /\ Len(r) = RingSize
  BY <1>2, <1>7, Zenon
<1>12. Perm(r)
  BY <1>9, <1>10, <1>11, Zenon DEF Perm
<1> QED BY <1>7, <1>12, Zenon

\* Appending to the second of two sequences appends to their concatenation.
LEMMA CatAppend ==
    ASSUME NEW S, NEW x \in Seq(S), NEW s \in Seq(S), NEW e \in S
    PROVE  Cat(x, Append(s, e)) = Append(Cat(x, s), e)
BY DEF Cat

\* Taking the head of the first of two takes the head of their concatenation.
LEMMA CatTail ==
    ASSUME NEW S, NEW s \in Seq(S), NEW t \in Seq(S), s # << >>
    PROVE  /\ Cat(s, t) # << >> /\ Head(Cat(s, t)) = Head(s)
           /\ Cat(Tail(s), t) = Tail(Cat(s, t))
BY DEF Cat

\* The boundary between two neighbours moves by one element ...
LEMMA ShiftHead ==
    ASSUME NEW S, NEW x \in Seq(S), NEW s \in Seq(S), NEW t \in Seq(S), t # << >>
    PROVE  Cat(Cat(x, Append(s, Head(t))), Tail(t)) = Cat(Cat(x, s), t)
<1>1. PICK a \in Seq(S), u \in Seq(S) : a = Append(s, Head(t)) /\ u = Tail(t)
  BY MoveHead, Zenon
<1>2. Cat(a, u) = Cat(s, t)
  BY <1>1, MoveHead
<1>3. Cat(Cat(x, a), u) = Cat(Cat(x, s), t)
  BY <1>2, CatAssoc
<1> QED BY <1>1, <1>3, Zenon

\* ... or by n.
LEMMA ShiftPrefix ==
    ASSUME NEW S, NEW x \in Seq(S), NEW s \in Seq(S), NEW t \in Seq(S), NEW n \in 0 .. Len(t)
    PROVE  Cat(Cat(x, Cat(s, SubSeq(t, 1, n))), SubSeq(t, n + 1, Len(t))) = Cat(Cat(x, s), t)
<1>1. PICK a \in Seq(S), b \in Seq(S) : a = SubSeq(t, 1, n) /\ b = SubSeq(t, n + 1, Len(t))
  BY MovePrefix, Zenon
<1>2. Cat(a, b) = t
  BY <1>1, MovePrefix, Zenon
<1>3. Cat(x, Cat(s, a)) = Cat(Cat(x, s), a) /\ Cat(x, s) \in Seq(S)
  BY CatAssoc
<1>4. Cat(Cat(Cat(x, s), a), b) = Cat(Cat(x, s), Cat(a, b))
  BY <1>3, CatAssoc
<1> QED BY <1>1, <1>2, <1>3, <1>4, Zenon

\* In a row without repetitions, what follows is not in what precedes it.
LEMMA Apart ==
    ASSUME NEW c \in Seq(Frames), NEW p \in Seq(Frames), NEW f \in Seq(Frames), f # << >>,
           Perm(Cat(Cat(c, p), f)), NEW i \in 1 .. Len(p)
    PROVE  p[i] # Head(f)
<1>1. PICK q \in Seq(Frames) : q = Cat(c, p)
  BY CatIs, Zenon
<1>2. /\ Len(c) \in Nat /\ Len(p) \in Nat /\ Len(q) = Len(c) + Len(p)
      /\ \A k \in 1 .. Len(c) + Len(p) : q[k] = IF k <= Len(c) THEN c[k] ELSE p[k - Len(c)]
  BY <1>1, CatIs, Zenon
<1>3. PICK r \in Seq(Frames) : r = Cat(q, f)
  BY CatIs, Zenon
<1>4. /\ Len(f) \in Nat /\ Len(r) = Len(q) + Len(f)
      /\ \A k \in 1 .. Len(q) + Len(f) : r[k] = IF k <= Len(q) THEN q[k] ELSE f[k - Len(q)]
  BY <1>3, CatIs, Zenon
<1>5. \A k, l \in 1 .. Len(r) : k # l => r[k] # r[l]
  <2>1. Perm(r)
    BY <1>1, <1>3, Zenon
  <2> QED BY <2>1, Zenon DEF Perm
<1>6. Len(f) > 0 /\ Head(f) = f[1]
  BY <1>4, EmptySeq
<1>7. PICK k \in 1 .. Len(q) + Len(f), l \in 1 .. Len(q) + Len(f) :
         /\ k = Len(c) + i /\ k \in 1 .. Len(c) + Len(p)
         /\ ~(k <= Len(c)) /\ k <= Len(q) /\ k - Len(c) = i
         /\ l = Len(q) + 1 /\ ~(l <= Len(q)) /\ l - Len(q) = 1 /\ k # l
  <2>1. Len(c) \in Nat /\ Len(p) \in Nat /\ Len(f) \in Nat /\ Len(q) = Len(c) + Len(p) /\ Len(f) > 0
    BY <1>2, <1>4, <1>6
  <2>2. /\ Len(c) + i \in 1 .. Len(q) + Len(f) /\ Len(c) + i \in 1 .. Len(c) + Len(p)
        /\ ~(Len(c) + i <= Len(c)) /\ Len(c) + i <= Len(q) /\ (Len(c) + i) - Len(c) = i
    BY <2>1
  <2>3. /\ Len(q) + 1 \in 1 .. Len(q) + Len(f) /\ ~(Len(q) + 1 <= Len(q))
        /\ (Len(q) + 1) - Len(q) = 1 /\ Len(c) + i # Len(q) + 1
    BY <2>1
  <2> QED BY <2>2, <2>3, Zenon
<1>8. r[k] = q[k] /\ q[k] = p[i] /\ r[l] = f[1]
  BY <1>2, <1>4, <1>7, Zenon
<1>9. r[k] # r[l]
  BY <1>4, <1>5, <1>7, Zenon
<1> QED BY <1>6, <1>8, <1>9, Zenon

---------------------------------------------------------------------------
(***************************************************************************)
(* Order                                                                   *)
(***************************************************************************)

\* A packet is stored in a frame that is not on its way: the next of the stream,
\* or a foreign one.
LEMMA OrderReceive ==
    ASSUME NEW y \in Seq(Frames), NEW pk \in [Frames -> Int], NEW w \in Seq(Int),
           NEW n \in Nat, Ordered(y, pk, w, n),
           NEW h \in Frames, \A i \in 1 .. Len(y) : y[i] # h,
           NEW p \in Int, NEW m \in Nat, (p = n /\ m = n + 1) \/ (p = Foreign /\ m = n)
    PROVE  Ordered(Append(y, h), [pk EXCEPT ![h] = p], w, m)
<1>1. PICK z \in Seq(Frames), q \in [Frames -> Int] :
         z = Append(y, h) /\ q = [pk EXCEPT ![h] = p]
  <2>1. Append(y, h) \in Seq(Frames) /\ [pk EXCEPT ![h] = p] \in [Frames -> Int]
    OBVIOUS
  <2> QED BY <2>1, Zenon
<1>2. /\ Len(y) \in Nat /\ Len(z) = Len(y) + 1 /\ z[Len(y) + 1] = h
      /\ \A i \in 1 .. Len(y) : z[i] = y[i] /\ y[i] \in Frames
  BY <1>1
<1>3. q[z[Len(y) + 1]] = p /\ \A i \in 1 .. Len(y) : q[z[i]] = pk[y[i]] /\ pk[y[i]] \in Int
  BY <1>1, <1>2
<1>4. Len(w) \in Nat /\ \A k \in 1 .. Len(w) : w[k] \in Int
  OBVIOUS
<1>5. \A i \in 1 .. Len(z) : i \in 1 .. Len(y) \/ i = Len(y) + 1
  BY <1>2
<1>6. \A i \in 1 .. Len(z) : q[z[i]] < m
  <2>1. \A i \in 1 .. Len(y) : q[z[i]] < m
    <3>1. \A i \in 1 .. Len(y) : q[z[i]] \in Int /\ q[z[i]] < n
      BY <1>3, Zenon DEF Ordered
    <3> SUFFICES ASSUME NEW i \in 1 .. Len(y) PROVE q[z[i]] < m
      OBVIOUS
    <3>2. q[z[i]] \in Int /\ q[z[i]] < n
      BY <3>1, Zenon
    <3>3. \A e \in Int : e < n => e < m
      BY SMTT(30)
    <3> QED BY <3>2, <3>3, Zenon
  <2>2. p < m
    BY DEF Foreign
  <2> QED BY <1>3, <1>5, <2>1, <2>2, Zenon
<1>7. ASSUME NEW i \in 1 .. Len(z), NEW j \in 1 .. Len(z), i < j,
             q[z[i]] # Foreign, q[z[j]] # Foreign
      PROVE  q[z[i]] < q[z[j]]
  <2>1. i \in 1 .. Len(y)
    BY <1>2, <1>7
  <2>2. q[z[i]] = pk[y[i]] /\ pk[y[i]] < n
    BY <1>3, <2>1, Zenon DEF Ordered
  <2>3. CASE j \in 1 .. Len(y)
    BY <1>3, <1>7, <2>1, <2>3, Zenon DEF Ordered
  <2>4. CASE j = Len(y) + 1
    <3>1. q[z[j]] = p /\ p = n
      BY <1>3, <1>7, <2>4, Zenon
    <3> QED BY <2>2, <3>1, Zenon
  <2> QED BY <1>5, <2>3, <2>4, Zenon
<1>8. \A k \in 1 .. Len(w) : w[k] < m
  BY <1>4, SMTT(30) DEF Ordered
<1>9. \A k \in 1 .. Len(w), i \in 1 .. Len(z) : q[z[i]] # Foreign => w[k] < q[z[i]]
  BY <1>2, <1>3, <1>4, <1>5, Zenon DEF Ordered
<1>10. Ordered(z, q, w, m)
  BY <1>6, <1>7, <1>8, <1>9, Zenon DEF Ordered
<1> QED BY <1>1, <1>10, Zenon

\* The oldest packet is sent; a foreign one is not one of the stream.
LEMMA OrderTransmit ==
    ASSUME NEW y \in Seq(Frames), y # << >>, NEW pk \in [Frames -> Int], NEW w \in Seq(Int),
           NEW n \in Nat, Ordered(y, pk, w, n),
           NEW v, v = IF pk[Head(y)] = Foreign THEN w ELSE Append(w, pk[Head(y)])
    PROVE  v \in Seq(Int) /\ Ordered(Tail(y), pk, v, n)
<1>1. PICK z \in Seq(Frames) : z = Tail(y)
  <2>1. Tail(y) \in Seq(Frames)
    OBVIOUS
  <2> QED BY <2>1, Zenon
<1>2. /\ Len(y) \in Nat /\ Len(y) > 0 /\ Head(y) = y[1] /\ Len(z) = Len(y) - 1
      /\ \A i \in 1 .. Len(z) : z[i] = y[i + 1]
      /\ \A i \in 1 .. Len(y) : y[i] \in Frames
  BY <1>1, EmptySeq, HeadTailProperties
<1>3. PICK e \in Int : e = pk[y[1]]
  BY <1>2
<1>4. /\ \A i \in 1 .. Len(y) : pk[y[i]] \in Int
      /\ \A i \in 1 .. Len(z) : i + 1 \in 1 .. Len(y) /\ 1 < i + 1
  BY <1>2
<1>5. Len(w) \in Nat /\ \A k \in 1 .. Len(w) : w[k] \in Int
  OBVIOUS
<1>6. /\ \A i \in 1 .. Len(z) : pk[z[i]] < n
      /\ \A i, j \in 1 .. Len(z) :
            i < j /\ pk[z[i]] # Foreign /\ pk[z[j]] # Foreign => pk[z[i]] < pk[z[j]]
  <2>1. \A i, j \in 1 .. Len(z) : i < j => i + 1 < j + 1
    BY <1>2
  <2> QED BY <1>2, <1>4, <2>1, ZenonT(40) DEF Ordered
<1>7. CASE e = Foreign
  <2>1. v = w
    BY <1>2, <1>3, <1>7, Zenon
  <2>2. \A k \in 1 .. Len(w), i \in 1 .. Len(z) : pk[z[i]] # Foreign => w[k] < pk[z[i]]
    BY <1>2, <1>4, Zenon DEF Ordered
  <2>3. Ordered(z, pk, w, n)
    BY <1>6, <2>2, Zenon DEF Ordered
  <2> QED BY <1>1, <2>1, <2>3, Zenon
<1>8. CASE e # Foreign
  <2>1. v = Append(w, e)
    BY <1>2, <1>3, <1>8
  <2>2. /\ v \in Seq(Int) /\ Len(v) = Len(w) + 1 /\ v[Len(w) + 1] = e
        /\ \A k \in 1 .. Len(w) : v[k] = w[k]
    BY <2>1
  <2>3. \A k \in 1 .. Len(v) : k \in 1 .. Len(w) \/ k = Len(w) + 1
    BY <1>5, <2>2
  <2>4. /\ \A k \in 1 .. Len(w) : w[k] < e
        /\ e < n
        /\ \A i \in 1 .. Len(z) : pk[z[i]] # Foreign => e < pk[z[i]]
    <3>1. 1 \in 1 .. Len(y)
      BY <1>2
    <3> QED BY <1>2, <1>3, <1>4, <1>8, <3>1, ZenonT(40) DEF Ordered
  <2>5. \A k \in 1 .. Len(v) : v[k] < n
    BY <2>2, <2>3, <2>4 DEF Ordered
  <2>6. \A k \in 1 .. Len(v), i \in 1 .. Len(z) : pk[z[i]] # Foreign => v[k] < pk[z[i]]
    <3>1. \A k \in 1 .. Len(w), i \in 1 .. Len(z) : pk[z[i]] # Foreign => w[k] < pk[z[i]]
      BY <1>2, <1>4, Zenon DEF Ordered
    <3> QED BY <2>2, <2>3, <2>4, <3>1, SMTT(30)
  <2>7. \A k, l \in 1 .. Len(v) : k < l => v[k] < v[l]
    <3> SUFFICES ASSUME NEW k \in 1 .. Len(v), NEW l \in 1 .. Len(v), k < l
                 PROVE  v[k] < v[l]
      BY Zenon
    <3>1. k \in 1 .. Len(w)
      BY <1>5, <2>2
    <3>2. CASE l \in 1 .. Len(w)
      BY <2>2, <3>1, <3>2, Zenon DEF Ordered
    <3>3. CASE l = Len(w) + 1
      BY <2>2, <2>4, <3>1, <3>3, Zenon
    <3> QED BY <2>3, <3>2, <3>3, Zenon
  <2>8. Ordered(z, pk, v, n)
    BY <1>6, <2>5, <2>6, <2>7, Zenon DEF Ordered
  <2> QED BY <1>1, <2>2, <2>8, Zenon
<1> QED BY <1>7, <1>8

\* A packet is lost.
LEMMA OrderLose ==
    ASSUME NEW y \in Seq(Frames), NEW pk \in [Frames -> Int], NEW w \in Seq(Int),
           NEW n \in Nat, Ordered(y, pk, w, n)
    PROVE  Ordered(y, pk, w, n + 1)
<1>1. /\ \A i \in 1 .. Len(y) : pk[y[i]] \in Int
      /\ \A k \in 1 .. Len(w) : w[k] \in Int
  OBVIOUS
<1>2. \A i \in 1 .. Len(y) : pk[y[i]] < n + 1
  BY <1>1 DEF Ordered
<1>3. \A k \in 1 .. Len(w) : w[k] < n + 1
  BY <1>1 DEF Ordered
<1> QED BY <1>2, <1>3, Zenon DEF Ordered

---------------------------------------------------------------------------
(***************************************************************************)
(* Steps                                                                   *)
(***************************************************************************)

\* The kernel stores a packet: the frame leaves the fill ring for the pipe.
LEMMA ReceiveRow ==
    ASSUME TypeInv, NEW p, Receive(p)
    PROVE  /\ fq' \in Seq(Frames) /\ rx' \in Seq(Frames) /\ Head(fq) \in Frames
           /\ Pipe \in Seq(Frames) /\ Pipe' = Append(Pipe, Head(fq)) /\ Row' = Row
<1>1. /\ rx' = Append(rx, Head(fq)) /\ fq' = Tail(fq) /\ fq # << >>
      /\ UNCHANGED <<reserved, submitted, nic, cq>>
  BY DEF Receive
<1>2. /\ rx \in Seq(Frames) /\ fq \in Seq(Frames) /\ cq \in Seq(Frames)
      /\ nic \in Seq(Frames) /\ submitted \in Seq(Frames) /\ reserved \in Seq(Frames)
  BY DEF TypeInv
<1>3. Head(fq) \in Frames /\ Tail(fq) \in Seq(Frames)
  BY <1>1, <1>2
<1>4. PICK x \in Seq(Frames) : x = Cat(Cat(nic, submitted), reserved)
  BY <1>2, CatIs, Zenon
<1>5. Pipe = Cat(x, rx) /\ Pipe \in Seq(Frames)
  BY <1>2, <1>4, CatIs, Zenon DEF Pipe
<1>6. Pipe' = Cat(x, Append(rx, Head(fq)))
  BY <1>1, <1>4 DEF Pipe
<1>7. Pipe' = Append(Pipe, Head(fq))
  <2>1. x \in Seq(Frames) /\ rx \in Seq(Frames) /\ Head(fq) \in Frames
    BY <1>2, <1>3
  <2>2. Cat(x, Append(rx, Head(fq))) = Append(Cat(x, rx), Head(fq))
    BY <2>1, CatAppend
  <2> QED BY <1>5, <1>6, <2>2, Zenon
<1>8. PICK y \in Seq(Frames) : y = Pipe
  BY <1>5, Zenon
<1>9. Cat(Cat(cq, Append(y, Head(fq))), Tail(fq)) = Cat(Cat(cq, y), fq)
  <2>1. cq \in Seq(Frames) /\ y \in Seq(Frames) /\ fq \in Seq(Frames) /\ fq # << >>
    BY <1>1, <1>2
  <2> QED BY <2>1, ShiftHead, SMTT(60)
<1>10. Row' = Row
  <2>1. Row' = Cat(Cat(cq, Append(y, Head(fq))), Tail(fq))
    BY <1>1, <1>7, <1>8, Zenon DEF Row
  <2>2. Row = Cat(Cat(cq, y), fq)
    BY <1>8, Zenon DEF Row
  <2> QED BY <1>9, <2>1, <2>2, Zenon
<1> QED BY <1>1, <1>2, <1>3, <1>5, <1>7, <1>10

\* The kernel takes a descriptor: nothing changes in the pipe.
LEMMA TakeRow ==
    ASSUME TypeInv, KernelTake
    PROVE  /\ nic' \in Seq(Frames) /\ submitted' \in Seq(Frames)
           /\ Pipe' = Pipe /\ Row' = Row
           /\ Len(nic') + Len(submitted') = Len(nic) + Len(submitted)
<1>1. /\ nic' = Append(nic, Head(submitted)) /\ submitted' = Tail(submitted)
      /\ submitted # << >> /\ UNCHANGED <<fq, rx, reserved, cq>>
  BY DEF KernelTake
<1>2. nic \in Seq(Frames) /\ submitted \in Seq(Frames)
  BY DEF TypeInv
<1>3. /\ nic' \in Seq(Frames) /\ submitted' \in Seq(Frames)
      /\ Cat(nic', submitted') = Cat(nic, submitted)
  BY <1>1, <1>2, MoveHead
<1>4. Pipe' = Pipe
  BY <1>1, <1>3, Zenon DEF Pipe
<1>5. Row' = Row
  BY <1>1, <1>4, Zenon DEF Row
<1>6. Len(nic') + Len(submitted') = Len(nic) + Len(submitted)
  BY <1>1, <1>2
<1> QED BY <1>3, <1>4, <1>5, <1>6

\* A frame is transmitted: the head of the pipe is completed.
LEMMA TransmitRow ==
    ASSUME TypeInv, NicTransmit
    PROVE  /\ nic' \in Seq(Frames) /\ cq' \in Seq(Frames)
           /\ Pipe \in Seq(Frames) /\ Pipe # << >> /\ Pipe' = Tail(Pipe)
           /\ Head(Pipe) = Head(nic) /\ Row' = Row
           /\ Len(nic') + Len(cq') = Len(nic) + Len(cq)
<1>1. /\ cq' = Append(cq, Head(nic)) /\ nic' = Tail(nic)
      /\ nic # << >> /\ UNCHANGED <<fq, rx, reserved, submitted>>
  BY DEF NicTransmit
<1>2. /\ rx \in Seq(Frames) /\ fq \in Seq(Frames) /\ cq \in Seq(Frames)
      /\ nic \in Seq(Frames) /\ submitted \in Seq(Frames) /\ reserved \in Seq(Frames)
  BY DEF TypeInv
<1>3. PICK a \in Seq(Frames) : a = Cat(nic, submitted)
  BY <1>2, CatIs, Zenon
<1>4. PICK b \in Seq(Frames) : b = Cat(a, reserved)
  BY <1>2, CatIs, Zenon
<1>5. PICK y \in Seq(Frames) : y = Cat(b, rx)
  BY <1>2, CatIs, Zenon
<1>6. a # << >> /\ Head(a) = Head(nic) /\ Cat(Tail(nic), submitted) = Tail(a)
  BY <1>1, <1>2, <1>3, CatTail, Zenon
<1>7. b # << >> /\ Head(b) = Head(a) /\ Cat(Tail(a), reserved) = Tail(b)
  BY <1>2, <1>4, <1>6, CatTail, ZenonT(40)
<1>8. y # << >> /\ Head(y) = Head(b) /\ Cat(Tail(b), rx) = Tail(y)
  BY <1>2, <1>5, <1>7, CatTail, ZenonT(40)
<1>9. Pipe = y /\ Pipe' = Tail(y)
  BY <1>1, <1>3, <1>4, <1>5, <1>6, <1>7, <1>8, Zenon DEF Pipe
<1>10. Cat(Append(cq, Head(y)), Tail(y)) = Cat(cq, y)
  BY <1>2, <1>8, MoveHead
<1>11. Row' = Row
  BY <1>1, <1>6, <1>7, <1>8, <1>9, <1>10 DEF Row
<1>12. nic' \in Seq(Frames) /\ cq' \in Seq(Frames) /\ Len(nic') + Len(cq') = Len(nic) + Len(cq)
  BY <1>1, <1>2
<1> QED BY <1>6, <1>7, <1>8, <1>9, <1>11, <1>12

\* xdp_receive_frames takes no more than there is in the Rx ring.
LEMMA AcceptedIs ==
    ASSUME TypeInv
    PROVE  Accepted \in 0 .. Len(rx)
<1>1. Batch \in Nat /\ RingSize \in Nat
  BY XdpMirrorAssumption
<1>2. Len(rx) \in Nat
  BY DEF TypeInv
<1>3. Accepted = Len(rx) \/ (Accepted = Batch /\ ~(Len(rx) < Batch)) \/ Accepted = 0
  BY Zenon DEF Accepted
<1> QED BY <1>1, <1>2, <1>3

\* The Rx thread stores a batch: nothing changes in the pipe.
LEMMA RxRow ==
    ASSUME TypeInv, RxTurn
    PROVE  /\ rx' \in Seq(Frames) /\ reserved' \in Seq(Frames) /\ Pipe' = Pipe /\ Row' = Row
           /\ received_frames' \in Nat /\ received_frames' <= Len(reserved')
<1>1. /\ rx \in Seq(Frames) /\ reserved \in Seq(Frames) /\ nic \in Seq(Frames)
      /\ submitted \in Seq(Frames)
      /\ Len(rx) \in Nat /\ Len(reserved) \in Nat /\ Len(submitted) \in Nat
  BY DEF TypeInv
<1>2. PICK n \in 0 .. Len(rx) : n = Accepted
  BY AcceptedIs, Zenon
<1>3. PICK a \in Seq(Frames), b \in Seq(Frames) :
         a = SubSeq(rx, 1, n) /\ b = SubSeq(rx, n + 1, Len(rx)) /\ Len(a) = n
  <2>1. /\ SubSeq(rx, 1, n) \in Seq(Frames) /\ SubSeq(rx, n + 1, Len(rx)) \in Seq(Frames)
        /\ Len(SubSeq(rx, 1, n)) = n /\ Len(SubSeq(rx, n + 1, Len(rx))) = Len(rx) - n
        /\ Cat(SubSeq(rx, 1, n), SubSeq(rx, n + 1, Len(rx))) = rx
    BY <1>1, <1>2, MovePrefix
  <2> QED BY <2>1, Zenon
<1>4. /\ reserved' = Cat(reserved, a) /\ rx' = b /\ received_frames' = n
      /\ UNCHANGED <<fq, submitted, nic, cq>>
  BY <1>2, <1>3, Zenon DEF RxTurn, Stored, Cat
<1>5. reserved' \in Seq(Frames) /\ Len(reserved') = Len(reserved) + n
  BY <1>1, <1>3, <1>4, CatLength, Zenon
<1>6. PICK x \in Seq(Frames) : x = Cat(nic, submitted)
  BY <1>1, CatIs, Zenon
<1>7. Cat(Cat(x, Cat(reserved, a)), b) = Cat(Cat(x, reserved), rx)
  BY <1>1, <1>3, ShiftPrefix
<1>8. Pipe' = Pipe
  BY <1>4, <1>6, <1>7, Zenon DEF Pipe
<1>9. Row' = Row
  BY <1>4, <1>8, Zenon DEF Row
<1> QED BY <1>1, <1>3, <1>4, <1>5, <1>8, <1>9

\* The Tx thread submits a batch and recycles n completed frames.
LEMMA TxRow ==
    ASSUME TypeInv, CountInv, Perm(Row), TxTurn
    PROVE  /\ submitted' \in Seq(Frames) /\ reserved' \in Seq(Frames)
           /\ cq' \in Seq(Frames) /\ fq' \in Seq(Frames)
           /\ Pipe' = Pipe /\ Perm(Row)'
           /\ received_frames' = 0 /\ outstanding_tx' \in Int /\ CountInv'
<1>1. /\ fq \in Seq(Frames) /\ rx \in Seq(Frames) /\ reserved \in Seq(Frames)
      /\ submitted \in Seq(Frames) /\ nic \in Seq(Frames) /\ cq \in Seq(Frames)
      /\ Len(reserved) \in Nat /\ Len(submitted) \in Nat /\ Len(nic) \in Nat
      /\ Len(cq) \in Nat /\ Len(fq) \in Nat
  BY DEF TypeInv
<1>2. PICK m \in 0 .. Len(reserved) : m = received_frames
  BY <1>1 DEF TypeInv, CountInv
<1>3. PICK o \in Nat : o = outstanding_tx + m /\ o = Len(submitted) + Len(nic) + Len(cq) + m
  BY <1>1, <1>2 DEF CountInv, OutstandingIsExact
<1>4. PICK n \in 0 .. Len(cq) : n = Recycled(o)
  BY <1>1, <1>3, XdpMirrorAssumption DEF Recycled
<1>5. PICK a \in Seq(Frames), b \in Seq(Frames) :
         /\ a = SubSeq(reserved, 1, m) /\ b = SubSeq(reserved, m + 1, Len(reserved))
         /\ Len(a) = m
  <2>1. /\ SubSeq(reserved, 1, m) \in Seq(Frames) /\ SubSeq(reserved, m + 1, Len(reserved)) \in Seq(Frames)
        /\ Len(SubSeq(reserved, 1, m)) = m /\ Len(SubSeq(reserved, m + 1, Len(reserved))) = Len(reserved) - m
        /\ Cat(SubSeq(reserved, 1, m), SubSeq(reserved, m + 1, Len(reserved))) = reserved
    BY <1>1, <1>2, MovePrefix
  <2> QED BY <2>1, Zenon
<1>6. PICK c \in Seq(Frames), d \in Seq(Frames) :
         /\ c = SubSeq(cq, 1, n) /\ d = SubSeq(cq, n + 1, Len(cq))
         /\ Len(d) = Len(cq) - n /\ Cat(c, d) = cq
  <2>1. /\ SubSeq(cq, 1, n) \in Seq(Frames) /\ SubSeq(cq, n + 1, Len(cq)) \in Seq(Frames)
        /\ Len(SubSeq(cq, 1, n)) = n /\ Len(SubSeq(cq, n + 1, Len(cq))) = Len(cq) - n
        /\ Cat(SubSeq(cq, 1, n), SubSeq(cq, n + 1, Len(cq))) = cq
    BY <1>1, <1>4, MovePrefix, Zenon
  <2> QED BY <2>1, Zenon
<1>7. /\ submitted' = Cat(submitted, a) /\ reserved' = b /\ fq' = Cat(fq, c) /\ cq' = d
      /\ received_frames' = 0 /\ outstanding_tx' = o - n /\ UNCHANGED <<rx, nic>>
  BY <1>2, <1>3, <1>4, <1>5, <1>6, Zenon DEF TxTurn, Released, Outstanding, Cat
<1>8. /\ submitted' \in Seq(Frames) /\ Len(submitted') = Len(submitted) + m
      /\ fq' \in Seq(Frames) /\ reserved' \in Seq(Frames) /\ cq' \in Seq(Frames)
  BY <1>1, <1>5, <1>6, <1>7, CatLength, ZenonT(40)
<1>9. Cat(Cat(nic, Cat(submitted, a)), b) = Cat(Cat(nic, submitted), reserved)
  BY <1>1, <1>5, ShiftPrefix
<1>10. Pipe' = Pipe
  BY <1>7, <1>9, Zenon DEF Pipe
<1>11. PICK y \in Seq(Frames) : y = Pipe
  BY <1>1, CatIs, Zenon DEF Pipe
<1>12. PICK z \in Seq(Frames) : z = Cat(Cat(d, y), fq)
  BY <1>1, CatIs, Zenon
<1>13. Cat(Cat(Cat(c, d), y), fq) = Cat(c, z)
  BY <1>1, <1>12, CatAssoc, SMTT(40)
<1>14. Cat(Cat(d, y), Cat(fq, c)) = Cat(z, c)
  BY <1>1, <1>12, CatAssoc, SMTT(40)
<1>15. Row = Cat(c, z) /\ Row' = Cat(z, c)
  BY <1>6, <1>7, <1>10, <1>11, <1>13, <1>14, Zenon DEF Row
<1>16. Perm(Cat(z, c))
  BY <1>15, RotatePerm, Zenon
<1>17. Perm(Row)'
  BY <1>15, <1>16, ZenonT(40) DEF Perm, Frames
<1>18. CountInv'
  <2>1. Len(reserved') \in Nat /\ nic' = nic
    BY <1>7, <1>8
  <2>2. Len(cq') = Len(cq) - n
    BY <1>6, <1>7
  <2> QED BY <1>1, <1>3, <1>7, <1>8, <2>1, <2>2 DEF CountInv, OutstandingIsExact
<1>19. outstanding_tx' \in Int
  <2>1. o - n \in Int
    BY <1>3, <1>4
  <2> QED BY <1>7, <2>1, Zenon
<1> QED BY <1>7, <1>8, <1>10, <1>17, <1>18, <1>19, Zenon

---------------------------------------------------------------------------
(***************************************************************************)
(* The invariant                                                           *)
(***************************************************************************)

\* The rings hold frames, so the pipe does.
LEMMA PipeType ==
    ASSUME TypeInv
    PROVE  Pipe \in Seq(Frames) /\ Cat(cq, Pipe) \in Seq(Frames)
<1>1. /\ rx \in Seq(Frames) /\ reserved \in Seq(Frames) /\ nic \in Seq(Frames)
      /\ submitted \in Seq(Frames) /\ cq \in Seq(Frames)
  BY DEF TypeInv
<1> QED BY <1>1, CatIs, Zenon DEF Pipe

\* While the row stays the same it holds every frame once.
LEMMA SameRow ==
    ASSUME Perm(Row), Row' = Row
    PROVE  Perm(Row)'
BY Zenon DEF Perm, Frames

\* Storing a packet of the stream, or a foreign one, keeps the invariant.
LEMMA ReceiveStep ==
    ASSUME Inv, NEW p \in Int, Receive(p), next' \in Nat,
           (p = next /\ next' = next + 1) \/ (p = Foreign /\ next' = next)
    PROVE  Inv'
<1>1. /\ fq' \in Seq(Frames) /\ rx' \in Seq(Frames) /\ Head(fq) \in Frames
      /\ Pipe \in Seq(Frames) /\ Pipe' = Append(Pipe, Head(fq)) /\ Row' = Row
  BY ReceiveRow, Zenon DEF Inv
<1>2. /\ packet \in [Frames -> Int] /\ packet' = [packet EXCEPT ![Head(fq)] = p]
      /\ wire \in Seq(Int) /\ wire' = wire /\ next \in Nat
      /\ fq # << >> /\ fq \in Seq(Frames) /\ cq \in Seq(Frames)
      /\ UNCHANGED <<conf, reserved, submitted, nic, cq, received_frames, outstanding_tx>>
  BY DEF Inv, TypeInv, Receive
<1>3. packet' \in [Frames -> Int]
  BY <1>1, <1>2
<1>4. TypeInv'
  BY <1>1, <1>2, <1>3, Zenon DEF Inv, TypeInv, Frames
<1>5. Perm(Row)'
  BY <1>1, SameRow, Zenon DEF Inv
<1>6. CountInv'
  BY <1>2, Zenon DEF Inv, CountInv, OutstandingIsExact
<1>7. \A i \in 1 .. Len(Pipe) : Pipe[i] # Head(fq)
  <2>1. Perm(Cat(Cat(cq, Pipe), fq))
    BY Zenon DEF Inv, Row
  <2> QED BY <1>1, <1>2, <2>1, Apart, Zenon
<1>8. OrderInv'
  <2>1. Ordered(Pipe, packet, wire, next)
    BY Zenon DEF Inv, OrderInv
  <2>2. Ordered(Append(Pipe, Head(fq)), [packet EXCEPT ![Head(fq)] = p], wire, next')
    BY <1>1, <1>2, <1>7, <2>1, OrderReceive, Zenon
  <2>3. Ordered(Pipe', packet', wire', next')
    BY <1>1, <1>2, <2>2, Zenon
  <2> QED BY <2>3, Zenon DEF OrderInv, Ordered, Foreign
<1> QED BY <1>4, <1>5, <1>6, <1>8 DEF Inv

\* A step that leaves the pipe, the packets, the wire and the stream alone.
LEMMA SameOrder ==
    ASSUME OrderInv, Pipe' = Pipe, UNCHANGED <<packet, wire, next>>
    PROVE  OrderInv'
<1>1. Ordered(Pipe', packet', wire', next')
  BY Zenon DEF OrderInv
<1> QED BY <1>1, Zenon DEF OrderInv, Ordered, Foreign

\* Every step of the kernel, the NIC and the two threads keeps the invariant.
LEMMA InvStep ==
    ASSUME Inv, [Next]_vars
    PROVE  Inv'
<1>0. /\ TypeInv /\ Perm(Row) /\ CountInv /\ OrderInv
      /\ Pipe \in Seq(Frames) /\ packet \in [Frames -> Int] /\ wire \in Seq(Int) /\ next \in Nat
  BY PipeType DEF Inv, TypeInv
<1>1. CASE KernelReceive
  <2>1. Receive(next) /\ next' = next + 1
    BY <1>1 DEF KernelReceive
  <2>2. next \in Int /\ next' \in Nat
    BY <1>0, <2>1
  <2> QED BY <2>1, <2>2, ReceiveStep, Zenon
<1>2. CASE KernelReceiveForeign
  <2>1. Receive(Foreign) /\ next' = next
    BY <1>2 DEF KernelReceiveForeign
  <2>2. Foreign \in Int
    BY DEF Foreign
  <2> QED BY <1>0, <2>1, <2>2, ReceiveStep, Zenon
<1>3. CASE KernelLose
  <2>1. /\ next' = next + 1 /\ next' \in Nat
        /\ UNCHANGED <<conf, fq, rx, reserved, submitted, nic, cq, packet, received_frames,
                       outstanding_tx, wire>>
    BY <1>0, <1>3 DEF KernelLose, rings
  <2>2. TypeInv'
    BY <1>0, <2>1, Zenon DEF TypeInv, Frames
  <2>3. Pipe' = Pipe /\ Row' = Row
    BY <2>1, Zenon DEF Pipe, Row
  <2>4. Perm(Row)'
    BY <1>0, <2>3, SameRow, Zenon
  <2>5. CountInv'
    BY <1>0, <2>1, Zenon DEF CountInv, OutstandingIsExact
  <2>6. Ordered(Pipe', packet', wire', next')
    <3>1. Ordered(Pipe, packet, wire, next + 1)
      BY <1>0, OrderLose, Zenon DEF OrderInv
    <3> QED BY <2>1, <2>3, <3>1, Zenon
  <2>7. OrderInv'
    BY <2>6, Zenon DEF OrderInv, Ordered, Foreign
  <2> QED BY <2>2, <2>4, <2>5, <2>7 DEF Inv
<1>4. CASE KernelTake
  <2>1. /\ nic' \in Seq(Frames) /\ submitted' \in Seq(Frames) /\ Pipe' = Pipe /\ Row' = Row
        /\ Len(nic') + Len(submitted') = Len(nic) + Len(submitted)
    BY <1>0, <1>4, TakeRow, Zenon
  <2>2. UNCHANGED <<conf, next, fq, rx, reserved, cq, packet, received_frames, outstanding_tx, wire>>
    BY <1>4 DEF KernelTake
  <2>3. TypeInv'
    BY <1>0, <2>1, <2>2, Zenon DEF TypeInv, Frames
  <2>4. Perm(Row)'
    BY <1>0, <2>1, SameRow, Zenon
  <2>5. CountInv'
    <3>1. /\ Len(nic) \in Nat /\ Len(submitted) \in Nat /\ Len(cq) \in Nat
          /\ Len(nic') \in Nat /\ Len(submitted') \in Nat
      BY <1>0, <2>1 DEF TypeInv
    <3>2. Len(submitted') + Len(nic') + Len(cq) = Len(submitted) + Len(nic) + Len(cq)
      BY <2>1, <3>1, SMTT(30)
    <3> QED BY <1>0, <2>2, <3>2, Zenon DEF CountInv, OutstandingIsExact
  <2>6. OrderInv'
    BY <1>0, <2>1, <2>2, SameOrder, Zenon
  <2> QED BY <2>3, <2>4, <2>5, <2>6 DEF Inv
<1>5. CASE NicTransmit
  <2>1. /\ nic' \in Seq(Frames) /\ cq' \in Seq(Frames)
        /\ Pipe # << >> /\ Pipe' = Tail(Pipe) /\ Head(Pipe) = Head(nic) /\ Row' = Row
        /\ Len(nic') + Len(cq') = Len(nic) + Len(cq)
    BY <1>0, <1>5, TransmitRow, Zenon
  <2>2. /\ UNCHANGED <<conf, next, fq, rx, reserved, submitted, packet, received_frames, outstanding_tx>>
        /\ wire' = IF packet[Head(nic)] = Foreign THEN wire ELSE Append(wire, packet[Head(nic)])
    BY <1>5 DEF NicTransmit
  <2>3. wire' \in Seq(Int) /\ Ordered(Tail(Pipe), packet, wire', next)
    <3>1. wire' = IF packet[Head(Pipe)] = Foreign THEN wire ELSE Append(wire, packet[Head(Pipe)])
      BY <2>1, <2>2, Zenon
    <3> QED BY <1>0, <2>1, <3>1, OrderTransmit, Zenon DEF OrderInv
  <2>4. TypeInv'
    BY <1>0, <2>1, <2>2, <2>3, Zenon DEF TypeInv, Frames
  <2>5. Perm(Row)'
    BY <1>0, <2>1, SameRow, Zenon
  <2>6. CountInv'
    <3>1. /\ nic \in Seq(Frames) /\ submitted \in Seq(Frames) /\ cq \in Seq(Frames)
          /\ nic' \in Seq(Frames) /\ cq' \in Seq(Frames)
      BY <1>0, <2>1, Zenon DEF TypeInv
    <3>2. PICK a \in Nat, b \in Nat, c \in Nat, d \in Nat, e \in Nat :
             /\ a = Len(submitted) /\ b = Len(nic) /\ c = Len(cq)
             /\ d = Len(nic') /\ e = Len(cq')
      BY <3>1, LenProperties, Zenon
    <3>3. d + e = b + c
      BY <2>1, <3>2, Zenon
    <3>4. a + d + e = a + b + c
      BY <3>3
    <3> QED BY <1>0, <2>2, <3>2, <3>4, Zenon DEF CountInv, OutstandingIsExact
  <2>7. Ordered(Pipe', packet', wire', next')
    BY <2>1, <2>2, <2>3, Zenon
  <2>8. OrderInv'
    BY <2>7, Zenon DEF OrderInv, Ordered, Foreign
  <2> QED BY <2>4, <2>5, <2>6, <2>8 DEF Inv
<1>6. CASE RxTurn
  <2>1. /\ rx' \in Seq(Frames) /\ reserved' \in Seq(Frames) /\ Pipe' = Pipe /\ Row' = Row
        /\ received_frames' \in Nat /\ received_frames' <= Len(reserved')
    BY <1>0, <1>6, RxRow, Zenon
  <2>2. UNCHANGED <<conf, next, fq, submitted, nic, cq, packet, outstanding_tx, wire>>
    BY <1>6 DEF RxTurn
  <2>3. TypeInv'
    BY <1>0, <2>1, <2>2, Zenon DEF TypeInv, Frames
  <2>4. Perm(Row)'
    BY <1>0, <2>1, SameRow, Zenon
  <2>5. CountInv'
    BY <1>0, <2>1, <2>2, Zenon DEF CountInv, OutstandingIsExact
  <2>6. OrderInv'
    BY <1>0, <2>1, <2>2, SameOrder, Zenon
  <2> QED BY <2>3, <2>4, <2>5, <2>6 DEF Inv
<1>7. CASE TxTurn
  <2>1. /\ submitted' \in Seq(Frames) /\ reserved' \in Seq(Frames)
        /\ cq' \in Seq(Frames) /\ fq' \in Seq(Frames) /\ Pipe' = Pipe /\ Perm(Row)'
        /\ received_frames' = 0 /\ outstanding_tx' \in Int /\ CountInv'
    BY <1>0, <1>7, TxRow, Zenon
  <2>2. UNCHANGED <<conf, next, rx, nic, packet, wire>>
    BY <1>7 DEF TxTurn
  <2>3. received_frames' \in Nat
    BY <2>1
  <2>4. TypeInv'
    BY <1>0, <2>1, <2>2, <2>3, Zenon DEF TypeInv, Frames
  <2>5. OrderInv'
    BY <1>0, <2>1, <2>2, SameOrder, Zenon
  <2> QED BY <2>1, <2>4, <2>5 DEF Inv
<1>8. CASE UNCHANGED vars
  <2>1. UNCHANGED <<conf, next, fq, rx, reserved, submitted, nic, cq, packet, received_frames,
                    outstanding_tx, wire>>
    BY <1>8 DEF vars, rings
  <2>2. TypeInv'
    BY <1>0, <2>1, Zenon DEF TypeInv, Frames
  <2>3. Pipe' = Pipe /\ Row' = Row
    BY <2>1, Zenon DEF Pipe, Row
  <2>4. Perm(Row)'
    BY <1>0, <2>3, SameRow, Zenon
  <2>5. CountInv'
    BY <1>0, <2>1, Zenon DEF CountInv, OutstandingIsExact
  <2>6. OrderInv'
    BY <1>0, <2>1, <2>3, SameOrder, Zenon
  <2> QED BY <2>2, <2>4, <2>5, <2>6 DEF Inv
<1> QED BY <1>1, <1>2, <1>3, <1>4, <1>5, <1>6, <1>7, <1>8 DEF Next, Kernel

\* At the start every frame is in the fill ring.
LEMMA InvInit ==
    ASSUME Init
    PROVE  Inv
<1>0. RingSize \in Nat \ {0}
  BY XdpMirrorAssumption
<1>1. fq \in Seq(Frames) /\ Len(fq) = RingSize /\ \A i \in 1 .. RingSize : fq[i] = i - 1
  BY <1>0 DEF Init, Frames
<1>2. /\ rx = << >> /\ reserved = << >> /\ submitted = << >> /\ nic = << >> /\ cq = << >>
      /\ wire = << >> /\ received_frames = 0 /\ outstanding_tx = 0 /\ next = 0 /\ conf \in Configs
      /\ packet = [f \in Frames |-> Foreign]
  BY DEF Init
<1>3. << >> \in Seq(Frames) /\ << >> \in Seq(Int) /\ 0 \in Nat /\ 0 \in Int
  OBVIOUS
<1>4. packet \in [Frames -> Int]
  BY <1>2 DEF Foreign
<1>5. TypeInv
  BY <1>1, <1>2, <1>3, <1>4, Zenon DEF TypeInv
<1>6. \A s \in Seq(Frames) : Cat(<< >>, s) = s
  BY DEF Cat
<1>7. Pipe = << >> /\ Row = fq
  BY <1>1, <1>2, <1>3, <1>6, Zenon DEF Pipe, Row
<1>8. Perm(fq)
  <2>1. \A i, j \in 1 .. RingSize : i # j => fq[i] # fq[j]
    BY <1>0, <1>1
  <2>2. \A f \in Frames : \E i \in 1 .. RingSize : fq[i] = f
    <3> TAKE f \in Frames
    <3>1. f + 1 \in 1 .. RingSize /\ (f + 1) - 1 = f
      BY <1>0 DEF Frames
    <3> QED BY <1>1, <3>1
  <2> QED BY <1>1, <2>1, <2>2, Zenon DEF Perm
<1>9. CountInv
  BY <1>2 DEF CountInv, OutstandingIsExact
<1>10. OrderInv
  <2>1. Len(<< >>) = 0 /\ 1 .. 0 = {}
    OBVIOUS
  <2>2. Ordered(<< >>, packet, << >>, next)
    BY <2>1, Zenon DEF Ordered
  <2> QED BY <1>2, <1>7, <2>2, Zenon DEF OrderInv
<1> QED BY <1>5, <1>7, <1>8, <1>9, <1>10, Zenon DEF Inv

\* The invariant holds in every state of every run.
LEMMA Invariant == Spec => []Inv
BY InvInit, InvStep, PTL DEF Spec

---------------------------------------------------------------------------
(***************************************************************************)
(* The theorems                                                            *)
(***************************************************************************)

\* e is an element of s.
Holds(s, e) == \E i \in 1 .. Len(s) : s[i] = e

\* An element of one of two sequences is one of their concatenation, and
\* the other way round.
LEMMA CatElements ==
    ASSUME NEW S, NEW s \in Seq(S), NEW t \in Seq(S), NEW e
    PROVE  Holds(Cat(s, t), e) <=> Holds(s, e) \/ Holds(t, e)
<1>1. PICK c : c = Cat(s, t)
  OBVIOUS
<1>2. /\ Len(s) \in Nat /\ Len(t) \in Nat /\ Len(c) = Len(s) + Len(t)
      /\ \A i \in 1 .. Len(s) + Len(t) : c[i] = IF i <= Len(s) THEN s[i] ELSE t[i - Len(s)]
  BY <1>1, CatIs, Zenon
<1>3. ASSUME NEW i \in 1 .. Len(c), c[i] = e
      PROVE  (\E k \in 1 .. Len(s) : s[k] = e) \/ (\E k \in 1 .. Len(t) : t[k] = e)
  <2>1. CASE i <= Len(s)
    BY <1>2, <1>3, <2>1
  <2>2. CASE ~(i <= Len(s))
    <3>1. i - Len(s) \in 1 .. Len(t) /\ c[i] = t[i - Len(s)]
      BY <1>2, <2>2
    <3> QED BY <1>3, <3>1
  <2> QED BY <2>1, <2>2
<1>4. ASSUME NEW i \in 1 .. Len(s), s[i] = e
      PROVE  \E k \in 1 .. Len(c) : c[k] = e
  <2>1. i \in 1 .. Len(c) /\ c[i] = s[i]
    BY <1>2
  <2> QED BY <1>4, <2>1
<1>5. ASSUME NEW i \in 1 .. Len(t), t[i] = e
      PROVE  \E k \in 1 .. Len(c) : c[k] = e
  <2>1. /\ Len(s) + i \in 1 .. Len(s) + Len(t) /\ ~(Len(s) + i <= Len(s))
        /\ (Len(s) + i) - Len(s) = i
    BY <1>2
  <2>2. c[Len(s) + i] = t[i]
    BY <1>2, <2>1, Zenon
  <2> QED BY <1>2, <1>5, <2>1, <2>2, Zenon
<1> QED BY <1>1, <1>3, <1>4, <1>5, Zenon DEF Holds

\* No umem frame is lost or in two rings (xdp_receive_frames, xdp_complete_tx
\* and the ring updates of both threads only ever move frames).
THEOREM FramesConserved == Spec => []UmemConserved
<1>1. ASSUME Inv PROVE UmemConserved
  <2>1. /\ fq \in Seq(Frames) /\ rx \in Seq(Frames) /\ reserved \in Seq(Frames)
        /\ submitted \in Seq(Frames) /\ nic \in Seq(Frames) /\ cq \in Seq(Frames)
        /\ Perm(Row)
    BY <1>1 DEF Inv, TypeInv
  <2>2. PICK a \in Seq(Frames) : a = Cat(fq, rx)
    BY <2>1, CatIs, Zenon
  <2>3. PICK b \in Seq(Frames) : b = Cat(a, reserved)
    BY <2>1, CatIs, Zenon
  <2>4. PICK c \in Seq(Frames) : c = Cat(b, submitted)
    BY <2>1, CatIs, Zenon
  <2>5. PICK d \in Seq(Frames) : d = Cat(c, nic)
    BY <2>1, CatIs, Zenon
  <2>6. PICK all \in Seq(Frames) : all = Cat(d, cq)
    BY <2>1, CatIs, Zenon
  <2>7. fq \o rx \o reserved \o submitted \o nic \o cq = all
    BY <2>2, <2>3, <2>4, <2>5, <2>6, Zenon DEF Cat
  <2>8. PICK p \in Seq(Frames) : p = Cat(nic, submitted)
    BY <2>1, CatIs, Zenon
  <2>9. PICK q \in Seq(Frames) : q = Cat(p, reserved)
    BY <2>1, CatIs, Zenon
  <2>10. PICK r \in Seq(Frames) : r = Cat(q, rx)
    BY <2>1, CatIs, Zenon
  <2>11. PICK s \in Seq(Frames) : s = Cat(cq, r)
    BY <2>1, CatIs, Zenon
  <2>12. PICK row \in Seq(Frames) : row = Cat(s, fq) /\ row = Row
    BY <2>1, <2>8, <2>9, <2>10, <2>11, CatIs, Zenon DEF Row, Pipe
  <2>13. Len(all) = RingSize
    <3>1. PICK f \in Nat, x \in Nat, e \in Nat, u \in Nat, n \in Nat, k \in Nat :
             /\ f = Len(fq) /\ x = Len(rx) /\ e = Len(reserved) /\ u = Len(submitted)
             /\ n = Len(nic) /\ k = Len(cq)
      BY <2>1, LenProperties, Zenon
    <3>2. Len(all) = ((((f + x) + e) + u) + n) + k
      <4>1. Len(a) = f + x
        BY <2>1, <2>2, <3>1, CatLength, ZenonT(40)
      <4>2. Len(b) = Len(a) + e
        BY <2>1, <2>3, <3>1, CatLength, ZenonT(40)
      <4>3. Len(c) = Len(b) + u
        BY <2>1, <2>4, <3>1, CatLength, ZenonT(40)
      <4>4. Len(d) = Len(c) + n
        BY <2>1, <2>5, <3>1, CatLength, ZenonT(40)
      <4>5. Len(all) = Len(d) + k
        BY <2>1, <2>6, <3>1, CatLength, ZenonT(40)
      <4> QED BY <4>1, <4>2, <4>3, <4>4, <4>5, Zenon
    <3>3. Len(row) = (k + (((n + u) + e) + x)) + f
      <4>1. Len(p) = n + u
        BY <2>1, <2>8, <3>1, CatLength, ZenonT(40)
      <4>2. Len(q) = Len(p) + e
        BY <2>1, <2>9, <3>1, CatLength, ZenonT(40)
      <4>3. Len(r) = Len(q) + x
        BY <2>1, <2>10, <3>1, CatLength, ZenonT(40)
      <4>4. Len(s) = k + Len(r)
        BY <2>1, <2>11, <3>1, CatLength, ZenonT(40)
      <4>5. Len(row) = Len(s) + f
        BY <2>1, <2>12, <3>1, CatLength, ZenonT(40)
      <4> QED BY <4>1, <4>2, <4>3, <4>4, <4>5, Zenon
    <3>4. Len(row) = RingSize
      BY <2>1, <2>12, Zenon DEF Perm
    <3>5. ((((f + x) + e) + u) + n) + k = (k + (((n + u) + e) + x)) + f
      OBVIOUS
    <3> QED BY <3>2, <3>3, <3>4, <3>5, Zenon
  <2>14. ASSUME NEW f \in Frames PROVE Holds(all, f)
    <3>1. Holds(row, f)
      BY <2>1, <2>12, Zenon DEF Perm, Holds
    <3>2. ASSUME NEW t \in Seq(Frames), NEW l \in Seq(Frames), NEW m \in Seq(Frames), t = Cat(l, m)
          PROVE  Holds(t, f) <=> Holds(l, f) \/ Holds(m, f)
      BY <3>2, CatElements, Zenon
    <3>3. Holds(row, f) <=> Holds(s, f) \/ Holds(fq, f)
      BY <2>1, <2>12, <3>2, Zenon
    <3>4. Holds(s, f) <=> Holds(cq, f) \/ Holds(r, f)
      BY <2>1, <2>11, <3>2, Zenon
    <3>5. Holds(r, f) <=> Holds(q, f) \/ Holds(rx, f)
      BY <2>1, <2>10, <3>2, Zenon
    <3>6. Holds(q, f) <=> Holds(p, f) \/ Holds(reserved, f)
      BY <2>1, <2>9, <3>2, Zenon
    <3>7. Holds(p, f) <=> Holds(nic, f) \/ Holds(submitted, f)
      BY <2>1, <2>8, <3>2, Zenon
    <3>8. Holds(all, f) <=> Holds(d, f) \/ Holds(cq, f)
      BY <2>1, <2>6, <3>2, Zenon
    <3>9. Holds(d, f) <=> Holds(c, f) \/ Holds(nic, f)
      BY <2>1, <2>5, <3>2, Zenon
    <3>10. Holds(c, f) <=> Holds(b, f) \/ Holds(submitted, f)
      BY <2>1, <2>4, <3>2, Zenon
    <3>11. Holds(b, f) <=> Holds(a, f) \/ Holds(reserved, f)
      BY <2>1, <2>3, <3>2, Zenon
    <3>12. Holds(a, f) <=> Holds(fq, f) \/ Holds(rx, f)
      BY <2>1, <2>2, <3>2, Zenon
    <3> QED BY <3>1, <3>3, <3>4, <3>5, <3>6, <3>7, <3>8, <3>9, <3>10, <3>11, <3>12, Zenon
  <2>15. DOMAIN all = 1 .. Len(all)
    BY <2>6, LenProperties
  <2> QED BY <2>7, <2>13, <2>14, <2>15, Zenon DEF UmemConserved, Holds
<1> QED BY <1>1, Invariant, PTL

\* outstanding_tx is the number of frames submitted and not recycled, so the
\* subtraction in xdp_complete_tx never wraps.
THEOREM OutstandingExact == Spec => []OutstandingIsExact
<1>1. Inv => OutstandingIsExact
  BY DEF Inv, CountInv
<1> QED BY <1>1, Invariant, PTL

\* Packets are sent back in the order they came and none twice, whatever is lost
\* and however often either thread runs (xdp_receive_frames, tc_xdp_tx_thread).
THEOREM MirroredInOrder == Spec => []MirrorsInOrder
<1>1. ASSUME Inv PROVE MirrorsInOrder
  <2>1. DOMAIN wire = 1 .. Len(wire)
    BY <1>1, LenProperties DEF Inv, TypeInv
  <2> QED BY <1>1, <2>1, Zenon DEF Inv, OrderInv, Ordered, MirrorsInOrder
<1> QED BY <1>1, Invariant, PTL

---------------------------------------------------------------------------
(***************************************************************************)
(* The numbers of a batch.  When every packet arrives and the threads take *)
(* turns, the Rx ring and the reserved slots hold consecutive packets, and *)
(* rx_sequence_counter stands between the two.  What receive_frame counts  *)
(* over a batch follows by induction on the batch, from the least index at *)
(* which it would be wrong.                                                *)
(***************************************************************************)

\* The frames of s hold the packets n, n + 1, ...
Consecutive(s, n) == \A i \in 1 .. Len(s) : packet[s[i]] = n + (i - 1)

NumberInv ==
    ~Lossy /\ ~Overrun =>
        /\ rx_sequence_counter \in Nat
        /\ next = rx_sequence_counter + Len(rx)
        /\ Consecutive(rx, rx_sequence_counter)
        /\ received_frames = Len(reserved) /\ (turn = "rx" => Len(reserved) = 0)
        /\ Consecutive(reserved, rx_sequence_counter - Len(reserved))
        /\ misnumbered = FALSE

\* The order of the naturals as a set of pairs.
Less == {ss \in Nat \X Nat : ss[1] < ss[2]}

\* A set of naturals has a least element.
LEMMA LeastElement ==
    ASSUME NEW T \in SUBSET Nat, T # {}
    PROVE  \E x \in T : \A y \in T : x <= y
<1>1. IsWellFoundedOn(Less, Nat)
  BY NatLessThanWellFounded, Zenon DEF OpToRel, Less
<1>2. PICK x \in T : \A y \in T : ~(<<y, x>> \in Less)
  BY <1>1, WFMin, Zenon
<1>3. \A y \in T : x <= y
  <2> SUFFICES ASSUME NEW y \in T, ~(x <= y) PROVE FALSE
    BY <1>2
  <2>1. x \in Nat /\ y \in Nat /\ y < x
    BY <1>2
  <2>2. <<y, x>> \in Nat \X Nat /\ <<y, x>>[1] = y /\ <<y, x>>[2] = x
    BY <2>1
  <2>3. <<y, x>> \in Less
    BY <2>1, <2>2, Zenon DEF Less
  <2> QED BY <1>2, <2>3
<1> QED BY <1>3

\* A set that holds 0 and the successor of each of its elements holds 0 .. n.
LEMMA UpTo ==
    ASSUME NEW n \in Nat, NEW P, 0 \in P, \A i \in 1 .. n : i - 1 \in P => i \in P
    PROVE  \A i \in 0 .. n : i \in P
<1> DEFINE T == {i \in 0 .. n : i \notin P}
<1> SUFFICES ASSUME T # {} PROVE FALSE
  OBVIOUS
<1>1. T \in SUBSET Nat
  OBVIOUS
<1>2. PICK x \in T : \A y \in T : x <= y
  <2> HIDE DEF T
  <2> QED BY <1>1, LeastElement
<1>3. x \in 1 .. n /\ x - 1 \in 0 .. n /\ ~(x <= x - 1) /\ x \notin P
  BY <1>2
<1>4. x - 1 \in P
  BY <1>2, <1>3
<1> QED BY <1>3, <1>4

\* The counter after each frame of a batch, in terms of itself.
AfterStep(frames, g) ==
    [i \in 0 .. Len(frames) |->
        IF i = 0 THEN rx_sequence_counter
        ELSE IF packet[frames[i]] = Foreign THEN g[i - 1]
        ELSE g[i - 1] + (IF packet[frames[i]] # g[i - 1] THEN 2 ELSE 1)]

\* Over consecutive packets receive_frame counts one for each.
LEMMA ExpectedIs ==
    ASSUME NEW frames \in Seq(Frames), rx_sequence_counter \in Nat,
           Consecutive(frames, rx_sequence_counter)
    PROVE  Expected(frames) = rx_sequence_counter + Len(frames)
<1>1. PICK n \in Nat, c \in Nat : n = Len(frames) /\ c = rx_sequence_counter
  BY LenProperties
<1>2. \A i \in 1 .. n : packet[frames[i]] = c + (i - 1) /\ packet[frames[i]] # Foreign
  BY <1>1 DEF Consecutive, Foreign
<1>3. \E g : g = AfterStep(frames, g)
  <2> DEFINE h == [i \in 0 .. n |-> c + i]
  <2>1. \A i \in 0 .. n : h[i] = IF i = 0 THEN c
                                 ELSE IF packet[frames[i]] = Foreign THEN h[i - 1]
                                 ELSE h[i - 1] + (IF packet[frames[i]] # h[i - 1] THEN 2 ELSE 1)
    BY <1>1, <1>2
  <2>2. h = [i \in 0 .. n |-> h[i]]
    OBVIOUS
  <2> HIDE DEF h
  <2>3. h = AfterStep(frames, h)
    BY <1>1, <2>1, <2>2, Zenon DEF AfterStep
  <2> QED BY <2>3
<1>4. PICK w : w = CHOOSE g : g = AfterStep(frames, g)
  OBVIOUS
<1>5. Expected(frames) = w[n]
  BY <1>1, <1>4 DEF Expected, AfterStep
<1>6. w = AfterStep(frames, w)
  BY <1>3, <1>4
<1>7. w[0] = c
  BY <1>1, <1>6 DEF AfterStep
<1>8. \A i \in 1 .. n : w[i] = w[i - 1] + (IF packet[frames[i]] # w[i - 1] THEN 2 ELSE 1)
  BY <1>1, <1>2, <1>6, SMTT(40) DEF AfterStep
<1> DEFINE P == {i \in 0 .. n : w[i] = c + i}
<1>9. 0 \in P
  BY <1>7
<1>10. ASSUME NEW i \in 1 .. n, i - 1 \in P PROVE i \in P
  <2>1. w[i - 1] = c + (i - 1) /\ packet[frames[i]] = c + (i - 1)
    BY <1>2, <1>10
  <2>2. w[i] = w[i - 1] + 1
    BY <1>8, <2>1
  <2> QED BY <2>1, <2>2
<1>11. \A i \in 0 .. n : i \in P
  <2> HIDE DEF P
  <2> QED BY <1>9, <1>10, UpTo, Zenon
<1>12. w[n] = c + n
  BY <1>11
<1> QED BY <1>1, <1>5, <1>12

\* The frame a packet is received into is in neither ring the packets before it
\* wait in.
LEMMA FreshFrame ==
    ASSUME TypeInv, Perm(Row), fq # << >>
    PROVE  /\ \A i \in 1 .. Len(rx) : rx[i] # Head(fq)
           /\ \A i \in 1 .. Len(reserved) : reserved[i] # Head(fq)
<1>1. /\ fq \in Seq(Frames) /\ rx \in Seq(Frames) /\ reserved \in Seq(Frames)
      /\ submitted \in Seq(Frames) /\ nic \in Seq(Frames) /\ cq \in Seq(Frames)
  BY DEF TypeInv
<1>2. PICK p \in Seq(Frames) : p = Cat(nic, submitted)
  BY <1>1, CatIs, Zenon
<1>3. PICK q \in Seq(Frames) : q = Cat(p, reserved)
  BY <1>1, CatIs, Zenon
<1>4. PICK r \in Seq(Frames) : r = Cat(q, rx)
  BY <1>1, CatIs, Zenon
<1>5. Perm(Cat(Cat(cq, r), fq))
  BY <1>2, <1>3, <1>4, Zenon DEF Row, Pipe
<1>6. \A i \in 1 .. Len(r) : r[i] # Head(fq)
  BY <1>1, <1>5, Apart, Zenon
<1>7. ~Holds(r, Head(fq))
  BY <1>6, Zenon DEF Holds
<1>8. ~Holds(q, Head(fq)) /\ ~Holds(rx, Head(fq))
  BY <1>1, <1>4, <1>7, CatElements, Zenon
<1>9. ~Holds(reserved, Head(fq))
  BY <1>1, <1>3, <1>8, CatElements, Zenon
<1> QED BY <1>8, <1>9, Zenon DEF Holds

\* Receiving the next packet.
LEMMA NumberReceive ==
    ASSUME Inv, NumberInv, KernelReceive, ~Lossy, ~Overrun
    PROVE  NumberInv'
<1> DEFINE h == Head(fq)
           c == rx_sequence_counter
<1>1. /\ fq # << >> /\ rx' = Append(rx, h) /\ packet' = [packet EXCEPT ![h] = next]
      /\ next' = next + 1
      /\ UNCHANGED <<reserved, received_frames, rx_sequence_counter, turn, misnumbered>>
  BY DEF KernelReceive, Receive
<1>2. /\ c \in Nat /\ next = c + Len(rx)
      /\ \A i \in 1 .. Len(rx) : packet[rx[i]] = c + (i - 1)
      /\ received_frames = Len(reserved) /\ (turn = "rx" => Len(reserved) = 0)
      /\ \A i \in 1 .. Len(reserved) : packet[reserved[i]] = (c - Len(reserved)) + (i - 1)
      /\ misnumbered = FALSE
  BY DEF NumberInv, Consecutive
<1>3. /\ rx \in Seq(Frames) /\ reserved \in Seq(Frames) /\ fq \in Seq(Frames)
      /\ packet \in [Frames -> Int] /\ Len(rx) \in Nat
  BY DEF Inv, TypeInv
<1>4. /\ \A i \in 1 .. Len(rx) : rx[i] # h
      /\ \A i \in 1 .. Len(reserved) : reserved[i] # h
  BY <1>1, FreshFrame, Zenon DEF Inv
<1>5. h \in Frames
  BY <1>1, <1>3
<1> HIDE DEF h
<1>6. /\ \A i \in 1 .. Len(rx) : rx[i] \in Frames
      /\ \A i \in 1 .. Len(reserved) : reserved[i] \in Frames
  BY <1>3
<1>7. \A f \in Frames : f # h => packet'[f] = packet[f]
  BY <1>1, <1>3
<1>8. packet'[h] = next
  BY <1>1, <1>3, <1>5
<1>9. /\ Len(rx') = Len(rx) + 1 /\ rx'[Len(rx) + 1] = h
      /\ \A i \in 1 .. Len(rx) : rx'[i] = rx[i]
  BY <1>1, <1>3, <1>5
<1>10. \A i \in 1 .. Len(reserved) : packet'[reserved[i]] = packet[reserved[i]]
  BY <1>4, <1>6, <1>7, Zenon
<1>11. \A i \in 1 .. Len(rx) : packet'[rx[i]] = packet[rx[i]]
  BY <1>4, <1>6, <1>7, Zenon
<1>12. ASSUME NEW i \in 1 .. Len(rx') PROVE packet'[rx'[i]] = c + (i - 1)
  <2>1. CASE i \in 1 .. Len(rx)
    BY <1>2, <1>9, <1>11, <2>1
  <2>2. CASE i = Len(rx) + 1
    <3>1. packet'[rx'[i]] = next
      BY <1>8, <1>9, <2>2, Zenon
    <3>2. next = c + (i - 1)
      BY <1>2, <1>3, <2>2
    <3> QED BY <3>1, <3>2, Zenon
  <2>3. i \in 1 .. Len(rx) \/ i = Len(rx) + 1
    BY <1>3, <1>9
  <2> QED BY <2>1, <2>2, <2>3, Zenon
<1>13. next' = c' + Len(rx')
  BY <1>1, <1>2, <1>3, <1>9
<1>14. c' = c /\ reserved' = reserved /\ received_frames' = received_frames /\ turn' = turn
       /\ misnumbered' = misnumbered
  BY <1>1, Zenon
<1>15. \A i \in 1 .. Len(reserved) : packet'[reserved[i]] = (c - Len(reserved)) + (i - 1)
  BY <1>2, <1>10, Zenon
<1> QED BY <1>2, <1>12, <1>13, <1>14, <1>15, Zenon DEF NumberInv, Consecutive

\* A turn of the Rx thread: the batch moves from the front of the Rx ring to the
\* empty reserved slots, and the counter over it.
LEMMA NumberRx ==
    ASSUME Inv, NumberInv, RxTurn, ~Lossy, ~Overrun
    PROVE  NumberInv'
<1> DEFINE c == rx_sequence_counter
<1>1. /\ rx \in Seq(Frames) /\ reserved \in Seq(Frames) /\ packet \in [Frames -> Int]
      /\ Len(rx) \in Nat
  BY DEF Inv, TypeInv
<1>2. /\ c \in Nat /\ next = c + Len(rx)
      /\ \A i \in 1 .. Len(rx) : packet[rx[i]] = c + (i - 1)
      /\ received_frames = Len(reserved) /\ (turn = "rx" => Len(reserved) = 0)
      /\ misnumbered = FALSE
  BY DEF NumberInv, Consecutive
<1>3. PICK k \in 0 .. Len(rx) : k = Accepted
  BY AcceptedIs, Zenon DEF Inv
<1>4. PICK fr : fr = SubSeq(rx, 1, k)
  BY Zenon
<1>5. /\ fr \in Seq(Frames) /\ Len(fr) = k
      /\ \A i \in 1 .. k : fr[i] = rx[i]
  BY <1>1, <1>3, <1>4
<1>6. /\ turn = "rx" /\ turn' = "tx" /\ reserved' = reserved \o fr
      /\ rx' = SubSeq(rx, k + 1, Len(rx)) /\ rx_sequence_counter' = Expected(fr)
      /\ received_frames' = k
      /\ UNCHANGED <<next, packet, misnumbered>>
  BY <1>3, <1>4, Zenon DEF RxTurn, Stored
<1>7. Consecutive(fr, c)
  BY <1>2, <1>3, <1>5 DEF Consecutive
<1>8. c' = c + k
  BY <1>2, <1>5, <1>6, <1>7, ExpectedIs, Zenon
<1>9. reserved' = fr
  <2>1. reserved = << >>
    BY <1>1, <1>2, <1>6, EmptySeq, Zenon
  <2> QED BY <1>5, <1>6, <2>1
<1>10. /\ Len(rx') = Len(rx) - k
       /\ \A i \in 1 .. Len(rx) - k : rx'[i] = rx[k + i]
  BY <1>1, <1>3, <1>6
<1>11. c' \in Nat /\ next' = c' + Len(rx')
  <2>1. next' = c + Len(rx) /\ c' = c + k /\ Len(rx') = Len(rx) - k
    BY <1>2, <1>6, <1>8, <1>10, Zenon
  <2>2. c + k \in Nat /\ c + Len(rx) = (c + k) + (Len(rx) - k)
    BY <1>1, <1>2, <1>3
  <2> QED BY <2>1, <2>2, Zenon
<1>12. ASSUME NEW i \in 1 .. Len(rx') PROVE packet'[rx'[i]] = c' + (i - 1)
  <2>1. k + i \in 1 .. Len(rx) /\ i \in 1 .. Len(rx) - k
    BY <1>1, <1>3, <1>10
  <2>2. packet'[rx'[i]] = c + ((k + i) - 1)
    BY <1>2, <1>6, <1>10, <2>1, Zenon
  <2> QED BY <1>2, <1>3, <1>8, <2>1, <2>2
<1>13. received_frames' = Len(reserved') /\ turn' # "rx" /\ misnumbered' = FALSE
  BY <1>2, <1>5, <1>6, <1>9
<1>14. ASSUME NEW i \in 1 .. Len(reserved')
       PROVE  packet'[reserved'[i]] = (c' - Len(reserved')) + (i - 1)
  <2>1. i \in 1 .. k /\ i \in 1 .. Len(rx) /\ reserved'[i] = rx[i]
    BY <1>3, <1>5, <1>9
  <2>2. packet'[reserved'[i]] = c + (i - 1)
    BY <1>2, <1>6, <2>1, Zenon
  <2>3. (c' - Len(reserved')) = c
    <3>1. Len(reserved') = k /\ k \in Nat
      BY <1>3, <1>5, <1>9
    <3> QED BY <1>2, <1>8, <3>1
  <2> QED BY <2>2, <2>3, Zenon
<1> QED BY <1>11, <1>12, <1>13, <1>14, Zenon DEF NumberInv, Consecutive

\* A turn of the Tx thread: the number it gives to the batch is that of the first
\* reserved slot.
LEMMA NumberTx ==
    ASSUME Inv, NumberInv, TxTurn, ~Lossy, ~Overrun
    PROVE  NumberInv'
<1> DEFINE c == rx_sequence_counter
<1>1. rx \in Seq(Frames) /\ reserved \in Seq(Frames) /\ Len(reserved) \in Nat
  BY DEF Inv, TypeInv
<1>2. /\ c \in Nat /\ next = c + Len(rx)
      /\ \A i \in 1 .. Len(rx) : packet[rx[i]] = c + (i - 1)
      /\ received_frames = Len(reserved)
      /\ \A i \in 1 .. Len(reserved) : packet[reserved[i]] = (c - Len(reserved)) + (i - 1)
      /\ misnumbered = FALSE
  BY DEF NumberInv, Consecutive
<1>3. /\ reserved' = SubSeq(reserved, received_frames + 1, Len(reserved))
      /\ misnumbered' = (misnumbered \/ (received_frames > 0 /\ packet[Head(reserved)] # BatchNumber(received_frames)))
      /\ received_frames' = 0
      /\ UNCHANGED <<next, rx, packet, rx_sequence_counter>>
  BY Zenon DEF TxTurn
<1>4. Len(reserved') = 0
  BY <1>1, <1>2, <1>3
<1>5. received_frames > 0 => packet[Head(reserved)] = BatchNumber(received_frames)
  <2> SUFFICES ASSUME received_frames > 0 PROVE packet[Head(reserved)] = BatchNumber(received_frames)
    OBVIOUS
  <2>1. 1 \in 1 .. Len(reserved) /\ Head(reserved) = reserved[1]
    BY <1>1, <1>2
  <2>2. packet[Head(reserved)] = (c - Len(reserved)) + (1 - 1)
    BY <1>2, <2>1, Zenon
  <2> QED BY <1>1, <1>2, <2>2 DEF BatchNumber
<1>6. misnumbered' = FALSE
  BY <1>2, <1>3, <1>5, Zenon
<1>7. \A i \in 1 .. Len(reserved') : FALSE
  BY <1>4
<1>8. c' = c /\ rx' = rx /\ packet' = packet /\ next' = next
  BY <1>3, Zenon
<1> QED BY <1>2, <1>3, <1>4, <1>6, <1>7, <1>8, Zenon DEF NumberInv, Consecutive

\* The numbers stay right.
LEMMA NumberStep ==
    ASSUME Inv, NumberInv, [Next]_vars
    PROVE  NumberInv'
<1>1. conf' = conf
  BY DEF Next, Kernel, KernelReceive, KernelReceiveForeign, Receive, KernelLose, KernelTake,
         NicTransmit, RxTurn, TxTurn, vars
<1>2. (Lossy' <=> Lossy) /\ (Overrun' <=> Overrun)
  BY <1>1 DEF Lossy, Overrun
<1>3. CASE Lossy \/ Overrun
  BY <1>2, <1>3, Zenon DEF NumberInv
<1>4. CASE ~Lossy /\ ~Overrun
  <2>1. CASE UNCHANGED <<next, rx, reserved, packet, received_frames, rx_sequence_counter,
                         turn, misnumbered>>
    BY <1>2, <2>1, SMTT(40) DEF NumberInv, Consecutive
  <2>2. CASE KernelReceive
    BY <1>4, <2>2, NumberReceive, Zenon
  <2>3. CASE RxTurn
    BY <1>4, <2>3, NumberRx, Zenon
  <2>4. CASE TxTurn
    BY <1>4, <2>4, NumberTx, Zenon
  <2>5. CASE KernelTake \/ NicTransmit \/ UNCHANGED vars
    BY <2>1, <2>5, Zenon DEF KernelTake, NicTransmit, vars, rings
  <2>6. ~KernelReceiveForeign /\ ~KernelLose
    BY <1>4, Zenon DEF KernelReceiveForeign, KernelLose
  <2> QED BY <2>2, <2>3, <2>4, <2>5, <2>6, Zenon DEF Next, Kernel
<1> QED BY <1>3, <1>4, Zenon

\* The number tc_xdp_tx_thread passes to stat_frames_sent_batch is that of the
\* first frame it submits, for every ring and batch size, when the threads take
\* turns and every packet arrives.
THEOREM BatchesNumbered == Spec => []BatchNumberedByItsFrames
<1>1. Init => NumberInv
  BY DEF Init, NumberInv, Consecutive
<1>2. Inv /\ NumberInv /\ [Next]_vars => NumberInv'
  BY NumberStep, Zenon
<1>3. NumberInv => BatchNumberedByItsFrames
  BY Zenon DEF NumberInv, BatchNumberedByItsFrames
<1> QED BY <1>1, <1>2, <1>3, Invariant, PTL DEF Spec
===========================================================================
