------------------------- MODULE RingBufferProofs -------------------------
(***************************************************************************)
(* For every buffer size, byte alphabet and set of inputs: the pointers of *)
(* ring_buffer.c stay in range and consistent, and the buffer implements   *)
(* the drop-oldest queue of KeepNewest.                                    *)
(***************************************************************************)
EXTENDS RingBuffer, TLAPS, SequenceTheorems

\* The inductive invariant: types and the agreement of the three cursors.
Inv == TypeOK /\ PointersAgree

\* Distance from pointer p forward to offset j around the ring.
Ahead(p, j) == IF j >= p THEN j - p ELSE j - p + Size

---------------------------------------------------------------------------
\* Moving a valid pointer by at most Size bytes wraps it once and keeps it
\* inside the buffer (the rewind of wp and rp at the end of the buffer).
LEMMA AdvancedWraps ==
    ASSUME NEW p \in Offsets, NEW n \in 0 .. Size
    PROVE  /\ Advanced(p, n) = Wrap(p + n)
           /\ Advanced(p, n) \in Offsets
BY RingBufferAssumption DEF Advanced, Wrap, Rewind, Offsets

\* The two memcpy branches of ring_buffer_add write s to the Len(s) offsets
\* from wp onwards around the ring and leave every other byte alone.
LEMMA WrittenBytes ==
    ASSUME data \in [Offsets -> Byte], wp \in Offsets,
           NEW s \in Seq(Byte), Len(s) <= Size
    PROVE  /\ Written(s) \in [Offsets -> Byte]
           /\ \A j \in Offsets :
                Written(s)[j] = IF Ahead(wp, j) < Len(s) THEN s[Ahead(wp, j) + 1]
                                ELSE data[j]
<1> DEFINE available == Size - wp
<1>0. Size \in Nat /\ Size > 0 /\ wp \in 0 .. Size - 1 /\ Len(s) \in Nat
  BY RingBufferAssumption DEF Offsets
<1>1. CASE Len(s) <= available
  <2>1. Written(s) = [i \in Offsets |-> IF wp <= i /\ i < wp + Len(s)
                                        THEN s[i - wp + 1] ELSE data[i]]
    BY <1>1 DEF Written, CopyIn
  <2>2. \A j \in Offsets : (wp <= j /\ j < wp + Len(s)) <=> Ahead(wp, j) < Len(s)
    BY <1>0, <1>1 DEF Ahead, Offsets
  <2>3. \A j \in Offsets : wp <= j => Ahead(wp, j) = j - wp
    BY <1>0 DEF Ahead, Offsets
  <2>4. \A j \in Offsets : wp <= j /\ j < wp + Len(s) => s[j - wp + 1] \in Byte
    BY <1>0 DEF Offsets
  <2> QED BY <2>1, <2>2, <2>3, <2>4
<1>2. CASE Len(s) > available
  <2> DEFINE a == SubSeq(s, 1, available)
             b == SubSeq(s, available + 1, Len(s))
  <2>1. available \in 1 .. Len(s)
    BY <1>0, <1>2
  <2>2. Len(a) = available /\ \A i \in 1 .. available : a[i] = s[i]
    BY <1>0, <2>1
  <2>3. Len(b) = Len(s) - available /\ \A i \in 1 .. Len(s) - available : b[i] = s[available + i]
    BY <1>0, <2>1
  <2> HIDE DEF a, b
  <2>4. Written(s) = CopyIn(CopyIn(data, wp, a), 0, b)
    BY <1>0, <1>2 DEF Written, a, b
  <2>5. \A j \in Offsets :
          Written(s)[j] = IF j < Len(b) THEN b[j + 1]
                          ELSE IF wp <= j /\ j < wp + Len(a) THEN a[j - wp + 1] ELSE data[j]
    BY <1>0, <2>3, <2>4 DEF CopyIn, Offsets
  <2>6. Written(s) = [j \in Offsets |-> Written(s)[j]]
    BY <2>4 DEF CopyIn
  <2>7. ASSUME NEW j \in Offsets
        PROVE  Written(s)[j] = IF Ahead(wp, j) < Len(s) THEN s[Ahead(wp, j) + 1] ELSE data[j]
    <3>1. CASE j < Len(b)
      <4>1. j < wp /\ Ahead(wp, j) = available + j /\ Ahead(wp, j) < Len(s)
        BY <1>0, <2>3, <3>1 DEF Ahead, Offsets
      <4>2. b[j + 1] = s[available + j + 1]
        BY <1>0, <2>1, <2>3, <3>1 DEF Offsets
      <4> QED BY <1>0, <2>5, <3>1, <4>1, <4>2
    <3>2. CASE j >= Len(b) /\ wp <= j
      <4>1. Ahead(wp, j) = j - wp /\ j - wp < available /\ j - wp < Len(s) /\ j < wp + Len(a)
        BY <1>0, <2>1, <2>2, <3>2 DEF Ahead, Offsets
      <4>2. a[j - wp + 1] = s[j - wp + 1]
        BY <1>0, <2>1, <2>2, <3>2, <4>1 DEF Offsets
      <4>3. ~ (j < Len(b))
        BY <1>0, <2>1, <2>3, <3>2 DEF Offsets
      <4> QED BY <2>5, <3>2, <4>1, <4>2, <4>3
    <3>3. CASE j >= Len(b) /\ j < wp
      <4>1. ~ (Ahead(wp, j) < Len(s)) /\ ~ (wp <= j) /\ ~ (j < Len(b))
        BY <1>0, <2>1, <2>3, <3>3 DEF Ahead, Offsets
      <4> QED BY <2>5, <4>1
    <3> QED BY <1>0, <2>1, <2>3, <3>1, <3>2, <3>3 DEF Offsets
  <2>8. \A j \in Offsets : Ahead(wp, j) \in Nat
    BY <1>0 DEF Ahead, Offsets
  <2>9. \A j \in Offsets : Written(s)[j] \in Byte
    BY <1>0, <2>7, <2>8
  <2> QED BY <2>6, <2>7, <2>9
<1> QED BY <1>0, <1>1, <1>2

\* The two memcpy branches of ring_buffer_fetch return the n oldest bytes.
LEMMA ReadAtIsPrefix ==
    ASSUME Inv, NEW n \in 0 .. count
    PROVE  /\ ReadAt(n) \in Seq(Byte)
           /\ Len(ReadAt(n)) = n
           /\ \A i \in 1 .. n : ReadAt(n)[i] = data[Wrap(rp + i - 1)]
<1> DEFINE available == Size - rp
<1>0. /\ Size \in Nat /\ Size > 0 /\ rp \in 0 .. Size - 1 /\ count \in 0 .. Size
      /\ data \in [0 .. Size - 1 -> Byte]
  BY RingBufferAssumption DEF Inv, TypeOK, Offsets
<1>1. CASE n <= available
  <2>1. ReadAt(n) = [i \in 1 .. n |-> data[rp + i - 1]]
    BY <1>1 DEF ReadAt, CopyOut
  <2>2. \A i \in 1 .. n : rp + i - 1 \in 0 .. Size - 1 /\ Wrap(rp + i - 1) = rp + i - 1
    BY <1>0, <1>1 DEF Wrap
  <2>3. \A i \in 1 .. n : data[rp + i - 1] \in Byte
    BY <1>0, <2>2
  <2>4. ReadAt(n) \in Seq(Byte) /\ Len(ReadAt(n)) = n
    BY <1>0, <2>1, <2>3
  <2> QED BY <2>1, <2>2, <2>4
<1>2. CASE n > available
  <2> DEFINE a == CopyOut(data, rp, available)
             b == CopyOut(data, 0, n - available)
  <2>1. available \in Nat /\ n - available \in Nat /\ n - available <= rp
    BY <1>0, <1>2
  <2>2. a \in Seq(Byte) /\ Len(a) = available
    <3>1. \A i \in 1 .. available : data[rp + i - 1] \in Byte
      BY <1>0, <2>1
    <3> QED BY <2>1, <3>1 DEF CopyOut
  <2>3. b \in Seq(Byte) /\ Len(b) = n - available
    <3>1. \A i \in 1 .. n - available : data[0 + i - 1] \in Byte
      BY <1>0, <2>1
    <3> QED BY <2>1, <3>1 DEF CopyOut
  <2>4. \A i \in 1 .. available : a[i] = data[rp + i - 1]
    BY <2>1 DEF CopyOut
  <2>5. \A i \in 1 .. n - available : b[i] = data[i - 1]
    BY <1>0, <2>1 DEF CopyOut
  <2> HIDE DEF a, b
  <2>6. ReadAt(n) = a \o b
    BY <1>0, <1>2 DEF ReadAt, a, b
  <2>7. a \o b \in Seq(Byte) /\ Len(a \o b) = n
    <3>1. Len(a \o b) = Len(a) + Len(b) /\ a \o b \in Seq(Byte)
      BY <2>2, <2>3, ConcatProperties, Zenon
    <3> QED BY <1>0, <2>1, <2>2, <2>3, <3>1
  <2>8. ASSUME NEW i \in 1 .. n
        PROVE  (a \o b)[i] = data[Wrap(rp + i - 1)]
    <3>1. CASE i <= available
      <4>1. (a \o b)[i] = a[i] /\ Wrap(rp + i - 1) = rp + i - 1
        BY <1>0, <2>1, <2>2, <2>3, <3>1 DEF Wrap
      <4> QED BY <1>0, <2>1, <2>4, <3>1, <4>1
    <3>2. CASE i > available
      <4>1. (a \o b)[i] = b[i - available] /\ Wrap(rp + i - 1) = i - available - 1
        BY <1>0, <2>1, <2>2, <2>3, <3>2, SMTT(40) DEF Wrap
      <4>2. i - available \in 1 .. n - available
        BY <1>0, <2>1, <3>2
      <4> QED BY <2>5, <4>1, <4>2
    <3> QED BY <1>0, <3>1, <3>2
  <2> QED BY <2>6, <2>7, <2>8
<1> QED BY <1>0, <1>1, <1>2

---------------------------------------------------------------------------
\* Each operation of ring_buffer.c preserves the inductive invariant.
LEMMA InvStep == Inv /\ [Next]_vars => Inv'
<1> SUFFICES ASSUME Inv, [Next]_vars PROVE Inv'
  OBVIOUS
<1>0. /\ Size \in Nat /\ Size > 0 /\ rp \in Offsets /\ wp \in Offsets
      /\ count \in 0 .. Size /\ wp = Wrap(rp + count)
  BY RingBufferAssumption DEF Inv, TypeOK, PointersAgree
<1>1. ASSUME NEW s \in Inputs, AddFitting(s) PROVE Inv'
  <2>0. s \in Seq(Byte) /\ Len(s) \in 0 .. Size
    BY <1>1, RingBufferAssumption DEF AddFitting
  <2>1. data' \in [Offsets -> Byte]
    BY <1>1, <2>0, WrittenBytes DEF AddFitting, Inv, TypeOK
  <2>2. wp' = Wrap(wp + Len(s)) /\ wp' \in Offsets
    BY <1>0, <1>1, <2>0, AdvancedWraps DEF AddFitting
  <2>3. CASE count + Len(s) > Size
    BY <1>0, <1>1, <2>0, <2>1, <2>2, <2>3
    DEF AddFitting, Inv, TypeOK, PointersAgree, Wrap, Offsets
  <2>4. CASE count + Len(s) <= Size
    BY <1>0, <1>1, <2>0, <2>1, <2>2, <2>4, SMTT(40)
    DEF AddFitting, Inv, TypeOK, PointersAgree, Wrap, Offsets
  <2> QED BY <1>0, <2>0, <2>3, <2>4
<1>2. ASSUME NEW len \in Lengths, FetchAvailable(len) PROVE Inv'
  <2> DEFINE n == IF len < count THEN len ELSE count
  <2>1. n \in 0 .. count /\ n \in 0 .. Size
    BY <1>0, RingBufferAssumption
  <2> HIDE DEF n
  <2>2. out' = ReadAt(n) /\ rp' = Advanced(rp, n) /\ count' = count - n
        /\ data' = data /\ wp' = wp
    BY <1>2 DEF FetchAvailable, n
  <2>3. rp' = Wrap(rp + n) /\ rp' \in Offsets
    BY <1>0, <2>1, <2>2, AdvancedWraps
  <2>4. out' \in Seq(Byte)
    BY <2>1, <2>2, ReadAtIsPrefix
  <2>5. count' \in 0 .. Size /\ wp' = Wrap(rp' + count')
    BY <1>0, <2>1, <2>2, <2>3 DEF Wrap, Offsets
  <2> QED BY <2>2, <2>3, <2>4, <2>5, SMTT(40) DEF Inv, TypeOK, PointersAgree, Wrap
<1>3. ASSUME NEW len \in Lengths, FetchNothing(len) PROVE Inv'
  BY <1>3 DEF FetchNothing, Inv, TypeOK, PointersAgree, Wrap
<1>4. ASSUME NEW s \in Inputs, AddOversized(s) PROVE Inv'
  BY <1>4 DEF AddOversized, rbvars, Inv, TypeOK, PointersAgree, Wrap
<1>5. CASE UNCHANGED vars
  BY <1>5 DEF vars, Inv, TypeOK, PointersAgree, Wrap
<1> QED BY <1>1, <1>2, <1>3, <1>4, <1>5 DEF Next

\* The allocated buffer satisfies the inductive invariant.
LEMMA InvInit == Init => Inv
BY RingBufferAssumption DEF Init, Inv, TypeOK, PointersAgree, Wrap, Offsets

\* Whatever callers add and fetch, the inductive invariant always holds.
THEOREM Invariance == Spec => []Inv
BY InvInit, InvStep, PTL DEF Spec

\* rp and wp always point into the buffer and count never exceeds its size.
THEOREM TypeCorrect == Spec => []TypeOK
<1>1. Inv => TypeOK
  BY DEF Inv
<1> QED BY <1>1, Invariance, PTL

\* rp, wp and count never disagree, however adds that overflow, adds and
\* fetches that wrap, and refused calls are mixed.
THEOREM CursorsAgree == Spec => []PointersAgree
<1>1. Inv => PointersAgree
  BY DEF Inv
<1> QED BY <1>1, Invariance, PTL

---------------------------------------------------------------------------
\* c bytes read from offset p around the ring are a sequence of length c.
LEMMA RingSeq ==
    ASSUME NEW buf \in [Offsets -> Byte], NEW p \in Offsets, NEW c \in 0 .. Size
    PROVE  /\ [i \in 1 .. c |-> buf[Wrap(p + i - 1)]] \in Seq(Byte)
           /\ Len([i \in 1 .. c |-> buf[Wrap(p + i - 1)]]) = c
<1>1. \A i \in 1 .. c : Wrap(p + i - 1) \in Offsets
  BY RingBufferAssumption DEF Wrap, Offsets
<1>2. \A i \in 1 .. c : buf[Wrap(p + i - 1)] \in Byte
  BY <1>1
<1>3. [i \in 1 .. c |-> buf[Wrap(p + i - 1)]] \in [1 .. c -> Byte] /\ c \in Nat
  BY <1>2, RingBufferAssumption
<1> QED BY <1>3

\* The content is a sequence of count bytes, before and after every step.
LEMMA ContentSeq ==
    ASSUME Inv
    PROVE  /\ Content \in Seq(Byte)
           /\ Len(Content) = count
           /\ \A i \in 1 .. count : Content[i] = data[Wrap(rp + i - 1)]
BY RingSeq DEF Inv, TypeOK, Content

\* The same of the next state, for the steps that change the buffer.
LEMMA ContentSeqNext ==
    ASSUME Inv'
    PROVE  /\ Content' \in Seq(Byte)
           /\ Len(Content') = count'
           /\ \A i \in 1 .. count' : Content'[i] = data'[Wrap(rp' + i - 1)]
<1>1. /\ count' \in 0 .. Size /\ rp' \in Offsets /\ data' \in [Offsets -> Byte]
  BY DEF Inv, TypeOK, Offsets
<1>2. Content' = [i \in 1 .. count' |-> data'[Wrap(rp' + i - 1)]]
  BY DEF Content, Wrap
<1> QED BY <1>1, <1>2, RingSeq

\* An accepted ring_buffer_add appends s and keeps the newest Size bytes.
LEMMA AddRefines ==
    ASSUME Inv, Inv', NEW s \in Seq(Byte), AddFitting(s)
    PROVE  Queue!Add(s)
<1> DEFINE q == Content \o s
           l == Len(s)
<1>0. /\ Size \in Nat /\ Size > 0 /\ rp \in Offsets /\ wp \in Offsets
      /\ count \in 0 .. Size /\ wp = Wrap(rp + count) /\ l \in 0 .. Size
  BY RingBufferAssumption DEF Inv, TypeOK, PointersAgree, AddFitting
<1>1. /\ q \in Seq(Byte) /\ Len(q) = count + l
      /\ \A i \in 1 .. count : q[i] = data[Wrap(rp + i - 1)]
      /\ \A i \in count + 1 .. count + l : q[i] = s[i - count]
  <2>1. /\ q \in Seq(Byte) /\ Len(q) = count + l
        /\ \A i \in 1 .. count + l : q[i] = IF i <= count THEN Content[i] ELSE s[i - count]
    <3>1. Content \in Seq(Byte) /\ Len(Content) = count
      BY ContentSeq
    <3>2. \A a \in Seq(Byte) :
            /\ a \o s \in Seq(Byte) /\ Len(a \o s) = Len(a) + Len(s)
            /\ \A i \in 1 .. Len(a) + Len(s) :
                  (a \o s)[i] = IF i <= Len(a) THEN a[i] ELSE s[i - Len(a)]
      BY ConcatProperties
    <3> QED BY <3>1, <3>2, SMTT(40)
  <2> QED BY <1>0, <2>1, ContentSeq, SMTT(40)
<1>2. \A j \in Offsets : data'[j] = IF Ahead(wp, j) < l THEN s[Ahead(wp, j) + 1] ELSE data[j]
  BY WrittenBytes DEF AddFitting, Inv, TypeOK
<1>3. /\ Content' \in Seq(Byte) /\ Len(Content') = count'
      /\ \A i \in 1 .. count' : Content'[i] = data'[Wrap(rp' + i - 1)]
  BY ContentSeqNext
<1> HIDE DEF q, l
<1>4. CASE count + l <= Size
  <2>1. rp' = rp /\ count' = count + l
    BY <1>0, <1>4 DEF AddFitting, l
  <2>2. ASSUME NEW i \in 1 .. count + l PROVE Content'[i] = q[i]
    <3>1. Wrap(rp + i - 1) \in Offsets /\ Content'[i] = data'[Wrap(rp + i - 1)]
      BY <1>0, <1>3, <1>4, <2>1 DEF Wrap, Offsets
    <3>2. CASE i <= count
      <4>1. ~ (Ahead(wp, Wrap(rp + i - 1)) < l)
        BY <1>0, <1>4, <3>2 DEF Ahead, Wrap, Offsets
      <4> QED BY <1>0, <1>1, <1>2, <3>1, <3>2, <4>1
    <3>3. CASE i > count
      <4>1. Ahead(wp, Wrap(rp + i - 1)) = i - count - 1
        BY <1>0, <1>4, <3>3 DEF Ahead, Wrap, Offsets
      <4>2. data'[Wrap(rp + i - 1)] = s[(i - count - 1) + 1]
        BY <1>0, <1>2, <3>1, <3>3, <4>1
      <4>3. (i - count - 1) + 1 = i - count /\ i \in count + 1 .. count + l
        BY <1>0, <3>3
      <4> QED BY <1>1, <3>1, <4>2, <4>3
    <3> QED BY <1>0, <3>2, <3>3
  <2>3. Content' = q
    BY <1>1, <1>3, <2>1, <2>2, SeqEqual
  <2>4. Queue!Newest(q) = q
    BY <1>0, <1>1, <1>4 DEF Queue!Newest
  <2> QED BY <1>0, <2>3, <2>4 DEF Queue!Add, q, l, AddFitting
<1>5. CASE count + l > Size
  <2>1. rp' = Wrap(wp + l) /\ count' = Size
    BY <1>0, <1>5, AdvancedWraps DEF AddFitting, l
  <2> DEFINE d == count + l - Size
             r == SubSeq(q, d + 1, count + l)
  <2>2. Queue!Newest(q) = r
    <3>1. Queue!Newest(q) = SubSeq(q, Len(q) - Size + 1, Len(q))
      BY <1>0, <1>1, <1>5 DEF Queue!Newest
    <3> QED BY <1>0, <1>1, <3>1
  <2>3. /\ r \in Seq(Byte) /\ Len(r) = Size
        /\ \A i \in 1 .. Size : r[i] = q[d + i]
    <3>1. \A i \in d + 1 .. count + l : q[i] \in Byte
      BY <1>0, <1>1, <1>5, ElementOfSeq
    <3>2. d + 1 \in Int /\ count + l \in Int /\ (count + l) - (d + 1) + 1 = Size
          /\ d + 1 <= count + l
      BY <1>0, <1>5
    <3> HIDE DEF d
    <3>3. /\ r \in Seq(Byte) /\ Len(r) = Size
          /\ \A i \in 1 .. Size : r[i] = q[(d + 1) + i - 1]
      BY <3>1, <3>2, SubSeqProperties, SMTT(40)
    <3>4. \A i \in 1 .. Size : (d + 1) + i - 1 = d + i
      BY <1>0 DEF d
    <3> QED BY <3>3, <3>4, Zenon
  <2> HIDE DEF r
  <2>4. ASSUME NEW i \in 1 .. Size PROVE Content'[i] = r[i]
    <3> DEFINE j == Wrap(rp' + i - 1)
    <3>1. j \in Offsets /\ Content'[i] = data'[j]
      BY <1>0, <1>3, <2>1 DEF Wrap, Offsets
    <3>2. CASE i <= Size - l
      <4>1. ~ (Ahead(wp, j) < l)
        BY <1>0, <1>5, <2>1, <3>2 DEF Ahead, Wrap, Offsets
      <4>2. d + i \in 1 .. count /\ j = Wrap(rp + (d + i) - 1)
        BY <1>0, <1>5, <2>1, <3>2 DEF Wrap, Offsets
      <4> QED BY <1>1, <1>2, <2>3, <3>1, <4>1, <4>2, SMTT(40)
    <3>3. CASE i > Size - l
      <4>1. Ahead(wp, j) = (d + i) - count - 1 /\ Ahead(wp, j) < l
        BY <1>0, <1>5, <2>1, <3>3 DEF Ahead, Wrap, Offsets
      <4>2. (d + i) - count - 1 + 1 = (d + i) - count /\ d + i \in count + 1 .. count + l
        BY <1>0, <1>5, <3>3
      <4> HIDE DEF j, d
      <4>3. data'[j] = s[(d + i) - count]
        BY <1>2, <3>1, <4>1, <4>2
      <4> QED BY <1>1, <2>3, <3>1, <4>2, <4>3, SMTT(40)
    <3> QED BY <1>0, <3>2, <3>3
  <2>5. Content' = r
    BY <1>3, <2>1, <2>3, <2>4, SeqEqual
  <2> QED BY <1>0, <2>2, <2>5 DEF Queue!Add, q, l, AddFitting
<1> QED BY <1>0, <1>4, <1>5

\* A granted ring_buffer_fetch hands out the oldest bytes and removes them.
LEMMA FetchRefines ==
    ASSUME Inv, Inv', NEW len \in Nat, FetchAvailable(len)
    PROVE  Queue!Fetch(len)
<1> DEFINE n == IF len < count THEN len ELSE count
<1>0. /\ Size \in Nat /\ Size > 0 /\ rp \in Offsets /\ count \in 0 .. Size
      /\ n \in 0 .. count /\ n \in 0 .. Size
  BY RingBufferAssumption DEF Inv, TypeOK
<1>1. n = Queue!Granted(Content, len)
  BY <1>0, ContentSeq DEF Queue!Granted, FetchAvailable
<1>2. /\ out' = ReadAt(n) /\ rp' = Advanced(rp, n) /\ count' = count - n /\ data' = data
  BY DEF FetchAvailable
<1> HIDE DEF n
<1>3. rp' = Wrap(rp + n)
  BY <1>0, <1>2, AdvancedWraps
<1>4. \A i \in 1 .. count : Content[i] \in Byte
  BY ContentSeq, ElementOfSeq
<1>5. out' = SubSeq(Content, 1, n)
  <2>1. /\ SubSeq(Content, 1, n) \in Seq(Byte) /\ Len(SubSeq(Content, 1, n)) = n
        /\ \A i \in 1 .. n : SubSeq(Content, 1, n)[i] = Content[i]
    <3>1. 1 \in Int /\ n \in Int /\ \A i \in 1 .. n : Content[i] \in Byte
      BY <1>0, <1>4
    <3>2. \A i \in 1 .. n : 1 + i - 1 = i
      OBVIOUS
    <3>3. /\ SubSeq(Content, 1, n) \in Seq(Byte)
          /\ Len(SubSeq(Content, 1, n)) = IF 1 <= n THEN n - 1 + 1 ELSE 0
          /\ \A i \in 1 .. n - 1 + 1 : SubSeq(Content, 1, n)[i] = Content[1 + i - 1]
      BY <3>1, SubSeqProperties
    <3> QED BY <1>0, <3>2, <3>3
  <2>2. /\ out' \in Seq(Byte) /\ Len(out') = n
        /\ \A i \in 1 .. n : out'[i] = data[Wrap(rp + i - 1)]
    BY <1>0, <1>2, ReadAtIsPrefix, SMTT(40)
  <2>3. \A i \in 1 .. n : out'[i] = SubSeq(Content, 1, n)[i]
    BY <1>0, <2>1, <2>2, ContentSeq
  <2> QED BY <2>1, <2>2, <2>3, SeqEqual
<1>6. Content' = SubSeq(Content, n + 1, count)
  <2> DEFINE r == SubSeq(Content, n + 1, count)
  <2>1. /\ r \in Seq(Byte) /\ Len(r) = count - n
        /\ \A i \in 1 .. count - n : r[i] = Content[n + i]
    <3>1. n + 1 \in Int /\ count \in Int /\ \A i \in n + 1 .. count : Content[i] \in Byte
      BY <1>0, <1>4
    <3>2. /\ r \in Seq(Byte)
          /\ Len(r) = IF n + 1 <= count THEN count - (n + 1) + 1 ELSE 0
          /\ \A i \in 1 .. count - (n + 1) + 1 : r[i] = Content[(n + 1) + i - 1]
      BY <3>1, SubSeqProperties
    <3>3. count - (n + 1) + 1 = count - n /\ \A i \in 1 .. count - n : (n + 1) + i - 1 = n + i
      BY <1>0
    <3> QED BY <1>0, <3>2, <3>3
  <2> HIDE DEF r
  <2>2. ASSUME NEW i \in 1 .. count - n PROVE Content'[i] = r[i]
    <3>1. Wrap(rp' + i - 1) = Wrap(rp + (n + i) - 1) /\ n + i \in 1 .. count
      BY <1>0, <1>3 DEF Wrap, Offsets
    <3>2. Content'[i] = data[Wrap(rp' + i - 1)]
      BY <1>2, ContentSeqNext
    <3>3. Content[n + i] = data[Wrap(rp + (n + i) - 1)]
      BY <3>1, ContentSeq
    <3> QED BY <2>1, <3>1, <3>2, <3>3
  <2>3. Content' \in Seq(Byte) /\ Len(Content') = count - n
    BY <1>2, ContentSeqNext
  <2>4. Content' = r
    BY <2>1, <2>2, <2>3, SeqEqual
  <2> QED BY <2>4 DEF r
<1>7. Len(Content) = count
  BY ContentSeq
<1> QED BY <1>1, <1>5, <1>6, <1>7 DEF Queue!Fetch

\* A refused fetch, or one from an empty buffer, returns no byte and keeps all.
LEMMA FetchNothingRefines ==
    ASSUME Inv, NEW len \in Nat, FetchNothing(len)
    PROVE  Queue!Fetch(len)
<1>0. Content \in Seq(Byte) /\ Len(Content) = count /\ count \in Nat /\ Size \in Nat
  BY ContentSeq, RingBufferAssumption DEF Inv, TypeOK
<1>1. Queue!Granted(Content, len) = 0
  BY <1>0 DEF FetchNothing, Queue!Granted
<1>2. SubSeq(Content, 1, 0) = << >> /\ SubSeq(Content, 0 + 1, Len(Content)) = Content
  BY <1>0, SubSeqEmpty, SubSeqFull
<1>3. Content' = Content /\ out' = << >>
  BY DEF FetchNothing, Content, Wrap
<1> QED BY <1>1, <1>2, <1>3 DEF Queue!Fetch

\* A ring_buffer_add of more than Size bytes is refused and changes nothing.
LEMMA AddOversizedRefines ==
    ASSUME NEW s \in Inputs, AddOversized(s)
    PROVE  Queue!Add(s)
BY DEF AddOversized, rbvars, Content, Wrap, Queue!Add

\* Refinement: ring_buffer.c keeps the promise of ring_buffer.h, "drop oldest
\* data first and keep the newest", for every size and sequence of calls.  Each
\* call has the effect KeepNewest gives to the same call with the same argument.
THEOREM Refinement == Spec => ImplementsKeepNewest
<1>1. Init => Queue!Init
  <2>1. Init => Content = << >> /\ out = << >>
    BY DEF Init, Content
  <2> QED BY <2>1 DEF Init, Queue!Init
<1>2. Inv /\ Inv' /\ [Next]_vars => [Queue!Next]_(Queue!kvars)
  <2> SUFFICES ASSUME Inv, Inv', [Next]_vars PROVE [Queue!Next]_(Queue!kvars)
    OBVIOUS
  <2>1. ASSUME NEW s \in Inputs, AddFitting(s) \/ AddOversized(s), Called("add", s)
        PROVE  Queue!Next
    <3>1. s \in Seq(Byte)
      BY RingBufferAssumption
    <3>2. Queue!Add(s)
      BY <2>1, <3>1, AddRefines, AddOversizedRefines
    <3>3. Queue!Called("add", s)
      BY <2>1 DEF Called, Queue!Called
    <3> QED BY <3>2, <3>3 DEF Queue!Next
  <2>2. ASSUME NEW len \in Lengths, FetchAvailable(len) \/ FetchNothing(len),
               Called("fetch", len)
        PROVE  Queue!Next
    <3>1. len \in Nat
      BY RingBufferAssumption
    <3>2. Queue!Fetch(len)
      BY <2>2, <3>1, FetchRefines, FetchNothingRefines
    <3>3. Queue!Called("fetch", len)
      BY <2>2 DEF Called, Queue!Called
    <3> QED BY <3>2, <3>3 DEF Queue!Next
  <2>3. CASE UNCHANGED vars
    BY <2>3 DEF vars, Queue!kvars, Content, Wrap
  <2> QED BY <2>1, <2>2, <2>3 DEF Next
<1> QED BY <1>1, <1>2, Invariance, PTL DEF Spec, Queue!Spec, ImplementsKeepNewest
===========================================================================
