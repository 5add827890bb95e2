------------------------- MODULE MirrorPathProofs -------------------------
(***************************************************************************)
(* For every frame length, number of frames per cycle and socket, with     *)
(* losses, foreign frames, failing calls and any interleaving of the Rx    *)
(* and the Tx thread: what the mirror sends back is in order, whole and    *)
(* counted, and sequence errors are bounded by losses.                     *)
(*                                                                         *)
(* The argument looks at the mirror buffer from its end.  An add appends   *)
(* one frame and may drop bytes at the front, so that the distance of a    *)
(* byte from the end tells its place within its frame, and bytes closer to *)
(* the end are of the same or of a later frame.                            *)
(***************************************************************************)
EXTENDS MirrorPath, SequenceTheorems, TLAPS

Packet == [seq : Nat, valid : BOOLEAN]
Byte == Nat \X Nat

TypeInv ==
    /\ conf \in Configs /\ next \in Nat /\ socket \in Seq(Packet) /\ stop \in BOOLEAN
    /\ rx \in {"loop", "recv", "process", "done"} /\ batch \in Seq(Packet)
    /\ rx = "process" => batch # << >>
    /\ rx_sequence_counter \in Nat /\ latest \in Int /\ latest >= -1
    /\ mirror_buffer \in Seq(Byte) /\ Len(mirror_buffer) <= BufferSize
    /\ tx \in {"loop", "send", "done"}
    /\ received_frames \in Seq(Byte) /\ sent \in Nat /\ sent <= num_frames
    /\ wire \in Seq(Seq(Byte))
    /\ \A i \in 1 .. Len(wire) : Len(wire[i]) = FrameLen
    /\ stat \in [received : Nat, out_of_order : Nat, sent : Nat]

\* Frames that wait to be processed are newer than the last one accepted, in the
\* order of their numbers.
Rising(s) == \A i, j \in 1 .. Len(s) : i < j /\ s[i].valid /\ s[j].valid => s[i].seq < s[j].seq
Above(s, n) == \A i \in 1 .. Len(s) : s[i].valid => n < s[i].seq
Below(s, n) == \A i \in 1 .. Len(s) : s[i].valid => s[i].seq < n
Follows(s, t) == \A i \in 1 .. Len(s), j \in 1 .. Len(t) :
                    s[i].valid /\ t[j].valid => s[i].seq < t[j].seq

ArrivalInv ==
    /\ latest < next
    /\ Rising(socket) /\ Above(socket, latest) /\ Below(socket, next)
    /\ Rising(batch) /\ Above(batch, latest) /\ Below(batch, next)
    /\ Follows(batch, socket)

\* Every accepted frame advances the expected number by one, and by one more when
\* it counts as out of order.
CounterInv ==
    /\ rx_sequence_counter = stat.received + stat.out_of_order
    /\ rx_sequence_counter <= latest + 1

\* A byte's place in its frame, and the order of bytes of different frames, by
\* the distance from the end.
Frame(b, i, n) == (Len(b) - i) \div n
Place(b, i, n) == (Len(b) - i) % n
Placed(b, n) == \A i \in 1 .. Len(b) : b[i][2] = n - Place(b, i, n)
Grouped(b, n) ==
    \A i, j \in 1 .. Len(b) :
        /\ Frame(b, i, n) = Frame(b, j, n) => b[i][1] = b[j][1]
        /\ Frame(b, i, n) > Frame(b, j, n) => b[i][1] < b[j][1]
NoLater(b, n) == \A i \in 1 .. Len(b) : b[i][1] <= n

BufferInv ==
    /\ Placed(mirror_buffer, FrameLen) /\ Grouped(mirror_buffer, FrameLen)
    /\ Placed(received_frames, FrameLen) /\ Grouped(received_frames, FrameLen)
    /\ NoLater(mirror_buffer, latest) /\ NoLater(received_frames, latest)
    /\ \A i \in 1 .. Len(received_frames), j \in 1 .. Len(mirror_buffer) :
          received_frames[i][1] < mirror_buffer[j][1]

\* When frames fill the buffer exactly.
WholeInv ==
    BufferSize % FrameLen = 0 =>
        /\ Len(mirror_buffer) % FrameLen = 0
        /\ Len(received_frames) % FrameLen = 0
        /\ \A i \in 1 .. Len(wire) : wire[i] = Bytes(wire[i][1][1])

\* First bytes of what was sent, of what is to be sent and of what is stored.
WireInv ==
    /\ \A i, j \in 1 .. Len(wire) : i < j => wire[i][1][1] < wire[j][1][1]
    /\ \A i \in 1 .. Len(wire) : wire[i][1][1] <= latest
    /\ \A i \in 1 .. Len(wire), j \in 1 .. Len(mirror_buffer) :
          wire[i][1][1] < mirror_buffer[j][1]
    /\ tx = "send" =>
          \A i \in 1 .. Len(wire), k \in sent .. num_frames - 1 :
              wire[i][1][1] < received_frames[k * FrameLen + 1][1]

\* stat.sent lags behind wire by the frames of the current cycle.
SentInv ==
    /\ stat.sent + (IF tx = "send" THEN sent ELSE 0) <= Len(wire)
    /\ ~CallsMayFail => stat.sent + (IF tx = "send" THEN sent ELSE 0) = Len(wire)

Inv == TypeInv /\ ArrivalInv /\ CounterInv /\ BufferInv /\ WholeInv /\ WireInv /\ SentInv

\* Parts of the argument about one add: the frame that is added, that it is the
\* newest, and where bytes come from.
IsFrame(f, n, seq) == Len(f) = n /\ \A k \in 1 .. n : f[k] = <<seq, k>>
Older(b, seq) == \A i \in 1 .. Len(b) : b[i][1] < seq
FromOrNew(q, b, seq) ==
    \A i \in 1 .. Len(q) : q[i][1] = seq \/ \E j \in 1 .. Len(b) : q[i] = b[j]
Kept(c, size) == IF Len(c) > size THEN SubSeq(c, Len(c) - size + 1, Len(c)) ELSE c
Taken(b, n, k) == SubSeq(b, k * n + 1, (k + 1) * n)
Rest(t, b) == \A i \in 1 .. Len(t) : 1 < i + 1 /\ i + 1 \in 1 .. Len(b) /\ t[i] = b[i + 1]
Shifted(s, b, k) == \A i \in 1 .. Len(s) : k + i \in 1 .. Len(b) /\ s[i] = b[k + i]

---------------------------------------------------------------------------
(***************************************************************************)
(* Division                                                                *)
(***************************************************************************)
\* Quotient and remainder of a distance (the division in tc_tx_thread).
LEMMA DivMod ==
    ASSUME NEW n \in Nat \ {0}, NEW x \in Nat
    PROVE  /\ x \div n \in Nat /\ x % n \in 0 .. n - 1
           /\ x = n * (x \div n) + (x % n)
OBVIOUS

\* They are determined by x = q * n + r.
LEMMA DivModUnique ==
    ASSUME NEW n \in Nat \ {0}, NEW q \in Nat, NEW r \in 0 .. n - 1
    PROVE  (q * n + r) \div n = q /\ (q * n + r) % n = r
OBVIOUS

\* A byte moves away from the end by one frame (ring_buffer_add).
LEMMA DivModShift ==
    ASSUME NEW n \in Nat \ {0}, NEW x \in Nat
    PROVE  (x + n) \div n = (x \div n) + 1 /\ (x + n) % n = x % n
<1>1. PICK q \in Nat, r \in 0 .. n - 1 : q = x \div n /\ r = x % n /\ x = q * n + r
  BY DivMod
<1>2. PICK p \in Nat : p = q + 1
  OBVIOUS
<1>3. x + n = p * n + r
  BY <1>1, <1>2
<1>4. (p * n + r) \div n = p /\ (p * n + r) % n = r
  BY DivModUnique
<1> QED BY <1>1, <1>2, <1>3, <1>4

\* The newest frame.
LEMMA DivModSmall ==
    ASSUME NEW n \in Nat \ {0}, NEW x \in 0 .. n - 1
    PROVE  x \div n = 0 /\ x % n = x
OBVIOUS

\* Bytes a frame length apart are of different frames.
LEMMA DivFar ==
    ASSUME NEW n \in Nat \ {0}, NEW x \in Nat, NEW y \in Nat, y + n <= x
    PROVE  x \div n > y \div n
OBVIOUS

---------------------------------------------------------------------------
(***************************************************************************)
(* The mirror buffer                                                       *)
(***************************************************************************)
\* A frame's bytes as ring_buffer_add gets them: all of them.
LEMMA FrameBytes ==
    ASSUME conf \in Configs, NEW seq \in Nat
    PROVE  /\ SubSeq(Bytes(seq), 1, StoredLength) = Bytes(seq)
           /\ Bytes(seq) \in Seq(Byte) /\ Len(Bytes(seq)) = FrameLen
           /\ \A k \in 1 .. FrameLen : Bytes(seq)[k] = <<seq, k>>
           /\ FrameLen \in Nat \ {0} /\ FrameLen <= MaxFrame
<1>1. FrameLen \in Nat \ {0} /\ FrameLen <= MaxFrame /\ MaxFrame \in Nat
  BY MirrorPathAssumption DEF FrameLen
<1>2. /\ Bytes(seq) \in Seq(Byte) /\ Len(Bytes(seq)) = FrameLen
      /\ \A k \in 1 .. FrameLen : Bytes(seq)[k] = <<seq, k>>
  BY <1>1 DEF Bytes, Byte
<1>3. SubSeq(Bytes(seq), 1, Len(Bytes(seq))) = Bytes(seq)
  BY <1>2
<1> QED BY <1>1, <1>2, <1>3 DEF StoredLength

\* A byte is of some frame, counted from the end.
LEMMA FrameIsNat ==
    ASSUME NEW n \in Nat \ {0}, NEW b \in Seq(Byte)
    PROVE  \A i \in 1 .. Len(b) : Frame(b, i, n) \in Nat /\ Place(b, i, n) \in 0 .. n - 1
<1> SUFFICES ASSUME NEW i \in 1 .. Len(b)
             PROVE  Frame(b, i, n) \in Nat /\ Place(b, i, n) \in 0 .. n - 1
  OBVIOUS
<1>1. PICK x \in Nat : x = Len(b) - i
  OBVIOUS
<1> QED BY <1>1, DivMod, Zenon DEF Frame, Place

\* Bytes dropped at the front change nothing, as seen from the end.
LEMMA SuffixKeeps ==
    ASSUME NEW n \in Nat \ {0}, NEW b \in Seq(Byte), NEW k \in 0 .. Len(b),
           NEW s, s = SubSeq(b, k + 1, Len(b))
    PROVE  /\ s \in Seq(Byte) /\ Len(s) = Len(b) - k /\ Shifted(s, b, k)
           /\ Placed(b, n) => Placed(s, n)
           /\ Grouped(b, n) => Grouped(s, n)
<1>1. s \in Seq(Byte) /\ Len(s) = Len(b) - k
  OBVIOUS
<1>2. \A i \in 1 .. Len(s) : k + i \in 1 .. Len(b) /\ s[i] = b[k + i] /\ Len(s) - i = Len(b) - (k + i)
  BY <1>1
<1>3. \A i \in 1 .. Len(s) : /\ k + i \in 1 .. Len(b) /\ s[i] = b[k + i]
                             /\ Frame(s, i, n) = Frame(b, k + i, n) /\ Place(s, i, n) = Place(b, k + i, n)
  BY <1>2, Zenon DEF Frame, Place
<1>4. Placed(b, n) => Placed(s, n)
  BY <1>3, Zenon DEF Placed
<1>5. ASSUME Grouped(b, n), NEW i \in 1 .. Len(s), NEW j \in 1 .. Len(s)
      PROVE  /\ Frame(s, i, n) = Frame(s, j, n) => s[i][1] = s[j][1]
             /\ Frame(s, i, n) > Frame(s, j, n) => s[i][1] < s[j][1]
  <2>1. /\ k + i \in 1 .. Len(b) /\ s[i] = b[k + i] /\ Frame(s, i, n) = Frame(b, k + i, n)
        /\ k + j \in 1 .. Len(b) /\ s[j] = b[k + j] /\ Frame(s, j, n) = Frame(b, k + j, n)
    BY <1>3
  <2> QED BY <1>5, <2>1, Zenon DEF Grouped
<1>6. Grouped(b, n) => Grouped(s, n)
  BY <1>5, Zenon DEF Grouped
<1>7. Shifted(s, b, k)
  BY <1>3, Zenon DEF Shifted
<1> QED BY <1>1, <1>4, <1>6, <1>7

\* A frame newer than everything stored is appended.
LEMMA AppendKeeps ==
    ASSUME NEW n \in Nat \ {0}, NEW b \in Seq(Byte), NEW f \in Seq(Byte), NEW seq \in Nat,
           IsFrame(f, n, seq), Placed(b, n), Grouped(b, n), Older(b, seq),
           NEW c, c = b \o f
    PROVE  /\ c \in Seq(Byte) /\ Len(c) = Len(b) + n
           /\ Placed(c, n) /\ Grouped(c, n) /\ FromOrNew(c, b, seq)
<1>9. Len(f) = n /\ \A k \in 1 .. n : f[k] = <<seq, k>>
  BY Zenon DEF IsFrame
<1>0. /\ b \o f \in Seq(Byte) /\ Len(b \o f) = Len(b) + Len(f)
      /\ \A i \in 1 .. Len(b) + Len(f) : (b \o f)[i] = IF i <= Len(b) THEN b[i] ELSE f[i - Len(b)]
  BY ConcatProperties
<1>1. /\ c \in Seq(Byte) /\ Len(c) = Len(b) + n
      /\ \A i \in 1 .. Len(c) : c[i] = IF i <= Len(b) THEN b[i] ELSE f[i - Len(b)]
  BY <1>0, <1>9, Zenon
<1>2. ASSUME NEW i \in 1 .. Len(c), i <= Len(b)
      PROVE  /\ i \in 1 .. Len(b) /\ c[i] = b[i]
             /\ Frame(c, i, n) = Frame(b, i, n) + 1 /\ Place(c, i, n) = Place(b, i, n)
  <2>1. c[i] = b[i] /\ i \in 1 .. Len(b)
    BY <1>1, <1>2
  <2>3. Len(b) - i \in Nat /\ Len(c) - i = (Len(b) - i) + n
    BY <1>1, <1>2
  <2>2. PICK x \in Nat : x = Len(b) - i /\ Len(c) - i = x + n
    BY <2>3, Zenon
  <2> QED BY <2>1, <2>2, DivModShift, Zenon DEF Frame, Place
<1>3. ASSUME NEW i \in 1 .. Len(c), ~(i <= Len(b))
      PROVE  /\ c[i][1] = seq /\ c[i][2] = n - Place(c, i, n) /\ Frame(c, i, n) = 0
  <2>0. i - Len(b) \in 1 .. n
    BY <1>1, <1>3
  <2>1. PICK k \in 1 .. n : k = i - Len(b)
    BY <2>0, Zenon
  <2>2. c[i] = <<seq, k>>
    BY <1>1, <1>3, <1>9, <2>1, Zenon
  <2>5. Len(c) - i \in 0 .. n - 1 /\ k = n - (Len(c) - i)
    BY <1>1, <2>1
  <2>3. PICK x \in 0 .. n - 1 : x = Len(c) - i /\ k = n - x
    BY <2>5, Zenon
  <2>4. Frame(c, i, n) = 0 /\ Place(c, i, n) = x
    BY <2>3, DivModSmall, Zenon DEF Frame, Place
  <2> QED BY <2>2, <2>3, <2>4
<1>4. Placed(c, n)
  <2> SUFFICES ASSUME NEW i \in 1 .. Len(c) PROVE c[i][2] = n - Place(c, i, n)
    BY DEF Placed
  <2>1. CASE i <= Len(b)
    BY <1>2, <2>1, Zenon DEF Placed
  <2> QED BY <1>3, <2>1
<1>5. \A i \in 1 .. Len(b) : Frame(b, i, n) \in Nat
  BY FrameIsNat
<1>6. Grouped(c, n)
  <2> SUFFICES ASSUME NEW i \in 1 .. Len(c), NEW j \in 1 .. Len(c)
               PROVE  /\ Frame(c, i, n) = Frame(c, j, n) => c[i][1] = c[j][1]
                      /\ Frame(c, i, n) > Frame(c, j, n) => c[i][1] < c[j][1]
    BY DEF Grouped
  <2>1. CASE i <= Len(b) /\ j <= Len(b)
    <3>1. /\ i \in 1 .. Len(b) /\ c[i] = b[i] /\ Frame(c, i, n) = Frame(b, i, n) + 1
          /\ j \in 1 .. Len(b) /\ c[j] = b[j] /\ Frame(c, j, n) = Frame(b, j, n) + 1
      BY <1>2, <2>1
    <3>2. /\ Frame(b, i, n) = Frame(b, j, n) => b[i][1] = b[j][1]
          /\ Frame(b, i, n) > Frame(b, j, n) => b[i][1] < b[j][1]
      BY <3>1, Zenon DEF Grouped
    <3>3. Frame(b, i, n) \in Nat /\ Frame(b, j, n) \in Nat
      BY <1>5, <3>1
    <3> QED BY <3>1, <3>2, <3>3, SMTT(40)
  <2>2. CASE i <= Len(b) /\ ~(j <= Len(b))
    <3>1. i \in 1 .. Len(b) /\ c[i] = b[i] /\ Frame(c, i, n) = Frame(b, i, n) + 1
      BY <1>2, <2>2
    <3>2. c[j][1] = seq /\ Frame(c, j, n) = 0
      BY <1>3, <2>2
    <3>3. Frame(b, i, n) \in Nat /\ b[i][1] < seq
      BY <1>5, <3>1 DEF Older
    <3> QED BY <3>1, <3>2, <3>3
  <2>3. CASE ~(i <= Len(b)) /\ j <= Len(b)
    <3>1. j \in 1 .. Len(b) /\ Frame(c, j, n) = Frame(b, j, n) + 1
      BY <1>2, <2>3
    <3>2. Frame(c, i, n) = 0 /\ Frame(b, j, n) \in Nat
      BY <1>3, <1>5, <2>3, <3>1
    <3> QED BY <3>1, <3>2
  <2>4. CASE ~(i <= Len(b)) /\ ~(j <= Len(b))
    <3>1. c[i][1] = seq /\ c[j][1] = seq /\ Frame(c, i, n) = 0 /\ Frame(c, j, n) = 0
      BY <1>3, <2>4
    <3> QED BY <3>1
  <2> QED BY <2>1, <2>2, <2>3, <2>4
<1>7. FromOrNew(c, b, seq)
  BY <1>2, <1>3, Zenon DEF FromOrNew
<1> QED BY <1>1, <1>4, <1>6, <1>7

\* The number of whole frames in b (num_frames in tc_tx_thread).
LEMMA LenDiv ==
    ASSUME NEW n \in Nat \ {0}, NEW b \in Seq(Byte)
    PROVE  /\ Len(b) \in Nat /\ Len(b) \div n \in Nat /\ Len(b) % n \in 0 .. n - 1
           /\ Len(b) = (Len(b) \div n) * n + (Len(b) % n)
<1>1. PICK x \in Nat : x = Len(b)
  OBVIOUS
<1>2. x \div n \in Nat /\ x % n \in 0 .. n - 1 /\ x = n * (x \div n) + (x % n)
  BY DivMod, Zenon
<1>3. n * (x \div n) = (x \div n) * n
  BY <1>2
<1> QED BY <1>1, <1>2, <1>3, Zenon

\* A byte is its frame and its place.
LEMMA ByteIs ==
    ASSUME NEW x \in Byte, NEW a, NEW k, x[1] = a, x[2] = k
    PROVE  x = <<a, k>>
BY DEF Byte

\* The frames that tc_send_frames counts in b lie inside of it.
LEMMA FrameInside ==
    ASSUME NEW n \in Nat \ {0}, NEW b \in Seq(Byte), NEW k \in Nat, k < Len(b) \div n
    PROVE  k * n \in Nat /\ (k + 1) * n = k * n + n /\ k * n + n <= Len(b)
<1>1. PICK q \in Nat, r \in 0 .. n - 1 : q = Len(b) \div n /\ Len(b) = q * n + r
  BY LenDiv, Zenon
<1>2. PICK d \in Nat : q = k + 1 + d
  <2>1. q - (k + 1) \in Nat /\ q = k + 1 + (q - (k + 1))
    BY <1>1
  <2> QED BY <2>1, Zenon
<1>3. q * n = k * n + n + d * n /\ d * n \in Nat /\ k * n \in Nat /\ (k + 1) * n = k * n + n
  BY <1>2
<1> QED BY <1>1, <1>3

\* Frames taken from b begin with bytes of different frames, in order.
LEMMA FirstBytesRise ==
    ASSUME NEW n \in Nat \ {0}, NEW b \in Seq(Byte), Grouped(b, n),
           NEW k \in Nat, NEW m \in Nat, k < m, m < Len(b) \div n
    PROVE  b[k * n + 1][1] < b[m * n + 1][1]
<1>1. m * n \in Nat /\ m * n + n <= Len(b)
  BY FrameInside
<1>2. PICK d \in Nat : m = k + 1 + d
  <2>1. m - (k + 1) \in Nat /\ m = k + 1 + (m - (k + 1))
    OBVIOUS
  <2> QED BY <2>1, Zenon
<1>3. k * n \in Nat /\ k * n + n <= m * n
  <2>1. m * n = k * n + n + d * n /\ d * n \in Nat /\ k * n \in Nat
    BY <1>2
  <2> QED BY <2>1
<1>4. PICK x \in Nat, y \in Nat : x = Len(b) - (k * n + 1) /\ y = Len(b) - (m * n + 1) /\ y + n <= x
  <2>1. /\ Len(b) - (k * n + 1) \in Nat /\ Len(b) - (m * n + 1) \in Nat
        /\ (Len(b) - (m * n + 1)) + n <= Len(b) - (k * n + 1)
    BY <1>1, <1>3
  <2> QED BY <2>1, Zenon
<1>5. Frame(b, k * n + 1, n) > Frame(b, m * n + 1, n)
  BY <1>4, DivFar, Zenon DEF Frame
<1>6. k * n + 1 \in 1 .. Len(b) /\ m * n + 1 \in 1 .. Len(b)
  BY <1>1, <1>3
<1> QED BY <1>5, <1>6, Zenon DEF Grouped

\* n bytes taken from b.
LEMMA TakenLength ==
    ASSUME NEW b \in Seq(Byte), NEW p \in Nat, NEW n \in Nat, p + n <= Len(b)
    PROVE  SubSeq(b, p + 1, p + n) \in Seq(Byte) /\ Len(SubSeq(b, p + 1, p + n)) = n
OBVIOUS

\* The bytes of such a piece are those of the buffer, p places further on.
LEMMA TakenBytes ==
    ASSUME NEW b \in Seq(Byte), NEW p \in Nat, NEW n \in Nat, p + n <= Len(b)
    PROVE  \A j \in 1 .. n : SubSeq(b, p + 1, p + n)[j] = b[p + j] /\ p + j \in 1 .. Len(b)
OBVIOUS

\* What a frame taken from b consists of: n bytes, and of one frame when frames
\* fill b exactly.
LEMMA TakenFrame ==
    ASSUME NEW n \in Nat \ {0}, NEW b \in Seq(Byte), Placed(b, n), Grouped(b, n),
           NEW k \in Nat, k < Len(b) \div n,
           NEW f, f = Taken(b, n, k)
    PROVE  /\ f \in Seq(Byte) /\ Len(f) = n
           /\ k * n + 1 \in 1 .. Len(b) /\ f[1] = b[k * n + 1]
           /\ Len(b) % n = 0 => IsFrame(f, n, f[1][1])
<1>1. PICK p \in Nat : p = k * n /\ (k + 1) * n = p + n /\ p + n <= Len(b)
  BY FrameInside, Zenon
<1>2. f = SubSeq(b, p + 1, p + n)
  BY <1>1, Zenon DEF Taken
<1>5. \A i \in 1 .. Len(b) : b[i] \in Byte
  OBVIOUS
<1>3. /\ f \in Seq(Byte) /\ Len(f) = n
      /\ \A j \in 1 .. n : f[j] = b[p + j] /\ p + j \in 1 .. Len(b) /\ b[p + j] \in Byte
  <2>0. n \in Nat
    OBVIOUS
  <2>3. SubSeq(b, p + 1, p + n) \in Seq(Byte) /\ Len(SubSeq(b, p + 1, p + n)) = n
    BY <1>1, <2>0, TakenLength
  <2>1. f \in Seq(Byte) /\ Len(f) = n
    BY <1>2, <2>3, Zenon
  <2>4. \A j \in 1 .. n : SubSeq(b, p + 1, p + n)[j] = b[p + j] /\ p + j \in 1 .. Len(b)
    BY <1>1, <2>0, TakenBytes, ZenonT(40)
  <2>2. \A j \in 1 .. n : f[j] = b[p + j] /\ p + j \in 1 .. Len(b)
    BY <1>2, <2>4, Zenon
  <2> QED BY <1>5, <2>1, <2>2, Zenon
<1>4. f[1] = b[p + 1] /\ p + 1 \in 1 .. Len(b)
  <2>1. 1 \in 1 .. n
    OBVIOUS
  <2> QED BY <1>3, <2>1, Zenon
<1>8. ASSUME Len(b) % n = 0, NEW j \in 1 .. n
      PROVE  f[j] = <<f[1][1], j>>
  <2>1. PICK q \in Nat : Len(b) = q * n /\ q = Len(b) \div n
    <3>1. Len(b) \in Nat /\ Len(b) \div n \in Nat /\ Len(b) = (Len(b) \div n) * n + (Len(b) % n)
      BY LenDiv
    <3>2. Len(b) = (Len(b) \div n) * n
      BY <1>8, <3>1
    <3> QED BY <3>1, <3>2, Zenon
  <2>2. PICK d \in Nat : q = k + 1 + d
    <3>1. q - (k + 1) \in Nat /\ q = k + 1 + (q - (k + 1))
      BY <2>1
    <3> QED BY <3>1, Zenon
  <2>3. Len(b) = p + n + d * n /\ d * n \in Nat
    <3>1. q * n = k * n + n + d * n /\ d * n \in Nat
      BY <2>2
    <3> QED BY <1>1, <2>1, <3>1
  <2>4. ASSUME NEW i \in 1 .. n
        PROVE  Frame(b, p + i, n) = d /\ Place(b, p + i, n) = n - i
    <3>1. PICK r \in 0 .. n - 1 : r = n - i
      OBVIOUS
    <3>2. Len(b) - (p + i) = d * n + r
      BY <2>3, <3>1
    <3>3. (d * n + r) \div n = d /\ (d * n + r) % n = r
      BY DivModUnique, Zenon
    <3> QED BY <3>1, <3>2, <3>3, Zenon DEF Frame, Place
  <2>5. 1 \in 1 .. n
    OBVIOUS
  <2>6. b[p + j][1] = b[p + 1][1]
    <3>1. Frame(b, p + j, n) = Frame(b, p + 1, n)
      BY <2>4, <2>5, Zenon
    <3>2. p + j \in 1 .. Len(b) /\ p + 1 \in 1 .. Len(b)
      BY <1>3, <1>4
    <3> QED BY <3>1, <3>2, Zenon DEF Grouped
  <2>7. b[p + j][2] = j
    <3>1. b[p + j][2] = n - Place(b, p + j, n)
      BY <1>3, Zenon DEF Placed
    <3>2. Place(b, p + j, n) = n - j
      BY <2>4
    <3> QED BY <3>1, <3>2
  <2>8. b[p + j] \in Byte
    BY <1>3, Zenon
  <2>9. f[j] = b[p + j] /\ f[1] = b[p + 1]
    BY <1>3, <1>4
  <2>10. b[p + j] = <<b[p + 1][1], j>>
    BY <2>6, <2>7, <2>8, ByteIs, ZenonT(40)
  <2> QED BY <2>9, <2>10, Zenon
<1>9. Len(b) % n = 0 => IsFrame(f, n, f[1][1])
  BY <1>3, <1>8, Zenon DEF IsFrame
<1> QED BY <1>1, <1>3, <1>4, <1>9

---------------------------------------------------------------------------
\* The threads start with empty queues.
LEMMA InvInit == Init => Inv
<1> SUFFICES ASSUME Init PROVE Inv
  OBVIOUS
<1>0. FrameLen \in Nat \ {0} /\ BufferSize \in Nat /\ num_frames = 0
  <2>1. FrameLen \in Nat \ {0}
    BY MirrorPathAssumption DEF Init, FrameLen
  <2>2. 0 \div FrameLen = 0
    BY <2>1, DivModSmall
  <2> QED BY <2>1, <2>2, MirrorPathAssumption DEF Init, BufferSize, num_frames
<1>1. TypeInv
  <2>1. /\ wire = << >> /\ Len(wire) = 0 /\ mirror_buffer = << >> /\ received_frames = << >>
        /\ socket = << >> /\ batch = << >> /\ conf \in Configs /\ sent = 0
    BY DEF Init
  <2>2. /\ wire \in Seq(Seq(Byte)) /\ \A i \in 1 .. Len(wire) : Len(wire[i]) = FrameLen
        /\ mirror_buffer \in Seq(Byte) /\ received_frames \in Seq(Byte)
        /\ socket \in Seq(Packet) /\ batch \in Seq(Packet)
        /\ sent \in Nat /\ sent <= num_frames /\ Len(mirror_buffer) <= BufferSize
    BY <1>0, <2>1
  <2>3. /\ next \in Nat /\ rx_sequence_counter \in Nat /\ latest \in Int /\ latest >= -1
        /\ stat \in [received : Nat, out_of_order : Nat, sent : Nat]
    BY DEF Init
  <2>4. /\ stop \in BOOLEAN /\ rx \in {"loop", "recv", "process", "done"} /\ rx # "process"
        /\ tx \in {"loop", "send", "done"}
    BY Zenon DEF Init
  <2> QED BY <2>1, <2>2, <2>3, <2>4, Zenon DEF TypeInv
<1>2. ArrivalInv /\ CounterInv /\ SentInv
  BY DEF Init, ArrivalInv, CounterInv, SentInv, Rising, Above, Below, Follows
<1>3. BufferInv
  BY DEF Init, BufferInv, Placed, Grouped, NoLater
<1>4. WholeInv
  <2>1. 0 % FrameLen = 0
    BY <1>0, DivModSmall
  <2> QED BY <2>1 DEF Init, WholeInv
<1>5. WireInv
  BY DEF Init, WireInv
<1> QED BY <1>1, <1>2, <1>3, <1>4, <1>5 DEF Inv

\* ring_buffer_add of a frame newer than everything stored: the newest bytes.
LEMMA AddKeeps ==
    ASSUME NEW n \in Nat \ {0}, NEW b \in Seq(Byte), NEW f \in Seq(Byte), NEW seq \in Nat,
           IsFrame(f, n, seq), Placed(b, n), Grouped(b, n), Older(b, seq),
           NEW size \in Nat, NEW q,
           q = Kept(b \o f, size)
    PROVE  /\ q \in Seq(Byte) /\ Len(q) <= size
           /\ Placed(q, n) /\ Grouped(q, n) /\ FromOrNew(q, b, seq)
           /\ size % n = 0 /\ Len(b) % n = 0 => Len(q) % n = 0
<1>1. PICK c : c = b \o f
  BY Zenon
<1>2. /\ c \in Seq(Byte) /\ Len(c) = Len(b) + n
      /\ Placed(c, n) /\ Grouped(c, n) /\ FromOrNew(c, b, seq)
  BY <1>1, AppendKeeps, Zenon
<1>3. q = IF Len(c) > size THEN SubSeq(c, Len(c) - size + 1, Len(c)) ELSE c
  BY <1>1, Zenon DEF Kept
<1>4. PICK k \in 0 .. Len(c) : /\ q = SubSeq(c, k + 1, Len(c))
                               /\ k = 0 \/ Len(c) - k = size
                               /\ Len(c) - k <= size
  <2>1. CASE Len(c) > size
    <3>1. Len(c) - size \in 0 .. Len(c) /\ Len(c) - (Len(c) - size) = size /\ size <= size
      BY <1>2, <2>1
    <3>2. q = SubSeq(c, (Len(c) - size) + 1, Len(c))
      BY <1>3, <2>1, Zenon
    <3> QED BY <3>1, <3>2, Zenon
  <2>2. CASE ~(Len(c) > size)
    <3>1. 0 \in 0 .. Len(c) /\ Len(c) - 0 <= size /\ SubSeq(c, 0 + 1, Len(c)) = c
      BY <1>2, <2>2
    <3>2. q = c
      BY <1>3, <2>2, Zenon
    <3> QED BY <3>1, <3>2, Zenon
  <2> QED BY <2>1, <2>2, Zenon
<1>5. /\ q \in Seq(Byte) /\ Len(q) = Len(c) - k
      /\ Shifted(q, c, k) /\ Placed(q, n) /\ Grouped(q, n)
  <2>1. c \in Seq(Byte) /\ k \in 0 .. Len(c) /\ q = SubSeq(c, k + 1, Len(c))
    BY <1>2, <1>4
  <2> QED BY <1>2, <2>1, SuffixKeeps, Zenon
<1>6. FromOrNew(q, b, seq)
  <2> SUFFICES ASSUME NEW i \in 1 .. Len(q)
               PROVE  q[i][1] = seq \/ \E j \in 1 .. Len(b) : q[i] = b[j]
    BY Zenon DEF FromOrNew
  <2>1. k + i \in 1 .. Len(c) /\ q[i] = c[k + i]
    BY <1>5, Zenon DEF Shifted
  <2>2. c[k + i][1] = seq \/ \E j \in 1 .. Len(b) : c[k + i] = b[j]
    BY <1>2, <2>1, Zenon DEF FromOrNew
  <2> QED BY <2>1, <2>2, Zenon
<1>7. ASSUME size % n = 0, Len(b) % n = 0
      PROVE  Len(q) % n = 0
  <2>1. Len(b) \in Nat
    OBVIOUS
  <2>2. PICK x \in Nat : x = Len(b)
    BY <2>1, Zenon
  <2>3. (x + n) % n = x % n
    BY DivModShift, Zenon
  <2>4. Len(c) % n = 0
    BY <1>2, <1>7, <2>2, <2>3, Zenon
  <2>5. Len(q) = Len(c) \/ Len(q) = size
    <3>1. Len(q) = Len(c) - k /\ Len(c) \in Nat
      BY <1>2, <1>5
    <3> QED BY <1>4, <3>1
  <2> QED BY <1>7, <2>4, <2>5, Zenon
<1> QED BY <1>4, <1>5, <1>6, <1>7, Zenon

\* The same for an accepted frame (receive_frame), with the buffer of the code.
LEMMA AddFrame ==
    ASSUME TypeInv, BufferInv, NEW seq \in Nat, latest < seq,
           Queue!Add(SubSeq(Bytes(seq), 1, StoredLength))
    PROVE  /\ received_frames' = received_frames
           /\ mirror_buffer' \in Seq(Byte) /\ Len(mirror_buffer') <= BufferSize
           /\ Placed(mirror_buffer', FrameLen) /\ Grouped(mirror_buffer', FrameLen)
           /\ FromOrNew(mirror_buffer', mirror_buffer, seq)
           /\ BufferSize % FrameLen = 0 /\ Len(mirror_buffer) % FrameLen = 0
                => Len(mirror_buffer') % FrameLen = 0
<1>0. /\ conf \in Configs /\ mirror_buffer \in Seq(Byte) /\ latest \in Int
      /\ Placed(mirror_buffer, FrameLen) /\ Grouped(mirror_buffer, FrameLen)
      /\ \A i \in 1 .. Len(mirror_buffer) : mirror_buffer[i] \in Byte /\ mirror_buffer[i][1] <= latest
  BY SMTT(40) DEF TypeInv, BufferInv, NoLater
<1>1. PICK f : f = SubSeq(Bytes(seq), 1, StoredLength)
  BY Zenon
<1>2. /\ f \in Seq(Byte) /\ FrameLen \in Nat \ {0} /\ FrameLen <= MaxFrame
      /\ Len(f) = FrameLen /\ \A k \in 1 .. FrameLen : f[k] = <<seq, k>>
  BY <1>0, <1>1, FrameBytes, Zenon
<1>3. BufferSize \in Nat /\ Len(f) <= BufferSize
  <2>1. MaxFrame \in Nat /\ Fpc \in Nat \ {0}
    BY MirrorPathAssumption
  <2>2. MaxFrame * Fpc \in Nat /\ MaxFrame <= MaxFrame * Fpc
    BY <2>1
  <2>4. FrameLen \in Nat /\ FrameLen <= MaxFrame
    BY <1>2
  <2>5. PICK m \in Nat : m = MaxFrame * Fpc /\ MaxFrame <= m
    BY <2>2, Zenon
  <2>6. FrameLen <= m
    BY <2>1, <2>4, <2>5
  <2> QED BY <1>2, <2>5, <2>6, Zenon DEF BufferSize
<1>4. Older(mirror_buffer, seq) /\ IsFrame(f, FrameLen, seq)
  <2>1. Older(mirror_buffer, seq)
    <3> SUFFICES ASSUME NEW i \in 1 .. Len(mirror_buffer) PROVE mirror_buffer[i][1] < seq
      BY Zenon DEF Older
    <3>1. mirror_buffer[i] \in Nat \X Nat /\ mirror_buffer[i][1] <= latest
      BY <1>0, Zenon DEF Byte
    <3>2. mirror_buffer[i][1] \in Nat
      BY <3>1
    <3> QED BY <1>0, <3>1, <3>2
  <2> QED BY <1>2, <2>1, Zenon DEF IsFrame
<1>5. /\ received_frames' = received_frames
      /\ mirror_buffer' = Kept(mirror_buffer \o f, BufferSize)
  <2>1. ~(Len(f) > BufferSize)
    BY <1>2, <1>3
  <2> QED BY <1>1, <2>1, Zenon DEF Queue!Add, Queue!Newest, Kept
<1>6. PICK q : q = mirror_buffer'
  OBVIOUS
<1>7. /\ q \in Seq(Byte) /\ Len(q) <= BufferSize
      /\ Placed(q, FrameLen) /\ Grouped(q, FrameLen) /\ FromOrNew(q, mirror_buffer, seq)
      /\ BufferSize % FrameLen = 0 /\ Len(mirror_buffer) % FrameLen = 0 => Len(q) % FrameLen = 0
  <2>1. /\ FrameLen \in Nat \ {0} /\ mirror_buffer \in Seq(Byte) /\ f \in Seq(Byte)
        /\ Placed(mirror_buffer, FrameLen) /\ Grouped(mirror_buffer, FrameLen)
        /\ BufferSize \in Nat
    BY <1>0, <1>2, <1>3, Zenon
  <2>2. q = Kept(mirror_buffer \o f, BufferSize)
    BY <1>5, <1>6, Zenon
  <2>3. PICK n \in Nat \ {0}, b \in Seq(Byte), size \in Nat : n = FrameLen /\ b = mirror_buffer /\ size = BufferSize
    BY <2>1, Zenon
  <2>4. IsFrame(f, n, seq) /\ Placed(b, n) /\ Grouped(b, n) /\ Older(b, seq) /\ f \in Seq(Byte) /\ q = Kept(b \o f, size)
    BY <1>4, <2>1, <2>2, <2>3, Zenon
  <2>5. /\ q \in Seq(Byte) /\ Len(q) <= size
        /\ Placed(q, n) /\ Grouped(q, n) /\ FromOrNew(q, b, seq)
        /\ size % n = 0 /\ Len(b) % n = 0 => Len(q) % n = 0
    BY <2>3, <2>4, AddKeeps, SMTT(90)
  <2> QED BY <2>3, <2>5, Zenon
<1> QED BY <1>5, <1>6, <1>7, Zenon

\* Bytes and the first bytes of transmitted frames belong to a frame.
LEMMA ByteSeq ==
    ASSUME NEW b \in Seq(Byte)
    PROVE  \A i \in 1 .. Len(b) : b[i][1] \in Nat
<1> SUFFICES ASSUME NEW i \in 1 .. Len(b) PROVE b[i][1] \in Nat
  OBVIOUS
<1>1. b[i] \in Byte
  OBVIOUS
<1> QED BY <1>1 DEF Byte

\* A transmitted frame has a first byte, and that carries a sequence number.
LEMMA WireSeq ==
    ASSUME TypeInv
    PROVE  \A i \in 1 .. Len(wire) : wire[i][1][1] \in Nat
<1>0. conf \in Configs /\ wire \in Seq(Seq(Byte)) /\ \A i \in 1 .. Len(wire) : Len(wire[i]) = FrameLen
  BY DEF TypeInv
<1>1. FrameLen \in Nat \ {0}
  BY <1>0, MirrorPathAssumption DEF FrameLen
<1> SUFFICES ASSUME NEW i \in 1 .. Len(wire) PROVE wire[i][1][1] \in Nat
  OBVIOUS
<1>2. wire[i] \in Seq(Byte) /\ Len(wire[i]) = FrameLen
  BY <1>0
<1>3. 1 \in 1 .. Len(wire[i])
  BY <1>1, <1>2
<1> QED BY <1>2, <1>3, ByteSeq, Zenon

---------------------------------------------------------------------------
(***************************************************************************)
(* Steps                                                                   *)
(***************************************************************************)
buffers == <<latest, mirror_buffer, received_frames, sent, wire, tx, rx_sequence_counter, stat>>

\* Steps of the network and of the socket leave the buffers alone.
LEMMA Quiet ==
    ASSUME Inv, conf' = conf, UNCHANGED buffers
    PROVE  CounterInv' /\ BufferInv' /\ WholeInv' /\ WireInv' /\ SentInv'
<1>0. FrameLen' = FrameLen /\ BufferSize' = BufferSize /\ num_frames' = num_frames /\ CallsMayFail' = CallsMayFail
  BY DEF FrameLen, BufferSize, num_frames, buffers, CallsMayFail
<1>1. CounterInv' /\ SentInv'
  BY <1>0 DEF Inv, CounterInv, SentInv, buffers
<1>2. BufferInv'
  BY <1>0, Zenon DEF Inv, BufferInv, buffers
<1>3. WholeInv'
  BY <1>0, Zenon DEF Inv, WholeInv, Bytes, buffers
<1>4. WireInv'
  BY <1>0, Zenon DEF Inv, WireInv, buffers
<1> QED BY <1>1, <1>2, <1>3, <1>4

\* Sequence numbers are numbers.
LEMMA PacketSeq ==
    ASSUME NEW s \in Seq(Packet)
    PROVE  \A i \in 1 .. Len(s) : s[i].seq \in Nat
<1> SUFFICES ASSUME NEW i \in 1 .. Len(s) PROVE s[i].seq \in Nat
  OBVIOUS
<1>1. s[i] \in Packet
  OBVIOUS
<1> QED BY <1>1 DEF Packet

\* The stream goes on.
LEMMA BelowMono ==
    ASSUME NEW s \in Seq(Packet), NEW m \in Nat, NEW n \in Nat, m <= n, Below(s, m)
    PROVE  Below(s, n)
<1> SUFFICES ASSUME NEW i \in 1 .. Len(s), s[i].valid PROVE s[i].seq < n
  BY DEF Below
<1>1. s[i].seq \in Nat /\ s[i].seq < m
  BY PacketSeq DEF Below
<1> QED BY <1>1

\* A frame arrives.
LEMMA Appended ==
    ASSUME NEW s \in Seq(Packet), NEW p \in Packet, NEW t, t = Append(s, p)
    PROVE  /\ t \in Seq(Packet)
           /\ \A i \in 1 .. Len(t) : \/ i \in 1 .. Len(s) /\ t[i] = s[i]
                                     \/ i = Len(s) + 1 /\ t[i] = p
OBVIOUS

\* The rest of a batch after its first frame.
LEMMA TailKeeps ==
    ASSUME NEW b \in Seq(Packet), b # << >>, NEW t, t = Tail(b), NEW place,
           place = IF Len(b) = 1 THEN "recv" ELSE "process"
    PROVE  /\ t \in Seq(Packet) /\ place \in {"loop", "recv", "process", "done"}
           /\ place = "process" => t # << >>
           /\ Rest(t, b)
           /\ Rising(b) => Rising(t)
           /\ \A n : Above(b, n) => Above(t, n)
           /\ \A n : Below(b, n) => Below(t, n)
           /\ \A s : Follows(b, s) => Follows(t, s)
<1>1. t \in Seq(Packet) /\ Len(t) = Len(b) - 1 /\ Len(b) \in Nat \ {0}
  OBVIOUS
<1>2. \A i \in 1 .. Len(t) : 1 < i + 1 /\ i + 1 \in 1 .. Len(b) /\ t[i] = b[i + 1]
  BY <1>1
<1>3. place = "process" => t # << >>
  <2>1. place = "process" => Len(b) # 1
    BY Zenon
  <2>2. Len(b) # 1 => Len(t) # 0
    BY <1>1
  <2> QED BY <2>1, <2>2, Zenon
<1>4. Rising(b) => Rising(t)
  <2> SUFFICES ASSUME Rising(b), NEW i \in 1 .. Len(t), NEW j \in 1 .. Len(t),
                      i < j, t[i].valid, t[j].valid
               PROVE  t[i].seq < t[j].seq
    BY DEF Rising
  <2>1. i + 1 \in 1 .. Len(b) /\ t[i] = b[i + 1] /\ j + 1 \in 1 .. Len(b) /\ t[j] = b[j + 1]
    BY <1>2, Zenon
  <2>2. i + 1 < j + 1
    BY <1>1
  <2> QED BY <2>1, <2>2, Zenon DEF Rising
<1>5. \A n : (Above(b, n) => Above(t, n)) /\ (Below(b, n) => Below(t, n))
  BY <1>2, Zenon DEF Above, Below
<1>6. \A s : Follows(b, s) => Follows(t, s)
  BY <1>2, Zenon DEF Follows
<1>7. place \in {"loop", "recv", "process", "done"}
  OBVIOUS
<1>8. Rest(t, b)
  BY <1>2, Zenon DEF Rest
<1> QED BY <1>1, <1>3, <1>4, <1>5, <1>6, <1>7, <1>8, Zenon

\* What holds of the types when the buffers are left alone.
LEMMA QuietType ==
    ASSUME Inv, conf' = conf, UNCHANGED buffers,
           next' \in Nat, socket' \in Seq(Packet), stop' \in BOOLEAN,
           rx' \in {"loop", "recv", "process", "done"}, batch' \in Seq(Packet),
           rx' = "process" => batch' # << >>
    PROVE  TypeInv'
<1>0. FrameLen' = FrameLen /\ BufferSize' = BufferSize /\ num_frames' = num_frames
  BY DEF FrameLen, BufferSize, num_frames, buffers
<1> QED BY <1>0, Zenon DEF Inv, TypeInv, buffers

\* A step of the network, of the Rx thread before it looks at a frame, or of the
\* termination handler.
LEMMA ArrivalStep ==
    ASSUME Inv, Net \/ Stop \/ RxWake \/ RxSleepError \/ RxRecv \/ RxRecvError \/ RxReject
    PROVE  Inv'
<1>0. /\ conf \in Configs /\ next \in Nat /\ socket \in Seq(Packet) /\ stop \in BOOLEAN
      /\ rx \in {"loop", "recv", "process", "done"} /\ batch \in Seq(Packet)
      /\ rx = "process" => batch # << >>
      /\ latest \in Int /\ Fpc \in Nat \ {0}
      /\ latest < next
      /\ Rising(socket) /\ Above(socket, latest) /\ Below(socket, next)
      /\ Rising(batch) /\ Above(batch, latest) /\ Below(batch, next)
      /\ Follows(batch, socket)
  BY MirrorPathAssumption DEF Inv, TypeInv, ArrivalInv
<1>1. conf' = conf /\ UNCHANGED buffers
  BY DEF Net, NetDeliver, NetLose, NetForeign, Stop, RxWake, RxSleepError, RxRecv, RxRecvError, RxReject,
         buffers, rxvars, txvars, netvars
<1>2. SUFFICES /\ next' \in Nat /\ socket' \in Seq(Packet) /\ stop' \in BOOLEAN
               /\ rx' \in {"loop", "recv", "process", "done"} /\ batch' \in Seq(Packet)
               /\ rx' = "process" => batch' # << >>
               /\ latest < next'
               /\ Rising(socket') /\ Above(socket', latest) /\ Below(socket', next')
               /\ Rising(batch') /\ Above(batch', latest) /\ Below(batch', next')
               /\ Follows(batch', socket')
  <2>1. latest' = latest
    BY <1>1 DEF buffers
  <2>2. TypeInv'
    BY <1>1, <1>2, QuietType, Zenon
  <2>3. ArrivalInv'
    BY <1>2, <2>1, Zenon DEF ArrivalInv
  <2> QED BY <1>1, <2>2, <2>3, Quiet, Zenon DEF Inv
<1>3. CASE Stop \/ RxWake \/ RxSleepError \/ RxRecvError
  <2>1. /\ UNCHANGED <<next, socket, batch>> /\ stop' \in BOOLEAN
        /\ rx' \in {"loop", "recv", "done"} \/ rx' = rx
    BY <1>0, <1>3, ZenonT(40) DEF Stop, RxWake, RxSleepError, RxRecvError, rxvars, netvars
  <2>2. rx' \in {"loop", "recv", "process", "done"} /\ (rx' = "process" => rx = "process")
    BY <1>0, <2>1
  <2> QED BY <1>0, <2>1, <2>2, Zenon
<1>4. CASE NetLose
  <2>1. UNCHANGED <<socket, batch, stop, rx>> /\ next' = next + 1
    BY <1>4 DEF NetLose, rxvars
  <2>2. next' \in Nat /\ next <= next' /\ latest < next'
    BY <1>0, <2>1
  <2>3. Below(socket, next') /\ Below(batch, next') /\ latest < next' /\ next' \in Nat
    BY <1>0, <2>2, BelowMono, Zenon
  <2> QED BY <1>0, <2>1, <2>3, Zenon
<1>5. CASE NetDeliver \/ NetForeign
  <2>1. PICK p \in Packet :
           /\ socket' = Append(socket, p)
           /\ p.valid => p.seq = next /\ next' = next + 1
           /\ next' = next \/ next' = next + 1
           /\ UNCHANGED <<batch, stop, rx>>
    <3>1. CASE NetDeliver
      <4>1. [seq |-> next, valid |-> TRUE] \in Packet
        BY <1>0 DEF Packet
      <4> QED BY <3>1, <4>1 DEF NetDeliver, rxvars
    <3>2. CASE NetForeign
      <4>1. [seq |-> 0, valid |-> FALSE] \in Packet
        BY DEF Packet
      <4> QED BY <3>2, <4>1 DEF NetForeign, rxvars
    <3> QED BY <1>5, <3>1, <3>2
  <2>2. /\ socket' \in Seq(Packet)
        /\ \A i \in 1 .. Len(socket') : \/ i \in 1 .. Len(socket) /\ socket'[i] = socket[i]
                                        \/ i = Len(socket) + 1 /\ socket'[i] = p
    BY <1>0, <2>1, Appended
  <2>3. next' \in Nat /\ next <= next' /\ latest < next'
    BY <1>0, <2>1
  <2>4. Below(batch, next') /\ Below(socket, next')
    BY <1>0, <2>3, BelowMono, Zenon
  <2>9. p.valid => next < next' /\ latest < p.seq
    BY <1>0, <2>1, <2>3
  <2>5. Below(socket', next')
    BY <2>1, <2>2, <2>4, <2>9, Zenon DEF Below
  <2>6. Above(socket', latest)
    BY <1>0, <2>1, <2>2, <2>9, Zenon DEF Above
  <2>7. Rising(socket')
    <3> SUFFICES ASSUME NEW i \in 1 .. Len(socket'), NEW j \in 1 .. Len(socket'),
                        i < j, socket'[i].valid, socket'[j].valid
                 PROVE  socket'[i].seq < socket'[j].seq
      BY DEF Rising
    <3>1. i \in 1 .. Len(socket) /\ socket'[i] = socket[i]
      BY <1>0, <2>1, <2>2
    <3>2. CASE j \in 1 .. Len(socket) /\ socket'[j] = socket[j]
      BY <1>0, <3>1, <3>2, Zenon DEF Rising
    <3>3. CASE socket'[j] = p
      BY <1>0, <2>1, <3>1, <3>3, Zenon DEF Below
    <3> QED BY <2>2, <3>2, <3>3
  <2>8. Follows(batch, socket')
    <3> SUFFICES ASSUME NEW i \in 1 .. Len(batch), NEW j \in 1 .. Len(socket'),
                        batch[i].valid, socket'[j].valid
                 PROVE  batch[i].seq < socket'[j].seq
      BY DEF Follows
    <3>2. CASE j \in 1 .. Len(socket) /\ socket'[j] = socket[j]
      BY <1>0, <3>2, Zenon DEF Follows
    <3>3. CASE socket'[j] = p
      BY <1>0, <2>1, <3>3, Zenon DEF Below
    <3> QED BY <2>2, <3>2, <3>3
  <2> QED BY <1>0, <2>1, <2>2, <2>3, <2>4, <2>5, <2>6, <2>7, <2>8, Zenon
<1>6. CASE RxRecv
  <2>1. PICK n \in 0 .. Len(socket) :
           /\ socket = << >> \/ n > 0
           /\ rx' = IF socket = << >> THEN "loop" ELSE "process"
           /\ batch' = SubSeq(socket, 1, n) /\ socket' = SubSeq(socket, n + 1, Len(socket))
           /\ UNCHANGED <<next, stop>>
    <3>1. /\ Len(socket) \in 0 .. Len(socket) /\ (Len(socket) >= Fpc => Fpc \in 0 .. Len(socket))
          /\ Fpc > 0 /\ (socket = << >> \/ Len(socket) > 0)
      BY <1>0
    <3>2. \/ ~(Len(socket) < Fpc) /\ Len(socket) >= Fpc
          \/ Len(socket) < Fpc
      BY <1>0
    <3>3. \E n \in {Len(socket), Fpc} :
             /\ n = IF Len(socket) < Fpc THEN Len(socket) ELSE Fpc
             /\ rx' = IF socket = << >> THEN "loop" ELSE "process"
             /\ batch' = SubSeq(socket, 1, n) /\ socket' = SubSeq(socket, n + 1, Len(socket))
             /\ UNCHANGED <<next, stop>>
      BY <1>6, Zenon DEF RxRecv
    <3> QED BY <1>0, <3>1, <3>2, <3>3, Zenon
  <2>2. /\ batch' \in Seq(Packet) /\ Len(batch') = n
        /\ \A i \in 1 .. Len(batch') : i \in 1 .. Len(socket) /\ batch'[i] = socket[i]
    BY <1>0, <2>1
  <2>3. /\ socket' \in Seq(Packet) /\ Len(socket') = Len(socket) - n
        /\ \A i \in 1 .. Len(socket') : n + i \in 1 .. Len(socket) /\ socket'[i] = socket[n + i]
    BY <1>0, <2>1
  <2>4. rx' = "process" => batch' # << >>
    BY <2>1, <2>2
  <2>5. Above(batch', latest) /\ Below(batch', next) /\ Above(socket', latest) /\ Below(socket', next)
    BY <1>0, <2>2, <2>3, Zenon DEF Above, Below
  <2>6. Rising(batch')
    BY <1>0, <2>2, Zenon DEF Rising
  <2>7. Rising(socket')
    <3> SUFFICES ASSUME NEW i \in 1 .. Len(socket'), NEW j \in 1 .. Len(socket'),
                        i < j, socket'[i].valid, socket'[j].valid
                 PROVE  socket'[i].seq < socket'[j].seq
      BY DEF Rising
    <3>1. /\ n + i \in 1 .. Len(socket) /\ socket'[i] = socket[n + i]
          /\ n + j \in 1 .. Len(socket) /\ socket'[j] = socket[n + j]
      BY <2>3, Zenon
    <3>2. n + i < n + j
      BY <2>1, <2>3
    <3> QED BY <1>0, <3>1, <3>2, Zenon DEF Rising
  <2>8. Follows(batch', socket')
    <3> SUFFICES ASSUME NEW i \in 1 .. Len(batch'), NEW j \in 1 .. Len(socket'),
                        batch'[i].valid, socket'[j].valid
                 PROVE  batch'[i].seq < socket'[j].seq
      BY DEF Follows
    <3>1. /\ i \in 1 .. Len(socket) /\ batch'[i] = socket[i]
          /\ n + j \in 1 .. Len(socket) /\ socket'[j] = socket[n + j]
      BY <2>2, <2>3, Zenon
    <3>2. i < n + j
      BY <2>1, <2>2, <2>3
    <3> QED BY <1>0, <3>1, <3>2, Zenon DEF Rising
  <2>9. rx' \in {"loop", "process"}
    BY <2>1
  <2> QED BY <1>0, <2>1, <2>2, <2>3, <2>4, <2>5, <2>6, <2>7, <2>8, <2>9, Zenon
<1>7. CASE RxReject
  <2>1. /\ batch # << >> /\ batch' = Tail(batch)
        /\ rx' = (IF Len(batch) = 1 THEN "recv" ELSE "process")
        /\ UNCHANGED <<next, socket, stop>>
    BY <1>0, <1>7 DEF RxReject, AfterFrame, netvars
  <2> QED BY <1>0, <2>1, TailKeeps, Zenon
<1> QED BY <1>3, <1>4, <1>5, <1>6, <1>7 DEF Net

\* stat_frame_received, with d out of order errors.
LEMMA Counted ==
    ASSUME NEW s \in [received : Nat, out_of_order : Nat, sent : Nat], NEW d \in Nat,
           NEW t, t = [s EXCEPT !.received = @ + 1, !.out_of_order = @ + d]
    PROVE  /\ s.received \in Nat /\ s.out_of_order \in Nat
           /\ t \in [received : Nat, out_of_order : Nat, sent : Nat]
           /\ t.sent = s.sent /\ t.received = s.received + 1
           /\ t.out_of_order = s.out_of_order + d
<1>1. s.received \in Nat /\ s.out_of_order \in Nat /\ s.sent \in Nat
  OBVIOUS
<1>2. t = [received |-> s.received + 1, out_of_order |-> s.out_of_order + d, sent |-> s.sent]
  BY Zenon
<1> QED BY <1>1, <1>2

\* The Rx thread accepts the first frame of its batch.
LEMMA AcceptStep ==
    ASSUME Inv, RxAccept
    PROVE  Inv'
<1>0. /\ conf \in Configs /\ next \in Nat /\ socket \in Seq(Packet) /\ stop \in BOOLEAN
      /\ batch \in Seq(Packet) /\ latest \in Int /\ rx_sequence_counter \in Nat
      /\ mirror_buffer \in Seq(Byte) /\ received_frames \in Seq(Byte) /\ wire \in Seq(Seq(Byte))
      /\ stat \in [received : Nat, out_of_order : Nat, sent : Nat]
      /\ TypeInv /\ BufferInv
  BY DEF Inv, TypeInv
<1>1. PICK seq : seq = Head(batch).seq
  OBVIOUS
<1>2. /\ rx = "process" /\ Head(batch).valid
      /\ stat' = [stat EXCEPT !.received = @ + 1,
                              !.out_of_order = @ + (IF seq # rx_sequence_counter THEN 1 ELSE 0)]
      /\ rx_sequence_counter' = rx_sequence_counter + (IF seq # rx_sequence_counter THEN 2 ELSE 1)
      /\ latest' = seq
      /\ Queue!Add(SubSeq(Bytes(seq), 1, StoredLength))
      /\ rx' = (IF Len(batch) = 1 THEN "recv" ELSE "process")
      /\ batch' = Tail(batch)
      /\ UNCHANGED <<conf, next, socket, stop, tx, sent, wire>>
  BY <1>1, Zenon DEF RxAccept, Expected, AfterFrame, netvars
<1>3. batch # << >> /\ 1 \in 1 .. Len(batch) /\ Head(batch) = batch[1]
  <2>1. batch # << >>
    BY <1>2 DEF Inv, TypeInv
  <2> QED BY <1>0, <2>1
<1>4. seq \in Nat /\ latest < seq /\ seq < next
  <2>1. seq \in Nat
    BY <1>0, <1>1, <1>3, PacketSeq, Zenon
  <2>2. Above(batch, latest) /\ Below(batch, next)
    BY DEF Inv, ArrivalInv
  <2> QED BY <1>1, <1>2, <1>3, <2>1, <2>2, Zenon DEF Above, Below
<1>5. /\ received_frames' = received_frames
      /\ mirror_buffer' \in Seq(Byte) /\ Len(mirror_buffer') <= BufferSize
      /\ Placed(mirror_buffer', FrameLen) /\ Grouped(mirror_buffer', FrameLen)
      /\ FromOrNew(mirror_buffer', mirror_buffer, seq)
      /\ BufferSize % FrameLen = 0 /\ Len(mirror_buffer) % FrameLen = 0
           => Len(mirror_buffer') % FrameLen = 0
  BY <1>0, <1>2, <1>4, AddFrame, Zenon
<1>6. /\ FrameLen' = FrameLen /\ BufferSize' = BufferSize /\ num_frames' = num_frames
      /\ CallsMayFail' = CallsMayFail
  BY <1>2, <1>5 DEF FrameLen, BufferSize, num_frames, CallsMayFail
<1>7. /\ batch' \in Seq(Packet) /\ rx' \in {"loop", "recv", "process", "done"}
      /\ rx' = "process" => batch' # << >>
      /\ Rest(batch', batch)
      /\ Rising(batch) => Rising(batch')
      /\ Below(batch, next) => Below(batch', next)
      /\ Follows(batch, socket) => Follows(batch', socket)
  <2>1. /\ batch \in Seq(Packet) /\ batch # << >> /\ batch' = Tail(batch)
        /\ rx' = (IF Len(batch) = 1 THEN "recv" ELSE "process")
    BY <1>0, <1>2, <1>3, Zenon
  <2> QED BY <2>1, TailKeeps, Zenon
<1>8. /\ stat' \in [received : Nat, out_of_order : Nat, sent : Nat]
      /\ stat'.sent = stat.sent
      /\ rx_sequence_counter' \in Nat
      /\ CounterInv'
  <2>1. rx_sequence_counter = stat.received + stat.out_of_order /\ rx_sequence_counter <= latest + 1
    BY DEF Inv, CounterInv
  <2>2. PICK d \in {0, 1} : d = IF seq # rx_sequence_counter THEN 1 ELSE 0
    BY Zenon
  <2>3. /\ rx_sequence_counter' = rx_sequence_counter + 1 + d
        /\ stat' = [stat EXCEPT !.received = @ + 1, !.out_of_order = @ + d]
    <3>1. CASE seq = rx_sequence_counter
      BY <1>0, <1>2, <2>2, <3>1
    <3>2. CASE seq # rx_sequence_counter
      BY <1>0, <1>2, <2>2, <3>2, SMTT(40)
    <3> QED BY <3>1, <3>2
  <2>4. /\ stat.received \in Nat /\ stat.out_of_order \in Nat
        /\ stat' \in [received : Nat, out_of_order : Nat, sent : Nat]
        /\ stat'.sent = stat.sent /\ stat'.received = stat.received + 1
        /\ stat'.out_of_order = stat.out_of_order + d
    <3>1. stat \in [received : Nat, out_of_order : Nat, sent : Nat] /\ d \in Nat
      BY <1>0, <2>2
    <3> QED BY <2>3, <3>1, Counted, Zenon
  <2>5. d = 0 => seq = rx_sequence_counter
    BY <2>2
  <2>6. rx_sequence_counter' = stat'.received + stat'.out_of_order
    BY <2>1, <2>2, <2>3, <2>4
  <2>7. rx_sequence_counter' <= seq + 1 /\ rx_sequence_counter' \in Nat
    <3>1. rx_sequence_counter \in Nat /\ latest \in Int
      BY <1>0
    <3> QED BY <1>4, <2>1, <2>2, <2>3, <2>5, <3>1
  <2> QED BY <1>2, <2>4, <2>6, <2>7, Zenon DEF CounterInv
<1>9. TypeInv'
  <2>1. latest' \in Int /\ latest' >= -1
    BY <1>2, <1>4
  <2> QED BY <1>2, <1>5, <1>6, <1>7, <1>8, <2>1, Zenon DEF Inv, TypeInv
<1>10. ArrivalInv'
  <2>1. /\ Rising(socket) /\ Above(socket, latest) /\ Below(socket, next)
        /\ Rising(batch) /\ Below(batch, next) /\ Follows(batch, socket)
    BY DEF Inv, ArrivalInv
  <2>2. Above(socket, seq)
    BY <1>1, <1>2, <1>3, <2>1, Zenon DEF Follows, Above
  <2>3. Above(batch', seq)
    <3> SUFFICES ASSUME NEW i \in 1 .. Len(batch'), batch'[i].valid PROVE seq < batch'[i].seq
      BY Zenon DEF Above
    <3>1. 1 < i + 1 /\ i + 1 \in 1 .. Len(batch) /\ batch'[i] = batch[i + 1]
      BY <1>7, Zenon DEF Rest
    <3>2. batch[1].valid /\ seq = batch[1].seq
      BY <1>1, <1>2, <1>3
    <3> QED BY <1>3, <2>1, <3>1, <3>2, Zenon DEF Rising
  <2> QED BY <1>2, <1>4, <1>7, <2>1, <2>2, <2>3, Zenon DEF ArrivalInv
<1>11. \A m \in Nat : m <= latest => m < seq /\ m <= seq
  BY <1>0, <1>4
<1>12. /\ \A i \in 1 .. Len(mirror_buffer) : mirror_buffer[i][1] \in Nat
       /\ \A i \in 1 .. Len(received_frames) : received_frames[i][1] \in Nat
  BY <1>0, ByteSeq, SMTT(40)
<1>13. BufferInv'
  <2>1. /\ NoLater(mirror_buffer, latest) /\ NoLater(received_frames, latest)
        /\ Placed(received_frames, FrameLen) /\ Grouped(received_frames, FrameLen)
        /\ \A i \in 1 .. Len(received_frames), j \in 1 .. Len(mirror_buffer) :
              received_frames[i][1] < mirror_buffer[j][1]
    BY DEF Inv, BufferInv
  <2>2. NoLater(received_frames, seq)
    BY <1>11, <1>12, <2>1, Zenon DEF NoLater
  <2>3. NoLater(mirror_buffer', seq)
    <3>1. seq <= seq
      BY <1>4
    <3> QED BY <1>5, <1>11, <1>12, <2>1, <3>1, Zenon DEF NoLater, FromOrNew
  <2>4. \A i \in 1 .. Len(received_frames), j \in 1 .. Len(mirror_buffer') :
           received_frames[i][1] < mirror_buffer'[j][1]
    BY <1>5, <1>11, <1>12, <2>1, Zenon DEF NoLater, FromOrNew
  <2> QED BY <1>2, <1>5, <1>6, <2>1, <2>2, <2>3, <2>4, Zenon DEF BufferInv
<1>14. WholeInv'
  BY <1>2, <1>5, <1>6, Zenon DEF Inv, WholeInv, Bytes
<1>15. WireInv'
  <2>1. \A i \in 1 .. Len(wire) : wire[i][1][1] \in Nat
    BY <1>0, WireSeq DEF Inv
  <2>2. \A i \in 1 .. Len(wire) : wire[i][1][1] <= seq /\ wire[i][1][1] < seq
    BY <1>11, <2>1, Zenon DEF Inv, WireInv
  <2>3. \A i \in 1 .. Len(wire), j \in 1 .. Len(mirror_buffer') :
           wire[i][1][1] < mirror_buffer'[j][1]
    BY <1>5, <2>2, Zenon DEF Inv, WireInv, FromOrNew
  <2> QED BY <1>2, <1>5, <1>6, <2>2, <2>3, Zenon DEF Inv, WireInv
<1>16. SentInv'
  BY <1>2, <1>6, <1>8, Zenon DEF Inv, SentInv
<1> QED BY <1>8, <1>9, <1>10, <1>13, <1>14, <1>15, <1>16, Zenon DEF Inv

\* The Tx thread ends, or a call of it fails.
LEMMA TxQuietStep ==
    ASSUME Inv, TxExit \/ TxSendError
    PROVE  Inv'
<1>1. /\ tx' \in {"loop", "done"}
      /\ tx' = "loop" => CallsMayFail
      /\ UNCHANGED <<conf, next, socket, stop, rx, batch, rx_sequence_counter, latest, mirror_buffer,
                     received_frames, sent, wire, stat>>
      /\ tx = "loop" \/ CallsMayFail
  BY DEF TxExit, TxSendError, netvars, rxvars
<1>2. /\ FrameLen' = FrameLen /\ BufferSize' = BufferSize /\ num_frames' = num_frames
      /\ CallsMayFail' = CallsMayFail
  BY <1>1 DEF FrameLen, BufferSize, num_frames, CallsMayFail
<1>3. TypeInv'
  <2>1. tx' \in {"loop", "send", "done"}
    BY <1>1
  <2> QED BY <1>1, <1>2, <2>1, Zenon DEF Inv, TypeInv
<1>4. ArrivalInv' /\ CounterInv' /\ BufferInv'
  BY <1>1, <1>2, Zenon DEF Inv, ArrivalInv, CounterInv, BufferInv
<1>5. WholeInv'
  BY <1>1, <1>2, Zenon DEF Inv, WholeInv, Bytes
<1>6. tx' # "send"
  BY <1>1
<1>7. WireInv'
  BY <1>1, <1>2, <1>6, Zenon DEF Inv, WireInv
<1>8. SentInv'
  <2>1. sent \in Nat /\ stat.sent \in Nat /\ Len(wire) \in Nat
    BY DEF Inv, TypeInv
  <2>2. CASE tx = "loop"
    BY <1>1, <1>2, <1>6, <2>2, Zenon DEF Inv, SentInv
  <2>3. CASE CallsMayFail
    BY <1>1, <1>2, <1>6, <2>1, <2>3 DEF Inv, SentInv
  <2> QED BY <1>1, <2>2, <2>3
<1> QED BY <1>3, <1>4, <1>5, <1>7, <1>8, Zenon DEF Inv

\* The Tx thread has sent everything and counts it.
LEMMA DoneStep ==
    ASSUME Inv, TxDone
    PROVE  Inv'
<1>1. /\ tx = "send" /\ sent = num_frames /\ tx' = "loop"
      /\ stat' = [stat EXCEPT !.sent = @ + num_frames]
      /\ UNCHANGED <<conf, next, socket, stop, rx, batch, rx_sequence_counter, latest, mirror_buffer,
                     received_frames, sent, wire>>
  BY DEF TxDone, netvars, rxvars
<1>2. /\ FrameLen' = FrameLen /\ BufferSize' = BufferSize /\ num_frames' = num_frames
      /\ CallsMayFail' = CallsMayFail
  BY <1>1 DEF FrameLen, BufferSize, num_frames, CallsMayFail
<1>3. /\ stat' \in [received : Nat, out_of_order : Nat, sent : Nat]
      /\ stat'.sent = stat.sent + sent /\ stat'.received = stat.received
      /\ stat'.out_of_order = stat.out_of_order
  <2>1. stat \in [received : Nat, out_of_order : Nat, sent : Nat] /\ sent \in Nat
    BY DEF Inv, TypeInv
  <2>2. stat' = [stat EXCEPT !.sent = @ + sent]
    BY <1>1
  <2> QED BY <2>1, <2>2
<1>4. TypeInv'
  <2>1. tx' \in {"loop", "send", "done"}
    BY <1>1
  <2> QED BY <1>1, <1>2, <1>3, <2>1, Zenon DEF Inv, TypeInv
<1>5. ArrivalInv' /\ CounterInv' /\ BufferInv'
  BY <1>1, <1>2, <1>3, Zenon DEF Inv, ArrivalInv, CounterInv, BufferInv
<1>6. WholeInv'
  BY <1>1, <1>2, Zenon DEF Inv, WholeInv, Bytes
<1>7. tx' # "send"
  BY <1>1
<1>8. WireInv'
  BY <1>1, <1>2, <1>7, Zenon DEF Inv, WireInv
<1>9. SentInv'
  <2>1. /\ sent \in Nat /\ stat.sent \in Nat /\ Len(wire) \in Nat
        /\ stat.sent + sent <= Len(wire) /\ (~CallsMayFail => stat.sent + sent = Len(wire))
    BY <1>1 DEF Inv, TypeInv, SentInv
  <2> QED BY <1>1, <1>2, <1>3, <1>7, <2>1 DEF SentInv
<1> QED BY <1>4, <1>5, <1>6, <1>8, <1>9, Zenon DEF Inv

\* The Tx thread fetches everything that is stored.
LEMMA FetchStep ==
    ASSUME Inv, TxFetch
    PROVE  Inv'
<1>0. /\ conf \in Configs /\ mirror_buffer \in Seq(Byte) /\ Len(mirror_buffer) <= BufferSize
      /\ BufferSize \in Nat /\ FrameLen \in Nat \ {0}
  BY MirrorPathAssumption DEF Inv, TypeInv, BufferSize, FrameLen
<1>1. /\ tx = "loop" /\ tx' = "send" /\ sent' = 0
      /\ UNCHANGED <<conf, next, socket, stop, rx, batch, rx_sequence_counter, latest, wire, stat>>
  BY DEF TxFetch, netvars, rxvars
<1>2. received_frames' = mirror_buffer /\ mirror_buffer' = << >>
  <2>1. Queue!Granted(mirror_buffer, BufferSize) = Len(mirror_buffer)
    BY <1>0 DEF Queue!Granted
  <2>2. /\ received_frames' = SubSeq(mirror_buffer, 1, Len(mirror_buffer))
        /\ mirror_buffer' = SubSeq(mirror_buffer, Len(mirror_buffer) + 1, Len(mirror_buffer))
    BY <2>1, Zenon DEF TxFetch, Queue!Fetch
  <2> QED BY <1>0, <2>2
<1>3. FrameLen' = FrameLen /\ BufferSize' = BufferSize /\ CallsMayFail' = CallsMayFail
  BY <1>1 DEF FrameLen, BufferSize, CallsMayFail
<1>4. num_frames' = Len(mirror_buffer) \div FrameLen /\ num_frames' \in Nat
  <2>1. Len(mirror_buffer) \div FrameLen \in Nat
    BY <1>0, LenDiv, Zenon
  <2> QED BY <1>2, <1>3, <2>1 DEF num_frames
<1>5. Len(mirror_buffer') = 0 /\ mirror_buffer' \in Seq(Byte) /\ 1 .. Len(mirror_buffer') = {}
  BY <1>2
<1>6. TypeInv'
  <2>1. sent' \in Nat /\ sent' <= num_frames' /\ Len(mirror_buffer') <= BufferSize
    BY <1>0, <1>1, <1>4, <1>5
  <2>2. tx' \in {"loop", "send", "done"}
    BY <1>1
  <2> QED BY <1>1, <1>2, <1>3, <1>5, <2>1, <2>2, Zenon DEF Inv, TypeInv
<1>7. ArrivalInv' /\ CounterInv'
  BY <1>1, Zenon DEF Inv, ArrivalInv, CounterInv
<1>8. BufferInv'
  <2>1. Placed(mirror_buffer', FrameLen) /\ Grouped(mirror_buffer', FrameLen) /\ NoLater(mirror_buffer', latest)
    BY <1>5, Zenon DEF Placed, Grouped, NoLater
  <2>2. /\ Placed(received_frames', FrameLen) /\ Grouped(received_frames', FrameLen)
        /\ NoLater(received_frames', latest)
    BY <1>2, Zenon DEF Inv, BufferInv
  <2> QED BY <1>1, <1>3, <1>5, <2>1, <2>2, Zenon DEF BufferInv
<1>9. WholeInv'
  <2>1. Len(mirror_buffer') % FrameLen = 0
    BY <1>0, <1>5, DivModSmall
  <2>2. Len(received_frames') = Len(mirror_buffer)
    BY <1>2
  <2>3. ASSUME BufferSize % FrameLen = 0
        PROVE  Len(mirror_buffer) % FrameLen = 0 /\ \A i \in 1 .. Len(wire) : wire[i] = Bytes(wire[i][1][1])
    BY <2>3, Zenon DEF Inv, WholeInv
  <2>4. BufferSize % FrameLen = 0 => Len(received_frames') % FrameLen = 0
    BY <2>2, <2>3, Zenon
  <2>5. \A x : Bytes(x)' = Bytes(x)
    BY <1>3, Zenon DEF Bytes
  <2> QED BY <1>1, <1>3, <2>1, <2>3, <2>4, <2>5 DEF WholeInv
<1>10. WireInv'
  <2>1. \A i \in 1 .. Len(wire), j \in 1 .. Len(mirror_buffer) : wire[i][1][1] < mirror_buffer[j][1]
    BY Zenon DEF Inv, WireInv
  <2>2. \A k \in 0 .. num_frames' - 1 : k * FrameLen + 1 \in 1 .. Len(mirror_buffer)
    <3> SUFFICES ASSUME NEW k \in 0 .. num_frames' - 1
                 PROVE  k * FrameLen + 1 \in 1 .. Len(mirror_buffer)
      OBVIOUS
    <3>1. k \in Nat /\ k < Len(mirror_buffer) \div FrameLen
      BY <1>4
    <3>2. k * FrameLen \in Nat /\ k * FrameLen + FrameLen <= Len(mirror_buffer)
      BY <1>0, <3>1, FrameInside, Zenon
    <3> QED BY <1>0, <3>2
  <2> QED BY <1>1, <1>2, <1>3, <1>5, <2>1, <2>2, Zenon DEF Inv, WireInv
<1>11. SentInv'
  <2>1. /\ stat.sent \in Nat /\ Len(wire) \in Nat
        /\ stat.sent + 0 <= Len(wire) /\ (~CallsMayFail => stat.sent + 0 = Len(wire))
    BY <1>1 DEF Inv, TypeInv, SentInv
  <2> QED BY <1>1, <1>3, <2>1 DEF SentInv
<1> QED BY <1>6, <1>7, <1>8, <1>9, <1>10, <1>11, Zenon DEF Inv

\* sendmmsg sends frames sent .. sent + k - 1 of those fetched.
LEMMA SendStep ==
    ASSUME Inv, TxSend
    PROVE  Inv'
<1>0. /\ conf \in Configs /\ received_frames \in Seq(Byte) /\ FrameLen \in Nat \ {0}
      /\ wire \in Seq(Seq(Byte)) /\ sent \in Nat /\ Fpc \in Nat \ {0}
      /\ Placed(received_frames, FrameLen) /\ Grouped(received_frames, FrameLen)
  BY MirrorPathAssumption, SMTT(40) DEF Inv, TypeInv, FrameLen, BufferInv
<1>1. /\ num_frames \in Nat /\ num_frames = Len(received_frames) \div FrameLen
  BY <1>0, LenDiv, Zenon DEF num_frames
<1>2. PICK k \in 1 .. ChunkLeft :
         /\ wire' = wire \o [i \in 1 .. k |-> FrameAt(sent + i - 1)]
         /\ sent' = sent + k
  BY DEF TxSend
<1>3. /\ tx = "send" /\ sent < num_frames
      /\ UNCHANGED <<conf, next, socket, stop, rx, batch, rx_sequence_counter, latest, mirror_buffer,
                     tx, received_frames, stat>>
  BY DEF TxSend, netvars, rxvars
<1>4. k \in Nat /\ sent + k <= num_frames
  <2>1. sent % Fpc \in 0 .. Fpc - 1
    BY <1>0, DivMod, Zenon
  <2> QED BY <1>0, <1>1, <1>2, <1>3, <2>1 DEF ChunkLeft
<1>5. /\ FrameLen' = FrameLen /\ BufferSize' = BufferSize /\ num_frames' = num_frames
      /\ CallsMayFail' = CallsMayFail
  BY <1>3 DEF FrameLen, BufferSize, num_frames, CallsMayFail
<1>6. PICK fs : fs = [i \in 1 .. k |-> FrameAt(sent + i - 1)]
  BY ZenonT(40)
<1>7. ASSUME NEW m \in Nat, m < num_frames
      PROVE  /\ FrameAt(m) \in Seq(Byte) /\ Len(FrameAt(m)) = FrameLen
             /\ m * FrameLen + 1 \in 1 .. Len(received_frames)
             /\ FrameAt(m)[1] = received_frames[m * FrameLen + 1]
             /\ Len(received_frames) % FrameLen = 0 => IsFrame(FrameAt(m), FrameLen, FrameAt(m)[1][1])
  <2>1. FrameAt(m) = SubSeq(received_frames, m * FrameLen + 1, (m + 1) * FrameLen)
    BY DEF FrameAt
  <2>0. PICK f : f = FrameAt(m)
    OBVIOUS
  <2>2. PICK n \in Nat \ {0}, b \in Seq(Byte) : n = FrameLen /\ b = received_frames
    BY <1>0, Zenon
  <2>3. /\ Placed(b, n) /\ Grouped(b, n) /\ m < Len(b) \div n
        /\ f = Taken(b, n, m)
    BY <1>0, <1>1, <1>7, <2>0, <2>1, <2>2, Zenon DEF Taken
  <2>4. /\ f \in Seq(Byte) /\ Len(f) = n /\ m * n + 1 \in 1 .. Len(b) /\ f[1] = b[m * n + 1]
        /\ Len(b) % n = 0 => IsFrame(f, n, f[1][1])
    BY <1>7, <2>2, <2>3, TakenFrame, SMTT(30)
  <2> QED BY <2>0, <2>2, <2>4, Zenon
<1>8. /\ wire' \in Seq(Seq(Byte)) /\ Len(wire') = Len(wire) + k
      /\ \A i \in 1 .. Len(wire') : IF i <= Len(wire) THEN i \in 1 .. Len(wire) /\ wire'[i] = wire[i]
                                    ELSE wire'[i] = FrameAt(sent + (i - Len(wire)) - 1)
  <2>1. \A i \in 1 .. k : FrameAt(sent + i - 1) \in Seq(Byte)
    <3>1. \A i \in 1 .. k : sent + i - 1 \in Nat /\ sent + i - 1 < num_frames
      BY <1>0, <1>1, <1>4
    <3> QED BY <1>7, <3>1, Zenon
  <2>2. fs \in Seq(Seq(Byte)) /\ Len(fs) = k /\ \A i \in 1 .. k : fs[i] = FrameAt(sent + i - 1)
    BY <1>4, <1>6, <2>1
  <2>3. wire' = wire \o fs
    BY <1>2, <1>6
  <2>4. /\ wire \o fs \in Seq(Seq(Byte)) /\ Len(wire \o fs) = Len(wire) + Len(fs)
        /\ \A i \in 1 .. Len(wire) + Len(fs) :
              (wire \o fs)[i] = IF i <= Len(wire) THEN wire[i] ELSE fs[i - Len(wire)]
    BY <1>0, <2>2, ConcatProperties, ZenonT(40)
  <2>5. /\ wire' \in Seq(Seq(Byte)) /\ Len(wire') = Len(wire) + k
        /\ \A i \in 1 .. Len(wire') : wire'[i] = IF i <= Len(wire) THEN wire[i] ELSE fs[i - Len(wire)]
    BY <2>2, <2>3, <2>4, Zenon
  <2>6. \A i \in 1 .. Len(wire') : IF i <= Len(wire) THEN i \in 1 .. Len(wire)
                                   ELSE i - Len(wire) \in 1 .. k
    BY <1>0, <1>4, <2>5, SMTT(40)
  <2> QED BY <2>2, <2>5, <2>6, Zenon
<1>9. ASSUME NEW i \in 1 .. Len(wire')
      PROVE  \/ i \in 1 .. Len(wire) /\ wire'[i] = wire[i]
             \/ \E m \in sent .. sent' - 1 : i = Len(wire) + (m - sent) + 1 /\ wire'[i] = FrameAt(m)
  <2>1. CASE i <= Len(wire)
    BY <1>8, <2>1
  <2>2. CASE ~(i <= Len(wire))
    <3>1. /\ sent + (i - Len(wire)) - 1 \in sent .. sent' - 1
          /\ i = Len(wire) + ((sent + (i - Len(wire)) - 1) - sent) + 1
      BY <1>0, <1>2, <1>4, <1>8, <2>2
    <3> QED BY <1>8, <2>2, <3>1
  <2> QED BY <2>1, <2>2
<1>10. /\ Len(wire) \in Nat /\ sent' \in Nat /\ sent' <= num_frames
       /\ \A m \in sent .. sent' - 1 : m \in Nat /\ m < num_frames /\ m \in sent .. num_frames - 1
  BY <1>0, <1>1, <1>2, <1>4
<1>11. TypeInv'
  <2>1. \A i \in 1 .. Len(wire') : Len(wire'[i]) = FrameLen
    <3> SUFFICES ASSUME NEW i \in 1 .. Len(wire') PROVE Len(wire'[i]) = FrameLen
      OBVIOUS
    <3>1. CASE i \in 1 .. Len(wire) /\ wire'[i] = wire[i]
      BY <3>1, Zenon DEF Inv, TypeInv
    <3>2. CASE \E m \in sent .. sent' - 1 : wire'[i] = FrameAt(m)
      BY <1>7, <1>10, <3>2, Zenon
    <3> QED BY <1>9, <3>1, <3>2, Zenon
  <2> QED BY <1>3, <1>5, <1>8, <1>10, <2>1, Zenon DEF Inv, TypeInv
<1>12. ArrivalInv' /\ CounterInv' /\ BufferInv'
  BY <1>3, <1>5, Zenon DEF Inv, ArrivalInv, CounterInv, BufferInv
<1>13. WholeInv'
  <2>1. SUFFICES ASSUME BufferSize % FrameLen = 0, NEW i \in 1 .. Len(wire')
                 PROVE  wire'[i] = Bytes(wire'[i][1][1])
    <3>1. BufferSize % FrameLen = 0 => Len(mirror_buffer) % FrameLen = 0 /\ Len(received_frames) % FrameLen = 0
      BY Zenon DEF Inv, WholeInv
    <3>2. \A x : Bytes(x)' = Bytes(x)
      BY <1>5, Zenon DEF Bytes
    <3> QED BY <1>3, <1>5, <2>1, <3>1, <3>2 DEF WholeInv
  <2>2. Len(received_frames) % FrameLen = 0 /\ \A j \in 1 .. Len(wire) : wire[j] = Bytes(wire[j][1][1])
    BY <2>1, Zenon DEF Inv, WholeInv
  <2>3. CASE i \in 1 .. Len(wire) /\ wire'[i] = wire[i]
    BY <2>2, <2>3, Zenon
  <2>4. CASE \E m \in sent .. sent' - 1 : wire'[i] = FrameAt(m)
    <3>1. PICK m \in sent .. sent' - 1 : wire'[i] = FrameAt(m)
      BY <2>4
    <3>2. m \in Nat /\ m < num_frames
      BY <1>10, <3>1, Zenon
    <3>3. PICK f \in Seq(Byte) : f = FrameAt(m) /\ Len(f) = FrameLen /\ IsFrame(f, FrameLen, f[1][1])
      BY <1>7, <2>2, <3>2, Zenon
    <3>4. f = [j \in 1 .. FrameLen |-> f[j]] /\ \A j \in 1 .. FrameLen : f[j] = <<f[1][1], j>>
      BY <3>3 DEF IsFrame
    <3>5. f = Bytes(f[1][1])
      BY <3>4, Zenon DEF Bytes
    <3> QED BY <3>1, <3>3, <3>5, Zenon
  <2> QED BY <1>9, <2>3, <2>4, Zenon
<1>14. \A m \in sent .. num_frames - 1 : m \in Nat /\ m < num_frames
  BY <1>0, <1>1
<1>15. WireInv'
  <2>0. /\ \A i, j \in 1 .. Len(wire) : i < j => wire[i][1][1] < wire[j][1][1]
        /\ \A i \in 1 .. Len(wire) : wire[i][1][1] <= latest
        /\ \A i \in 1 .. Len(wire), j \in 1 .. Len(mirror_buffer) : wire[i][1][1] < mirror_buffer[j][1]
        /\ \A i \in 1 .. Len(wire), m \in sent .. num_frames - 1 :
              wire[i][1][1] < received_frames[m * FrameLen + 1][1]
    BY <1>3, Zenon DEF Inv, WireInv
  <2>1. \A i \in 1 .. Len(wire') :
           \/ i \in 1 .. Len(wire) /\ wire'[i] = wire[i]
           \/ \E m \in sent .. sent' - 1 : /\ i = Len(wire) + (m - sent) + 1
                                           /\ m * FrameLen + 1 \in 1 .. Len(received_frames)
                                           /\ wire'[i][1] = received_frames[m * FrameLen + 1]
    BY <1>7, <1>9, <1>10, ZenonT(40)
  <2>2. \A i, j \in 1 .. Len(wire') : i < j => wire'[i][1][1] < wire'[j][1][1]
    <3> SUFFICES ASSUME NEW i \in 1 .. Len(wire'), NEW j \in 1 .. Len(wire'), i < j
                 PROVE  wire'[i][1][1] < wire'[j][1][1]
      OBVIOUS
    <3>1. CASE /\ i \in 1 .. Len(wire) /\ wire'[i] = wire[i]
               /\ j \in 1 .. Len(wire) /\ wire'[j] = wire[j]
      BY <2>0, <3>1, Zenon
    <3>2. CASE /\ i \in 1 .. Len(wire) /\ wire'[i] = wire[i]
               /\ \E m \in sent .. sent' - 1 : wire'[j][1] = received_frames[m * FrameLen + 1]
      BY <1>10, <2>0, <3>2, Zenon
    <3>3. CASE \E m \in sent .. sent' - 1 : i = Len(wire) + (m - sent) + 1 /\ wire'[i][1] = received_frames[m * FrameLen + 1]
      <4>1. PICK m \in sent .. sent' - 1 : i = Len(wire) + (m - sent) + 1 /\ wire'[i][1] = received_frames[m * FrameLen + 1]
        BY <3>3
      <4>2. ~(j \in 1 .. Len(wire))
        BY <1>0, <1>10, <4>1, SMTT(40)
      <4>3. PICK p \in sent .. sent' - 1 : j = Len(wire) + (p - sent) + 1 /\ wire'[j][1] = received_frames[p * FrameLen + 1]
        BY <2>1, <4>2
      <4>4. m < p
        BY <1>0, <1>10, <4>1, <4>3
      <4>5. m \in Nat /\ p \in Nat /\ p < num_frames
        BY <1>10, <4>1, <4>3, Zenon
      <4>6. received_frames[m * FrameLen + 1][1] < received_frames[p * FrameLen + 1][1]
        BY <1>0, <1>1, <4>4, <4>5, FirstBytesRise, Zenon
      <4> QED BY <4>1, <4>3, <4>6, Zenon
    <3> QED BY <2>1, <3>1, <3>2, <3>3
  <2>3. \A i \in 1 .. Len(wire') : wire'[i][1][1] <= latest
    BY <2>0, <2>1, Zenon DEF Inv, BufferInv, NoLater
  <2>4. \A i \in 1 .. Len(wire'), j \in 1 .. Len(mirror_buffer) : wire'[i][1][1] < mirror_buffer[j][1]
    BY <2>0, <2>1, Zenon DEF Inv, BufferInv
  <2>5. \A i \in 1 .. Len(wire'), p \in sent' .. num_frames - 1 :
           wire'[i][1][1] < received_frames[p * FrameLen + 1][1]
    <3> SUFFICES ASSUME NEW i \in 1 .. Len(wire'), NEW p \in sent' .. num_frames - 1
                 PROVE  wire'[i][1][1] < received_frames[p * FrameLen + 1][1]
      OBVIOUS
    <3>0. p \in sent .. num_frames - 1 /\ p \in Nat /\ p < num_frames /\ \A m \in sent .. sent' - 1 : m < p
      BY <1>0, <1>1, <1>2, <1>4
    <3>1. CASE i \in 1 .. Len(wire) /\ wire'[i] = wire[i]
      BY <2>0, <3>0, <3>1, Zenon
    <3>2. CASE \E m \in sent .. sent' - 1 : wire'[i][1] = received_frames[m * FrameLen + 1]
      <4>1. PICK m \in sent .. sent' - 1 : wire'[i][1] = received_frames[m * FrameLen + 1]
        BY <3>2
      <4>2. m \in Nat /\ m < p
        BY <1>10, <3>0, <4>1, Zenon
      <4>3. received_frames[m * FrameLen + 1][1] < received_frames[p * FrameLen + 1][1]
        BY <1>0, <1>1, <3>0, <4>2, FirstBytesRise, Zenon
      <4> QED BY <4>1, <4>3, Zenon
    <3> QED BY <2>1, <3>1, <3>2
  <2> QED BY <1>3, <1>5, <2>2, <2>3, <2>4, <2>5, Zenon DEF WireInv
<1>16. SentInv'
  <2>1. /\ stat.sent \in Nat /\ stat.sent + sent <= Len(wire)
        /\ ~CallsMayFail => stat.sent + sent = Len(wire)
    BY <1>3 DEF Inv, TypeInv, SentInv
  <2>2. Len(wire') = Len(wire) + k /\ sent' = sent + k /\ tx' = "send" /\ stat' = stat
    BY <1>2, <1>3, <1>8
  <2>3. stat.sent + sent' <= Len(wire')
    BY <1>0, <1>4, <1>10, <2>1, <2>2
  <2>4. stat.sent \in Nat /\ sent \in Nat /\ k \in Nat /\ Len(wire) \in Nat
    BY <1>0, <1>4, <1>10, <2>1, Zenon
  <2>5. stat.sent + sent = Len(wire) => stat.sent + (sent + k) = Len(wire) + k
    <3>1. PICK a \in Nat, b \in Nat, c \in Nat : a = stat.sent /\ b = sent /\ c = Len(wire)
      BY <2>4, Zenon
    <3>2. a + b = c => a + (b + k) = c + k
      BY <2>4, <3>1, SMTT(40)
    <3> QED BY <3>1, <3>2, Zenon
  <2>6. ~CallsMayFail => stat.sent + sent' = Len(wire')
    BY <2>1, <2>2, <2>5, Zenon
  <2> QED BY <1>5, <2>2, <2>3, <2>6, Zenon DEF SentInv
<1> QED BY <1>11, <1>12, <1>13, <1>15, <1>16, Zenon DEF Inv

---------------------------------------------------------------------------
\* Every step of the network and of both threads keeps the invariant.
LEMMA InvStep == Inv /\ [Next]_vars => Inv'
<1> SUFFICES ASSUME Inv, [Next]_vars PROVE Inv'
  OBVIOUS
<1>1. CASE UNCHANGED vars
  <2>1. /\ conf' = conf /\ UNCHANGED buffers /\ UNCHANGED <<next, socket, stop, rx, batch>>
    BY <1>1 DEF vars, netvars, rxvars, txvars, buffers
  <2>2. latest' = latest
    BY <2>1 DEF buffers
  <2>3. TypeInv'
    BY <2>1, QuietType, Zenon DEF Inv, TypeInv
  <2>4. ArrivalInv'
    BY <2>1, <2>2, Zenon DEF Inv, ArrivalInv
  <2> QED BY <2>1, <2>3, <2>4, Quiet, Zenon DEF Inv
<1> QED
  BY <1>1, ArrivalStep, AcceptStep, TxQuietStep, FetchStep, SendStep, DoneStep
  DEF Next, Rx, Tx, Finished

\* The conjuncts hold in every reachable state.
LEMMA InvHolds == Spec => []Inv
BY InvInit, InvStep, PTL DEF Spec

\* A lost frame costs at most one out of order error: the counter that
\* receive_frame expects never runs ahead of the stream.
THEOREM ErrorsBounded == Spec => []ErrorsBoundedByLosses
<1>1. Inv => ErrorsBoundedByLosses
  <2> SUFFICES ASSUME Inv PROVE ErrorsBoundedByLosses
    OBVIOUS
  <2>1. /\ stat.received \in Nat /\ stat.out_of_order \in Nat /\ latest \in Int
        /\ rx_sequence_counter = stat.received + stat.out_of_order
        /\ rx_sequence_counter <= latest + 1
    BY DEF Inv, TypeInv, CounterInv
  <2> QED BY <2>1 DEF ErrorsBoundedByLosses
<1> QED BY <1>1, InvHolds, PTL

\* FramesSent never runs ahead of what was transmitted, and is exact between two
\* cycles as long as sendmmsg does not fail (tc_send_frames).
THEOREM SentExact == Spec => []SentIsExact
<1>1. Inv => SentIsExact
  <2> SUFFICES ASSUME Inv PROVE SentIsExact
    OBVIOUS
  <2>1. /\ stat.sent \in Nat /\ Len(wire) \in Nat /\ sent \in Nat
        /\ stat.sent + (IF tx = "send" THEN sent ELSE 0) <= Len(wire)
        /\ ~CallsMayFail => stat.sent + (IF tx = "send" THEN sent ELSE 0) = Len(wire)
    BY DEF Inv, TypeInv, SentInv
  <2> QED BY <2>1 DEF SentIsExact
<1> QED BY <1>1, InvHolds, PTL

\* Counted from its end the mirror buffer is a sequence of whole frames, however
\* many bytes ring_buffer_add dropped: every byte is at its place, and two bytes
\* lie in the same frame's stretch exactly when they are of the same frame.
THEOREM TailWhole == Spec => []TailIsWholeFrames
<1>1. Inv => TailIsWholeFrames
  <2> SUFFICES ASSUME Inv PROVE TailIsWholeFrames
    OBVIOUS
  <2>1. /\ mirror_buffer \in Seq(Byte) /\ FrameLen \in Nat \ {0}
        /\ Placed(mirror_buffer, FrameLen) /\ Grouped(mirror_buffer, FrameLen)
    BY FrameBytes, 0 \in Nat DEF Inv, TypeInv, BufferInv
  <2>2. DOMAIN mirror_buffer = 1 .. Len(mirror_buffer)
    BY <2>1
  <2>3. ASSUME NEW i \in DOMAIN mirror_buffer
        PROVE  mirror_buffer[i][2] = FrameLen - ((Len(mirror_buffer) - i) % FrameLen)
    BY <2>1, <2>2, Zenon DEF Placed, Place
  <2>4. ASSUME NEW i \in DOMAIN mirror_buffer, NEW j \in DOMAIN mirror_buffer
        PROVE  (Len(mirror_buffer) - i) \div FrameLen = (Len(mirror_buffer) - j) \div FrameLen
                 <=> mirror_buffer[i][1] = mirror_buffer[j][1]
    <3>1. /\ Frame(mirror_buffer, i, FrameLen) \in Int
          /\ Frame(mirror_buffer, j, FrameLen) \in Int
          /\ mirror_buffer[i][1] \in Int /\ mirror_buffer[j][1] \in Int
      <4>1. Len(mirror_buffer) \in Nat /\ i \in Nat /\ j \in Nat /\ FrameLen \in Nat \ {0}
        BY <2>1, <2>2
      <4>2. mirror_buffer[i] \in Byte /\ mirror_buffer[j] \in Byte
        BY <2>1, <2>2
      <4>3. \A l \in Nat, k \in Nat, m \in Nat \ {0} : (l - k) \div m \in Int
        OBVIOUS
      <4>4. /\ (Len(mirror_buffer) - i) \div FrameLen \in Int
            /\ (Len(mirror_buffer) - j) \div FrameLen \in Int
        BY <4>1, <4>3, Zenon
      <4>5. mirror_buffer[i][1] \in Int /\ mirror_buffer[j][1] \in Int
        BY <4>2 DEF Byte
      <4> QED BY <4>4, <4>5, Zenon DEF Frame
    <3>2. /\ Frame(mirror_buffer, i, FrameLen) = Frame(mirror_buffer, j, FrameLen)
               => mirror_buffer[i][1] = mirror_buffer[j][1]
          /\ Frame(mirror_buffer, i, FrameLen) > Frame(mirror_buffer, j, FrameLen)
               => mirror_buffer[i][1] < mirror_buffer[j][1]
          /\ Frame(mirror_buffer, j, FrameLen) > Frame(mirror_buffer, i, FrameLen)
               => mirror_buffer[j][1] < mirror_buffer[i][1]
      BY <2>1, <2>2, Zenon DEF Grouped
    <3>3. Frame(mirror_buffer, i, FrameLen) = Frame(mirror_buffer, j, FrameLen)
            <=> mirror_buffer[i][1] = mirror_buffer[j][1]
      BY <3>1, <3>2, SMT
    <3> QED BY <3>3, Zenon DEF Frame
  <2> QED BY <2>3, <2>4, Zenon DEF TailIsWholeFrames
<1> QED BY <1>1, InvHolds, PTL

\* Where the frame length divides the size of the mirror buffer, only whole
\* frames are fetched and transmitted (tc_tx_thread, "Len should be a multiple of
\* frame size").
THEOREM WholeFrames == Spec => []TransmitsWholeFrames
<1>1. Inv => TransmitsWholeFrames
  <2> SUFFICES ASSUME Inv PROVE TransmitsWholeFrames
    OBVIOUS
  <2>1. DOMAIN wire = 1 .. Len(wire)
    BY DEF Inv, TypeInv
  <2> QED BY <2>1, Zenon DEF Inv, WholeInv, TransmitsWholeFrames, BufferSize
<1> QED BY <1>1, InvHolds, PTL

\* Whatever the frame length and however Rx and Tx interleave, frames are sent
\* back in the order of their arrival and none twice.
THEOREM MirroredInOrder == Spec => []MirrorsInOrder
<1>1. Inv => MirrorsInOrder
  <2> SUFFICES ASSUME Inv PROVE MirrorsInOrder
    OBVIOUS
  <2>1. DOMAIN wire = 1 .. Len(wire)
    BY DEF Inv, TypeInv
  <2> QED BY <2>1, Zenon DEF Inv, WireInv, MirrorsInOrder
<1> QED BY <1>1, InvHolds, PTL
===========================================================================
