------------------------ MODULE TxTimestampsProofs ------------------------
(***************************************************************************)
(* Timestamps, for every number of frames per cycle, every size of the     *)
(* backlog, of the umem area and of the cycle counter (as far as the size  *)
(* of the backlog divides it), on all Tx paths, with frames lost, calls    *)
(* failing, timestamps missing and transmissions early or late: round trip *)
(* times and transmission latencies are measured against the software      *)
(* timestamp of their own frame or cycle, and the generator's umem frames  *)
(* are not reused before they are completed.                               *)
(*                                                                         *)
(* The argument for the times: frames are stamped in the order of their    *)
(* numbers, and the slot a frame is looked up in, from the number it       *)
(* carries, is the slot it was stamped in.  So the slot of a stamped frame *)
(* holds its timestamp or that of a later one.                             *)
(***************************************************************************)
EXTENDS TxTimestamps, TLAPS, SequenceTheorems, WellFoundedInduction

EntryType == [n : Int, f : Int, hw : Nat]
StampType == [at : Nat, of : Int]
SlotType == [sw : StampType, hw : StampType, rx : StampType]
StatType ==
    [backlog : [0 .. BacklogLen - 1 -> SlotType], count : [Kinds -> Nat], missing : Nat,
     stale : SUBSET Kinds, early : BOOLEAN]

---------------------------------------------------------------------------
(***************************************************************************)
(* Division                                                                *)
(***************************************************************************)

\* Quotient and remainder.
LEMMA DivMod ==
    ASSUME NEW a \in Int, NEW m \in Nat \ {0}
    PROVE  /\ a \div m \in Int /\ a % m \in 0 .. m - 1 /\ a = (a \div m) * m + (a % m)
           /\ a \in Nat => a \div m \in Nat
OBVIOUS

\* The same, to name them.
LEMMA Split ==
    ASSUME NEW a \in Int, NEW m \in Nat \ {0}
    PROVE  \E q \in Int, r \in 0 .. m - 1 : a = q * m + r /\ q = a \div m /\ r = a % m
BY DivMod

\* A positive multiple is no smaller.
LEMMA Multiple ==
    ASSUME NEW d \in Int, NEW m \in Nat \ {0}, d >= 1
    PROVE  d * m >= m
OBVIOUS

\* They are unique.
LEMMA Unique ==
    ASSUME NEW m \in Nat \ {0}, NEW q \in Int, NEW r \in 0 .. m - 1,
           NEW p \in Int, NEW s \in 0 .. m - 1, q * m + r = p * m + s
    PROVE  q = p /\ r = s
<1>1. (q - p) * m = s - r /\ (p - q) * m = r - s
  OBVIOUS
<1>2. ~(q - p >= 1)
  <2> SUFFICES ASSUME q - p >= 1 PROVE FALSE
    OBVIOUS
  <2>1. (q - p) * m >= m
    BY Multiple
  <2> QED BY <1>1, <2>1
<1>3. ~(p - q >= 1)
  <2> SUFFICES ASSUME p - q >= 1 PROVE FALSE
    OBVIOUS
  <2>1. (p - q) * m >= m
    BY Multiple
  <2> QED BY <1>1, <2>1
<1>4. q = p
  BY <1>2, <1>3
<1> QED BY <1>1, <1>4

\* How to find them.
LEMMA DivUnique ==
    ASSUME NEW m \in Nat \ {0}, NEW q \in Int, NEW r \in 0 .. m - 1
    PROVE  (q * m + r) \div m = q /\ (q * m + r) % m = r
<1>1. PICK a : a \in Int /\ a = q * m + r
  OBVIOUS
<1>2. PICK p, s : p \in Int /\ s \in 0 .. m - 1 /\ p = a \div m /\ s = a % m
  BY <1>1, DivMod, Zenon
<1>3. p * m + s = a
  BY <1>1, <1>2, DivMod
<1>4. p = q /\ s = r
  BY <1>1, <1>2, <1>3, Unique
<1> QED BY <1>1, <1>2, <1>4

\* Counting on from a remainder: the umem frames of a cycle follow those of the
\* one before.
LEMMA ModAdd ==
    ASSUME NEW m \in Nat \ {0}, NEW a \in Int, NEW i \in Int
    PROVE  ((a % m) + i) % m = (a + i) % m
<1>1. PICK q \in Int, r \in 0 .. m - 1 : a = q * m + r /\ r = a % m
  BY DivMod, Zenon
<1>2. PICK p \in Int, s \in 0 .. m - 1 : r + i = p * m + s
  <2>1. r + i \in Int
    BY <1>1
  <2> QED BY <2>1, DivMod, ZenonT(40)
<1>3. a + i = (q + p) * m + s
  <2>1. (q * m + r) + i = q * m + (r + i) /\ q * m + (p * m + s) = (q + p) * m + s
    OBVIOUS
  <2> QED BY <1>1, <1>2, <2>1, Zenon
<1>4. (p * m + s) % m = s
  BY DivUnique
<1>5. ((q + p) * m + s) % m = s
  <2>1. q + p \in Int
    OBVIOUS
  <2> QED BY <2>1, DivUnique, Zenon
<1>6. (r + i) % m = s /\ (a + i) % m = s
  BY <1>2, <1>3, <1>4, <1>5, Zenon
<1> QED BY <1>1, <1>6, Zenon

\* Fewer than m steps do not come back to the same remainder.
LEMMA ModApart ==
    ASSUME NEW m \in Nat \ {0}, NEW a \in Int, NEW b \in Int, a < b, b - a < m
    PROVE  a % m # b % m
<1> SUFFICES ASSUME a % m = b % m PROVE FALSE
  OBVIOUS
<1>1. PICK q \in Int, r \in 0 .. m - 1 : a = q * m + r /\ r = a % m
  BY DivMod, Zenon
<1>2. PICK p \in Int, s \in 0 .. m - 1 : b = p * m + s /\ s = b % m
  BY DivMod, Zenon
<1>3. r = s
  BY <1>1, <1>2, Zenon
<1>4. (p - q) * m = b - a
  BY <1>1, <1>2, <1>3
<1>5. p - q >= 1 \/ p - q <= 0
  OBVIOUS
<1>6. CASE p - q >= 1
  <2>1. (p - q) * m >= m
    BY <1>6, Multiple
  <2> QED BY <1>4, <2>1
<1>7. CASE p - q <= 0
  <2>1. (p - q) * m <= 0
    BY <1>7
  <2> QED BY <1>4, <2>1
<1> QED BY <1>5, <1>6, <1>7

\* A remainder by a multiple of P has the same remainder by P.
LEMMA ModMod ==
    ASSUME NEW P \in Nat \ {0}, NEW C \in Nat \ {0}, C % P = 0, NEW y \in Int
    PROVE  (y % C) % P = y % P
<1>1. PICK q \in Int, s \in 0 .. C - 1 : y = q * C + s /\ s = y % C
  BY DivMod, Zenon
<1>2. PICK c \in Int : C = c * P
  <2>1. PICK c \in Int, d \in 0 .. P - 1 : C = c * P + d /\ c = C \div P /\ d = C % P
    BY Split
  <2>2. c * P + 0 = c * P
    OBVIOUS
  <2> QED BY <2>1, <2>2, Zenon
<1>3. PICK t \in Int, u \in 0 .. P - 1 : s = t * P + u /\ t = s \div P /\ u = s % P
  <2>1. s \in Int
    OBVIOUS
  <2> QED BY <2>1, Split
<1>4. y = (q * c + t) * P + u
  <2>1. q * (c * P) + (t * P + u) = (q * c + t) * P + u
    OBVIOUS
  <2> QED BY <1>1, <1>2, <1>3, <2>1, Zenon
<1>5. ((q * c + t) * P + u) % P = u
  <2>1. q * c + t \in Int
    OBVIOUS
  <2> QED BY <2>1, DivUnique, Zenon
<1> QED BY <1>1, <1>3, <1>4, <1>5, Zenon

---------------------------------------------------------------------------
(***************************************************************************)
(* Numbers, owners and slots                                               *)
(***************************************************************************)

\* The constants.
LEMMA Constants ==
    /\ Fpc \in Nat \ {0} /\ Periods \in Nat \ {0} /\ CounterMod \in Nat \ {0}
    /\ TxFrames \in Nat \ {0} /\ CounterMod % Periods = 0
    /\ BacklogLen \in Nat \ {0} /\ BacklogLen = Periods * Fpc
<1>1. /\ Fpc \in Nat \ {0} /\ Periods \in Nat \ {0} /\ CounterMod \in Nat \ {0}
      /\ TxFrames \in Nat \ {0} /\ CounterMod % Periods = 0
  BY TxTimestampsAssumption
<1>2. Periods * Fpc \in Nat \ {0}
  BY <1>1, Multiple
<1> QED BY <1>1, <1>2 DEF BacklogLen

\* The remainder of a frame's number by the backlog's length: that of its cycle by
\* the number of cycles, and its place in the cycle.
LEMMA ModScale ==
    ASSUME NEW z \in Int, NEW r \in 0 .. Fpc - 1
    PROVE  (z * Fpc + r) % BacklogLen = (z % Periods) * Fpc + r
<1>0. PICK F \in Nat \ {0}, P \in Nat \ {0} : F = Fpc /\ P = Periods /\ r \in 0 .. F - 1
  BY Constants
<1>1. PICK q \in Int, t \in 0 .. P - 1 : z = q * P + t /\ t = z % P
  BY DivMod, Zenon
<1>2. z * F + r = q * (P * F) + (t * F + r)
  <2>1. (q * P + t) * F = q * (P * F) + t * F
    OBVIOUS
  <2> QED BY <1>1, <2>1
<1>3. P * F \in Nat \ {0}
  BY Multiple
<1>4. t * F + r \in 0 .. P * F - 1
  <2>1. t * F >= 0
    OBVIOUS
  <2>2. (P - t) * F >= F
    BY Multiple
  <2>3. (P - t) * F = P * F - t * F
    OBVIOUS
  <2> QED BY <1>0, <2>1, <2>2, <2>3
<1>5. PICK M \in Nat \ {0} : M = P * F
  BY <1>3
<1>6. PICK u : u = t * F + r
  OBVIOUS
<1>7. (q * M + u) % M = u
  BY <1>4, <1>5, <1>6, DivUnique, Zenon
<1> QED BY <1>0, <1>1, <1>2, <1>5, <1>6, <1>7, Constants, Zenon

\* The cycle of a number is carried modulo CounterMod, the frame as it is.
LEMMA CarriedIs ==
    ASSUME NEW n \in Int
    PROVE  /\ Carried(n) \in Nat
           /\ Carried(n) \div Fpc = (n \div Fpc) % CounterMod
           /\ Carried(n) % Fpc = n % Fpc
<1>1. n \div Fpc \in Int /\ n % Fpc \in 0 .. Fpc - 1
  BY Constants, DivMod, Zenon
<1>2. (n \div Fpc) % CounterMod \in 0 .. CounterMod - 1
  BY <1>1, Constants, DivMod, Zenon
<1>3. PICK q, r : q = (n \div Fpc) % CounterMod /\ r = n % Fpc
  OBVIOUS
<1>4. q \in Nat /\ r \in 0 .. Fpc - 1 /\ q \in Int
  BY <1>1, <1>2, <1>3, Constants
<1>5. Carried(n) = q * Fpc + r
  BY <1>3, Zenon DEF Carried
<1>6. (q * Fpc + r) \div Fpc = q /\ (q * Fpc + r) % Fpc = r
  BY <1>4, Constants, DivUnique, Zenon
<1>7. q * Fpc + r \in Nat
  BY <1>4, Constants
<1> QED BY <1>3, <1>5, <1>6, <1>7, Zenon

\* The slot of a number is that of its cycle modulo Periods.
LEMMA FirstSlot ==
    ASSUME NEW n \in Int
    PROVE  /\ FirstFrameIdx(n) = ((n \div Fpc) % Periods) * Fpc
           /\ n % BacklogLen = ((n \div Fpc) % Periods) * Fpc + (n % Fpc)
           /\ FirstFrameIdx(n) \in 0 .. BacklogLen - 1 /\ n % BacklogLen \in 0 .. BacklogLen - 1
<1>1. PICK q \in Int, r \in 0 .. Fpc - 1 : n = q * Fpc + r /\ q = n \div Fpc /\ r = n % Fpc
  BY Constants, Split
<1>2. (q * Fpc + r) % BacklogLen = (q % Periods) * Fpc + r
  BY <1>1, ModScale, Zenon
<1>3. (q * Fpc + 0) % BacklogLen = (q % Periods) * Fpc + 0
  <2>1. 0 \in 0 .. Fpc - 1
    BY Constants
  <2> QED BY <1>1, <2>1, ModScale, Zenon
<1>4. q * Fpc + 0 = q * Fpc /\ (q % Periods) * Fpc + 0 = (q % Periods) * Fpc /\ q * Fpc \in Int
  <2>1. q % Periods \in Int
    BY <1>1, Constants
  <2> QED BY <1>1, <2>1, Constants
<1>5. FirstFrameIdx(n) = (q * Fpc) % BacklogLen
  BY <1>1, Constants, Zenon DEF FirstFrameIdx
<1>6. FirstFrameIdx(n) \in 0 .. BacklogLen - 1 /\ n % BacklogLen \in 0 .. BacklogLen - 1
  <2>1. (q * Fpc) % BacklogLen \in 0 .. BacklogLen - 1 /\ n % BacklogLen \in 0 .. BacklogLen - 1
    BY <1>4, Constants, DivMod, Zenon
  <2> QED BY <1>5, <2>1, Constants, Zenon
<1>7. n % BacklogLen = (q % Periods) * Fpc + r
  BY <1>1, <1>2, Constants, Zenon
<1>8. FirstFrameIdx(n) = (q % Periods) * Fpc
  BY <1>3, <1>4, <1>5, Zenon
<1> QED BY <1>1, <1>6, <1>7, <1>8, Zenon

\* A frame is looked up in the slot of its full number, although the number it
\* carries wraps.
LEMMA SameSlot ==
    ASSUME NEW n \in Int
    PROVE  FirstFrameIdx(Carried(n)) = FirstFrameIdx(n) /\ Carried(n) % BacklogLen = n % BacklogLen
<1>1. PICK c : c \in Int /\ c = Carried(n)
  BY CarriedIs
<1>2. c \div Fpc = (n \div Fpc) % CounterMod /\ c % Fpc = n % Fpc
  BY <1>1, CarriedIs, Zenon
<1>3. n \div Fpc \in Int
  BY Constants, DivMod, Zenon
<1>4. ((n \div Fpc) % CounterMod) % Periods = (n \div Fpc) % Periods
  BY <1>3, Constants, ModMod, Zenon
<1>5. FirstFrameIdx(c) = FirstFrameIdx(n)
  BY <1>1, <1>2, <1>4, FirstSlot, Zenon
<1>6. c % BacklogLen = n % BacklogLen
  BY <1>1, <1>2, <1>4, FirstSlot, Zenon
<1> QED BY <1>1, <1>5, <1>6, Zenon

\* Where the timestamp of a cycle or frame is kept.
Slot(o) == IF conf.hwts THEN FirstFrameIdx(o * Fpc) ELSE o % BacklogLen

\* Where that of frame n is.
LEMMA OwnSlot ==
    ASSUME NEW n \in Int
    PROVE  /\ conf.hwts => FirstFrameIdx(n) = Slot(Owner(n))
           /\ ~conf.hwts => n % BacklogLen = Slot(Owner(n))
<1>1. n \div Fpc \in Int
  BY Constants, DivMod, Zenon
<1>2. PICK m : m \in Int /\ m = (n \div Fpc) * Fpc + 0 /\ m = (n \div Fpc) * Fpc
  BY <1>1, Constants
<1>3. m \div Fpc = n \div Fpc
  <2>1. 0 \in 0 .. Fpc - 1
    BY Constants
  <2>2. Fpc \in Nat \ {0}
    BY Constants, Zenon
  <2>3. ((n \div Fpc) * Fpc + 0) \div Fpc = n \div Fpc
    BY <1>1, <2>1, <2>2, DivUnique, Zenon
  <2> QED BY <1>2, <2>3, Zenon
<1>4. FirstFrameIdx(m) = FirstFrameIdx(n)
  BY <1>2, <1>3, FirstSlot, Zenon
<1> QED BY <1>2, <1>4, Zenon DEF Slot, Owner

\* Later frames have later owners.
LEMMA OwnerIs ==
    ASSUME NEW m \in Int
    PROVE  /\ Owner(m) \in Int
           /\ m \in Nat => Owner(m) \in Nat
           /\ \A n \in Int : m <= n => Owner(m) <= Owner(n)
<1>1. Owner(m) \in Int /\ (m \in Nat => Owner(m) \in Nat)
  BY Constants, DivMod, Zenon DEF Owner
<1>2. ASSUME NEW n \in Int, m <= n PROVE m \div Fpc <= n \div Fpc
  <2>1. PICK q \in Int, r \in 0 .. Fpc - 1 : m = q * Fpc + r /\ q = m \div Fpc
    BY Constants, Split
  <2>2. PICK p \in Int, s \in 0 .. Fpc - 1 : n = p * Fpc + s /\ p = n \div Fpc
    BY Constants, Split
  <2>3. ~(q - p >= 1)
    <3> SUFFICES ASSUME q - p >= 1 PROVE FALSE
      OBVIOUS
    <3>1. (q - p) * Fpc >= Fpc
      BY Constants, Multiple
    <3>2. (q - p) * Fpc = q * Fpc - p * Fpc
      BY Constants
    <3> QED BY <1>2, <2>1, <2>2, <3>1, <3>2, Constants
  <2> QED BY <2>1, <2>2, <2>3
<1> QED BY <1>1, <1>2, Zenon DEF Owner

---------------------------------------------------------------------------
(***************************************************************************)
(* stat.c                                                                  *)
(***************************************************************************)

\* From s to t no software timestamp changes and no round trip time or latency is
\* measured against a wrong one.
Mild(s, t) ==
    /\ t \in StatType
    /\ \A i \in 0 .. BacklogLen - 1 : t.backlog[i].sw = s.backlog[i].sw
    /\ "rtt" \in t.stale => "rtt" \in s.stale
    /\ "latency" \in t.stale => "latency" \in s.stale

\* Several such steps are one.
LEMMA MildSteps ==
    ASSUME NEW s, NEW t, NEW u, Mild(s, t), Mild(t, u)
    PROVE  Mild(s, u)
BY Zenon DEF Mild

\* Nothing happens.
LEMMA MildSelf ==
    ASSUME NEW s \in StatType
    PROVE  Mild(s, s)
BY Zenon DEF Mild

\* The fields of the statistics.
LEMMA Fields ==
    ASSUME NEW s \in StatType
    PROVE  /\ s.backlog \in [0 .. BacklogLen - 1 -> SlotType] /\ s.count \in [Kinds -> Nat]
           /\ s.missing \in Nat /\ s.stale \in SUBSET Kinds /\ s.early \in BOOLEAN
BY DEF StatType

\* A sample of a processing time, or one that is excused or right.
LEMMA SampleMild ==
    ASSUME NEW s \in StatType, NEW kind \in Kinds, NEW t \in StampType, NEW o \in Int,
           NEW excused \in BOOLEAN, kind \in {"first", "batch"} \/ excused \/ t.of >= o
    PROVE  Mild(s, Sample(s, kind, t, o, excused))
<1> DEFINE r == Sample(s, kind, t, o, excused)
           w == IF t.of < o /\ ~excused THEN {kind} ELSE {}
<1>1. r = [[s EXCEPT !.count[kind] = @ + 1] EXCEPT !.stale = @ \cup w]
  BY DEF Sample
<1>2. /\ s.backlog \in [0 .. BacklogLen - 1 -> SlotType] /\ s.count \in [Kinds -> Nat]
      /\ s.missing \in Nat /\ s.stale \in SUBSET Kinds /\ s.early \in BOOLEAN
  BY Fields, Zenon
<1>3. w \in SUBSET {kind}
  OBVIOUS
<1>4. ("rtt" \notin w /\ "latency" \notin w) \/ w = {}
  BY DEF StampType
<1> HIDE DEF w
<1>5. /\ r.backlog = s.backlog /\ r.stale = s.stale \cup w /\ r.missing = s.missing
      /\ r.early = s.early /\ r.count = [s.count EXCEPT ![kind] = @ + 1]
  BY <1>1 DEF StatType
<1>6. r \in StatType
  <2>1. s.stale \cup w \in SUBSET Kinds
    BY <1>2, <1>3
  <2>2. [s.count EXCEPT ![kind] = @ + 1] \in [Kinds -> Nat]
    BY <1>2
  <2> QED BY <1>1, <1>2, <2>1, <2>2, Zenon DEF StatType
<1> HIDE DEF r
<1>7. Mild(s, r)
  BY <1>4, <1>5, <1>6, Zenon DEF Mild
<1> QED BY <1>7 DEF r

\* The time of hardware transmission or of reception in a slot is set or cleared.
LEMMA HwMild ==
    ASSUME NEW s \in StatType, NEW idx \in 0 .. BacklogLen - 1, NEW t \in StampType
    PROVE  Mild(s, [s EXCEPT !.backlog[idx].hw = t])
<1> DEFINE r == [s EXCEPT !.backlog[idx].hw = t]
<1>1. s.backlog \in [0 .. BacklogLen - 1 -> SlotType] /\ s.backlog[idx] \in SlotType
  BY Fields, Zenon
<1>2. [s.backlog[idx] EXCEPT !.hw = t] \in SlotType /\ [s.backlog[idx] EXCEPT !.hw = t].sw = s.backlog[idx].sw
  BY <1>1 DEF SlotType
<1>3. r.backlog = [s.backlog EXCEPT ![idx] = [s.backlog[idx] EXCEPT !.hw = t]] /\ r.stale = s.stale
  BY DEF StatType
<1>4. r.backlog \in [0 .. BacklogLen - 1 -> SlotType]
  BY <1>1, <1>2, <1>3
<1>5. r \in StatType
  BY <1>4, ZenonT(40) DEF StatType
<1>6. \A i \in 0 .. BacklogLen - 1 : r.backlog[i].sw = s.backlog[i].sw
  BY <1>1, <1>2, <1>3
<1> HIDE DEF r
<1>7. Mild(s, r)
  BY <1>3, <1>5, <1>6, Zenon DEF Mild
<1> QED BY <1>7 DEF r

\* The same for the time of reception.
LEMMA RxMild ==
    ASSUME NEW s \in StatType, NEW idx \in 0 .. BacklogLen - 1, NEW t \in StampType
    PROVE  Mild(s, [s EXCEPT !.backlog[idx].rx = t])
<1> DEFINE r == [s EXCEPT !.backlog[idx].rx = t]
<1>1. s.backlog \in [0 .. BacklogLen - 1 -> SlotType] /\ s.backlog[idx] \in SlotType
  BY Fields, Zenon
<1>2. [s.backlog[idx] EXCEPT !.rx = t] \in SlotType /\ [s.backlog[idx] EXCEPT !.rx = t].sw = s.backlog[idx].sw
  BY <1>1 DEF SlotType
<1>3. r.backlog = [s.backlog EXCEPT ![idx] = [s.backlog[idx] EXCEPT !.rx = t]] /\ r.stale = s.stale
  BY DEF StatType
<1>4. r.backlog \in [0 .. BacklogLen - 1 -> SlotType]
  BY <1>1, <1>2, <1>3
<1>5. r \in StatType
  BY <1>4, Zenon DEF StatType
<1>6. \A i \in 0 .. BacklogLen - 1 : r.backlog[i].sw = s.backlog[i].sw
  BY <1>1, <1>2, <1>3
<1> HIDE DEF r
<1>7. Mild(s, r)
  BY <1>3, <1>5, <1>6, Zenon DEF Mild
<1> QED BY <1>7 DEF r

\* A counter of missing timestamps and the history of early completions.
LEMMA RestMild ==
    ASSUME NEW s \in StatType, NEW m \in Nat, NEW e \in BOOLEAN
    PROVE  Mild(s, [s EXCEPT !.missing = m]) /\ Mild(s, [s EXCEPT !.early = e])
BY Zenon DEF Mild, StatType

\* stat_frame_sent_latency, when the slot holds the timestamp of o or a later one.
LEMMA SentLatencyMild ==
    ASSUME NEW s \in StatType, NEW idx \in 0 .. BacklogLen - 1, NEW o \in Int,
           o \in stamped => s.backlog[idx].sw.of >= o
    PROVE  Mild(s, SentLatency(s, idx, o))
<1>1. s.backlog[idx].sw \in StampType
  BY Fields, Zenon DEF SlotType
<1> DEFINE a == Sample(s, "latency", s.backlog[idx].sw, o, o \notin stamped)
<1>2. Mild(s, a)
  <2>1. "latency" \in Kinds
    BY DEF Kinds
  <2>2. (o \notin stamped) \in BOOLEAN
    OBVIOUS
  <2> QED BY <1>1, <2>1, <2>2, SampleMild, Zenon
<1>3. a \in StatType
  BY <1>2, Zenon DEF Mild
<1> HIDE DEF a
<1>4. NoStamp \in StampType
  BY DEF NoStamp, StampType
<1>5. Mild(a, [a EXCEPT !.backlog[idx].hw = NoStamp])
  BY <1>3, <1>4, HwMild, Zenon
<1>6. Mild(s, [a EXCEPT !.backlog[idx].hw = NoStamp])
  BY <1>2, <1>5, MildSteps, Zenon
<1>7. Mild(s, [s EXCEPT !.missing = @ + 1])
  <2>1. s.missing + 1 \in Nat
    BY Fields
  <2> QED BY <2>1, RestMild, Zenon
<1>8. Mild(s, s)
  BY MildSelf, Zenon
<1> QED BY <1>6, <1>7, <1>8, Zenon DEF SentLatency, a

\* stat_proc_first_latency and stat_proc_batch_latency.
LEMMA ProcMild ==
    ASSUME NEW s \in StatType, NEW idx \in 0 .. BacklogLen - 1, NEW o \in Int, NEW hw
    PROVE  Mild(s, ProcFirst(s, idx, o, hw)) /\ Mild(s, ProcBatch(s, idx, o, hw))
<1> DEFINE rx == s.backlog[idx].rx
           c == [s EXCEPT !.backlog[idx].rx = NoStamp]
<1>1. rx \in StampType /\ NoStamp \in StampType
  <2>1. s.backlog[idx] \in SlotType
    BY Fields, Zenon
  <2>2. rx \in StampType
    BY <2>1 DEF SlotType
  <2>3. NoStamp \in StampType
    BY DEF NoStamp, StampType
  <2> QED BY <2>2, <2>3, Zenon
<1>2. Mild(s, s) /\ Mild(s, c)
  BY <1>1, MildSelf, RxMild, Zenon
<1>3. c \in StatType
  BY <1>2, Zenon DEF Mild
<1> HIDE DEF rx, c
<1>4. "first" \in Kinds /\ "batch" \in Kinds /\ FALSE \in BOOLEAN
  BY DEF Kinds
<1>5. Mild(s, Sample(s, "first", rx, o, FALSE))
  BY <1>1, <1>4, SampleMild, Zenon
<1>6. Mild(c, Sample(c, "batch", rx, o, FALSE))
  BY <1>1, <1>3, <1>4, SampleMild, Zenon
<1>7. Mild(s, Sample(c, "batch", rx, o, FALSE))
  BY <1>2, <1>6, MildSteps, Zenon
<1>8. Mild(s, ProcFirst(s, idx, o, hw))
  BY <1>2, <1>5, Zenon DEF ProcFirst, rx
<1>9. Mild(s, ProcBatch(s, idx, o, hw))
  BY <1>2, <1>7, Zenon DEF ProcBatch, rx, c
<1> QED BY <1>8, <1>9, Zenon

\* The slot of everything stamped holds its timestamp or that of a later one.
Holding(s) == \A o \in stamped : o \in Nat /\ s.backlog[Slot(o)].sw.of >= o

\* Slots exist.
LEMMA SlotIs ==
    ASSUME NEW o \in Int
    PROVE  Slot(o) \in 0 .. BacklogLen - 1
<1>1. o * Fpc \in Int
  BY Constants
<1> QED BY <1>1, FirstSlot, Zenon DEF Slot

\* It goes on to.
LEMMA MildHolds ==
    ASSUME NEW s, NEW t, Mild(s, t), Holding(s)
    PROVE  Holding(t)
<1> SUFFICES ASSUME NEW o \in stamped PROVE o \in Nat /\ t.backlog[Slot(o)].sw.of >= o
  BY Zenon DEF Holding
<1>1. o \in Nat /\ s.backlog[Slot(o)].sw.of >= o
  BY Zenon DEF Holding
<1>2. Slot(o) \in 0 .. BacklogLen - 1
  BY <1>1, SlotIs
<1>3. t.backlog[Slot(o)].sw = s.backlog[Slot(o)].sw
  BY <1>2, Zenon DEF Mild
<1> QED BY <1>1, <1>3, Zenon

\* A completion: packet_process_tx_completions, xdp_process_tx_timestamp.
LEMMA CompletedMild ==
    ASSUME NEW s \in StatType, NEW n \in Int, NEW hw \in Nat, conf.hwts, Holding(s)
    PROVE  Mild(s, Completed(s, n, hw))
<1> DEFINE seq == Carried(n)
           idx == FirstFrameIdx(seq)
           o == Owner(n)
           s1 == [s EXCEPT !.early = @ \/ (hw # 0 /\ o \notin stamped)]
           h == [s1 EXCEPT !.backlog[idx].hw = [at |-> hw, of |-> o]]
           l == SentLatency(h, idx, o)
           s2 == IF IsFirst(seq) THEN l ELSE s1
<1>1. seq \in Int /\ idx \in 0 .. BacklogLen - 1 /\ idx = Slot(o) /\ o \in Int
  <2>1. seq \in Nat
    BY CarriedIs, Zenon
  <2>2. seq \in Int
    BY <2>1
  <2>3. idx = FirstFrameIdx(n)
    BY SameSlot, Zenon
  <2>4. idx = Slot(o)
    BY <2>3, OwnSlot, Zenon
  <2> QED BY <2>2, <2>4, FirstSlot, OwnerIs, Zenon
<1>2. Mild(s, s1)
  <2>1. (s.early \/ (hw # 0 /\ o \notin stamped)) \in BOOLEAN
    BY Fields, Zenon
  <2> QED BY <2>1, RestMild, Zenon
<1>3. s1 \in StatType
  BY <1>2, Zenon DEF Mild
<1> HIDE DEF seq, idx, o, s1
<1>4. Mild(s1, h)
  <2>1. [at |-> hw, of |-> o] \in StampType
    BY <1>1 DEF StampType
  <2> QED BY <1>1, <1>3, <2>1, HwMild, Zenon
<1>5. Mild(s, h)
  BY <1>2, <1>4, MildSteps, Zenon
<1>6. h \in StatType /\ Holding(h)
  BY <1>5, MildHolds, Zenon DEF Mild
<1> HIDE DEF h
<1>7. Mild(h, l)
  <2>1. o \in stamped => h.backlog[idx].sw.of >= o
    BY <1>1, <1>6, Zenon DEF Holding
  <2> QED BY <1>1, <1>6, <2>1, SentLatencyMild, Zenon
<1>8. Mild(s, s2)
  BY <1>2, <1>5, <1>7, MildSteps, Zenon
<1>9. s2 \in StatType
  BY <1>8, Zenon DEF Mild
<1> HIDE DEF s2
<1>10. Mild(s, ProcFirst(s2, idx, o, hw)) /\ Mild(s, ProcBatch(s2, idx, o, hw))
  BY <1>1, <1>8, <1>9, ProcMild, MildSteps, Zenon
<1> DEFINE c == IF hw = 0 \/ s.backlog[idx].sw.at = 0 THEN s1
                ELSE IF ~conf.mirror \/ hw <= s.backlog[idx].sw.at THEN s2
                ELSE IF IsFirst(seq) THEN ProcFirst(s2, idx, o, hw)
                ELSE IF IsLast(seq) THEN ProcBatch(s2, idx, o, hw)
                ELSE s2
<1>11. Mild(s, c)
  BY <1>2, <1>8, <1>10, Zenon
<1>12. c = Completed(s, n, hw)
  BY Zenon DEF Completed, seq, idx, o, s1, h, l, s2
<1> QED BY <1>11, <1>12, Zenon

\* A frame arrives at the mirror (stat_frame_received).
LEMMA MirrorMild ==
    ASSUME NEW s \in StatType, NEW n \in Int, NEW hw \in Nat
    PROVE  Mild(s, ReceivedByMirror(s, n, hw))
<1> DEFINE idx == FirstFrameIdx(Carried(n))
<1>1. idx \in 0 .. BacklogLen - 1
  BY CarriedIs, FirstSlot
<1>2. [at |-> hw, of |-> Owner(n)] \in StampType
  <2>1. Owner(n) \in Int
    BY OwnerIs, Zenon
  <2> QED BY <2>1 DEF StampType
<1>3. Mild(s, [s EXCEPT !.backlog[idx].rx = [at |-> hw, of |-> Owner(n)]])
  BY <1>1, <1>2, RxMild, Zenon
<1>4. Mild(s, s)
  BY MildSelf, Zenon
<1> QED BY <1>3, <1>4, Zenon DEF ReceivedByMirror

\* A frame comes back to the reference (stat_frame_received).
LEMMA ReferenceMild ==
    ASSUME NEW s \in StatType, NEW n \in Int, Holding(s)
    PROVE  Mild(s, ReceivedByReference(s, n))
<1> DEFINE idx == IF conf.hwts THEN FirstFrameIdx(Carried(n)) ELSE Carried(n) % BacklogLen
           o == Owner(n)
<1>1. idx = Slot(o) /\ o \in Int
  BY SameSlot, OwnSlot, OwnerIs, Zenon
<1> HIDE DEF idx, o
<1>2. idx \in 0 .. BacklogLen - 1
  BY <1>1, SlotIs
<1>3. s.backlog[idx].sw \in StampType
  BY <1>2, Fields, Zenon DEF SlotType
<1>4. o \in stamped => s.backlog[idx].sw.of >= o
  BY <1>1, Zenon DEF Holding
<1>5. "rtt" \in Kinds /\ (o \notin stamped) \in BOOLEAN
  BY DEF Kinds
<1>6. Mild(s, Sample(s, "rtt", s.backlog[idx].sw, o, o \notin stamped))
  BY <1>1, <1>3, <1>4, <1>5, SampleMild, Zenon
<1> QED BY <1>6, Zenon DEF ReceivedByReference, idx, o

---------------------------------------------------------------------------
(***************************************************************************)
(* Loops.  What holds after the completions of a batch follows by          *)
(* induction, from the least index at which it would not hold.             *)
(***************************************************************************)

\* The order of the naturals as a set of pairs.
Less == {ss \in Nat \X Nat : ss[1] < ss[2]}

\* A set of naturals has a least element.
LEMMA LeastElement ==
    ASSUME NEW T \in SUBSET Nat, T # {}
    PROVE  \E x \in T : \A y \in T : x <= y
<1>1. IsWellFoundedOn(Less, Nat)
  BY NatLessThanWellFounded, Zenon DEF OpToRel, Less
<1>2. PICK x \in T : \A y \in T : ~(<<y, x>> \in Less)
  BY <1>1, WFMin, Zenon
<1>3. \A y \in T : x <= y
  <2> SUFFICES ASSUME NEW y \in T, ~(x <= y) PROVE FALSE
    BY <1>2
  <2>1. x \in Nat /\ y \in Nat /\ y < x
    BY <1>2
  <2>2. <<y, x>> \in Nat \X Nat /\ <<y, x>>[1] = y /\ <<y, x>>[2] = x
    BY <2>1
  <2>3. <<y, x>> \in Less
    BY <2>1, <2>2, Zenon DEF Less
  <2> QED BY <1>2, <2>3
<1> QED BY <1>3

\* A set that holds 0 and the successor of each of its elements holds 0 .. n.
LEMMA UpTo ==
    ASSUME NEW n \in Nat, NEW P, 0 \in P, \A i \in 1 .. n : i - 1 \in P => i \in P
    PROVE  \A i \in 0 .. n : i \in P
<1> DEFINE T == {i \in 0 .. n : i \notin P}
<1> SUFFICES ASSUME T # {} PROVE FALSE
  OBVIOUS
<1>1. T \in SUBSET Nat
  OBVIOUS
<1>2. PICK x \in T : \A y \in T : x <= y
  <2> HIDE DEF T
  <2> QED BY <1>1, LeastElement
<1>3. x \in 1 .. n /\ x - 1 \in 0 .. n /\ ~(x <= x - 1) /\ x \notin P
  BY <1>2
<1>4. x - 1 \in P
  BY <1>2, <1>3
<1> QED BY <1>3, <1>4

\* A bounded set of naturals has a greatest element.
LEMMA MaxIs ==
    ASSUME NEW n \in Nat, NEW T \in SUBSET (0 .. n), T # {}
    PROVE  Max(T) \in T /\ \A y \in T : y <= Max(T)
<1> DEFINE U == {i \in 0 .. n : n - i \in T}
<1>1. U \in SUBSET Nat /\ U # {}
  <2>1. PICK y \in T : TRUE
    BY Zenon
  <2>2. n - y \in 0 .. n /\ n - (n - y) = y
    OBVIOUS
  <2>3. n - y \in U
    BY <2>2
  <2>4. U \in SUBSET Nat
    OBVIOUS
  <2> QED BY <2>3, <2>4, Zenon
<1>2. PICK x \in U : \A y \in U : x <= y
  <2> HIDE DEF U
  <2> QED BY <1>1, LeastElement
<1>3. n - x \in T /\ \A y \in T : n - x >= y
  <2> SUFFICES ASSUME NEW y \in T PROVE n - x >= y
    BY <1>2
  <2>1. n - y \in 0 .. n /\ n - (n - y) = y
    OBVIOUS
  <2>2. x <= n - y
    BY <1>2, <2>1, Zenon
  <2> QED BY <1>2, <2>2
<1>4. \E z \in T : \A y \in T : z >= y
  BY <1>3
<1>5. Max(T) \in T /\ \A y \in T : Max(T) >= y
  BY <1>4, Zenon DEF Max
<1>6. \A y \in T : y <= Max(T)
  BY <1>5
<1> QED BY <1>5, <1>6

\* The statistics after each of the first k completions of h, in terms of itself.
AfterStep(h, k, g) == [i \in 0 .. k |-> IF i = 0 THEN stat ELSE WithTimestamp(g[i - 1], h[i])]

\* The loop ends.
LEMMA AfterExists ==
    ASSUME NEW h, NEW n \in Nat
    PROVE  \E g : g = AfterStep(h, n, g)
<1> DEFINE P == {k \in 0 .. n : \E g : g = AfterStep(h, k, g)}
<1>1. 0 \in P
  <2> DEFINE g == [i \in 0 .. 0 |-> stat]
  <2>1. g = AfterStep(h, 0, g)
    BY DEF AfterStep
  <2> QED BY <2>1
<1>2. ASSUME NEW k \in 1 .. n, k - 1 \in P PROVE k \in P
  <2>1. PICK g : g = AfterStep(h, k - 1, g)
    BY <1>2
  <2>2. \A i \in 0 .. k - 1 : g[i] = IF i = 0 THEN stat ELSE WithTimestamp(g[i - 1], h[i])
    BY <2>1, Zenon DEF AfterStep
  <2> DEFINE f == [i \in 0 .. k |-> IF i = k THEN WithTimestamp(g[k - 1], h[k]) ELSE g[i]]
  <2>3. \A i \in 0 .. k - 1 : f[i] = g[i]
    OBVIOUS
  <2>4. f[k] = WithTimestamp(g[k - 1], h[k]) /\ k # 0 /\ k - 1 \in 0 .. k - 1
    OBVIOUS
  <2>5. f = [i \in 0 .. k |-> f[i]]
    BY Zenon
  <2> HIDE DEF f
  <2>6. ASSUME NEW i \in 0 .. k
        PROVE  f[i] = IF i = 0 THEN stat ELSE WithTimestamp(f[i - 1], h[i])
    <3>1. CASE i = k
      BY <2>3, <2>4, <3>1, Zenon
    <3>2. CASE i # k
      <4>1. i \in 0 .. k - 1 /\ (i # 0 => i - 1 \in 0 .. k - 1)
        BY <3>2
      <4> QED BY <2>2, <2>3, <4>1, Zenon
    <3> QED BY <3>1, <3>2
  <2>7. f = AfterStep(h, k, f)
    BY <2>5, <2>6, Zenon DEF AfterStep
  <2> QED BY <2>7
<1>3. \A i \in 0 .. n : i \in P
  <2> HIDE DEF P
  <2> QED BY <1>1, <1>2, UpTo, Zenon
<1>4. n \in P
  BY <1>3
<1> QED BY <1>4

\* xdp_process_tx_timestamp for one completion.
LEMMA WithTimestampMild ==
    ASSUME NEW s \in StatType, Holding(s), NEW e, Echo(e).n \in Int, Echo(e).hw \in Nat
    PROVE  Mild(s, WithTimestamp(s, e))
<1>1. CASE Flagged(Carried(Echo(e).n))
  <2>1. conf.hwts
    BY <1>1, Zenon DEF Flagged
  <2>2. Mild(s, Completed(s, Echo(e).n, Echo(e).hw))
    BY <2>1, CompletedMild, Zenon
  <2> QED BY <1>1, <2>2, Zenon DEF WithTimestamp
<1>2. CASE ~Flagged(Carried(Echo(e).n))
  BY <1>2, MildSelf, Zenon DEF WithTimestamp
<1> QED BY <1>1, <1>2, Zenon

\* The whole loop of xdp_complete_tx.
LEMMA DrainMild ==
    ASSUME stat \in StatType, Holding(stat), NEW h, NEW n \in Nat,
           \A i \in 1 .. n : Echo(h[i]).n \in Int /\ Echo(h[i]).hw \in Nat,
           NEW g, g = AfterStep(h, n, g)
    PROVE  Mild(stat, g[n])
<1> DEFINE P == {i \in 0 .. n : Mild(stat, g[i])}
<1>1. \A i \in 0 .. n : g[i] = IF i = 0 THEN stat ELSE WithTimestamp(g[i - 1], h[i])
  BY Zenon DEF AfterStep
<1>2. 0 \in P
  <2>1. 0 \in 0 .. n
    OBVIOUS
  <2> QED BY <1>1, <2>1, MildSelf, Zenon
<1>3. ASSUME NEW i \in 1 .. n, i - 1 \in P PROVE i \in P
  <2>1. Mild(stat, g[i - 1])
    BY <1>3, Zenon
  <2>2. g[i - 1] \in StatType /\ Holding(g[i - 1])
    BY <2>1, MildHolds, Zenon DEF Mild
  <2>3. Mild(g[i - 1], WithTimestamp(g[i - 1], h[i]))
    BY <2>2, WithTimestampMild, Zenon
  <2>4. i \in 0 .. n /\ i # 0
    OBVIOUS
  <2>5. g[i] = WithTimestamp(g[i - 1], h[i])
    BY <1>1, <2>4, Zenon
  <2>6. Mild(stat, g[i])
    BY <2>1, <2>3, <2>5, MildSteps, Zenon
  <2> QED BY <2>4, <2>6, Zenon
<1>4. \A i \in 0 .. n : i \in P
  <2> HIDE DEF P
  <2> QED BY <1>2, <1>3, UpTo, Zenon
<1>5. n \in P
  BY <1>4
<1> QED BY <1>5, Zenon

---------------------------------------------------------------------------
(***************************************************************************)
(* Recording timestamps                                                    *)
(***************************************************************************)

\* The slot for a number that a batch is given.
BatchSlot(x) == (IF conf.hwts THEN (x \div Fpc) * Fpc ELSE x) % BacklogLen

\* The frames of a batch, counted from 0, that are stamped in slot s.
Hitting(seq, n, s) ==
    {i \in 0 .. n - 1 : (conf.hwts => Aligned(seq, i)) /\ BatchSlot(seq + i) = s}

\* The backlog after a batch.
Recorded(backlog, seq, fs, t) ==
    [s \in DOMAIN backlog |->
        IF Hitting(seq, Len(fs), s) = {} THEN backlog[s]
        ELSE [backlog[s] EXCEPT !.sw = [at |-> t, of |-> Owner(fs[Max(Hitting(seq, Len(fs), s)) + 1])]]]

\* It is what stat_frames_sent_batch computes.
LEMMA RecordedIs ==
    ASSUME NEW backlog, NEW seq, NEW fs, NEW t
    PROVE  FramesSentBatch(backlog, seq, fs, t) = Recorded(backlog, seq, fs, t)
BY Zenon DEF FramesSentBatch, Recorded, Hitting, BatchSlot

\* A slot keeps its timestamp, or gets that of the last frame stamped in it.
LastStays(new, old, H, fs) ==
    /\ new \in SlotType
    /\ H = {} => new = old
    /\ H # {} => \E m \in 1 .. Len(fs) : new.sw.of = Owner(fs[m]) /\ \A i \in H : i + 1 <= m

\* stat_frames_sent_batch does that.
LEMMA SlotRecorded ==
    ASSUME NEW backlog \in [0 .. BacklogLen - 1 -> SlotType], NEW seq \in Nat, NEW fs \in Seq(Nat),
           NEW t \in Nat, NEW s \in 0 .. BacklogLen - 1
    PROVE  LastStays(FramesSentBatch(backlog, seq, fs, t)[s], backlog[s],
                     Hitting(seq, Len(fs), s), fs)
<1> DEFINE H == Hitting(seq, Len(fs), s)
           new == FramesSentBatch(backlog, seq, fs, t)[s]
           st == [at |-> t, of |-> Owner(fs[Max(H) + 1])]
<1>1. new = IF H = {} THEN backlog[s] ELSE [backlog[s] EXCEPT !.sw = st]
  <2>1. DOMAIN backlog = 0 .. BacklogLen - 1
    OBVIOUS
  <2> QED BY <2>1, RecordedIs, Zenon DEF Recorded
<1>2. backlog[s] \in SlotType
  OBVIOUS
<1> HIDE DEF new
<1>3. CASE H = {}
  BY <1>1, <1>2, <1>3, Zenon DEF new, LastStays
<1>4. CASE H # {}
  <2>1. Len(fs) \in Nat /\ H \subseteq 0 .. Len(fs) - 1
    BY DEF Hitting
  <2>2. H \in SUBSET (0 .. Len(fs))
    BY <2>1
  <2> HIDE DEF H
  <2>3. Max(H) \in H /\ \A i \in H : i <= Max(H)
    BY <1>4, <2>1, <2>2, MaxIs, Zenon
  <2>4. PICK m : m \in 1 .. Len(fs) /\ m = Max(H) + 1 /\ \A i \in H : i + 1 <= m
    <3>1. PICK k : k \in 0 .. Len(fs) - 1 /\ k = Max(H)
      BY <2>1, <2>3, Zenon
    <3>2. \A i \in H : i \in Nat /\ i <= k
      BY <2>1, <2>3, <3>1
    <3>3. k + 1 \in 1 .. Len(fs) /\ \A i \in H : i + 1 <= k + 1
      BY <2>1, <3>1, <3>2
    <3> QED BY <3>1, <3>3, Zenon
  <2>5. Owner(fs[m]) \in Int
    <3>1. fs[m] \in Nat
      BY <2>4
    <3>2. fs[m] \in Int
      BY <3>1
    <3> QED BY <3>2, OwnerIs, Zenon
  <2>6. st \in StampType /\ st.of = Owner(fs[m])
    <3>1. st = [at |-> t, of |-> Owner(fs[m])]
      BY <2>4, Zenon
    <3> HIDE DEF st
    <3> QED BY <2>5, <3>1 DEF StampType
  <2> HIDE DEF st
  <2>7. new = [backlog[s] EXCEPT !.sw = st]
    BY <1>1, <1>4, Zenon
  <2>8. new \in SlotType /\ new.sw = st
    BY <1>2, <2>6, <2>7, SMTT(40) DEF SlotType
  <2>9. new.sw.of = Owner(fs[m])
    BY <2>6, <2>8, Zenon
  <2> QED BY <1>4, <2>4, <2>8, <2>9, Zenon DEF new, H, LastStays
<1> QED BY <1>3, <1>4, Zenon

\* The domain stays the same.
LEMMA BacklogRecorded ==
    ASSUME NEW backlog \in [0 .. BacklogLen - 1 -> SlotType], NEW seq \in Nat, NEW fs \in Seq(Nat),
           NEW t \in Nat
    PROVE  FramesSentBatch(backlog, seq, fs, t) \in [0 .. BacklogLen - 1 -> SlotType]
<1> DEFINE new == FramesSentBatch(backlog, seq, fs, t)
<1>1. \A s \in 0 .. BacklogLen - 1 : new[s] \in SlotType
  BY SlotRecorded, Zenon DEF LastStays
<1>2. new = [s \in 0 .. BacklogLen - 1 |-> new[s]]
  <2>1. DOMAIN backlog = 0 .. BacklogLen - 1
    OBVIOUS
  <2>2. new = Recorded(backlog, seq, fs, t)
    BY RecordedIs, Zenon
  <2> HIDE DEF new
  <2> QED BY <2>1, <2>2, Zenon DEF Recorded
<1> HIDE DEF new
<1>3. new \in [0 .. BacklogLen - 1 -> SlotType]
  BY <1>1, <1>2
<1> QED BY <1>3 DEF new

\* A frame that is given its own number is stamped in its own slot.
LEMMA OwnHit ==
    ASSUME NEW seq \in Nat, NEW fs \in Seq(Nat), NEW j \in 1 .. Len(fs),
           conf.hwts => IsFirst(fs[j]), Carried(seq + j - 1) = Carried(fs[j])
    PROVE  j - 1 \in Hitting(seq, Len(fs), Slot(Owner(fs[j])))
<1>1. PICK x, n : x \in Int /\ n \in Int /\ x = seq + (j - 1) /\ x = seq + j - 1 /\ n = fs[j]
  OBVIOUS
<1>2. j - 1 \in 0 .. Len(fs) - 1
  OBVIOUS
<1>3. Carried(x) = Carried(n)
  BY <1>1, Zenon
<1>4. conf.hwts => Aligned(seq, j - 1)
  <2>1. x % Fpc = n % Fpc
    BY <1>1, <1>3, CarriedIs, Zenon
  <2> QED BY <1>1, <2>1, Zenon DEF IsFirst, Aligned
<1>5. FirstFrameIdx(x) = FirstFrameIdx(n) /\ x % BacklogLen = n % BacklogLen
  BY <1>1, <1>3, SameSlot, Zenon
<1>6. BatchSlot(x) = Slot(Owner(n))
  <2>1. CASE conf.hwts
    BY <1>1, <1>5, <2>1, OwnSlot, Zenon DEF BatchSlot, FirstFrameIdx
  <2>2. CASE ~conf.hwts
    BY <1>1, <1>5, <2>2, OwnSlot, Zenon DEF BatchSlot
  <2> QED BY <2>1, <2>2, Zenon
<1> QED BY <1>1, <1>2, <1>4, <1>6, Zenon DEF Hitting

\* In the order of their numbers.
Rising(s) == \A i, j \in 1 .. Len(s) : i < j => s[i] <= s[j]

\* Nothing that was stamped is later than a frame of s.
NoneLater(s) == \A o \in stamped, i \in 1 .. Len(s) : o <= Owner(s[i])

\* Recording a batch that comes after everything stamped.
LEMMA RecordHolds ==
    ASSUME stat \in StatType, now \in Nat, Holding(stat), NEW seq \in Nat, NEW fs \in Seq(Nat),
           Rising(fs), NoneLater(fs), Record(seq, fs), conf' = conf
    PROVE  /\ stat' \in StatType /\ now' \in Nat /\ Holding(stat)' /\ stat'.stale = stat.stale
           /\ \A o \in stamped' : o \in stamped \/ \E i \in 1 .. Len(fs) : o = Owner(fs[i])
<1> DEFINE new == FramesSentBatch(stat.backlog, seq, fs, now + 1)
           b == stat.backlog
<1>1. stat' = [stat EXCEPT !.backlog = new] /\ (now' = now \/ now' = now + 1)
  BY Zenon DEF Record
<1>2. b \in [0 .. BacklogLen - 1 -> SlotType] /\ now + 1 \in Nat
  BY Fields
<1>3. new \in [0 .. BacklogLen - 1 -> SlotType]
  BY <1>2, BacklogRecorded, Zenon
<1>4. \A s \in 0 .. BacklogLen - 1 : LastStays(new[s], b[s], Hitting(seq, Len(fs), s), fs)
  BY <1>2, SlotRecorded, Zenon
<1> HIDE DEF new, b
<1>5. stat'.backlog = new /\ stat'.stale = stat.stale /\ stat' \in StatType
  BY <1>1, <1>3, Zenon DEF StatType
<1>6. now' \in Nat
  BY <1>1
<1>7. ASSUME NEW o \in stamped'
      PROVE  \/ o \in stamped
             \/ \E j \in 1 .. Len(fs) : /\ o = Owner(fs[j]) /\ (conf.hwts => IsFirst(fs[j]))
                                        /\ Carried(seq + j - 1) = Carried(fs[j])
  BY <1>7 DEF Record
<1>8. \A s : Slot(s)' = Slot(s)
  BY Zenon DEF Slot, FirstFrameIdx, BacklogLen
<1>9. \A i \in 1 .. Len(fs) : fs[i] \in Int /\ fs[i] \in Nat /\ Owner(fs[i]) \in Nat
  <2> SUFFICES ASSUME NEW i \in 1 .. Len(fs) PROVE fs[i] \in Int /\ fs[i] \in Nat /\ Owner(fs[i]) \in Nat
    BY Zenon
  <2>1. fs[i] \in Nat /\ fs[i] \in Int
    OBVIOUS
  <2> QED BY <2>1, OwnerIs, Zenon
<1>10. ASSUME NEW o \in stamped' PROVE o \in Nat /\ new[Slot(o)].sw.of >= o
  <2>1. CASE o \in stamped
    <3>1. o \in Nat /\ b[Slot(o)].sw.of >= o
      BY <2>1, Zenon DEF Holding, b
    <3>2. Slot(o) \in 0 .. BacklogLen - 1
      BY <3>1, SlotIs
    <3>3. CASE Hitting(seq, Len(fs), Slot(o)) = {}
      BY <1>4, <3>1, <3>2, <3>3, Zenon DEF LastStays
    <3>4. CASE Hitting(seq, Len(fs), Slot(o)) # {}
      <4>1. PICK m \in 1 .. Len(fs) : new[Slot(o)].sw.of = Owner(fs[m])
        BY <1>4, <3>2, <3>4, Zenon DEF LastStays
      <4>2. o <= Owner(fs[m]) /\ Owner(fs[m]) \in Nat
        BY <1>9, <2>1, Zenon DEF NoneLater
      <4>3. Owner(fs[m]) >= o
        BY <3>1, <4>2
      <4> QED BY <3>1, <4>1, <4>3, Zenon
    <3> QED BY <3>3, <3>4, Zenon
  <2>2. CASE o \notin stamped
    <3>1. PICK j \in 1 .. Len(fs) : /\ o = Owner(fs[j]) /\ (conf.hwts => IsFirst(fs[j]))
                                    /\ Carried(seq + j - 1) = Carried(fs[j])
      BY <1>7, <2>2, Zenon
    <3>2. j - 1 \in Hitting(seq, Len(fs), Slot(o))
      BY <3>1, OwnHit, Zenon
    <3>3. o \in Nat /\ o \in Int
      BY <1>9, <3>1
    <3>4. Slot(o) \in 0 .. BacklogLen - 1
      BY <3>3, SlotIs, Zenon
    <3>5. PICK m : m \in 1 .. Len(fs) /\ new[Slot(o)].sw.of = Owner(fs[m]) /\ (j - 1) + 1 <= m
      BY <1>4, <3>2, <3>4, Zenon DEF LastStays
    <3>6. j = m \/ j < m
      BY <3>5
    <3>7. fs[j] <= fs[m]
      <4>1. CASE j = m
        <5>1. fs[m] \in Nat
          BY <1>9, <3>5, Zenon
        <5> QED BY <4>1, <5>1
      <4>2. CASE j < m
        BY <3>5, <4>2, Zenon DEF Rising
      <4> QED BY <3>6, <4>1, <4>2, Zenon
    <3>8. Owner(fs[j]) <= Owner(fs[m]) /\ Owner(fs[m]) \in Nat
      BY <1>9, <3>5, <3>7, OwnerIs, Zenon
    <3>9. Owner(fs[m]) >= o
      BY <3>1, <3>3, <3>8
    <3> QED BY <3>3, <3>5, <3>9, Zenon
  <2> QED BY <2>1, <2>2, Zenon
<1>11. Holding(stat)'
  BY <1>5, <1>8, <1>10, Zenon DEF Holding
<1>12. \A o \in stamped' : o \in stamped \/ \E i \in 1 .. Len(fs) : o = Owner(fs[i])
  BY <1>7, Zenon
<1> QED BY <1>5, <1>6, <1>11, <1>12, Zenon

---------------------------------------------------------------------------
(***************************************************************************)
(* The frames waiting for the Tx thread                                    *)
(***************************************************************************)

\* They are in the order of their numbers: what is being sent, what was received,
\* what is still to come.
InOrder(b, q, n) ==
    /\ b \in Seq(Nat) /\ q \in Seq(Nat) /\ n \in Nat
    /\ Rising(b) /\ Rising(q)
    /\ \A i \in 1 .. Len(b), j \in 1 .. Len(q) : b[i] <= q[j]
    /\ \A i \in 1 .. Len(b) : b[i] <= n
    /\ \A j \in 1 .. Len(q) : q[j] <= n

QueueInv ==
    /\ conf \in Configs /\ rx_sequence_counter \in Nat
    /\ InOrder(batch, queue, next)
    /\ ~conf.mirror => queue = << >>
    /\ pc = "stamp" => batch # << >>
    /\ conf.mirror => Len(batch) + Len(queue) <= rx_sequence_counter

\* Nothing to send.
LEMMA OrderNone ==
    ASSUME NEW b, NEW q, NEW n, InOrder(b, q, n)
    PROVE  InOrder(<< >>, q, n) /\ InOrder(q, << >>, n) /\ InOrder(<< >>, << >>, n)
<1>1. << >> \in Seq(Nat) /\ Len(<< >>) = 0 /\ 1 .. 0 = {}
  OBVIOUS
<1> QED BY <1>1, Zenon DEF InOrder, Rising

\* The first frame has been dealt with.
LEMMA OrderTail ==
    ASSUME NEW b, NEW q, NEW n, InOrder(b, q, n), b # << >>
    PROVE  InOrder(Tail(b), q, n)
<1>1. b \in Seq(Nat) /\ Len(b) \in Nat
  BY DEF InOrder
<1>2. PICK t : t = Tail(b)
  BY Zenon
<1>3. t \in Seq(Nat) /\ Len(t) = Len(b) - 1 /\ \A i \in 1 .. Len(t) : t[i] = b[i + 1]
  BY <1>1, <1>2
<1>4. \A i \in 1 .. Len(t) : i + 1 \in 1 .. Len(b)
  BY <1>1, <1>3
<1>5. Rising(t)
  <2> SUFFICES ASSUME NEW i \in 1 .. Len(t), NEW j \in 1 .. Len(t), i < j PROVE t[i] <= t[j]
    BY Zenon DEF Rising
  <2>1. i + 1 < j + 1
    OBVIOUS
  <2> QED BY <1>3, <1>4, <2>1, Zenon DEF InOrder, Rising
<1> QED BY <1>2, <1>3, <1>4, <1>5, Zenon DEF InOrder

\* Frames are lost or go elsewhere.
LEMMA OrderLater ==
    ASSUME NEW b, NEW q, NEW n, InOrder(b, q, n), NEW m \in Nat, n <= m
    PROVE  InOrder(b, q, m)
<1>1. \A x \in Nat : n \in Nat /\ (x <= n => x <= m)
  BY DEF InOrder
<1>2. \A i \in 1 .. Len(b) : b[i] \in Nat
  BY DEF InOrder
<1>3. \A i \in 1 .. Len(q) : q[i] \in Nat
  BY DEF InOrder
<1> QED BY <1>1, <1>2, <1>3, Zenon DEF InOrder

\* The next frame arrives.
LEMMA OrderAppend ==
    ASSUME NEW b, NEW q, NEW n, InOrder(b, q, n)
    PROVE  InOrder(b, Append(q, n), n + 1)
<1>1. b \in Seq(Nat) /\ q \in Seq(Nat) /\ n \in Nat /\ Len(q) \in Nat
  BY DEF InOrder
<1>2. PICK a : a = Append(q, n)
  BY Zenon
<1>3. /\ a \in Seq(Nat) /\ Len(a) = Len(q) + 1 /\ a[Len(q) + 1] = n
      /\ \A i \in 1 .. Len(q) : a[i] = q[i]
  BY <1>1, <1>2
<1>4. \A i \in 1 .. Len(a) : i \in 1 .. Len(q) \/ i = Len(q) + 1
  BY <1>1, <1>3
<1>5. \A i \in 1 .. Len(q) : a[i] \in Nat /\ a[i] <= n
  <2>1. \A i \in 1 .. Len(q) : q[i] \in Nat
    BY <1>1
  <2> QED BY <1>3, <2>1, Zenon DEF InOrder
<1>6. \A i \in 1 .. Len(a) : a[i] \in Nat /\ a[i] <= n
  BY <1>1, <1>3, <1>4, <1>5
<1>7. Rising(a)
  <2> SUFFICES ASSUME NEW i \in 1 .. Len(a), NEW j \in 1 .. Len(a), i < j PROVE a[i] <= a[j]
    BY Zenon DEF Rising
  <2>1. CASE j = Len(q) + 1
    BY <1>3, <1>6, <2>1, Zenon
  <2>2. CASE j \in 1 .. Len(q)
    <3>1. i \in 1 .. Len(q)
      BY <1>1, <2>2
    <3> QED BY <1>3, <2>2, <3>1, Zenon DEF InOrder, Rising
  <2> QED BY <1>4, <2>1, <2>2, Zenon
<1>8. \A i \in 1 .. Len(b), j \in 1 .. Len(a) : b[i] <= a[j]
  BY <1>3, <1>4, Zenon DEF InOrder
<1>9. n + 1 \in Nat /\ \A x \in Nat : x <= n => x <= n + 1
  BY <1>1
<1>10. \A i \in 1 .. Len(a) : a[i] <= n + 1
  BY <1>6, <1>9, Zenon
<1>11. \A i \in 1 .. Len(b) : b[i] \in Nat
  BY <1>1
<1> QED BY <1>1, <1>2, <1>3, <1>7, <1>8, <1>9, <1>10, <1>11, Zenon DEF InOrder

\* The frames of a new cycle.
Cycle(n) == [i \in 1 .. Fpc |-> n + i - 1]

\* They are in order.
LEMMA CycleIs ==
    ASSUME NEW n \in Nat
    PROVE  /\ Cycle(n) \in Seq(Nat) /\ Len(Cycle(n)) = Fpc /\ Cycle(n) # << >>
           /\ \A i \in 1 .. Fpc : n <= Cycle(n)[i] /\ Cycle(n)[i] <= n + Fpc
           /\ n + Fpc \in Nat /\ n <= n + Fpc
           /\ InOrder(Cycle(n), << >>, n + Fpc)
<1>1. Fpc \in Nat \ {0}
  BY Constants
<1>2. PICK c : c = Cycle(n)
  OBVIOUS
<1>3. c \in Seq(Nat) /\ Len(c) = Fpc
  BY <1>1, <1>2 DEF Cycle
<1>4. \A i \in 1 .. Fpc : c[i] = n + i - 1
  BY <1>1, <1>2 DEF Cycle
<1>5. c # << >>
  BY <1>1, <1>3
<1>6. \A i \in 1 .. Fpc : n <= c[i] /\ c[i] <= n + Fpc
  BY <1>1, <1>4
<1>7. \A i, j \in 1 .. Fpc : i < j => c[i] <= c[j]
  BY <1>1, <1>4
<1>8. n + Fpc \in Nat /\ n <= n + Fpc
  BY <1>1
<1>9. << >> \in Seq(Nat) /\ Len(<< >>) = 0 /\ 1 .. 0 = {}
  OBVIOUS
<1>10. InOrder(c, << >>, n + Fpc)
  BY <1>3, <1>6, <1>7, <1>8, <1>9, Zenon DEF InOrder, Rising
<1> QED BY <1>2, <1>3, <1>5, <1>6, <1>8, <1>10, Zenon

\* The configuration does not change.
LEMMA SameConf ==
    ASSUME [Next]_vars
    PROVE  conf' = conf
BY Zenon DEF Next, GenSend, GenSubmit, MirrorSend, StampBatch, StampFrame, DrainMessage, DrainEnd,
         DrainRing, KernelTake, NicTransmit, RxMirror, LoseToMirror, RxReference, LoseToReference,
         Finished, vars

\* Its fields.
LEMMA ConfIs ==
    ASSUME conf \in Configs
    PROVE  conf.mirror \in BOOLEAN /\ conf.xdp \in BOOLEAN /\ conf.hwts \in BOOLEAN
<1>1. conf \in [mirror : BOOLEAN, xdp : BOOLEAN, hwts : BOOLEAN]
  BY TxTimestampsAssumption
<1> QED BY <1>1

\* The frames waiting stay in order.
LEMMA QueueStep ==
    ASSUME QueueInv, [Next]_vars
    PROVE  QueueInv'
<1>1. conf' = conf
  BY SameConf
<1>2. /\ conf \in Configs /\ rx_sequence_counter \in Nat /\ InOrder(batch, queue, next)
      /\ ~conf.mirror => queue = << >>
      /\ pc = "stamp" => batch # << >>
      /\ conf.mirror => Len(batch) + Len(queue) <= rx_sequence_counter
  BY DEF QueueInv
<1>3. batch \in Seq(Nat) /\ queue \in Seq(Nat) /\ next \in Nat /\ Len(batch) \in Nat /\ Len(queue) \in Nat
  BY <1>2 DEF InOrder
<1>4. Len(<< >>) = 0 /\ Fpc \in Nat \ {0}
  BY Constants
\* A generator starts a cycle.
<1>5. ASSUME ~conf.mirror, next' = next + Fpc, UNCHANGED <<queue, rx_sequence_counter>>,
             batch' = Cycle(next) \/ (batch' = << >> /\ pc' = "drain")
      PROVE  QueueInv'
  <2>1. queue' = << >> /\ rx_sequence_counter' \in Nat
    BY <1>2, <1>5, Zenon
  <2>2. InOrder(batch', queue', next') /\ (pc' = "stamp" => batch' # << >>)
    <3>1. CASE batch' = Cycle(next)
      BY <1>3, <1>5, <2>1, <3>1, CycleIs, Zenon
    <3>2. CASE batch' = << >> /\ pc' = "drain"
      <4>1. InOrder(Cycle(next), << >>, next + Fpc)
        BY <1>3, CycleIs, Zenon
      <4>2. InOrder(<< >>, << >>, next + Fpc)
        BY <4>1, OrderNone, Zenon
      <4>3. pc' # "stamp"
        BY <3>2
      <4> QED BY <1>5, <2>1, <3>2, <4>2, <4>3, Zenon
    <3> QED BY <1>5, <3>1, <3>2, Zenon
  <2> QED BY <1>1, <1>2, <1>5, <2>1, <2>2, Zenon DEF QueueInv
<1>6. CASE GenSend
  <2>1. /\ ~conf.mirror /\ next' = next + Fpc /\ UNCHANGED <<queue, rx_sequence_counter>>
        /\ batch' = Cycle(next) \/ (batch' = << >> /\ pc' = "drain")
    BY <1>6, Zenon DEF GenSend, Cycle
  <2> QED BY <1>5, <2>1, Zenon
<1>7. CASE GenSubmit
  <2>1. /\ ~conf.mirror /\ next' = next + Fpc /\ UNCHANGED <<queue, rx_sequence_counter>>
        /\ batch' = Cycle(next) \/ (batch' = << >> /\ pc' = "drain")
    BY <1>7, Zenon DEF GenSubmit, Cycle, Generator
  <2> QED BY <1>5, <2>1, Zenon
<1>8. CASE MirrorSend
  <2>1. /\ queue' = << >> /\ next' = next /\ rx_sequence_counter' = rx_sequence_counter /\ conf.mirror
        /\ \/ batch' = queue /\ pc' = IF queue = << >> THEN "drain" ELSE "stamp"
           \/ batch' = << >> /\ pc' = "drain"
    BY <1>8, Zenon DEF MirrorSend
  <2>2. InOrder(batch', queue', next')
    BY <1>2, <2>1, OrderNone, Zenon
  <2>3. pc' = "stamp" => batch' # << >>
    BY <2>1
  <2>4. Len(batch') + Len(queue') <= rx_sequence_counter'
    <3>1. Len(batch') = Len(queue) \/ Len(batch') = 0
      BY <1>4, <2>1, Zenon
    <3>2. Len(queue') = 0
      BY <2>1
    <3> QED BY <1>2, <1>3, <2>1, <3>1, <3>2, SMTT(40)
  <2> QED BY <1>1, <1>2, <2>1, <2>2, <2>3, <2>4, Zenon DEF QueueInv
<1>9. CASE StampBatch
  <2>1. /\ batch' = << >> /\ pc' # "stamp" /\ UNCHANGED <<next, queue, rx_sequence_counter>>
    BY <1>9 DEF StampBatch
  <2>2. InOrder(batch', queue', next')
    BY <1>2, <2>1, OrderNone, Zenon
  <2>3. conf.mirror => Len(batch') + Len(queue') <= rx_sequence_counter'
    BY <1>2, <1>3, <2>1
  <2> QED BY <1>1, <1>2, <2>1, <2>2, <2>3, Zenon DEF QueueInv
<1>10. CASE StampFrame
  <2>1. /\ pc = "stamp" /\ batch' = Tail(batch) /\ pc' = IF Len(batch) = 1 THEN "drain" ELSE "stamp"
        /\ UNCHANGED <<next, queue, rx_sequence_counter>>
    BY <1>10, Zenon DEF StampFrame
  <2>2. batch # << >>
    BY <1>2, <2>1
  <2>3. InOrder(batch', queue', next')
    BY <1>2, <2>1, <2>2, OrderTail, Zenon
  <2>4. Len(batch') = Len(batch) - 1
    BY <1>3, <2>1, <2>2
  <2>5. pc' = "stamp" => batch' # << >>
    <3> SUFFICES ASSUME pc' = "stamp" PROVE batch' # << >>
      OBVIOUS
    <3>1. Len(batch) # 1
      BY <2>1
    <3>2. Len(batch') # 0
      BY <1>3, <2>4, <3>1
    <3> QED BY <1>4, <3>2, Zenon
  <2>6. conf.mirror => Len(batch') + Len(queue') <= rx_sequence_counter'
    BY <1>2, <1>3, <2>1, <2>4
  <2> QED BY <1>1, <1>2, <2>1, <2>3, <2>5, <2>6, Zenon DEF QueueInv
<1>11. CASE RxMirror
  <2>1. /\ conf.mirror /\ queue' = Append(queue, next) /\ next' = next + 1
        /\ rx_sequence_counter' = rx_sequence_counter + (IF Carried(next) # rx_sequence_counter THEN 2 ELSE 1)
        /\ UNCHANGED <<batch, pc>>
    BY <1>11, Zenon DEF RxMirror
  <2>2. InOrder(batch', queue', next')
    BY <1>2, <2>1, OrderAppend, Zenon
  <2>3. Len(queue') = Len(queue) + 1
    BY <1>3, <2>1
  <2>4. rx_sequence_counter' \in Nat /\ rx_sequence_counter' >= rx_sequence_counter + 1
    <3>1. rx_sequence_counter' = rx_sequence_counter + 2 \/ rx_sequence_counter' = rx_sequence_counter + 1
      BY <2>1, Zenon
    <3> QED BY <1>2, <3>1
  <2>5. Len(batch') + Len(queue') <= rx_sequence_counter'
    <3>1. Len(batch') = Len(batch)
      BY <2>1
    <3> QED BY <1>2, <1>3, <2>1, <2>3, <2>4, <3>1, SMTT(40)
  <2> QED BY <1>1, <1>2, <2>1, <2>2, <2>4, <2>5, Zenon DEF QueueInv
<1>12. CASE LoseToMirror
  <2>1. conf.mirror /\ next' = next + 1 /\ UNCHANGED <<queue, batch, pc, rx_sequence_counter>>
    BY <1>12, Zenon DEF LoseToMirror
  <2>2. next + 1 \in Nat /\ next <= next + 1
    BY <1>3
  <2>3. InOrder(batch', queue', next')
    BY <1>2, <2>1, <2>2, OrderLater, Zenon
  <2> QED BY <1>1, <1>2, <2>1, <2>3, Zenon DEF QueueInv
<1>13. ASSUME UNCHANGED <<next, queue, batch, rx_sequence_counter>>,
              pc' = "stamp" => pc = "stamp" \/ batch # << >>
       PROVE  QueueInv'
  BY <1>1, <1>2, <1>13, Zenon DEF QueueInv
<1>14. CASE DrainRing
  <2>1. UNCHANGED <<next, queue, batch, rx_sequence_counter>> /\ (pc' = "stamp" => batch # << >>)
    BY <1>14 DEF DrainRing
  <2> QED BY <1>13, <2>1, Zenon
<1>15. CASE DrainEnd
  <2>1. UNCHANGED <<next, queue, batch, rx_sequence_counter>> /\ pc' # "stamp"
    BY <1>15 DEF DrainEnd
  <2> QED BY <1>13, <2>1, Zenon
<1>16. CASE \/ DrainMessage \/ KernelTake \/ NicTransmit \/ RxReference \/ LoseToReference
            \/ Finished \/ UNCHANGED vars
  <2>1. UNCHANGED <<next, queue, batch, rx_sequence_counter>> /\ pc' = pc
    BY <1>16, Zenon DEF DrainMessage, KernelTake, NicTransmit, RxReference, LoseToReference,
                        Finished, vars
  <2> QED BY <1>13, <2>1, Zenon
<1> QED BY <1>6, <1>7, <1>8, <1>9, <1>10, <1>11, <1>12, <1>14, <1>15, <1>16, Zenon DEF Next

---------------------------------------------------------------------------
(***************************************************************************)
(* Frames handed to the kernel                                             *)
(***************************************************************************)

\* The entries of s have the umem frames from the b-th on, in a round.
Round(s, b) == \A i \in 1 .. Len(s) : s[i].f = (b + (i - 1)) % TxFrames

\* From the completion ring back to the Tx ring, the umem frames in use follow each
\* other, and the next one to be used follows them.
InUse(a) ==
    /\ Round(cq, a) /\ Round(nic, a + Len(cq)) /\ Round(ring, (a + Len(cq)) + Len(nic))
    /\ frame_number = (((a + Len(cq)) + Len(nic)) + Len(ring)) % TxFrames

KernelInv ==
    /\ ring \in Seq(EntryType) /\ nic \in Seq(EntryType) /\ cq \in Seq(EntryType)
    /\ umem \in [0 .. TxFrames - 1 -> EntryType]
    /\ air \in Seq(Int)
    /\ Generator => \E a \in Nat : InUse(a)
    /\ ~conf.xdp /\ ~conf.hwts => cq = << >>

\* The first entry and the others.
LEMMA RoundTail ==
    ASSUME NEW s \in Seq(EntryType), s # << >>, NEW b \in Nat, Round(s, b)
    PROVE  /\ Head(s) \in EntryType /\ Head(s).f = b % TxFrames
           /\ Tail(s) \in Seq(EntryType) /\ Len(Tail(s)) = Len(s) - 1 /\ Round(Tail(s), b + 1)
<1>1. Len(s) \in Nat \ {0} /\ Head(s) = s[1] /\ Head(s) \in EntryType
  BY EmptySeq, HeadTailProperties
<1>2. Head(s).f = b % TxFrames
  <2>1. 1 \in 1 .. Len(s) /\ b + (1 - 1) = b
    BY <1>1
  <2> QED BY <1>1, <2>1, Zenon DEF Round
<1>3. PICK t : t = Tail(s)
  BY Zenon
<1>4. t \in Seq(EntryType) /\ Len(t) = Len(s) - 1 /\ \A i \in 1 .. Len(t) : t[i] = s[i + 1]
  BY <1>1, <1>3, HeadTailProperties
<1>5. ASSUME NEW i \in 1 .. Len(t) PROVE t[i].f = ((b + 1) + (i - 1)) % TxFrames
  <2>1. i + 1 \in 1 .. Len(s) /\ b + ((i + 1) - 1) = (b + 1) + (i - 1)
    BY <1>1, <1>4
  <2>2. s[i + 1].f = (b + ((i + 1) - 1)) % TxFrames
    BY <2>1, Zenon DEF Round
  <2> QED BY <1>4, <2>1, <2>2, Zenon
<1> QED BY <1>1, <1>2, <1>3, <1>4, <1>5, Zenon DEF Round

\* One more entry.
LEMMA RoundAppend ==
    ASSUME NEW s \in Seq(EntryType), NEW b \in Nat, Round(s, b),
           NEW e \in EntryType, e.f = (b + Len(s)) % TxFrames
    PROVE  /\ Append(s, e) \in Seq(EntryType) /\ Len(Append(s, e)) = Len(s) + 1
           /\ Round(Append(s, e), b)
<1>1. PICK t : t = Append(s, e)
  BY ZenonT(40)
<1>2. /\ t \in Seq(EntryType) /\ Len(t) = Len(s) + 1 /\ t[Len(s) + 1] = e /\ Len(s) \in Nat
      /\ \A i \in 1 .. Len(s) : t[i] = s[i]
  BY <1>1
<1>3. ASSUME NEW i \in 1 .. Len(t) PROVE t[i].f = (b + (i - 1)) % TxFrames
  <2>1. CASE i \in 1 .. Len(s)
    BY <1>2, <2>1, Zenon DEF Round
  <2>2. CASE i = Len(s) + 1
    <3>1. i - 1 = Len(s)
      BY <1>2, <2>2
    <3> QED BY <1>2, <2>2, <3>1, Zenon
  <2>3. i \in 1 .. Len(s) \/ i = Len(s) + 1
    BY <1>2
  <2> QED BY <2>1, <2>2, <2>3, Zenon
<1> QED BY <1>1, <1>2, <1>3, Zenon DEF Round

\* The entries of a new cycle: they start at frame_number.
NewEntries == [i \in 1 .. Fpc |-> Entry(-1, UmemFrame(i - 1))]

\* Appended to what is in use, they follow it round robin.
LEMMA RoundCycle ==
    ASSUME NEW s \in Seq(EntryType), NEW b \in Nat, Round(s, b),
           frame_number = (b + Len(s)) % TxFrames
    PROVE  /\ s \o NewEntries \in Seq(EntryType) /\ Len(s \o NewEntries) = Len(s) + Fpc
           /\ Round(s \o NewEntries, b)
           /\ UmemFrame(Fpc) = (b + (Len(s) + Fpc)) % TxFrames
<1>1. Fpc \in Nat \ {0} /\ TxFrames \in Nat \ {0} /\ Len(s) \in Nat
  BY Constants
<1>2. PICK k : k \in Int /\ k = b + Len(s)
  BY <1>1
<1>3. ASSUME NEW i \in Int PROVE UmemFrame(i) = (k + i) % TxFrames /\ UmemFrame(i) \in Int
  <2>1. ((k % TxFrames) + i) % TxFrames = (k + i) % TxFrames
    BY <1>1, <1>2, ModAdd, Zenon
  <2>2. k + i \in Int
    BY <1>2
  <2>3. (k + i) % TxFrames \in Int
    BY <1>1, <2>2
  <2> QED BY <1>2, <2>1, <2>3, Zenon DEF UmemFrame
<1>4. PICK u : u = NewEntries
  OBVIOUS
<1>5. ASSUME NEW i \in 1 .. Fpc
      PROVE  u[i] \in EntryType /\ u[i].f = (k + (i - 1)) % TxFrames
  <2>1. i - 1 \in Int
    BY <1>1
  <2>2. u[i] = Entry(-1, UmemFrame(i - 1))
    BY <1>4, Zenon DEF NewEntries
  <2>3. PICK f : f = UmemFrame(i - 1) /\ f \in Int
    BY <1>3, <2>1, Zenon
  <2>4. Entry(-1, f) \in EntryType /\ Entry(-1, f).f = f
    BY <2>3 DEF Entry, EntryType
  <2> QED BY <1>3, <2>1, <2>2, <2>3, <2>4, Zenon
<1>6. u \in Seq(EntryType) /\ Len(u) = Fpc
  <2>1. u \in [1 .. Fpc -> EntryType]
    <3>1. u = [i \in 1 .. Fpc |-> u[i]]
      BY <1>4, Zenon DEF NewEntries
    <3> QED BY <1>5, <3>1
  <2> QED BY <1>1, <2>1
<1>7. PICK t : t = s \o u
  BY ZenonT(40)
<1>8. /\ t \in Seq(EntryType) /\ Len(t) = Len(s) + Fpc
      /\ \A i \in 1 .. Len(s) + Len(u) : t[i] = IF i <= Len(s) THEN s[i] ELSE u[i - Len(s)]
  BY <1>6, <1>7, ConcatProperties, Zenon
<1>9. ASSUME NEW i \in 1 .. Len(t) PROVE t[i].f = (b + (i - 1)) % TxFrames
  <2>1. i \in 1 .. Len(s) + Len(u)
    BY <1>6, <1>8, Zenon
  <2>2. CASE i <= Len(s)
    <3>1. i \in 1 .. Len(s)
      BY <1>1, <2>2
    <3> QED BY <1>8, <2>1, <2>2, <3>1, Zenon DEF Round
  <2>3. CASE ~(i <= Len(s))
    <3>1. i - Len(s) \in 1 .. Fpc /\ k + ((i - Len(s)) - 1) = b + (i - 1)
      BY <1>1, <1>2, <1>8, <2>3, SMTT(40)
    <3> QED BY <1>5, <1>8, <2>1, <2>3, <3>1, Zenon
  <2> QED BY <2>2, <2>3, Zenon
<1>10. UmemFrame(Fpc) = (b + (Len(s) + Fpc)) % TxFrames
  <2>1. Fpc \in Int /\ k + Fpc = b + (Len(s) + Fpc)
    BY <1>1, <1>2
  <2> QED BY <1>3, <2>1, Zenon
<1> QED BY <1>4, <1>7, <1>8, <1>9, <1>10, Zenon DEF Round

\* Frames handed over by AF_PACKET and by the mirror.
LEMMA EntriesAre ==
    ASSUME NEW s \in Seq(EntryType), NEW fs \in Seq(Nat)
    PROVE  s \o Entries(fs) \in Seq(EntryType)
<1>1. Len(fs) \in Nat /\ \A i \in 1 .. Len(fs) : fs[i] \in Int
  OBVIOUS
<1>2. PICK u : u = Entries(fs)
  OBVIOUS
<1>3. u \in [1 .. Len(fs) -> EntryType]
  BY <1>1, <1>2 DEF Entries, Entry, EntryType
<1>4. u \in Seq(EntryType)
  <2>1. PICK n \in Nat : n = Len(fs)
    BY <1>1, Zenon
  <2>2. u \in [1 .. n -> EntryType]
    BY <1>3, <2>1, Zenon
  <2> QED BY <2>2
<1>5. s \o u \in Seq(EntryType)
  BY <1>4, ConcatProperties, Zenon
<1> QED BY <1>2, <1>5, Zenon

\* What a completion or the NIC finds is a frame.
LEMMA EchoIs ==
    ASSUME KernelInv, NEW e \in EntryType, Generator => e.f \in 0 .. TxFrames - 1
    PROVE  Echo(e) \in EntryType
<1>1. CASE Generator
  <2>1. umem[e.f] \in EntryType
    BY <1>1 DEF KernelInv
  <2> QED BY <1>1, <2>1, Zenon DEF Echo
<1>2. CASE ~Generator
  BY <1>2, Zenon DEF Echo
<1> QED BY <1>1, <1>2

\* The generator submits a cycle (xdp_gen_and_send_frames).
LEMMA KernelGenSubmit ==
    ASSUME KernelInv, next \in Nat, GenSubmit
    PROVE  KernelInv'
<1>1. /\ Generator /\ UNCHANGED <<conf, nic, cq, air>>
      /\ \/ UNCHANGED <<ring, umem, frame_number>>
         \/ /\ ring' = ring \o [i \in 1 .. Fpc |-> Entry(-1, [j \in 1 .. Fpc |-> UmemFrame(j - 1)][i])]
            /\ frame_number' = UmemFrame(Fpc)
            /\ umem' = [u \in DOMAIN umem |->
                          IF \E i \in 1 .. Fpc : [j \in 1 .. Fpc |-> UmemFrame(j - 1)][i] = u
                          THEN Entry([j \in 1 .. Fpc |-> next + j - 1]
                                        [CHOOSE i \in 1 .. Fpc : [j \in 1 .. Fpc |-> UmemFrame(j - 1)][i] = u], u)
                          ELSE umem[u]]
  BY Zenon DEF GenSubmit
<1>2. /\ ring \in Seq(EntryType) /\ nic \in Seq(EntryType) /\ cq \in Seq(EntryType)
      /\ umem \in [0 .. TxFrames - 1 -> EntryType] /\ air \in Seq(Int)
      /\ \E a \in Nat : InUse(a)
      /\ ~conf.xdp /\ ~conf.hwts => cq = << >>
  BY <1>1, Zenon DEF KernelInv
<1>3. CASE UNCHANGED <<ring, umem, frame_number>>
  <2>1. \E a \in Nat : InUse(a)'
    BY <1>1, <1>2, <1>3, Zenon DEF InUse, Round
  <2> QED BY <1>1, <1>2, <1>3, <2>1, Zenon DEF KernelInv, Generator
<1>4. CASE ~UNCHANGED <<ring, umem, frame_number>>
  <2>1. ring' = ring \o NewEntries
    <3>1. [i \in 1 .. Fpc |-> Entry(-1, [j \in 1 .. Fpc |-> UmemFrame(j - 1)][i])] = NewEntries
      BY Zenon DEF NewEntries
    <3> QED BY <1>1, <1>4, <3>1, Zenon
  <2>2. PICK a \in Nat : InUse(a)
    BY <1>2, Zenon
  <2>3. PICK c, n : c = Len(cq) /\ n = Len(nic) /\ c \in Nat /\ n \in Nat
    BY <1>2, LenProperties, Zenon
  <2>4. PICK b : b \in Nat /\ b = (a + c) + n
    BY <2>3
  <2>5. Round(ring, b) /\ frame_number = (b + Len(ring)) % TxFrames
    BY <2>2, <2>3, <2>4, Zenon DEF InUse
  <2>6. /\ ring' \in Seq(EntryType) /\ Len(ring') = Len(ring) + Fpc /\ Round(ring', b)
        /\ UmemFrame(Fpc) = (b + (Len(ring) + Fpc)) % TxFrames
    BY <1>2, <2>1, <2>4, <2>5, RoundCycle, Zenon
  <2>7. frame_number' = (b + Len(ring')) % TxFrames
    BY <1>1, <1>4, <2>6, Zenon
  <2>8. InUse(a)'
    BY <1>1, <2>2, <2>3, <2>4, <2>6, <2>7, Zenon DEF InUse, Round
  <2>9. umem' \in [0 .. TxFrames - 1 -> EntryType]
    <3> DEFINE us == [j \in 1 .. Fpc |-> UmemFrame(j - 1)]
               fs == [j \in 1 .. Fpc |-> next + j - 1]
    <3>1. umem' = [u \in 0 .. TxFrames - 1 |->
                     IF \E i \in 1 .. Fpc : us[i] = u
                     THEN Entry(fs[CHOOSE i \in 1 .. Fpc : us[i] = u], u) ELSE umem[u]]
      <4>1. DOMAIN umem = 0 .. TxFrames - 1
        BY <1>2
      <4> QED BY <1>1, <1>4, <4>1, Zenon
    <3>2. \A i \in 1 .. Fpc : fs[i] \in Int
      BY Constants
    <3> HIDE DEF us, fs
    <3>3. ASSUME NEW u \in 0 .. TxFrames - 1
          PROVE  (IF \E i \in 1 .. Fpc : us[i] = u
                  THEN Entry(fs[CHOOSE i \in 1 .. Fpc : us[i] = u], u) ELSE umem[u]) \in EntryType
      <4>1. CASE \E i \in 1 .. Fpc : us[i] = u
        <5>1. PICK i : i \in 1 .. Fpc /\ i = CHOOSE j \in 1 .. Fpc : us[j] = u
          BY <4>1, Zenon
        <5>2. Entry(fs[i], u) \in EntryType
          <6>1. fs[i] \in Int /\ u \in Int
            BY <3>2, <5>1, Constants
          <6> QED BY <6>1 DEF Entry, EntryType
        <5> QED BY <4>1, <5>1, <5>2, Zenon
      <4>2. CASE ~ \E i \in 1 .. Fpc : us[i] = u
        <5>1. umem[u] \in EntryType
          BY <1>2, Zenon
        <5> QED BY <4>2, <5>1, Zenon
      <4> QED BY <4>1, <4>2, Zenon
    <3> QED BY <3>1, <3>3, Zenon
  <2> QED BY <1>1, <1>2, <2>6, <2>8, <2>9, Zenon DEF KernelInv, Generator
<1> QED BY <1>3, <1>4, Zenon

\* The kernel takes an entry.
LEMMA KernelKernelTake ==
    ASSUME KernelInv, KernelTake
    PROVE  KernelInv'
<1>1. /\ ring # << >> /\ nic' = Append(nic, Head(ring)) /\ ring' = Tail(ring)
      /\ UNCHANGED <<conf, cq, umem, air, frame_number>>
  BY Zenon DEF KernelTake
<1>2. /\ ring \in Seq(EntryType) /\ nic \in Seq(EntryType) /\ cq \in Seq(EntryType)
      /\ umem \in [0 .. TxFrames - 1 -> EntryType] /\ air \in Seq(Int)
      /\ ~conf.xdp /\ ~conf.hwts => cq = << >>
  BY Zenon DEF KernelInv
<1>3. nic' \in Seq(EntryType) /\ ring' \in Seq(EntryType)
  BY <1>1, <1>2, SMTT(40)
<1>4. ASSUME Generator PROVE \E a \in Nat : InUse(a)'
  <2>1. PICK a \in Nat : InUse(a)
    BY <1>4, Zenon DEF KernelInv
  <2>2. PICK c, n, r : c = Len(cq) /\ n = Len(nic) /\ r = Len(ring) /\ c \in Nat /\ n \in Nat /\ r \in Nat
    BY <1>2, LenProperties, Zenon
  <2>3. a + c \in Nat /\ (a + c) + n \in Nat
    BY <2>2
  <2>4. Round(cq, a) /\ Round(nic, a + c) /\ Round(ring, (a + c) + n) /\ frame_number = (((a + c) + n) + r) % TxFrames
    BY <2>1, <2>2, Zenon DEF InUse
  <2>5. /\ Head(ring) \in EntryType /\ Head(ring).f = ((a + c) + n) % TxFrames
        /\ Len(ring') = r - 1 /\ Round(ring', ((a + c) + n) + 1)
    BY <1>1, <1>2, <2>2, <2>3, <2>4, RoundTail, Zenon
  <2>6. Len(nic') = n + 1 /\ Round(nic', a + c)
    BY <1>1, <1>2, <2>2, <2>3, <2>4, <2>5, RoundAppend, Zenon
  <2>7. /\ ((a + c) + n) + 1 = (a + c) + (n + 1)
        /\ ((a + c) + n) + r = ((a + c) + (n + 1)) + (r - 1)
    BY <2>2
  <2>8. Round(ring', (a + c) + (n + 1)) /\ frame_number' = (((a + c) + (n + 1)) + (r - 1)) % TxFrames
    BY <1>1, <2>4, <2>5, <2>7, Zenon
  <2>9. cq' = cq
    BY <1>1, Zenon
  <2>10. InUse(a)'
    BY <2>2, <2>4, <2>5, <2>6, <2>8, <2>9, Zenon DEF InUse, Round
  <2> QED BY <2>10, Zenon
<1> QED BY <1>1, <1>2, <1>3, <1>4, Zenon DEF KernelInv, Generator

\* The NIC transmits a frame.
LEMMA KernelNicTransmit ==
    ASSUME KernelInv, conf \in Configs, now \in Nat, NicTransmit
    PROVE  KernelInv'
<1> DEFINE e == Head(nic)
           n == Echo(e).n
<1>1. /\ nic # << >> /\ nic' = Tail(nic) /\ UNCHANGED <<conf, ring, frame_number>>
      /\ air' = IF conf.mirror THEN air ELSE Append(air, n)
      /\ \/ /\ Flagged(Carried(n))
            /\ \E hw \in {0, now + 1} :
                  /\ cq' = Append(cq, [e EXCEPT !.hw = hw])
                  /\ umem' = IF Generator THEN [umem EXCEPT ![e.f].hw = hw] ELSE umem
         \/ /\ ~Flagged(Carried(n))
            /\ cq' = IF conf.xdp THEN Append(cq, e) ELSE cq
            /\ umem' = umem
  BY Zenon DEF NicTransmit
<1>2. /\ ring \in Seq(EntryType) /\ nic \in Seq(EntryType) /\ cq \in Seq(EntryType)
      /\ umem \in [0 .. TxFrames - 1 -> EntryType] /\ air \in Seq(Int)
      /\ ~conf.xdp /\ ~conf.hwts => cq = << >>
  BY Zenon DEF KernelInv
<1>3. e \in EntryType /\ nic' \in Seq(EntryType)
  BY <1>1, <1>2
<1>4. ASSUME Generator, NEW a \in Nat, InUse(a)
      PROVE  /\ e.f = (a + Len(cq)) % TxFrames /\ e.f \in 0 .. TxFrames - 1
             /\ Len(nic') = Len(nic) - 1 /\ Round(nic', (a + Len(cq)) + 1)
  <2>1. PICK b : b \in Nat /\ b = a + Len(cq) /\ b \in Int
    <3>1. Len(cq) \in Nat
      BY <1>2, LenProperties, Zenon
    <3>2. a + Len(cq) \in Nat /\ a + Len(cq) \in Int
      BY <3>1
    <3> QED BY <3>2, Zenon
  <2>2. Round(nic, b)
    BY <1>4, <2>1, Zenon DEF InUse
  <2>3. e.f = b % TxFrames /\ Len(nic') = Len(nic) - 1 /\ Round(nic', b + 1)
    BY <1>1, <1>2, <2>1, <2>2, RoundTail, Zenon
  <2>4. b % TxFrames \in 0 .. TxFrames - 1
    BY <2>1, Constants, DivMod, Zenon
  <2> QED BY <2>1, <2>3, <2>4, Zenon
<1>5. Generator => e.f \in 0 .. TxFrames - 1
  BY <1>4, Zenon DEF KernelInv
<1>6. n \in Int
  <2>1. Echo(e) \in EntryType
    BY <1>3, <1>5, EchoIs, Zenon
  <2> QED BY <2>1 DEF EntryType
<1> HIDE DEF n
<1>7. air' \in Seq(Int)
  BY <1>1, <1>2, <1>6, SMTT(40)
<1>8. PICK d : /\ d \in EntryType /\ d.f = e.f
               /\ cq' = Append(cq, d) \/ (cq' = cq /\ ~conf.xdp)
               /\ ~conf.xdp /\ ~conf.hwts => cq' = cq
               /\ umem' \in [0 .. TxFrames - 1 -> EntryType]
  <2>1. CASE Flagged(Carried(n))
    <3>1. PICK hw \in {0, now + 1} : /\ cq' = Append(cq, [e EXCEPT !.hw = hw])
                                     /\ umem' = IF Generator THEN [umem EXCEPT ![e.f].hw = hw] ELSE umem
      BY <1>1, <2>1, Zenon
    <3>2. hw \in Nat
      OBVIOUS
    <3>3. [e EXCEPT !.hw = hw] \in EntryType /\ [e EXCEPT !.hw = hw].f = e.f
      BY <1>3, <3>2 DEF EntryType
    <3>4. conf.hwts
      BY <2>1, Zenon DEF Flagged
    <3>5. umem' \in [0 .. TxFrames - 1 -> EntryType]
      <4>1. CASE Generator
        <5>1. umem[e.f] \in EntryType
          BY <1>2, <1>5, <4>1, SMTT(40)
        <5>2. [umem[e.f] EXCEPT !.hw = hw] \in EntryType
          BY <3>2, <5>1 DEF EntryType
        <5>3. umem' = [umem EXCEPT ![e.f] = [umem[e.f] EXCEPT !.hw = hw]]
          BY <3>1, <4>1
        <5> QED BY <1>2, <5>2, <5>3, Zenon
      <4>2. CASE ~Generator
        BY <1>2, <3>1, <4>2, Zenon
      <4> QED BY <4>1, <4>2, Zenon
    <3> QED BY <3>1, <3>3, <3>4, <3>5, Zenon
  <2>2. CASE ~Flagged(Carried(n))
    BY <1>1, <1>2, <1>3, <2>2, Zenon
  <2> QED BY <2>1, <2>2, Zenon
<1>9. cq' \in Seq(EntryType)
  <2>1. Append(cq, d) \in Seq(EntryType)
    BY <1>2, <1>8, AppendProperties, Zenon
  <2> QED BY <1>2, <1>8, <2>1, Zenon
<1>10. ASSUME Generator PROVE \E a \in Nat : InUse(a)'
  <2>1. PICK a \in Nat : InUse(a)
    BY <1>10, Zenon DEF KernelInv
  <2>2. PICK c, m, r : c = Len(cq) /\ m = Len(nic) /\ r = Len(ring) /\ c \in Nat /\ m \in Nat /\ r \in Nat
    BY <1>2, LenProperties, Zenon
  <2>3. Round(cq, a) /\ Round(ring, (a + c) + m) /\ frame_number = (((a + c) + m) + r) % TxFrames
    BY <2>1, <2>2, Zenon DEF InUse
  <2>4. cq' = Append(cq, d)
    BY <1>8, <1>10, Zenon DEF Generator
  <2>5. d.f = (a + c) % TxFrames /\ Len(nic') = m - 1 /\ Round(nic', (a + c) + 1)
    BY <1>4, <1>8, <1>10, <2>1, <2>2, Zenon
  <2>6. Len(cq') = c + 1 /\ Round(cq', a)
    BY <1>2, <1>8, <2>2, <2>3, <2>4, <2>5, RoundAppend, Zenon
  <2>7. (a + c) + 1 = a + (c + 1) /\ (a + c) + m = (a + (c + 1)) + (m - 1)
    BY <2>2
  <2>8. /\ Round(nic', a + (c + 1)) /\ Round(ring, (a + (c + 1)) + (m - 1))
        /\ frame_number = (((a + (c + 1)) + (m - 1)) + r) % TxFrames
    BY <2>3, <2>5, <2>7, Zenon
  <2>9. ring' = ring /\ frame_number' = frame_number
    BY <1>1, Zenon
  <2>10. InUse(a)'
    BY <2>2, <2>5, <2>6, <2>8, <2>9, Zenon DEF InUse, Round
  <2> QED BY <2>10, Zenon
<1>11. ~conf.xdp /\ ~conf.hwts => cq' = << >>
  BY <1>2, <1>8, Zenon
<1>12. conf' = conf /\ ring' = ring
  BY <1>1, Zenon
<1> QED BY <1>2, <1>3, <1>7, <1>8, <1>9, <1>10, <1>11, <1>12, Zenon DEF KernelInv, Generator

\* A generator or the mirror hands frames over without a umem frame of its own.
LEMMA KernelHandOver ==
    ASSUME KernelInv, ~Generator, UNCHANGED <<conf, cq, umem, air>>,
           nic' = nic \/ \E fs \in Seq(Nat) : nic' = nic \o Entries(fs),
           ring' = ring \/ \E fs \in Seq(Nat) : ring' = ring \o Entries(fs)
    PROVE  KernelInv'
<1>1. nic \in Seq(EntryType) /\ ring \in Seq(EntryType)
  BY Zenon DEF KernelInv
<1>2. nic' \in Seq(EntryType) /\ ring' \in Seq(EntryType)
  BY <1>1, EntriesAre, Zenon
<1> QED BY <1>2, Zenon DEF KernelInv, Generator

\* The frames handed to the kernel stay in order.
LEMMA KernelStep ==
    ASSUME QueueInv, KernelInv, now \in Nat, [Next]_vars
    PROVE  KernelInv'
<1>1. conf \in Configs /\ next \in Nat /\ queue \in Seq(Nat)
  BY Zenon DEF QueueInv, InOrder
<1>2. /\ ring \in Seq(EntryType) /\ nic \in Seq(EntryType) /\ cq \in Seq(EntryType)
      /\ umem \in [0 .. TxFrames - 1 -> EntryType] /\ air \in Seq(Int)
      /\ ~conf.xdp /\ ~conf.hwts => cq = << >>
  BY Zenon DEF KernelInv
<1>3. CASE GenSend
  <2>1. /\ ~Generator /\ UNCHANGED <<conf, cq, umem, air, ring>>
        /\ nic' = nic \o Entries(Cycle(next)) \/ \E k \in 0 .. Fpc - 1 : nic' = nic \o Entries(SubSeq(Cycle(next), 1, k))
    BY <1>3, Zenon DEF GenSend, Generator, Cycle
  <2>2. Cycle(next) \in Seq(Nat) /\ Len(Cycle(next)) = Fpc
    BY <1>1, CycleIs, Zenon
  <2>3. ASSUME NEW k \in 0 .. Fpc - 1 PROVE SubSeq(Cycle(next), 1, k) \in Seq(Nat)
    BY <2>2, Constants
  <2>4. \E fs \in Seq(Nat) : nic' = nic \o Entries(fs)
    BY <2>1, <2>2, <2>3, Zenon
  <2> QED BY <2>1, <2>4, KernelHandOver, Zenon
<1>4. CASE GenSubmit
  BY <1>1, <1>4, KernelGenSubmit, Zenon
<1>5. CASE MirrorSend
  <2>1. /\ ~Generator /\ UNCHANGED <<conf, cq, umem, air>>
        /\ nic' = nic \/ nic' = nic \o Entries(queue)
           \/ \E k \in 0 .. Len(queue) - 1 : nic' = nic \o Entries(SubSeq(queue, 1, k))
        /\ ring' = ring \/ ring' = ring \o Entries(queue)
    BY <1>5, Zenon DEF MirrorSend, Generator
  <2>2. ASSUME NEW k \in 0 .. Len(queue) - 1 PROVE SubSeq(queue, 1, k) \in Seq(Nat)
    BY <1>1
  <2>3. nic' = nic \/ \E fs \in Seq(Nat) : nic' = nic \o Entries(fs)
    BY <1>1, <2>1, <2>2, Zenon
  <2>4. ring' = ring \/ \E fs \in Seq(Nat) : ring' = ring \o Entries(fs)
    BY <1>1, <2>1, Zenon
  <2> QED BY <2>1, <2>3, <2>4, KernelHandOver, Zenon
<1>6. CASE DrainMessage
  <2>1. /\ ~conf.xdp /\ cq # << >> /\ cq' = Tail(cq) /\ UNCHANGED <<conf, ring, nic, umem, air>>
    BY <1>6, Zenon DEF DrainMessage
  <2>2. cq' \in Seq(EntryType)
    BY <1>2, <2>1
  <2>3. conf.hwts /\ ~Generator
    BY <1>2, <2>1, Zenon DEF Generator
  <2> QED BY <1>2, <2>1, <2>2, <2>3, Zenon DEF KernelInv, Generator
<1>7. CASE DrainRing
  <2>1. cq' = << >> /\ UNCHANGED <<conf, ring, nic, umem, air, frame_number>>
    BY <1>7, Zenon DEF DrainRing
  <2>2. cq' \in Seq(EntryType)
    BY <2>1
  <2>3. ASSUME Generator PROVE \E a \in Nat : InUse(a)'
    <3>1. PICK a \in Nat : InUse(a)
      BY <2>3, Zenon DEF KernelInv
    <3>2. PICK b : b \in Nat /\ b = a + Len(cq) /\ b + 0 = b
      <4>1. Len(cq) \in Nat
        BY <1>2, LenProperties, Zenon
      <4>2. a + Len(cq) \in Nat /\ (a + Len(cq)) + 0 = a + Len(cq)
        BY <4>1
      <4> QED BY <4>2, Zenon
    <3>3. Len(cq') = 0 /\ 1 .. 0 = {}
      BY <2>1
    <3>4. Round(cq', b)
      BY <3>3, Zenon DEF Round
    <3>5. /\ Round(nic, b) /\ Round(ring, b + Len(nic))
          /\ frame_number = ((b + Len(nic)) + Len(ring)) % TxFrames
      BY <3>1, <3>2, Zenon DEF InUse
    <3>6. b + Len(cq') = b /\ nic' = nic /\ ring' = ring /\ frame_number' = frame_number
      BY <2>1, <3>2, <3>3, Zenon
    <3>7. InUse(b)'
      BY <3>4, <3>5, <3>6, Zenon DEF InUse, Round
    <3> QED BY <3>2, <3>7, Zenon
  <2> QED BY <1>2, <2>1, <2>2, <2>3, Zenon DEF KernelInv, Generator
<1>8. CASE KernelTake
  BY <1>8, KernelKernelTake, Zenon
<1>9. CASE NicTransmit
  BY <1>1, <1>9, KernelNicTransmit, Zenon
<1>10. ASSUME UNCHANGED <<conf, ring, nic, cq, umem, frame_number>>, air' \in Seq(Int) PROVE KernelInv'
  <2>1. (\E a \in Nat : InUse(a)') <=> (\E a \in Nat : InUse(a))
    BY <1>10, Zenon DEF InUse, Round
  <2> QED BY <1>10, <2>1, Zenon DEF KernelInv, Generator
<1>11. CASE RxReference \/ LoseToReference
  <2>1. air # << >> /\ air' = Tail(air) /\ UNCHANGED <<conf, ring, nic, cq, umem, frame_number>>
    BY <1>11, Zenon DEF RxReference, LoseToReference, kernel
  <2>2. air' \in Seq(Int)
    BY <1>2, <2>1
  <2> QED BY <1>10, <2>1, <2>2, Zenon
<1>12. CASE \/ StampBatch \/ StampFrame \/ DrainEnd \/ RxMirror \/ LoseToMirror \/ Finished
            \/ UNCHANGED vars
  <2>1. UNCHANGED <<conf, ring, nic, cq, umem, frame_number>> /\ air' = air
    BY <1>12, Zenon DEF StampBatch, StampFrame, DrainEnd, RxMirror, LoseToMirror, Finished, vars, kernel
  <2> QED BY <1>2, <1>10, <2>1, Zenon
<1> QED BY <1>3, <1>4, <1>5, <1>6, <1>7, <1>8, <1>9, <1>11, <1>12, Zenon DEF Next

---------------------------------------------------------------------------
(***************************************************************************)
(* Timestamps                                                              *)
(***************************************************************************)

StatInv ==
    /\ now \in Nat /\ stat \in StatType /\ Holding(stat)
    /\ "rtt" \notin stat.stale /\ "latency" \notin stat.stale
    /\ NoneLater(batch) /\ NoneLater(queue) /\ \A o \in stamped : o <= Owner(next)

Inv == QueueInv /\ KernelInv /\ StatInv

\* Steps that stamp nothing, with the frames waiting still later than what is stamped.
LEMMA StatMild ==
    ASSUME StatInv, Mild(stat, stat'), UNCHANGED <<conf, stamped>>, now' \in Nat,
           NoneLater(batch)', NoneLater(queue)', \A o \in stamped : o <= Owner(next)'
    PROVE  StatInv'
<1>1. Holding(stat')
  BY MildHolds, Zenon DEF StatInv
<1>2. Holding(stat)'
  <2>1. \A o : Slot(o)' = Slot(o)
    BY Zenon DEF Slot, FirstFrameIdx, BacklogLen
  <2> QED BY <1>1, <2>1, Zenon DEF Holding
<1> QED BY <1>2, Zenon DEF StatInv, Mild

\* Owners do not change.
LEMMA SameOwner ==
    ASSUME conf' = conf, NEW n
    PROVE  Owner(n)' = Owner(n)
BY Zenon DEF Owner

\* No frames, none later.
LEMMA NoneOfNone == NoneLater(<< >>)
<1>1. Len(<< >>) = 0 /\ 1 .. 0 = {}
  OBVIOUS
<1> QED BY <1>1, Zenon DEF NoneLater

\* The same frames.
LEMMA SameNone ==
    ASSUME UNCHANGED <<conf, stamped>>
    PROVE  /\ batch' = batch => (NoneLater(batch)' <=> NoneLater(batch))
           /\ queue' = queue => (NoneLater(queue)' <=> NoneLater(queue))
           /\ next' = next => Owner(next)' = Owner(next)
BY Zenon DEF NoneLater, Owner

\* A generator starts a cycle.
LEMMA StatCycle ==
    ASSUME QueueInv, StatInv, UNCHANGED <<conf, now, stat, stamped, queue>>, next' = next + Fpc,
           batch' = Cycle(next) \/ batch' = << >>
    PROVE  StatInv'
<1>1. next \in Nat /\ next \in Int
  BY DEF QueueInv, InOrder
<1>2. /\ Cycle(next) \in Seq(Nat) /\ Len(Cycle(next)) = Fpc /\ next + Fpc \in Nat /\ next <= next + Fpc
      /\ \A i \in 1 .. Fpc : next <= Cycle(next)[i]
  BY <1>1, CycleIs, Zenon
<1>3. ASSUME NEW m \in Nat, next <= m, NEW o \in stamped PROVE o <= Owner(m)
  <2>1. m \in Int
    OBVIOUS
  <2>2. Owner(next) <= Owner(m) /\ Owner(next) \in Int /\ Owner(m) \in Int
    BY <1>1, <1>3, <2>1, OwnerIs, Zenon
  <2>3. o \in Nat /\ o <= Owner(next)
    BY Zenon DEF StatInv, Holding
  <2> QED BY <2>2, <2>3
<1>4. ASSUME NEW o \in stamped, NEW i \in 1 .. Len(batch') PROVE o <= Owner(batch'[i])
  <2>1. CASE batch' = Cycle(next)
    <3>1. i \in 1 .. Fpc /\ Cycle(next)[i] \in Nat
      BY <1>2, <2>1
    <3> QED BY <1>2, <1>3, <2>1, <3>1, Zenon
  <2>2. CASE batch' = << >>
    <3>1. 1 .. Len(batch') = {}
      BY <2>2
    <3> QED BY <3>1, Zenon
  <2> QED BY <2>1, <2>2, Zenon
<1>5. NoneLater(batch)'
  BY <1>4, SameOwner, Zenon DEF NoneLater
<1>6. \A o \in stamped : o <= Owner(next)'
  BY <1>2, <1>3, SameOwner, Zenon
<1>7. NoneLater(queue)'
  BY SameNone, Zenon DEF StatInv
<1>8. Mild(stat, stat') /\ now' \in Nat
  BY MildSelf, Zenon DEF StatInv
<1> QED BY <1>5, <1>6, <1>7, <1>8, StatMild, Zenon

\* Recording the frames fs of the batch, with the frames rest left.
LEMMA StatRecord ==
    ASSUME QueueInv, StatInv, NEW seq \in Nat, NEW fs \in Seq(Nat), Record(seq, fs),
           Rising(fs), NoneLater(fs), UNCHANGED <<conf, next, queue>>,
           \A i \in 1 .. Len(fs) : \E k \in 1 .. Len(batch) : fs[i] = batch[k],
           \A i \in 1 .. Len(batch') : /\ batch'[i] \in Nat
                                       /\ \A j \in 1 .. Len(fs) : fs[j] <= batch'[i]
                                       /\ \E k \in 1 .. Len(batch) : batch'[i] = batch[k]
    PROVE  StatInv'
<1>1. /\ stat' \in StatType /\ now' \in Nat /\ Holding(stat)' /\ stat'.stale = stat.stale
      /\ \A o \in stamped' : o \in stamped \/ \E i \in 1 .. Len(fs) : o = Owner(fs[i])
  BY RecordHolds, Zenon DEF StatInv
<1>2. next \in Nat /\ batch \in Seq(Nat) /\ queue \in Seq(Nat)
  BY DEF QueueInv, InOrder
<1>3. \A i \in 1 .. Len(fs) : fs[i] \in Nat
  OBVIOUS
<1>4. ASSUME NEW m \in Nat, \A i \in 1 .. Len(fs) : fs[i] <= m, \A o \in stamped : o <= Owner(m),
             NEW o \in stamped'
      PROVE  o <= Owner(m)
  <2>1. CASE o \in stamped
    BY <1>4, <2>1, Zenon
  <2>2. ASSUME NEW i \in 1 .. Len(fs), o = Owner(fs[i]) PROVE o <= Owner(m)
    <3>1. fs[i] \in Int /\ m \in Int /\ fs[i] <= m
      BY <1>3, <1>4
    <3> QED BY <2>2, <3>1, OwnerIs, Zenon
  <2> QED BY <1>1, <2>1, <2>2, Zenon
<1>5. \A o \in stamped' : o <= Owner(next)
  <2>1. \A i \in 1 .. Len(fs) : fs[i] <= next
    BY Zenon DEF QueueInv, InOrder
  <2>2. \A o \in stamped : o <= Owner(next)
    BY Zenon DEF StatInv
  <2> QED BY <1>2, <1>4, <2>1, <2>2, Zenon
<1>6. ASSUME NEW j \in 1 .. Len(queue), NEW o \in stamped' PROVE o <= Owner(queue[j])
  <2>1. queue[j] \in Nat
    BY <1>2
  <2>2. \A i \in 1 .. Len(fs) : fs[i] <= queue[j]
    BY Zenon DEF QueueInv, InOrder
  <2>3. \A p \in stamped : p <= Owner(queue[j])
    BY Zenon DEF StatInv, NoneLater
  <2> QED BY <1>4, <2>1, <2>2, <2>3, Zenon
<1>7. ASSUME NEW j \in 1 .. Len(batch'), NEW o \in stamped' PROVE o <= Owner(batch'[j])
  <2>1. batch'[j] \in Nat /\ \A i \in 1 .. Len(fs) : fs[i] <= batch'[j]
    BY Zenon
  <2>2. \A p \in stamped : p <= Owner(batch'[j])
    BY Zenon DEF StatInv, NoneLater
  <2> QED BY <1>4, <2>1, <2>2, Zenon
<1>8. NoneLater(batch)'
  BY <1>7, SameOwner, ZenonT(40) DEF NoneLater
<1>9. NoneLater(queue)'
  BY <1>6, SameOwner, ZenonT(40) DEF NoneLater
<1>10. \A o \in stamped' : o <= Owner(next)'
  BY <1>5, SameOwner, Zenon
<1> QED BY <1>1, <1>8, <1>9, <1>10, Zenon DEF StatInv

\* The whole batch is recorded (stat_frames_sent_batch).
LEMMA StatStampBatch ==
    ASSUME QueueInv, StatInv, StampBatch
    PROVE  StatInv'
<1> DEFINE seq == IF conf.mirror THEN rx_sequence_counter - Len(batch) ELSE batch[1]
<1>1. /\ batch \in Seq(Nat) /\ batch # << >> /\ Rising(batch) /\ NoneLater(batch)
      /\ Record(seq, batch) /\ batch' = << >> /\ UNCHANGED <<conf, next, queue>>
  BY Zenon DEF QueueInv, InOrder, StatInv, StampBatch
<1>2. seq \in Nat
  <2>1. CASE conf.mirror
    <3>1. /\ rx_sequence_counter \in Nat /\ Len(batch) + Len(queue) <= rx_sequence_counter
          /\ Len(batch) \in Nat /\ Len(queue) \in Nat
      BY <2>1 DEF QueueInv, InOrder
    <3>2. rx_sequence_counter - Len(batch) \in Nat
      BY <3>1
    <3> QED BY <2>1, <3>2, Zenon
  <2>2. CASE ~conf.mirror
    <3>1. batch[1] \in Nat
      BY <1>1
    <3> QED BY <2>2, <3>1, Zenon
  <2> QED BY <2>1, <2>2, Zenon
<1> HIDE DEF seq
<1>3. 1 .. Len(batch') = {}
  BY <1>1
<1> QED BY <1>1, <1>2, <1>3, StatRecord, Zenon

\* One frame is recorded (stat_frame_sent).
LEMMA StatStampFrame ==
    ASSUME QueueInv, StatInv, StampFrame
    PROVE  StatInv'
<1>1. /\ batch \in Seq(Nat) /\ batch # << >> /\ Rising(batch) /\ NoneLater(batch)
      /\ Record(Carried(Head(batch)), <<Head(batch)>>) /\ batch' = Tail(batch)
      /\ UNCHANGED <<conf, next, queue>>
  BY Zenon DEF QueueInv, InOrder, StatInv, StampFrame
<1>2. PICK h \in Nat : h = Head(batch) /\ h = batch[1]
  BY <1>1
<1>3. Len(batch) \in Nat \ {0} /\ 1 \in 1 .. Len(batch)
  BY <1>1
<1>4. <<h>> \in Seq(Nat) /\ Len(<<h>>) = 1 /\ 1 .. 1 = {1} /\ <<h>>[1] = h
  OBVIOUS
<1>5. Carried(h) \in Nat
  BY CarriedIs
<1>6. Rising(<<h>>)
  BY <1>4 DEF Rising
<1>7. NoneLater(<<h>>)
  BY <1>1, <1>2, <1>3, <1>4, Zenon DEF NoneLater
<1>8. \A i \in 1 .. Len(<<h>>) : \E k \in 1 .. Len(batch) : <<h>>[i] = batch[k]
  BY <1>2, <1>3, <1>4, Zenon
<1>9. ASSUME NEW i \in 1 .. Len(batch')
      PROVE  /\ batch'[i] \in Nat
             /\ \A j \in 1 .. Len(<<h>>) : <<h>>[j] <= batch'[i]
             /\ \E k \in 1 .. Len(batch) : batch'[i] = batch[k]
  <2>1. i + 1 \in 1 .. Len(batch) /\ batch'[i] = batch[i + 1] /\ 1 < i + 1
    BY <1>1
  <2>2. batch[i + 1] \in Nat
    BY <1>1, <2>1
  <2>3. h <= batch[i + 1]
    BY <1>1, <1>2, <1>3, <2>1, Zenon DEF Rising
  <2> QED BY <1>4, <2>1, <2>2, <2>3, Zenon
<1>10. Record(Carried(h), <<h>>)
  BY <1>1, <1>2, Zenon
<1> QED BY <1>1, <1>4, <1>5, <1>6, <1>7, <1>8, <1>9, <1>10, StatRecord, Zenon

\* The completion ring is drained (xdp_complete_tx, xdp_complete_tx_only).
LEMMA DrainRingMild ==
    ASSUME QueueInv, KernelInv, StatInv, DrainRing
    PROVE  Mild(stat, stat')
<1>1. cq \in Seq(EntryType) /\ conf.xdp /\ conf \in Configs
  BY Zenon DEF KernelInv, DrainRing, QueueInv
<1>2. ASSUME NEW i \in 1 .. Len(cq) PROVE Echo(cq[i]) \in EntryType
  <2>1. cq[i] \in EntryType
    BY <1>1
  <2>2. ASSUME Generator PROVE cq[i].f \in 0 .. TxFrames - 1
    <3>1. PICK a \in Nat : Round(cq, a)
      BY <2>2, Zenon DEF KernelInv, InUse
    <3>2. cq[i].f = (a + (i - 1)) % TxFrames
      BY <3>1, Zenon DEF Round
    <3>3. a + (i - 1) \in Int
      BY <1>1
    <3> QED BY <3>2, <3>3, Constants, DivMod, ZenonT(40)
  <2> QED BY <2>1, <2>2, EchoIs, Zenon
<1> DEFINE handled == IF conf.mirror \/ cq = << >> THEN cq ELSE <<Head(cq)>>
<1>3. handled \in Seq(EntryType) /\ \A i \in 1 .. Len(handled) : Echo(handled[i]) \in EntryType
  <2>1. CASE conf.mirror \/ cq = << >>
    BY <1>1, <1>2, <2>1, Zenon
  <2>2. CASE ~(conf.mirror \/ cq = << >>)
    <3>1. Head(cq) = cq[1] /\ 1 \in 1 .. Len(cq) /\ cq[1] \in EntryType
      BY <1>1, <2>2
    <3>2. PICK e \in EntryType : e = Head(cq) /\ Echo(e) \in EntryType
      BY <1>2, <3>1, Zenon
    <3>3. <<e>> \in Seq(EntryType) /\ 1 .. Len(<<e>>) = {1} /\ <<e>>[1] = e
      OBVIOUS
    <3>4. handled = <<e>>
      BY <2>2, <3>2, Zenon
    <3> QED BY <3>2, <3>3, <3>4, Zenon
  <2> QED BY <2>1, <2>2, Zenon
<1>4. stat' = (CHOOSE g : g = AfterStep(handled, Len(handled), g))[Len(handled)]
  BY DEF DrainRing, AfterStep
<1> HIDE DEF handled
<1>5. PICK n \in Nat : n = Len(handled)
  BY <1>3
<1>6. PICK g : g = AfterStep(handled, n, g) /\ stat' = g[n]
  <2>1. \E g : g = AfterStep(handled, n, g)
    BY AfterExists, Zenon
  <2>2. stat' = (CHOOSE g : g = AfterStep(handled, n, g))[n]
    BY <1>4, <1>5, Zenon
  <2> QED BY <2>1, <2>2, Zenon
<1>7. \A i \in 1 .. n : Echo(handled[i]).n \in Int /\ Echo(handled[i]).hw \in Nat
  <2>1. \A e \in EntryType : e.n \in Int /\ e.hw \in Nat
    BY DEF EntryType
  <2> QED BY <1>3, <1>5, <2>1, Zenon
<1>8. Mild(stat, g[n])
  BY <1>6, <1>7, DrainMild, Zenon DEF StatInv
<1> QED BY <1>6, <1>8, Zenon

\* What is recorded for a frame is found by it, in every step.
LEMMA StatStep ==
    ASSUME QueueInv, KernelInv, StatInv, [Next]_vars
    PROVE  StatInv'
<1>1. conf' = conf
  BY SameConf
<1>2. /\ now \in Nat /\ stat \in StatType /\ Holding(stat) /\ NoneLater(batch) /\ NoneLater(queue)
      /\ \A o \in stamped : o \in Nat /\ o <= Owner(next)
      /\ next \in Nat /\ queue \in Seq(Nat)
  BY Zenon DEF StatInv, Holding, QueueInv, InOrder
\* Steps that keep the frames waiting and the clock.
<1>3. ASSUME Mild(stat, stat'), UNCHANGED <<batch, queue, next, stamped, now>>
      PROVE  StatInv'
  <2>1. NoneLater(batch)' /\ NoneLater(queue)' /\ Owner(next)' = Owner(next)
    BY <1>1, <1>2, <1>3, SameNone, Zenon
  <2> QED BY <1>1, <1>2, <1>3, <2>1, StatMild, Zenon
<1>4. CASE GenSend
  <2>1. /\ UNCHANGED <<now, stat, stamped, queue>> /\ next' = next + Fpc
        /\ batch' = Cycle(next) \/ batch' = << >>
    BY <1>4, Zenon DEF GenSend, Cycle
  <2> QED BY <1>1, <2>1, StatCycle, Zenon
<1>5. CASE GenSubmit
  <2>1. /\ UNCHANGED <<now, stat, stamped, queue>> /\ next' = next + Fpc
        /\ batch' = Cycle(next) \/ batch' = << >>
    BY <1>5, Zenon DEF GenSubmit, Cycle
  <2> QED BY <1>1, <2>1, StatCycle, Zenon
<1>6. CASE MirrorSend
  <2>1. /\ UNCHANGED <<now, stat, stamped, next>> /\ queue' = << >>
        /\ batch' = queue \/ batch' = << >>
    BY <1>6, Zenon DEF MirrorSend
  <2>2. NoneLater(batch') /\ NoneLater(queue')
    BY <1>2, <2>1, NoneOfNone, Zenon
  <2>3. NoneLater(batch)' /\ NoneLater(queue)' /\ Owner(next)' = Owner(next)
    BY <1>1, <2>1, <2>2, SameOwner, Zenon DEF NoneLater
  <2>4. Mild(stat, stat')
    BY <1>2, <2>1, MildSelf, Zenon
  <2> QED BY <1>1, <1>2, <2>1, <2>3, <2>4, StatMild, Zenon
<1>7. CASE StampBatch
  BY <1>7, StatStampBatch
<1>8. CASE StampFrame
  BY <1>8, StatStampFrame
<1>9. CASE DrainMessage
  <2>1. /\ ~conf.xdp /\ cq # << >> /\ stat' = Completed(stat, Head(cq).n, Head(cq).hw)
        /\ UNCHANGED <<batch, queue, next, stamped, now>>
    BY <1>9, Zenon DEF DrainMessage
  <2>2. conf.hwts /\ cq \in Seq(EntryType)
    BY <2>1, Zenon DEF KernelInv
  <2>3. Head(cq) \in EntryType
    BY <2>1, <2>2
  <2>4. Head(cq).n \in Int /\ Head(cq).hw \in Nat
    BY <2>3 DEF EntryType
  <2>5. Mild(stat, stat')
    BY <1>2, <2>1, <2>2, <2>4, CompletedMild, Zenon
  <2> QED BY <1>3, <2>1, <2>5, Zenon
<1>10. CASE DrainRing
  <2>1. UNCHANGED <<batch, queue, next, stamped, now>>
    BY <1>10, Zenon DEF DrainRing
  <2>2. Mild(stat, stat')
    BY <1>10, DrainRingMild, Zenon
  <2> QED BY <1>3, <2>1, <2>2, Zenon
\* A frame more has arrived at the mirror, or is lost before.
<1>11. ASSUME NEW m \in Nat, next <= m PROVE \A o \in stamped : o <= Owner(m)
  <2>1. m \in Int /\ next \in Int
    BY <1>2
  <2>2. Owner(next) <= Owner(m) /\ Owner(next) \in Int /\ Owner(m) \in Int
    BY <1>11, <2>1, OwnerIs, Zenon
  <2>3. ASSUME NEW o \in stamped PROVE o <= Owner(m)
    <3>1. o \in Nat /\ o <= Owner(next)
      BY <1>2, Zenon
    <3> QED BY <2>2, <3>1
  <2> QED BY <2>3, Zenon
<1>12. next + 1 \in Nat /\ next <= next + 1 /\ now + 1 \in Nat /\ 0 \in Nat
  BY <1>2
<1>13. CASE RxMirror
  <2>1. /\ queue' = Append(queue, next) /\ next' = next + 1 /\ UNCHANGED <<batch, stamped>>
        /\ \/ UNCHANGED <<stat, now>>
           \/ now' = now + 1 /\ \E hw \in {0, now + 1} : stat' = ReceivedByMirror(stat, next, hw)
    BY <1>13, Zenon DEF RxMirror
  <2>2. Mild(stat, stat') /\ now' \in Nat
    <3>1. next \in Int
      BY <1>2
    <3> QED BY <1>2, <1>12, <2>1, <3>1, MildSelf, MirrorMild, Zenon
  <2>3. ASSUME NEW i \in 1 .. Len(queue'), NEW o \in stamped PROVE o <= Owner(queue'[i])
    <3>1. \/ i \in 1 .. Len(queue) /\ queue'[i] = queue[i]
          \/ queue'[i] = next
      BY <1>2, <2>1
    <3> QED BY <1>2, <3>1, Zenon DEF NoneLater
  <2>4. NoneLater(queue)'
    BY <1>1, <2>1, <2>3, SameOwner, Zenon DEF NoneLater
  <2>5. NoneLater(batch)'
    BY <1>1, <1>2, <2>1, SameNone, Zenon
  <2>6. \A o \in stamped : o <= Owner(next)'
    BY <1>1, <1>11, <1>12, <2>1, SameOwner, Zenon
  <2> QED BY <1>1, <2>1, <2>2, <2>4, <2>5, <2>6, StatMild, Zenon
<1>14. CASE LoseToMirror
  <2>1. next' = next + 1 /\ UNCHANGED <<batch, stamped, queue, stat, now>>
    BY <1>14, Zenon DEF LoseToMirror
  <2>2. NoneLater(batch)' /\ NoneLater(queue)'
    BY <1>1, <1>2, <2>1, SameNone, Zenon
  <2>3. \A o \in stamped : o <= Owner(next)'
    BY <1>1, <1>11, <1>12, <2>1, SameOwner, Zenon
  <2>4. Mild(stat, stat')
    BY <1>2, <2>1, MildSelf, Zenon
  <2> QED BY <1>1, <1>2, <2>1, <2>2, <2>3, <2>4, StatMild, Zenon
<1>15. CASE RxReference
  <2>1. /\ air # << >> /\ stat' = ReceivedByReference(stat, Head(air))
        /\ UNCHANGED <<batch, queue, next, stamped, now>>
    BY <1>15, Zenon DEF RxReference
  <2>2. air \in Seq(Int)
    BY Zenon DEF KernelInv
  <2>3. Head(air) \in Int
    BY <2>1, <2>2
  <2>4. Mild(stat, stat')
    BY <1>2, <2>1, <2>3, ReferenceMild, Zenon
  <2> QED BY <1>3, <2>1, <2>4, Zenon
<1>16. CASE DrainEnd \/ KernelTake \/ NicTransmit \/ LoseToReference \/ Finished \/ UNCHANGED vars
  <2>1. UNCHANGED <<batch, queue, next, stamped, now>> /\ stat' = stat
    BY <1>16, Zenon DEF DrainEnd, KernelTake, NicTransmit, LoseToReference, Finished, vars
  <2>2. Mild(stat, stat')
    BY <1>2, <2>1, MildSelf, Zenon
  <2> QED BY <1>3, <2>1, <2>2, Zenon
<1> QED BY <1>4, <1>5, <1>6, <1>7, <1>8, <1>9, <1>10, <1>13, <1>14, <1>15, <1>16, Zenon DEF Next

---------------------------------------------------------------------------
(***************************************************************************)
(* What the code promises                                                  *)
(***************************************************************************)

\* At first nothing is recorded and nothing is on its way.
LEMMA InvInit == Init => Inv
<1> SUFFICES ASSUME Init PROVE Inv
  OBVIOUS
<1>1. /\ conf \in Configs /\ now = 1 /\ next = 0 /\ queue = << >> /\ rx_sequence_counter = 0
      /\ batch = << >> /\ pc = "idle" /\ ring = << >> /\ nic = << >> /\ cq = << >>
      /\ umem = [f \in 0 .. TxFrames - 1 |-> Entry(-1, f)] /\ frame_number = 0 /\ air = << >>
      /\ stat = [backlog |-> [i \in 0 .. BacklogLen - 1 |->
                                 [sw |-> NoStamp, hw |-> NoStamp, rx |-> NoStamp]],
                 count |-> [k \in Kinds |-> 0], missing |-> 0, stale |-> {}, early |-> FALSE]
      /\ stamped = {}
  BY Zenon DEF Init
<1>2. QueueInv
  <2>1. InOrder(<< >>, << >>, 0)
    BY DEF InOrder, Rising
  <2>2. pc # "stamp" /\ Len(<< >>) + Len(<< >>) <= 0 /\ 0 \in Nat
    BY <1>1
  <2> QED BY <1>1, <2>1, <2>2, Zenon DEF QueueInv
<1>3. KernelInv
  <2>1. umem \in [0 .. TxFrames - 1 -> EntryType]
    <3>1. \A f \in 0 .. TxFrames - 1 : Entry(-1, f) \in EntryType
      BY Constants DEF Entry, EntryType
    <3> QED BY <1>1, <3>1
  <2>2. InUse(0)
    <3>1. 1 .. Len(<< >>) = {}
      OBVIOUS
    <3>2. \A b : Round(<< >>, b)
      BY <3>1, Zenon DEF Round
    <3>3. ((0 + Len(<< >>)) + Len(<< >>)) + Len(<< >>) = 0
      OBVIOUS
    <3>4. 0 % TxFrames = 0
      BY Constants
    <3> QED BY <1>1, <3>2, <3>3, <3>4, Zenon DEF InUse
  <2>3. << >> \in Seq(EntryType) /\ << >> \in Seq(Int) /\ 0 \in Nat
    OBVIOUS
  <2> QED BY <1>1, <2>1, <2>2, <2>3, Zenon DEF KernelInv
<1>4. StatInv
  <2>1. [sw |-> NoStamp, hw |-> NoStamp, rx |-> NoStamp] \in SlotType
    BY DEF NoStamp, SlotType, StampType
  <2>2. stat \in StatType /\ stat.stale = {}
    BY <1>1, <2>1 DEF StatType
  <2>3. now \in Nat
    BY <1>1
  <2> QED BY <1>1, <2>2, <2>3, Zenon DEF StatInv, Holding, NoneLater
<1> QED BY <1>2, <1>3, <1>4, Zenon DEF Inv

\* Every step keeps the inductive invariant.
LEMMA InvStep == Inv /\ [Next]_vars => Inv'
<1> SUFFICES ASSUME Inv, [Next]_vars PROVE Inv'
  OBVIOUS
<1>1. QueueInv /\ KernelInv /\ StatInv /\ now \in Nat
  BY Zenon DEF Inv, StatInv
<1> QED BY <1>1, QueueStep, KernelStep, StatStep, Zenon DEF Inv

\* The inductive invariant holds.
LEMMA Invariant == Spec => []Inv
BY InvInit, InvStep, PTL DEF Spec

\* A round trip time is measured from the software timestamp of the frame that came
\* back, or of its cycle, if that timestamp was recorded: the slot that
\* stat_frame_received finds from the 32 bit counters of a frame is the slot that the
\* sender recorded it in, for any number of cycles sent, and only a later frame takes
\* the slot over.  Nothing is said of frames that a failing sendmmsg has sent.
THEOREM RttMeasured == Spec => []RttOfOwnFrame
<1>1. Inv => RttOfOwnFrame
  BY Zenon DEF Inv, StatInv, RttOfOwnFrame
<1> QED BY Invariant, <1>1, PTL

\* stat_frame_sent_latency subtracts the software timestamp of the completed frame's
\* own cycle, on the generators and on the mirror, over AF_PACKET and AF_XDP, if the
\* timestamp was recorded before the completion is processed (not always so on the
\* AF_XDP generator, and not after a failing sendmmsg).
THEOREM LatencyMeasured == Spec => []LatencyOfOwnCycle
<1>1. Inv => LatencyOfOwnCycle
  BY Zenon DEF Inv, StatInv, LatencyOfOwnCycle
<1> QED BY Invariant, <1>1, PTL

\* No two entries on their way name the same umem frame.
LEMMA RoundApart ==
    ASSUME KernelInv, NEW a \in Nat, InUse(a),
           Len((ring \o nic) \o cq) <= TxFrames,
           NEW i \in DOMAIN ((ring \o nic) \o cq), NEW j \in DOMAIN ((ring \o nic) \o cq), i # j
    PROVE  ((ring \o nic) \o cq)[i].f # ((ring \o nic) \o cq)[j].f
<1> DEFINE out == (ring \o nic) \o cq
<1>1. ring \in Seq(EntryType) /\ nic \in Seq(EntryType) /\ cq \in Seq(EntryType)
  BY Zenon DEF KernelInv
<1>2. PICK r \in Nat, n \in Nat, c \in Nat : r = Len(ring) /\ n = Len(nic) /\ c = Len(cq)
  BY <1>1, LenProperties, Zenon
<1>3. /\ Len(out) = (r + n) + c /\ DOMAIN out = 1 .. (r + n) + c
      /\ \A k \in 1 .. r : out[k] = ring[k]
      /\ \A k \in 1 .. n : out[r + k] = nic[k]
      /\ \A k \in 1 .. c : out[(r + n) + k] = cq[k]
  BY <1>1, <1>2
<1> HIDE DEF out
<1> DEFINE pos(k) == IF k <= r THEN ((a + c) + n) + (k - 1)
                     ELSE IF k <= r + n THEN (a + c) + ((k - r) - 1)
                     ELSE a + ((k - (r + n)) - 1)
<1>4. ASSUME NEW k \in 1 .. (r + n) + c
      PROVE  out[k].f = pos(k) % TxFrames
  <2>1. CASE k <= r
    <3>1. k \in 1 .. r
      BY <2>1
    <3>2. out[k].f = (((a + c) + n) + (k - 1)) % TxFrames
      BY <1>2, <1>3, <3>1, Zenon DEF InUse, Round
    <3> QED BY <2>1, <3>2, Zenon
  <2>2. CASE ~(k <= r) /\ k <= r + n
    <3>1. PICK m \in 1 .. n : r + m = k /\ m = k - r
      BY <2>2
    <3>2. nic[m].f = ((a + c) + (m - 1)) % TxFrames
      BY <1>2, Zenon DEF InUse, Round
    <3>3. out[k] = nic[m]
      BY <1>3, <3>1, Zenon
    <3> QED BY <2>2, <3>1, <3>2, <3>3, Zenon
  <2>3. CASE ~(k <= r) /\ ~(k <= r + n)
    <3>1. PICK m \in 1 .. c : (r + n) + m = k /\ m = k - (r + n)
      BY <2>3
    <3>2. cq[m].f = (a + (m - 1)) % TxFrames
      BY <1>2, Zenon DEF InUse, Round
    <3>3. out[k] = cq[m]
      BY <1>3, <3>1, Zenon
    <3> QED BY <2>3, <3>1, <3>2, <3>3, Zenon
  <2> QED BY <2>1, <2>2, <2>3, Zenon
<1>5. i \in 1 .. (r + n) + c /\ j \in 1 .. (r + n) + c /\ (r + n) + c <= TxFrames
  BY <1>3, Zenon DEF out
<1>6. /\ pos(i) \in Int /\ pos(j) \in Int /\ pos(i) # pos(j)
      /\ pos(i) - pos(j) < TxFrames /\ pos(j) - pos(i) < TxFrames
  BY <1>5, Constants, SMTT(40)
<1>7. pos(i) % TxFrames # pos(j) % TxFrames
  <2> HIDE DEF pos
  <2> QED BY <1>6, Constants, ModApart, SMTT(40)
<1> QED BY <1>4, <1>5, <1>7, Zenon DEF out

\* xdp_gen_and_send_frames, which reuses the umem frames round robin without looking,
\* overwrites none that is still on its way, as long as no more frames are outstanding
\* than there are umem frames.
THEOREM FramesReusedCompleted == Spec => []ReusesCompletedFrames
<1>1. Inv => ReusesCompletedFrames
  <2> SUFFICES ASSUME Inv PROVE ReusesCompletedFrames
    OBVIOUS
  <2>1. ASSUME Generator PROVE \E a \in Nat : InUse(a)
    BY <2>1, Zenon DEF Inv, KernelInv
  <2> QED BY <2>1, RoundApart, Zenon DEF Inv, ReusesCompletedFrames
<1> QED BY Invariant, <1>1, PTL
===========================================================================
