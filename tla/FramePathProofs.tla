-------------------------- MODULE FramePathProofs --------------------------
(***************************************************************************)
(* For every configuration of every class, every frame length, payload and *)
(* number of frames: an undamaged frame is accepted on both ends, damage   *)
(* is noticed by the next receiver and the echo carries the mirror's time. *)
(*                                                                         *)
(* The argument: at each place on its way the frame is what the sender     *)
(* made, damaged in at most one part, and taking off the VLAN tag does not *)
(* change what the callback looks at.                                      *)
(***************************************************************************)
EXTENDS FramePath, TLAPS

\* All fields are there, whatever happened to the frame.
IsFrame(f) ==
    /\ DOMAIN f = {"source", "destination", "tagged", "len", "id", "seq", "time", "text", "tag"}
    /\ DOMAIN f.text = {"payload", "padding", "iv"}
    /\ f.tagged \in BOOLEAN /\ f.len \in Int
    /\ f.tagged = TRUE => HasVlan(conf)

\* The length of an undamaged frame.
FrameLength(tagged) == IF HasVlan(conf) /\ tagged = FALSE THEN conf.length - VLAN ELSE conf.length

\* The initial vector that the receivers use.
FromN == FromMeta(ToMeta(n))

\* An undamaged frame whose text, if secure, belongs to the initial vector iv.
Pristine(f, iv, time, payload) ==
    /\ IsFrame(f)
    /\ f.len = FrameLength(f.tagged)
    /\ f.id = conf.kind /\ f.seq = ToMeta(n) /\ f.time = time
    /\ f.text = Text(payload, IF conf.mode = "ae" THEN iv ELSE -1)
    /\ Secure => f.tag = Tag(f, iv)

SentPayload == IF conf.mode = "ae" THEN PayloadPattern ELSE "pattern"
EchoPayload == IF conf.mode = "ae" THEN IF hit.early = TRUE THEN "zero" ELSE PayloadPattern ELSE "pattern"
EchoTime == IF Secure \/ conf.xdp THEN "mirror" ELSE "mirror tx"

\* On its way to the mirror, in the mirror, and on its way back.
Sent(f) ==
    /\ Pristine(f, n, "reference", SentPayload)
    /\ f.source = "reference" /\ (conf.kind \in {"dcp", "lldp"} => f.destination = "group")
Stored(f) ==
    /\ Pristine(f, FromN, "mirror", EchoPayload)
    /\ conf.kind = "udp" \/ f.destination # "mirror"
Echo(f) ==
    /\ Pristine(f, FromN, EchoTime, EchoPayload)
    /\ f.destination # "mirror"

\* g is f after damage to the given part, if any.
IsHit(g, f, part) ==
    /\ IsFrame(g) /\ g.source = f.source /\ g.destination = f.destination
    /\ g.time = f.time /\ g.tagged = f.tagged /\ g.tag = f.tag
    /\ g.len = IF part = "length" THEN f.len - 1 ELSE f.len
    /\ g.id = IF part = "id" THEN "damaged" ELSE f.id
    /\ g.seq = IF part = "seq" THEN ToMeta(FromMeta(f.seq) + 1) ELSE f.seq
    /\ g.text.iv = f.text.iv
    /\ g.text.payload = IF part = "payload" THEN "damaged" ELSE f.text.payload
    /\ g.text.padding = IF part = "padding" THEN "damaged" ELSE f.text.padding
    /\ part \notin {"payload", "padding"} => g.text = f.text

\* Verdicts on undamaged frames, where the payload is the pattern.
Fine(v, pattern) ==
    /\ v.accepted = TRUE /\ v.frame_id_mismatch = FALSE
    /\ Secure /\ BeforeWrap => v.authenticated = TRUE
    /\ pattern /\ BeforeWrap => v.payload_mismatch = FALSE

Pattern(early) == conf.mode = "ae" => PayloadPattern = "pattern" /\ early = FALSE

TypeInv ==
    /\ conf \in Configs /\ n \in Nat
    /\ at \in {"check", "refused", "send", "to mirror", "in mirror", "to reference", "end", "lost"}
    /\ frame_copy \in {"zero", PayloadPattern}
    /\ hit \in [there : Parts \cup {"none"}, back : Parts \cup {"none"}, early : BOOLEAN]
    /\ at \notin {"check", "refused"} => min_frame_size(conf) <= conf.length /\ conf.length <= MAX_FRAME_SIZE

\* Nobody damages EtherCAT frames here, and no mirror receives them.
EtherCatInv == conf.kind = "ethercat" => hit.there = "none" /\ hit.back = "none" /\ mirrored = Rejected

\* On its way there, the verdict of the mirror, and on the way back.
OnItsWay(f) == hit.back = "none" /\ returned = Rejected /\ \E s : Sent(s) /\ IsHit(f, s, hit.there)
Mirrored(v) == Notices(v, hit.there) /\ (hit.there = "none" => Fine(v, Pattern(FALSE)))
OnItsWayBack(f) ==
    /\ hit.there = "none" => \E e : Echo(e) /\ IsHit(f, e, hit.back)
    /\ mirrored.accepted = TRUE => IsFrame(f) /\ f.time = EchoTime

ThereInv == at = "to mirror" /\ conf.kind # "ethercat" => OnItsWay(frame)

MirrorInv ==
    at = "in mirror" =>
        /\ conf.kind # "ethercat" /\ hit.back = "none" /\ returned = Rejected /\ Mirrored(mirrored)
        /\ hit.there = "none" => Stored(frame)
        /\ mirrored.accepted = TRUE => IsFrame(frame) /\ frame.time = "mirror" /\ (HasVlan(conf) => frame.tagged = TRUE)

BackInv ==
    at = "to reference" /\ conf.kind # "ethercat" =>
        (hit.there = "none" \/ hit.back = "none") /\ Mirrored(mirrored) /\ OnItsWayBack(frame)

EndInv ==
    at = "end" /\ conf.kind # "ethercat" =>
        /\ Mirrored(mirrored)
        /\ hit.there = "none" => Notices(returned, hit.back)
        /\ Untouched => Fine(returned, Pattern(hit.early))
        /\ mirrored.accepted = TRUE /\ returned.accepted = TRUE => frame.time = EchoTime

PathInv == ThereInv /\ MirrorInv /\ BackInv /\ EndInv

\* An EtherCAT frame is accepted with the length it was sent with, if a slave has
\* changed its address.
SlaveInv ==
    conf.kind = "ethercat" =>
        /\ at \in {"to mirror", "to reference"} =>
              {"len", "source"} \subseteq DOMAIN frame /\ frame.len = conf.length
              /\ frame.source \in {"reference", "slave"}
        /\ at = "end" => (returned.accepted = TRUE <=> frame.source = "slave")

\* An AF_XDP frame is never longer than configured, and lost if that is too long.
LengthInv ==
    /\ conf.xdp = TRUE =>
          /\ at \in {"to mirror", "in mirror", "to reference"} => "len" \in DOMAIN frame
          /\ at \in {"to mirror", "to reference"} => frame.len \in Int /\ frame.len <= conf.length
    /\ at = "lost" => ~InChunk(XDP_PACKET_HEADROOM, conf.length)

Inv == TypeInv /\ EtherCatInv /\ PathInv /\ SlaveInv /\ LengthInv

---------------------------------------------------------------------------
\* A configuration has all its options; only PROFINET frames are secure, and
\* only they and generic layer 2 frames use AF_XDP.
LEMMA ConfType ==
    ASSUME conf \in Configs
    PROVE  /\ conf.kind \in {"rt", "dcp", "lldp", "udp", "l2", "ethercat"}
           /\ conf.mode \in {"none", "ao", "ae"} /\ conf.xdp \in BOOLEAN /\ conf.metadata \in BOOLEAN
           /\ conf.length \in Nat /\ conf.pattern \in Nat
           /\ conf.mode # "none" => conf.kind = "rt"
           /\ conf.xdp = TRUE => conf.kind \in {"rt", "l2", "ethercat"}
BY FramePathAssumption

\* Taking off the VLAN tag.
Stripped(f) == [f EXCEPT !.tagged = FALSE, !.len = @ - VLAN]

\* What an operation on a frame leaves alone.
SameAddresses(g, f) == g.source = f.source /\ g.destination = f.destination
SameContent(g, f) == g.id = f.id /\ g.seq = f.seq /\ g.text = f.text /\ g.tag = f.tag

\* The fields of a frame without its tag.
LEMMA StripFields ==
    ASSUME NEW f, IsFrame(f)
    PROVE  /\ IsFrame(Stripped(f)) /\ SameAddresses(Stripped(f), f) /\ SameContent(Stripped(f), f)
           /\ Stripped(f).time = f.time /\ Stripped(f).tagged = FALSE /\ Stripped(f).len = f.len - VLAN
<1>1. f.len - VLAN \in Int
  BY DEF IsFrame, VLAN
<1>2. /\ SameAddresses(Stripped(f), f) /\ SameContent(Stripped(f), f)
      /\ Stripped(f).time = f.time /\ Stripped(f).tagged = FALSE /\ Stripped(f).len = f.len - VLAN
  BY DEF IsFrame, Stripped, SameAddresses, SameContent
<1>3. DOMAIN Stripped(f) = DOMAIN f
  BY DEF Stripped
<1>4. IsFrame(Stripped(f))
  BY <1>1, <1>2, <1>3, Zenon DEF IsFrame, SameContent
<1> QED BY <1>2, <1>4

\* The fields of a damaged frame.
LEMMA DamagedFields ==
    ASSUME NEW f, IsFrame(f), NEW part \in Parts
    PROVE  IsHit(Damaged(f, part), f, part)
<1>0. f.len - 1 \in Int
  BY DEF IsFrame
<1>1. CASE part = "payload"
  BY <1>1 DEF IsFrame, Damaged, IsHit
<1>2. CASE part = "padding"
  BY <1>2 DEF IsFrame, Damaged, IsHit
<1>3. CASE part = "id"
  BY <1>3 DEF IsFrame, Damaged, IsHit
<1>4. CASE part = "seq"
  BY <1>4 DEF IsFrame, Damaged, IsHit
<1>5. CASE part = "length"
  BY <1>0, <1>5 DEF IsFrame, Damaged, IsHit
<1> QED BY <1>1, <1>2, <1>3, <1>4, <1>5 DEF Parts

\* Taking off the tag of a damaged frame.
LEMMA StripHit ==
    ASSUME NEW f, NEW g, NEW part, IsFrame(f), IsHit(g, f, part)
    PROVE  IsHit(Stripped(g), Stripped(f), part)
<1>1. IsFrame(g)
  BY DEF IsHit
<1>2. f.len \in Int /\ VLAN \in Int
  BY DEF IsFrame, VLAN
<1>3. PICK a, b : /\ a = Stripped(f) /\ b = Stripped(g) /\ IsFrame(b)
                  /\ SameAddresses(a, f) /\ SameContent(a, f) /\ a.time = f.time /\ a.tagged = FALSE
                  /\ SameAddresses(b, g) /\ SameContent(b, g) /\ b.time = g.time /\ b.tagged = FALSE
                  /\ a.len = f.len - VLAN /\ b.len = g.len - VLAN
  BY <1>1, StripFields, Zenon
<1>4. b.len = IF part = "length" THEN a.len - 1 ELSE a.len
  BY <1>2, <1>3 DEF IsHit
<1>5. IsHit(b, a, part)
  BY <1>3, <1>4, Zenon DEF IsHit, SameAddresses, SameContent
<1> QED BY <1>3, <1>5, Zenon

\* Neither the tag nor the length is authenticated.
LEMMA TagDepends ==
    ASSUME NEW f, NEW g, NEW iv, g.id = f.id, g.seq = f.seq, g.time = f.time, g.text = f.text
    PROVE  Tag(g, iv) = Tag(f, iv)
BY DEF Tag, Associated

\* A frame stays undamaged without its tag.
LEMMA StripPristine ==
    ASSUME conf \in Configs, NEW f, NEW iv, NEW time, NEW payload, HasVlan(conf), f.tagged = TRUE,
           Pristine(f, iv, time, payload)
    PROVE  Pristine(Stripped(f), iv, time, payload)
<1>1. IsFrame(f)
  BY DEF Pristine
<1>2. Tag(Stripped(f), iv) = Tag(f, iv)
  BY <1>1, StripFields, TagDepends, Zenon DEF SameContent
<1> QED BY <1>1, <1>2, StripFields, Zenon DEF Pristine, SameContent, FrameLength

---------------------------------------------------------------------------
(***************************************************************************)
(* The sequence counter in the meta data                                   *)
(***************************************************************************)
\* Division with remainder.
LEMMA DivMod ==
    ASSUME NEW m \in Nat \ {0}, NEW x \in Nat
    PROVE  x \div m \in Nat /\ x % m \in 0 .. m - 1 /\ x = (x \div m) * m + (x % m)
OBVIOUS

\* The remainder changes with the next number.
LEMMA NextRemainder ==
    ASSUME NEW m \in Nat \ {0, 1}, NEW q \in Nat, NEW r \in 0 .. m - 1
    PROVE  (q * m + r + 1) % m # r
<1>1. CASE r + 1 < m
  <2>1. (q * m + (r + 1)) % m = r + 1
    BY <1>1
  <2> QED BY <2>1
<1>2. CASE r = m - 1
  <2>1. ((q + 1) * m + 0) % m = 0
    OBVIOUS
  <2>2. q * m + r + 1 = (q + 1) * m + 0
    BY <1>2
  <2> QED BY <1>2, <2>1, <2>2
<1> QED BY <1>1, <1>2

\* What sequence_counter_to_meta_data stores.
LEMMA MetaType ==
    ASSUME NEW s \in Nat
    PROVE  /\ ToMeta(s).cycle \in 0 .. CycleMod - 1 /\ ToMeta(s).frame \in 0 .. Fpc - 1
           /\ FromMeta(ToMeta(s)) \in Nat
<1>1. s \div Fpc \in Nat /\ s % Fpc \in 0 .. Fpc - 1
  BY DivMod, FramePathAssumption
<1>2. (s \div Fpc) % CycleMod \in 0 .. CycleMod - 1
  BY <1>1, DivMod, FramePathAssumption
<1>3. PICK a \in Nat, b \in Nat : a = (s \div Fpc) % CycleMod /\ b = s % Fpc
  BY <1>1, <1>2, FramePathAssumption
<1>4. a * Fpc + b \in Nat
  BY FramePathAssumption
<1> QED BY <1>1, <1>2, <1>3, <1>4 DEF ToMeta, FromMeta

\* meta_data_to_sequence_counter returns what was stored, before the wrap.
LEMMA MetaRound ==
    ASSUME n \in Nat, BeforeWrap
    PROVE  FromN = n
<1>1. PICK q \in Nat, r \in 0 .. Fpc - 1 : q = n \div Fpc /\ r = n % Fpc /\ n = q * Fpc + r
  BY DivMod, FramePathAssumption
<1>2. q < CycleMod
  <2> SUFFICES ASSUME q >= CycleMod PROVE FALSE
    BY FramePathAssumption
  <2>1. q * Fpc >= CycleMod * Fpc
    BY FramePathAssumption
  <2>2. q * Fpc \in Nat /\ CycleMod * Fpc \in Nat
    BY FramePathAssumption
  <2> QED BY <1>1, <2>1, <2>2, FramePathAssumption DEF BeforeWrap
<1>3. q % CycleMod = q
  BY <1>2, FramePathAssumption
<1> QED BY <1>1, <1>3, Zenon DEF FromN, FromMeta, ToMeta

\* Another sequence counter is other meta data.
LEMMA MetaDiffers ==
    ASSUME NEW s \in Nat
    PROVE  ToMeta(FromMeta(ToMeta(s)) + 1) # ToMeta(s)
<1>1. PICK a \in 0 .. CycleMod - 1, b \in 0 .. Fpc - 1 :
         a = ToMeta(s).cycle /\ b = ToMeta(s).frame
  BY MetaType, Zenon
<1>2. FromMeta(ToMeta(s)) = a * Fpc + b
  BY <1>1 DEF FromMeta
<1>3. PICK m : m = ToMeta(a * Fpc + b + 1)
  OBVIOUS
<1>4. m.frame = (a * Fpc + b + 1) % Fpc /\ m.cycle = ((a * Fpc + b + 1) \div Fpc) % CycleMod
  BY <1>3 DEF ToMeta
<1>5. CASE Fpc # 1
  <2>1. m.frame # b
    <3>1. Fpc \in Nat \ {0, 1} /\ a \in Nat
      BY <1>5, FramePathAssumption
    <3>2. (a * Fpc + b + 1) % Fpc # b
      BY <3>1, NextRemainder, Zenon
    <3> QED BY <1>4, <3>2, Zenon
  <2> QED BY <1>1, <1>2, <1>3, <2>1
<1>6. CASE Fpc = 1
  <2>1. b = 0 /\ a * Fpc + b + 1 = 0 * CycleMod + a + 1
    BY <1>6, FramePathAssumption
  <2>2. (a * Fpc + b + 1) \div Fpc = 0 * CycleMod + a + 1
    BY <1>6, <2>1, FramePathAssumption
  <2>3. (0 * CycleMod + a + 1) % CycleMod # a
    BY NextRemainder, FramePathAssumption
  <2>4. m.cycle # a
    BY <1>4, <2>2, <2>3
  <2> QED BY <1>1, <1>2, <1>3, <2>4
<1> QED BY <1>5, <1>6

---------------------------------------------------------------------------
(***************************************************************************)
(* The verdicts of the callbacks                                           *)
(***************************************************************************)
\* An AF_PACKET socket never sees the tag.
Seen(f) == conf.xdp = TRUE \/ ~HasVlan(conf) \/ f.tagged = FALSE

\* What the callbacks of the clear classes look at.
LEMMA ClearVerdict ==
    ASSUME conf \in Configs, conf.kind \in {"dcp", "lldp", "udp", "l2"}, NEW f, IsFrame(f), Seen(f)
    PROVE  Verdict(f) = Checked(f, FrameLength(f.tagged))
<1>0. conf.xdp = TRUE => conf.kind \in {"rt", "l2", "ethercat"}
  BY ConfType, Zenon
<1>1. CASE conf.kind = "dcp"
  BY <1>0, <1>1 DEF Verdict, dcp_rx_frame, FrameLength, Seen, HasVlan, IsFrame
<1>2. CASE conf.kind = "lldp"
  BY <1>2 DEF Verdict, lldp_rx_frame, FrameLength, HasVlan
<1>3. CASE conf.kind = "udp"
  BY <1>3 DEF Verdict, udp_rx_thread_routine, FrameLength, HasVlan
<1>4. CASE conf.kind = "l2"
  BY <1>4 DEF Verdict, generic_l2_rx_frame, VlanLength, FrameLength, HasVlan, IsFrame
<1> QED BY <1>1, <1>2, <1>3, <1>4

\* What the callback of the PROFINET classes looks at.
LEMMA RtVerdict ==
    ASSUME conf.kind = "rt", NEW f, IsFrame(f)
    PROVE  Verdict(f) =
              IF f.len # FrameLength(f.tagged) THEN Rejected
              ELSE [accepted |-> TRUE,
                    payload_mismatch |-> Compared(f) # "pattern",
                    frame_id_mismatch |-> f.id # conf.kind,
                    authenticated |-> Secure /\ f.tag = Tag(f, FromMeta(f.seq))]
<1>1. VlanLength(f) = FrameLength(f.tagged)
  BY DEF VlanLength, FrameLength, HasVlan, IsFrame
<1>2. Verdict(f) = receive_profinet_frame(f)
  BY DEF Verdict
<1> QED BY <1>1, <1>2, Zenon DEF receive_profinet_frame

\* A callback accepts frames of one length only.
LEMMA AcceptedLength ==
    ASSUME conf \in Configs, conf.kind # "ethercat", NEW f, IsFrame(f), Seen(f)
    PROVE  /\ f.len = FrameLength(f.tagged) => Verdict(f).accepted = TRUE
           /\ f.len # FrameLength(f.tagged) => Verdict(f).accepted = FALSE
<1>1. CASE conf.kind = "rt"
  <2>1. CASE f.len = FrameLength(f.tagged)
    BY <1>1, <2>1, RtVerdict
  <2>2. CASE f.len # FrameLength(f.tagged)
    <3>1. Verdict(f) = Rejected
      BY <1>1, <2>2, RtVerdict, Zenon
    <3> QED BY <2>2, <3>1 DEF Rejected
  <2> QED BY <2>1, <2>2, Zenon
<1>2. CASE conf.kind # "rt"
  <2>1. Verdict(f) = Checked(f, FrameLength(f.tagged))
    BY <1>2, ConfType, ClearVerdict
  <2>2. CASE f.len = FrameLength(f.tagged)
    BY <2>1, <2>2 DEF Checked, Rejected
  <2>3. CASE f.len # FrameLength(f.tagged)
    <3>1. Verdict(f) = Rejected
      BY <2>1, <2>3, Zenon DEF Checked
    <3> QED BY <2>3, <3>1 DEF Rejected
  <2> QED BY <2>2, <2>3, Zenon
<1> QED BY <1>1, <1>2, Zenon

\* The parts of a frame have a length.
LEMMA HeaderType == HeaderLen(conf) \in Nat /\ ChecksumLen(conf) \in Nat
<1>1. PICK i : i = IF conf.kind \in {"rt", "dcp"} THEN FRAME_ID ELSE 0
  OBVIOUS
<1>2. PICK s : s = IF conf.mode # "none" THEN SECURITY ELSE 0
  OBVIOUS
<1>3. i \in Nat /\ s \in Nat
  BY <1>1, <1>2 DEF FRAME_ID, SECURITY
<1>4. HeaderLen(conf) = META + i + s
  BY <1>1, <1>2, Zenon DEF HeaderLen
<1>5. HeaderLen(conf) \in Nat
  BY <1>3, <1>4 DEF META
<1>6. ChecksumLen(conf) \in Nat
  BY DEF ChecksumLen, CHECKSUM
<1> QED BY <1>5, <1>6

\* config_sanity_check asks for at least the sum of the parts.
LEMMA PartsFit ==
    ASSUME conf \in Configs, conf.kind # "ethercat", min_frame_size(conf) <= conf.length
    PROVE  LET e == IF conf.kind = "udp" THEN 0 ELSE IF HasVlan(conf) THEN ETH + VLAN ELSE ETH
           IN  e + HeaderLen(conf) + conf.pattern + ChecksumLen(conf) <= conf.length
<1>0. /\ conf.kind \in {"rt", "dcp", "lldp", "udp", "l2"} /\ conf.length \in Nat /\ conf.pattern \in Nat
      /\ conf.mode # "none" => conf.kind = "rt"
  BY ConfType
<1>1. PICK k, p, m : k = conf.kind /\ p = conf.pattern /\ m = min_frame_size(conf) /\ p \in Nat
  BY <1>0
<1>2. CASE k = "rt" /\ conf.mode = "none"
  BY <1>0, <1>1, <1>2 DEF min_frame_size, HasVlan, HeaderLen, ChecksumLen, ETH, VLAN, META, FRAME_ID
<1>3. CASE k = "rt" /\ conf.mode # "none"
  BY <1>0, <1>1, <1>3
     DEF min_frame_size, HasVlan, HeaderLen, ChecksumLen, ETH, VLAN, META, FRAME_ID, SECURITY, CHECKSUM
<1>4. CASE k = "dcp"
  BY <1>0, <1>1, <1>4 DEF min_frame_size, HasVlan, HeaderLen, ChecksumLen, ETH, VLAN, META, FRAME_ID
<1>5. CASE k = "lldp"
  BY <1>0, <1>1, <1>5 DEF min_frame_size, HasVlan, HeaderLen, ChecksumLen, ETH, META
<1>6. CASE k = "udp"
  BY <1>0, <1>1, <1>6 DEF min_frame_size, HeaderLen, ChecksumLen, META
<1>7. CASE k = "l2"
  BY <1>0, <1>1, <1>7 DEF min_frame_size, HasVlan, HeaderLen, ChecksumLen, ETH, VLAN, META
<1> QED BY <1>0, <1>1, <1>2, <1>3, <1>4, <1>5, <1>6, <1>7

\* So an undamaged frame holds them all, with or without its tag.
LEMMA PatternHeld ==
    ASSUME conf \in Configs, conf.kind # "ethercat", min_frame_size(conf) <= conf.length,
           NEW f, IsFrame(f), f.len = FrameLength(f.tagged)
    PROVE  HoldsPattern(f)
<1>0. conf.length \in Nat /\ conf.pattern \in Nat
  BY ConfType
<1>1. PICK h, c, p, m :
         /\ h \in Nat /\ c \in Nat /\ p \in Nat /\ m \in Nat
         /\ h = HeaderLen(conf) /\ c = ChecksumLen(conf) /\ p = conf.pattern /\ m = conf.length
  BY <1>0, HeaderType, Zenon
<1>2. PICK e : e = IF conf.kind = "udp" THEN 0 ELSE IF HasVlan(conf) THEN ETH + VLAN ELSE ETH
  OBVIOUS
<1>3. e + h + p + c <= m
  BY <1>1, <1>2, PartsFit, Zenon
<1>4. PICK t : t = f.tagged /\ t \in BOOLEAN /\ (t = TRUE => HasVlan(conf)) /\ f.len = FrameLength(t)
  BY Zenon DEF IsFrame
<1>5. CASE HasVlan(conf) /\ t = FALSE
  <2>1. conf.kind # "udp"
    BY <1>5 DEF HasVlan
  <2>2. e = ETH + VLAN /\ EthLen(conf, t) = ETH /\ f.len = m - VLAN
    BY <1>1, <1>2, <1>4, <1>5, <2>1, Zenon DEF EthLen, FrameLength
  <2>3. ETH + h + p + c <= m - VLAN
    BY <1>1, <1>3, <2>2 DEF ETH, VLAN
  <2> QED BY <1>1, <1>4, <2>2, <2>3, Zenon DEF HoldsPattern
<1>6. CASE ~(HasVlan(conf) /\ t = FALSE)
  <2>1. EthLen(conf, t) = e /\ f.len = m
    BY <1>1, <1>2, <1>4, <1>6, Zenon DEF EthLen, FrameLength
  <2> QED BY <1>1, <1>3, <1>4, <2>1, Zenon DEF HoldsPattern
<1> QED BY <1>5, <1>6, Zenon

\* Every callback accepts an undamaged frame, whatever its kind and with or
\* without its tag; the checksum verifies and the payload decrypts if the initial
\* vector is the one in the meta data.
LEMMA PristineAccepted ==
    ASSUME conf \in Configs, conf.kind # "ethercat", min_frame_size(conf) <= conf.length,
           NEW f, NEW iv, NEW time, NEW payload, Pristine(f, iv, time, payload), Seen(f)
    PROVE  LET v == Verdict(f)
           IN  /\ v.accepted = TRUE /\ v.frame_id_mismatch = FALSE
               /\ Secure /\ FromN = iv => v.authenticated = TRUE
               /\ payload = "pattern" /\ (conf.mode = "ae" => FromN = iv) => v.payload_mismatch = FALSE
<1>0. /\ IsFrame(f) /\ f.len = FrameLength(f.tagged) /\ FromMeta(f.seq) = FromN /\ f.id = conf.kind
      /\ f.text.payload = payload /\ (conf.mode = "ae" => f.text.iv = iv)
      /\ Secure => f.tag = Tag(f, iv)
  BY DEF Pristine, FromN, Text
<1>3. Compared(f) = IF conf.mode = "ae" THEN Decrypted(f, FromN) ELSE f.text.payload
  BY <1>0, PatternHeld, Zenon DEF Compared
<1>1. CASE conf.kind = "rt"
  <2>1. Verdict(f) =
            [accepted |-> TRUE,
             payload_mismatch |-> Compared(f) # "pattern",
             frame_id_mismatch |-> FALSE,
             authenticated |-> Secure /\ f.tag = Tag(f, FromN)]
    BY <1>0, <1>1, RtVerdict, Zenon
  <2>2. /\ Verdict(f).accepted = TRUE /\ Verdict(f).frame_id_mismatch = FALSE
        /\ Verdict(f).authenticated = (Secure /\ f.tag = Tag(f, FromN))
        /\ Verdict(f).payload_mismatch = (Compared(f) # "pattern")
    BY <2>1
  <2>3. Secure /\ FromN = iv => Verdict(f).authenticated = TRUE
    BY <1>0, <2>2, Zenon
  <2>4. CASE conf.mode = "ae"
    <3>1. FromN = iv => Decrypted(f, FromN) = payload
      BY <1>0, <2>4, Zenon DEF Decrypted
    <3> QED BY <1>3, <2>2, <2>3, <2>4, <3>1, Zenon
  <2>5. CASE conf.mode # "ae"
    BY <1>0, <1>3, <2>2, <2>3, <2>5, Zenon
  <2> QED BY <2>4, <2>5, Zenon
<1>2. CASE conf.kind # "rt"
  <2>1. Verdict(f) = [Rejected EXCEPT !.accepted = TRUE, !.payload_mismatch = Compared(f) # "pattern"]
    BY <1>0, <1>2, ConfType, ClearVerdict, Zenon DEF Checked
  <2>2. ~Secure /\ conf.mode # "ae"
    BY <1>2, ConfType DEF Secure
  <2> QED BY <1>0, <1>3, <2>1, <2>2, Zenon DEF Rejected
<1> QED BY <1>1, <1>2, Zenon

\* Two checksums are equal only if what they are computed of is.
LEMMA TagDiffers ==
    ASSUME NEW f, NEW g, NEW i, NEW j, Tag(f, i) = Tag(g, j)
    PROVE  /\ f.id = g.id /\ f.seq = g.seq
           /\ conf.mode = "ao" => f.text.payload = g.text.payload /\ f.text.padding = g.text.padding
           /\ conf.mode = "ae" => f.text = g.text
<1>1. Associated(f) = Associated(g)
  BY DEF Tag
<1>2. conf.mode = "ae" => f.text = g.text
  BY DEF Tag
<1> QED BY <1>1, <1>2 DEF Associated

\* Every callback notices damage to an otherwise undamaged frame, before and
\* after the cycle counter has wrapped around.
LEMMA DamageNoticed ==
    ASSUME conf \in Configs, conf.kind # "ethercat", n \in Nat,
           NEW f, NEW g, NEW iv, NEW time, NEW payload, Pristine(f, iv, time, payload), payload # "damaged",
           NEW part \in Parts, IsHit(g, f, part), Seen(g)
    PROVE  Notices(Verdict(g), part)
<1>0. /\ IsFrame(f) /\ IsFrame(g) /\ f.len = FrameLength(f.tagged) /\ f.id = conf.kind /\ f.seq = ToMeta(n)
      /\ f.text.payload = payload /\ f.text.padding = "zero" /\ g.tagged = f.tagged /\ g.tag = f.tag
      /\ Secure => f.tag = Tag(f, iv)
      /\ f.len \in Int
  BY DEF Pristine, Text, IsHit, IsFrame
<1>1. CASE part = "length"
  <2>1. g.len # FrameLength(g.tagged)
    BY <1>0, <1>1 DEF IsHit
  <2>2. Verdict(g).accepted = FALSE
    BY <1>0, <2>1, AcceptedLength, Zenon
  <2> QED BY <1>1, <2>2 DEF Notices
<1>2. CASE part # "length"
  <2>1. g.len = FrameLength(g.tagged)
    BY <1>0, <1>2 DEF IsHit
  <2>2. CASE conf.kind = "rt"
    <3>1. Verdict(g) =
            [accepted |-> TRUE,
             payload_mismatch |-> Compared(g) # "pattern",
             frame_id_mismatch |-> g.id # conf.kind,
             authenticated |-> Secure /\ g.tag = Tag(g, FromMeta(g.seq))]
      BY <1>0, <2>1, <2>2, RtVerdict, Zenon
    <3>2. /\ Verdict(g).payload_mismatch = (Compared(g) # "pattern")
          /\ Verdict(g).frame_id_mismatch = (g.id # conf.kind)
          /\ Verdict(g).authenticated = (Secure /\ g.tag = Tag(g, FromMeta(g.seq)))
      BY <3>1
    <3>3. part = "payload" => Verdict(g).payload_mismatch
      BY <3>2, Zenon DEF IsHit, Compared, Decrypted
    <3>4. part = "id" => Verdict(g).frame_id_mismatch
      BY <2>2, <3>2, Zenon DEF IsHit
    <3>5. ASSUME Secure PROVE ~Verdict(g).authenticated
      <4> SUFFICES ASSUME Tag(f, iv) = Tag(g, FromMeta(g.seq)) PROVE FALSE
        BY <1>0, <3>2, <3>5, Zenon
      <4>1. /\ f.id = g.id /\ f.seq = g.seq
            /\ f.text.payload = g.text.payload /\ f.text.padding = g.text.padding
        <5>1. conf.mode \in {"ao", "ae"}
          BY <3>5, ConfType DEF Secure
        <5> QED BY <5>1, TagDiffers
      <4>2. f.seq # ToMeta(FromMeta(f.seq) + 1)
        BY <1>0, MetaDiffers, Zenon
      <4>3. conf.kind # "damaged"
        BY <2>2
      <4> QED BY <1>0, <1>2, <4>1, <4>2, <4>3 DEF IsHit, Parts
    <3> QED BY <1>2, <3>3, <3>4, <3>5 DEF Notices, Parts
  <2>3. CASE conf.kind # "rt"
    <3>1. ~Secure
      BY <2>3, ConfType DEF Secure
    <3>2. Verdict(g) = [Rejected EXCEPT !.accepted = TRUE, !.payload_mismatch = Compared(g) # "pattern"]
      BY <1>0, <2>1, <2>3, ConfType, ClearVerdict, Zenon DEF Checked
    <3>3. Verdict(g).payload_mismatch = (Compared(g) # "pattern")
      BY <3>2 DEF Rejected
    <3>4. part = "payload" => Verdict(g).payload_mismatch
      BY <3>3, Zenon DEF IsHit, Compared, Decrypted
    <3> QED BY <1>2, <2>3, <3>1, <3>4 DEF Notices, Parts
  <2> QED BY <2>2, <2>3
<1> QED BY <1>1, <1>2

---------------------------------------------------------------------------
(***************************************************************************)
(* What the mirror makes of a frame                                        *)
(***************************************************************************)
\* The time is set, a secure frame is encrypted and sealed again.
LEMMA StampedFields ==
    ASSUME NEW f, IsFrame(f)
    PROVE  LET h == Stamped(f)
           IN  /\ IsFrame(h) /\ SameAddresses(h, f) /\ h.tagged = f.tagged /\ h.len = f.len
               /\ h.id = f.id /\ h.seq = f.seq /\ h.time = "mirror"
               /\ h.text = IF conf.mode = "ae" THEN Text(frame_copy, FromMeta(f.seq)) ELSE f.text
               /\ Secure => h.tag = Tag(h, FromMeta(f.seq))
<1> DEFINE s == [f EXCEPT !.time = "mirror",
                          !.text = IF conf.mode = "ae" THEN Text(frame_copy, FromMeta(f.seq)) ELSE @]
<1>1. DOMAIN s = DOMAIN f
  OBVIOUS
<1>2. /\ SameAddresses(s, f) /\ s.tagged = f.tagged /\ s.len = f.len /\ s.id = f.id /\ s.seq = f.seq
      /\ s.time = "mirror" /\ s.tag = f.tag
      /\ s.text = IF conf.mode = "ae" THEN Text(frame_copy, FromMeta(f.seq)) ELSE f.text
  BY DEF IsFrame, SameAddresses
<1>3. DOMAIN s.text = {"payload", "padding", "iv"}
  BY <1>2 DEF Text, IsFrame
<1>4. IsFrame(s)
  BY <1>1, <1>2, <1>3 DEF IsFrame
<1>5. Stamped(f) = IF Secure THEN Sealed(s, FromMeta(f.seq)) ELSE s
  BY DEF Stamped
<1> HIDE DEF s
<1>6. CASE Secure
  <2>1. PICK t : t = Tag(s, FromMeta(f.seq))
    OBVIOUS
  <2>2. PICK h : h = Stamped(f) /\ h = [s EXCEPT !.tag = t]
    BY <1>5, <1>6, <2>1 DEF Sealed
  <2>3. /\ DOMAIN h = DOMAIN s /\ SameAddresses(h, s) /\ h.tagged = s.tagged /\ h.len = s.len /\ h.id = s.id
        /\ h.seq = s.seq /\ h.time = s.time /\ h.text = s.text /\ h.tag = t
    BY <1>4, <2>2 DEF IsFrame, SameAddresses
  <2>4. Tag(h, FromMeta(f.seq)) = t
    BY <2>1, <2>3, TagDepends
  <2>5. IsFrame(h)
    BY <1>4, <2>3 DEF IsFrame
  <2> QED BY <1>2, <2>2, <2>3, <2>4, <2>5 DEF SameAddresses
<1>7. CASE ~Secure
  BY <1>2, <1>4, <1>5, <1>7
<1> QED BY <1>6, <1>7

\* The VLAN tag is put back.
LEMMA TaggedFields ==
    ASSUME NEW f, IsFrame(f), HasVlan(conf)
    PROVE  /\ IsFrame(Tagged(f)) /\ SameAddresses(Tagged(f), f) /\ SameContent(Tagged(f), f)
           /\ Tagged(f).time = f.time /\ Tagged(f).tagged = TRUE /\ Tagged(f).len = f.len + VLAN
<1>1. f.len + VLAN \in Int
  BY DEF IsFrame, VLAN
<1>2. /\ SameAddresses(Tagged(f), f) /\ SameContent(Tagged(f), f)
      /\ Tagged(f).time = f.time /\ Tagged(f).tagged = TRUE /\ Tagged(f).len = f.len + VLAN
  BY DEF IsFrame, Tagged, SameAddresses, SameContent
<1>3. DOMAIN Tagged(f) = DOMAIN f
  BY DEF Tagged
<1>4. IsFrame(Tagged(f))
  BY <1>1, <1>2, <1>3, Zenon DEF IsFrame, SameContent
<1> QED BY <1>2, <1>4

\* Source and destination are swapped.
LEMMA SwappedFields ==
    ASSUME NEW f, IsFrame(f)
    PROVE  LET h == swap_mac_addresses(f)
           IN  /\ IsFrame(h) /\ h.source = f.destination /\ h.destination = f.source /\ SameContent(h, f)
               /\ h.time = f.time /\ h.tagged = f.tagged /\ h.len = f.len
<1> DEFINE h == swap_mac_addresses(f)
<1>1. /\ h.source = f.destination /\ h.destination = f.source /\ SameContent(h, f)
      /\ h.time = f.time /\ h.tagged = f.tagged /\ h.len = f.len
  BY DEF IsFrame, swap_mac_addresses, SameContent
<1>2. DOMAIN h = DOMAIN f
  BY DEF swap_mac_addresses
<1>3. IsFrame(h)
  BY <1>1, <1>2 DEF IsFrame, SameContent
<1> QED BY <1>1, <1>3

\* h is what the mirror stores of an accepted frame f.
IsForwarded(h, f) ==
    /\ IsFrame(h) /\ (HasVlan(conf) => h.tagged = TRUE) /\ h.len = conf.length
    /\ h.id = f.id /\ h.seq = f.seq /\ h.time = "mirror"
    /\ h.text = IF conf.mode = "ae" THEN Text(frame_copy, FromMeta(f.seq)) ELSE f.text
    /\ Secure => h.tag = Tag(h, FromMeta(f.seq))
    /\ conf.kind \in {"dcp", "lldp"} => h.destination = f.destination
    /\ conf.kind \in {"rt", "l2"} => h.destination = f.source

\* Every callback turns a frame of the right length into a tagged frame of the
\* configured length: the tag always fits again.
LEMMA ForwardedFields ==
    ASSUME conf \in Configs, conf.kind # "ethercat", conf.length <= MAX_FRAME_SIZE,
           NEW f, IsFrame(f), Seen(f), f.len = FrameLength(f.tagged)
    PROVE  IsForwarded(Forwarded(f), f)
<1>0. /\ conf.kind \in {"rt", "dcp", "lldp", "udp", "l2"}
      /\ conf.mode \in {"none", "ao", "ae"} /\ conf.xdp \in BOOLEAN /\ conf.length \in Nat
      /\ conf.mode # "none" => conf.kind = "rt"
      /\ conf.xdp = TRUE => conf.kind \in {"rt", "l2"}
      /\ f.len \in Int /\ f.tagged \in BOOLEAN
  BY ConfType, Zenon DEF IsFrame
<1>1. CASE conf.kind = "dcp"
  <2>1. f.tagged = FALSE /\ HasVlan(conf) /\ ~Secure /\ conf.mode # "ae"
    BY <1>0, <1>1 DEF Seen, HasVlan, Secure
  <2>2. f.len + VLAN = conf.length
    BY <1>0, <2>1 DEF FrameLength, VLAN
  <2>3. PICK t : /\ t = Tagged(f) /\ IsFrame(t) /\ SameAddresses(t, f) /\ SameContent(t, f)
                 /\ t.tagged = TRUE /\ t.len = conf.length
    BY <2>1, <2>2, TaggedFields, Zenon
  <2>4. PICK h : h = Forwarded(f) /\ h = [t EXCEPT !.source = "mirror", !.time = "mirror"]
    <3>1. Forwarded(f) = dcp_build_frame_from_rx(f)
      BY <1>0, <1>1 DEF Forwarded
    <3>2. ~(MAX_FRAME_SIZE < f.len + VLAN)
      BY <1>0, <2>2 DEF MAX_FRAME_SIZE, XDP_FRAME_SIZE
    <3> QED BY <2>3, <3>1, <3>2, Zenon DEF dcp_build_frame_from_rx
  <2>5. /\ DOMAIN h = DOMAIN t /\ h.destination = t.destination /\ h.tagged = t.tagged /\ h.len = t.len
        /\ SameContent(h, t) /\ h.time = "mirror"
    BY <2>3, <2>4 DEF IsFrame, SameContent
  <2>6. IsFrame(h)
    BY <2>3, <2>5 DEF IsFrame, SameContent
  <2>7. IsForwarded(h, f)
    BY <1>1, <2>1, <2>3, <2>5, <2>6 DEF IsForwarded, SameAddresses, SameContent
  <2> QED BY <2>4, <2>7
<1>2. CASE conf.kind = "lldp"
  <2>1. ~HasVlan(conf) /\ ~Secure /\ conf.mode # "ae" /\ f.len = conf.length
    BY <1>0, <1>2 DEF HasVlan, Secure, FrameLength
  <2>2. PICK h : h = Forwarded(f) /\ h = [f EXCEPT !.source = "mirror", !.time = "mirror"]
    BY <1>0, <1>2 DEF Forwarded, lldp_build_frame_from_rx
  <2>3. /\ DOMAIN h = DOMAIN f /\ h.destination = f.destination /\ h.tagged = f.tagged /\ h.len = f.len
        /\ SameContent(h, f) /\ h.time = "mirror"
    BY <2>2 DEF IsFrame, SameContent
  <2>4. IsFrame(h)
    BY <2>3 DEF IsFrame, SameContent
  <2>5. IsForwarded(h, f)
    BY <1>2, <2>1, <2>3, <2>4 DEF IsForwarded, SameContent
  <2> QED BY <2>2, <2>5
<1>3. PICK s : /\ s = Stamped(f) /\ IsFrame(s) /\ SameAddresses(s, f) /\ s.tagged = f.tagged /\ s.len = f.len
               /\ s.id = f.id /\ s.seq = f.seq /\ s.time = "mirror"
               /\ s.text = IF conf.mode = "ae" THEN Text(frame_copy, FromMeta(f.seq)) ELSE f.text
               /\ Secure => s.tag = Tag(s, FromMeta(f.seq))
  BY StampedFields, Zenon
<1>4. CASE conf.kind = "udp"
  <2>1. ~HasVlan(conf) /\ f.len = conf.length /\ Forwarded(f) = s
    BY <1>0, <1>3, <1>4 DEF HasVlan, FrameLength, Forwarded
  <2> QED BY <1>3, <1>4, <2>1, Zenon DEF IsForwarded
<1>5. CASE conf.kind \in {"rt", "l2"}
  <2>0. HasVlan(conf)
    BY <1>5 DEF HasVlan
  <2>1. PICK t : /\ IsFrame(t) /\ SameAddresses(t, s) /\ SameContent(t, s) /\ t.time = s.time
                 /\ t.tagged = TRUE /\ t.len = conf.length
                 /\ Forwarded(f) = swap_mac_addresses(t)
    <3>1. CASE f.tagged = TRUE
      <4>1. conf.xdp = TRUE /\ s.len = conf.length
        BY <1>0, <1>3, <2>0, <3>1 DEF Seen, FrameLength
      <4>2. Forwarded(f) = swap_mac_addresses(s)
        BY <1>3, <1>5, <3>1, <4>1 DEF Forwarded
      <4> QED BY <1>3, <3>1, <4>1, <4>2, Zenon DEF SameAddresses, SameContent
    <3>2. CASE f.tagged = FALSE
      <4>1. s.len + VLAN = conf.length
        BY <1>0, <1>3, <2>0, <3>2 DEF FrameLength, VLAN
      <4>2. ~(s.len + VLAN > XDP_FRAME_SIZE) /\ ~(MAX_FRAME_SIZE < s.len + VLAN)
        BY <1>0, <4>1 DEF MAX_FRAME_SIZE, XDP_FRAME_SIZE
      <4>3. Forwarded(f) = swap_mac_addresses(Tagged(s))
        <5>1. CASE conf.xdp = TRUE
          BY <1>3, <1>5, <3>2, <4>2, <5>1 DEF Forwarded, insert_vlan_tag
        <5>2. CASE conf.xdp = FALSE
          <6>1. Forwarded(f) = build_vlan_frame_from_rx(s)
            BY <1>3, <1>5, <5>2 DEF Forwarded
          <6> QED BY <4>2, <6>1, Zenon DEF build_vlan_frame_from_rx
        <5> QED BY <1>0, <5>1, <5>2, Zenon
      <4> QED BY <1>3, <2>0, <4>1, <4>3, TaggedFields, Zenon
    <3> QED BY <1>0, <3>1, <3>2, Zenon
  <2>2. PICK h : /\ h = Forwarded(f) /\ IsFrame(h) /\ h.source = t.destination /\ h.destination = t.source
                 /\ SameContent(h, t) /\ h.time = t.time /\ h.tagged = t.tagged /\ h.len = t.len
    BY <2>1, SwappedFields, Zenon
  <2>3. Tag(h, FromMeta(f.seq)) = Tag(s, FromMeta(f.seq))
    BY <2>1, <2>2, TagDepends DEF SameContent
  <2>4. IsForwarded(h, f)
    BY <1>3, <1>5, <2>1, <2>2, <2>3 DEF IsForwarded, SameContent, SameAddresses
  <2> QED BY <2>2, <2>4
<1> QED BY <1>0, <1>1, <1>2, <1>4, <1>5

\* g is what the mirror sends of a stored frame f.
IsMirrored(g, f) ==
    /\ IsFrame(g) /\ g.tagged = f.tagged /\ SameContent(g, f) /\ g.time = EchoTime
    /\ g.len = f.len \/ g.len = conf.length
    /\ g.destination = IF conf.kind = "udp" THEN "reference" ELSE f.destination

\* The time stamp set on Tx goes where the meta data is, at the offset that
\* get_meta_data_offset knows for tagged frames.
LEMMA MirroredFields ==
    ASSUME conf \in Configs, conf.kind # "ethercat",
           NEW f, IsFrame(f), HasVlan(conf) => f.tagged = TRUE, f.time = "mirror"
    PROVE  IsMirrored(MirrorSent(f), f)
<1>0. /\ conf.kind \in {"rt", "dcp", "lldp", "udp", "l2"}
      /\ conf.mode \in {"none", "ao", "ae"} /\ conf.xdp \in BOOLEAN /\ conf.length \in Nat
      /\ conf.mode # "none" => conf.kind = "rt"
      /\ conf.xdp = TRUE => conf.kind \in {"rt", "l2"}
      /\ f.len \in Int /\ f.tagged \in BOOLEAN
  BY ConfType, Zenon DEF IsFrame
<1>1. CASE conf.xdp = TRUE
  <2>1. PICK g : g = MirrorSent(f) /\ g = [f EXCEPT !.len = conf.length]
    BY <1>0, <1>1, Zenon DEF MirrorSent, xdp_receive_frames
  <2>2. /\ DOMAIN g = DOMAIN f /\ g.destination = f.destination /\ g.tagged = f.tagged /\ g.len = conf.length
        /\ SameContent(g, f) /\ g.time = f.time
    BY <2>1 DEF IsFrame, SameContent
  <2>3. IsFrame(g)
    BY <1>0, <2>2 DEF IsFrame, SameContent
  <2>4. EchoTime = "mirror" /\ conf.kind # "udp"
    BY <1>0, <1>1 DEF EchoTime
  <2> QED BY <2>1, <2>2, <2>3, <2>4 DEF IsMirrored
<1>2. CASE conf.xdp = FALSE /\ conf.kind = "udp"
  <2>1. PICK g : /\ g = MirrorSent(f)
                 /\ g = [f EXCEPT !.source = "mirror", !.destination = "reference", !.time = "mirror tx"]
    BY <1>2 DEF MirrorSent, udp_send_frame
  <2>2. /\ DOMAIN g = DOMAIN f /\ g.destination = "reference" /\ g.tagged = f.tagged /\ g.len = f.len
        /\ SameContent(g, f) /\ g.time = "mirror tx"
    BY <2>1 DEF IsFrame, SameContent
  <2>3. IsFrame(g)
    BY <2>2, Zenon DEF IsFrame, SameContent
  <2>4. EchoTime = "mirror tx"
    BY <1>0, <1>2 DEF EchoTime, Secure
  <2> QED BY <1>2, <2>1, <2>2, <2>3, <2>4, Zenon DEF IsMirrored
<1>3. CASE conf.xdp = FALSE /\ conf.kind # "udp"
  <2>1. MirrorSent(f) = set_mirror_tx_timestamp(f)
    BY <1>3 DEF MirrorSent
  <2>2. CASE Secure
    <3>1. MirrorSent(f) = f /\ EchoTime = "mirror"
      BY <2>1, <2>2 DEF set_mirror_tx_timestamp, EchoTime
    <3> QED BY <1>3, <3>1 DEF IsMirrored, SameContent
  <2>3. CASE ~Secure
    <3>1. get_meta_data_offset(conf) = MetaAt(conf, f.tagged)
      <4>1. conf.mode = "none"
        BY <2>3 DEF Secure
      <4>2. CASE conf.kind \in {"rt", "dcp"}
        BY <4>1, <4>2 DEF get_meta_data_offset, MetaAt, EthLen, HeaderLen, HasVlan, META, ETH, VLAN, FRAME_ID
      <4>3. CASE conf.kind = "lldp"
        BY <1>0, <4>1, <4>3 DEF IsFrame, get_meta_data_offset, MetaAt, EthLen, HeaderLen, HasVlan, META, ETH, VLAN
      <4>4. CASE conf.kind = "l2"
        BY <4>1, <4>4 DEF get_meta_data_offset, MetaAt, EthLen, HeaderLen, HasVlan, META, ETH, VLAN
      <4> QED BY <1>0, <1>3, <4>2, <4>3, <4>4
    <3>2. PICK g : g = MirrorSent(f) /\ g = [f EXCEPT !.time = "mirror tx"]
      BY <2>1, <2>3, <3>1, Zenon DEF set_mirror_tx_timestamp
    <3>3. /\ DOMAIN g = DOMAIN f /\ g.destination = f.destination /\ g.tagged = f.tagged /\ g.len = f.len
          /\ SameContent(g, f) /\ g.time = "mirror tx"
      BY <3>2, Zenon DEF IsFrame, SameContent
    <3>4. IsFrame(g)
      BY <3>3, Zenon DEF IsFrame, SameContent
    <3>5. EchoTime = "mirror tx"
      BY <1>3, <2>3 DEF EchoTime
    <3> QED BY <1>3, <3>2, <3>3, <3>4, <3>5, Zenon DEF IsMirrored
  <2> QED BY <2>2, <2>3
<1> QED BY <1>0, <1>1, <1>2, <1>3, Zenon

\* The frame the reference sends, prepare_frame_for_tx and
\* udp_gen_and_send_frame.
SentFrame == IF conf.kind = "udp" THEN udp_gen_and_send_frame(Initialized) ELSE prepare_frame_for_tx(Initialized)

\* It is undamaged.
LEMMA SentPristine ==
    ASSUME conf \in Configs, conf.kind # "ethercat", n \in Nat
    PROVE  Sent(SentFrame)
<1>0. /\ conf.kind \in {"rt", "dcp", "lldp", "udp", "l2"}
      /\ conf.mode \in {"none", "ao", "ae"} /\ conf.length \in Nat
      /\ conf.mode # "none" => conf.kind = "rt"
  BY ConfType
<1>1. PICK tagged \in BOOLEAN, d \in {"mirror", "group"} :
         /\ Initialized = NewFrame(d, tagged, "pattern")
         /\ tagged = TRUE <=> HasVlan(conf)
         /\ conf.kind \in {"dcp", "lldp"} => d = "group"
  <2>1. CASE conf.kind = "rt"
    <3>1. Initialized = NewFrame("mirror", TRUE, "pattern")
      BY <2>1 DEF Initialized, initialize_profinet_frame, initialize_secure_profinet_frame,
             initialize_rt_profinet_frame
    <3>2. HasVlan(conf)
      BY <2>1 DEF HasVlan
    <3> QED BY <2>1, <3>1, <3>2, Zenon
  <2>2. CASE conf.kind = "dcp"
    <3>1. Initialized = NewFrame("group", TRUE, "pattern")
      BY <2>2 DEF Initialized, dcp_initialize_frame, initialize_rt_profinet_frame
    <3>2. HasVlan(conf)
      BY <2>2 DEF HasVlan
    <3> QED BY <2>2, <3>1, <3>2, Zenon
  <2>3. CASE conf.kind = "lldp"
    <3>1. Initialized = NewFrame("group", FALSE, "pattern")
      BY <2>3 DEF Initialized, lldp_initialize_frame
    <3>2. ~HasVlan(conf)
      BY <2>3 DEF HasVlan
    <3> QED BY <2>3, <3>1, <3>2, Zenon
  <2>4. CASE conf.kind = "l2"
    <3>1. Initialized = NewFrame("mirror", TRUE, "pattern")
      BY <2>4 DEF Initialized, generic_l2_initialize_frame
    <3>2. HasVlan(conf)
      BY <2>4 DEF HasVlan
    <3> QED BY <2>4, <3>1, <3>2, Zenon
  <2>5. CASE conf.kind = "udp"
    <3>1. Initialized = NewFrame("mirror", FALSE, "pattern")
      BY <2>5 DEF Initialized, udp_initialize_frame
    <3>2. ~HasVlan(conf)
      BY <2>5 DEF HasVlan
    <3> QED BY <2>5, <3>1, <3>2, Zenon
  <2> QED BY <1>0, <2>1, <2>2, <2>3, <2>4, <2>5, Zenon
<1>2. PICK e : /\ e = Initialized /\ IsFrame(e) /\ e.source = "reference" /\ e.destination = d
               /\ e.len = FrameLength(e.tagged) /\ e.id = conf.kind /\ e.text = Text("pattern", -1)
  <2>1. PICK e : e = Initialized
    OBVIOUS
  <2>2. e = [source |-> "reference", destination |-> d, tagged |-> tagged, len |-> conf.length,
             id |-> conf.kind, seq |-> ToMeta(0), time |-> "none", text |-> Text("pattern", -1), tag |-> <<>>]
    BY <1>1, <2>1, Zenon DEF NewFrame
  <2>3. DOMAIN Text("pattern", -1) = {"payload", "padding", "iv"}
    BY DEF Text
  <2>4. IsFrame(e)
    BY <1>0, <1>1, <2>2, <2>3 DEF IsFrame
  <2>5. e.len = FrameLength(e.tagged)
    BY <1>1, <2>2 DEF FrameLength
  <2> QED BY <2>1, <2>2, <2>4, <2>5
<1>3. PICK s : s = [e EXCEPT !.seq = ToMeta(n), !.time = "reference"]
  OBVIOUS
<1>7. /\ DOMAIN s = DOMAIN e /\ SameAddresses(s, e) /\ s.tagged = e.tagged /\ s.len = e.len
      /\ s.id = e.id /\ s.seq = ToMeta(n) /\ s.time = "reference" /\ s.text = e.text
  BY <1>2, <1>3 DEF IsFrame, SameAddresses
<1>4. IsFrame(s)
  BY <1>2, <1>7 DEF IsFrame
<1>5. CASE conf.mode = "none"
  <2>1. SentFrame = s
    BY <1>2, <1>3, <1>5 DEF SentFrame, udp_gen_and_send_frame, prepare_frame_for_tx
  <2> QED BY <1>1, <1>2, <1>7, <1>4, <1>5, <2>1 DEF Sent, Pristine, SentPayload, Secure, SameAddresses
<1>6. CASE conf.mode # "none"
  <2>0. conf.kind = "rt"
    BY <1>0, <1>6
  <2>1. PICK t : /\ SentFrame = Sealed(t, n) /\ IsFrame(t) /\ SameAddresses(t, s) /\ t.tagged = s.tagged
                 /\ t.len = s.len /\ t.id = s.id /\ t.seq = s.seq /\ t.time = s.time
                 /\ t.text = Text(SentPayload, IF conf.mode = "ae" THEN n ELSE -1)
    <3>1. CASE conf.mode = "ao"
      <4>1. SentFrame = Sealed(s, n)
        BY <1>2, <1>3, <2>0, <3>1 DEF SentFrame, prepare_frame_for_tx
      <4>2. s.text = Text(SentPayload, IF conf.mode = "ae" THEN n ELSE -1)
        BY <1>2, <1>7, <3>1 DEF SentPayload
      <4> QED BY <1>4, <4>1, <4>2 DEF SameAddresses
    <3>2. CASE conf.mode = "ae"
      <4>1. PICK x : x = Text(PayloadPattern, n)
        OBVIOUS
      <4>2. PICK t : t = [s EXCEPT !.text = x]
        BY Zenon
      <4>3. SentFrame = Sealed(t, n)
        BY <1>2, <1>3, <2>0, <3>2, <4>1, <4>2 DEF SentFrame, prepare_frame_for_tx
      <4>4. /\ DOMAIN t = DOMAIN s /\ SameAddresses(t, s) /\ t.tagged = s.tagged /\ t.len = s.len
            /\ t.id = s.id /\ t.seq = s.seq /\ t.time = s.time /\ t.text = x
        BY <1>4, <4>2 DEF IsFrame, SameAddresses
      <4>5. IsFrame(t)
        BY <1>4, <4>1, <4>4 DEF IsFrame, Text
      <4>6. x = Text(SentPayload, IF conf.mode = "ae" THEN n ELSE -1)
        BY <3>2, <4>1 DEF SentPayload
      <4> QED BY <4>3, <4>4, <4>5, <4>6
    <3> QED BY <1>0, <1>6, <3>1, <3>2
  <2>2. PICK z : z = Tag(t, n)
    OBVIOUS
  <2>3. PICK g : g = SentFrame /\ g = [t EXCEPT !.tag = z]
    BY <2>1, <2>2 DEF Sealed
  <2>4. /\ DOMAIN g = DOMAIN t /\ SameAddresses(g, t) /\ g.tagged = t.tagged /\ g.len = t.len /\ g.id = t.id
        /\ g.seq = t.seq /\ g.time = t.time /\ g.text = t.text /\ g.tag = z
    BY <2>1, <2>3 DEF IsFrame, SameAddresses
  <2>5. IsFrame(g)
    BY <2>1, <2>4 DEF IsFrame
  <2>6. Tag(g, n) = z
    BY <2>2, <2>4, TagDepends
  <2>7. Sent(g)
    BY <1>1, <1>2, <1>7, <2>0, <2>1, <2>4, <2>5, <2>6 DEF Sent, Pristine, SameAddresses
  <2> QED BY <2>3, <2>7
<1> QED BY <1>5, <1>6

---------------------------------------------------------------------------
(***************************************************************************)
(* The steps                                                               *)
(***************************************************************************)
\* Damage after no damage.
LEMMA HitCompose ==
    ASSUME NEW f, NEW g, NEW h, NEW part, IsHit(g, f, "none"), IsHit(h, g, part)
    PROVE  IsHit(h, f, part)
BY DEF IsHit

\* No damage.
LEMMA HitNone ==
    ASSUME NEW f, NEW g, IsHit(g, f, "none")
    PROVE  /\ \A iv, time, payload : Pristine(f, iv, time, payload) => Pristine(g, iv, time, payload)
           /\ g.source = f.source /\ g.destination = f.destination
<1>1. /\ IsFrame(g) /\ g.source = f.source /\ g.destination = f.destination /\ g.tagged = f.tagged
      /\ g.len = f.len /\ g.id = f.id /\ g.seq = f.seq /\ g.time = f.time /\ g.text = f.text /\ g.tag = f.tag
  BY DEF IsHit
<1>2. ASSUME NEW iv, NEW time, NEW payload, Pristine(f, iv, time, payload)
      PROVE  Pristine(g, iv, time, payload)
  <2>1. Tag(g, iv) = Tag(f, iv)
    BY <1>1, TagDepends, Zenon
  <2> QED BY <1>1, <1>2, <2>1, Zenon DEF Pristine
<1> QED BY <1>1, <1>2, Zenon

\* What depends on the configuration only, or on it and the sequence counter.
LEMMA SameConf ==
    ASSUME conf' = conf
    PROVE  /\ \A f : (IsFrame(f)' <=> IsFrame(f))
           /\ (Secure' <=> Secure) /\ PayloadPattern' = PayloadPattern /\ EchoTime' = EchoTime
           /\ \A f, iv : Tag(f, iv)' = Tag(f, iv)
           /\ \A t : FrameLength(t)' = FrameLength(t)
           /\ \A v, part : (Notices(v, part)' <=> Notices(v, part))
           /\ SentPayload' = SentPayload
<1>1. HasVlan(conf)' = HasVlan(conf)
  BY DEF HasVlan
<1>2. \A f : (IsFrame(f)' <=> IsFrame(f))
  BY <1>1, Zenon DEF IsFrame
<1>3. (Secure' <=> Secure) /\ PayloadPattern' = PayloadPattern
  BY Zenon DEF Secure, PayloadPattern
<1>4. EchoTime' = EchoTime
  BY <1>3, Zenon DEF EchoTime
<1>5. \A f, iv : Tag(f, iv)' = Tag(f, iv)
  BY Zenon DEF Tag, Associated
<1>6. \A t : FrameLength(t)' = FrameLength(t)
  BY <1>1, Zenon DEF FrameLength
<1>7. \A v, part : (Notices(v, part)' <=> Notices(v, part))
  BY <1>3, Zenon DEF Notices
<1>8. SentPayload' = SentPayload
  BY <1>3, Zenon DEF SentPayload
<1> QED BY <1>2, <1>3, <1>4, <1>5, <1>6, <1>7, <1>8, Zenon

\* An undamaged frame stays one as long as the sequence counter stays.
LEMMA SamePristine ==
    ASSUME conf' = conf, n' = n
    PROVE  /\ \A f, iv, time, payload : (Pristine(f, iv, time, payload)' <=> Pristine(f, iv, time, payload))
           /\ FromN' = FromN /\ (BeforeWrap' <=> BeforeWrap)
           /\ \A f : (Sent(f)' <=> Sent(f))
           /\ \A f, g, part : (IsHit(g, f, part)' <=> IsHit(g, f, part))
           /\ \A v, early : (Fine(v, Pattern(early))' <=> Fine(v, Pattern(early)))
<1>1. \A f, iv, time, payload : (Pristine(f, iv, time, payload)' <=> Pristine(f, iv, time, payload))
  <2> TAKE f, iv, time, payload
  <2>1. /\ IsFrame(f)' <=> IsFrame(f)
        /\ FrameLength(f.tagged)' = FrameLength(f.tagged)
        /\ Tag(f, iv)' = Tag(f, iv)
        /\ Secure' <=> Secure
    BY SameConf, Zenon
  <2> QED BY <2>1, Zenon DEF Pristine
<1>2. FromN' = FromN /\ (BeforeWrap' <=> BeforeWrap)
  BY Zenon DEF FromN, BeforeWrap
<1>3. \A f : (Sent(f)' <=> Sent(f))
  BY <1>1, SameConf, Zenon DEF Sent
<1>4. \A f, g, part : (IsHit(g, f, part)' <=> IsHit(g, f, part))
  <2> TAKE f, g, part
  <2>1. IsFrame(g)' <=> IsFrame(g)
    BY SameConf, Zenon
  <2> QED BY <2>1, Zenon DEF IsHit
<1>5. \A v, early : (Fine(v, Pattern(early))' <=> Fine(v, Pattern(early)))
  <2> TAKE v, early
  <2>1. (Secure' <=> Secure) /\ PayloadPattern' = PayloadPattern
    BY SameConf, Zenon
  <2>2. Pattern(early)' <=> Pattern(early)
    BY <2>1, Zenon DEF Pattern
  <2> QED BY <1>2, <2>1, <2>2, Zenon DEF Fine
<1> QED BY <1>1, <1>2, <1>3, <1>4, <1>5, Zenon

\* The invariant holds before the configuration is checked.
LEMMA InvInit == Init => Inv
BY DEF Init, Inv, PathInv, TypeInv, EtherCatInv, ThereInv, MirrorInv, BackInv, EndInv, SlaveInv, LengthInv, NoHit, Parts

\* The echo depends besides on whether the mirror's Rx thread was early.
LEMMA SameEcho ==
    ASSUME conf' = conf, n' = n, hit'.early = hit.early
    PROVE  /\ \A f : (Stored(f)' <=> Stored(f))
           /\ \A f : (Echo(f)' <=> Echo(f))
<1>1. SentPayload' = SentPayload /\ EchoTime' = EchoTime /\ PayloadPattern' = PayloadPattern
  BY SameConf, Zenon
<1>2. EchoPayload' = EchoPayload
  BY <1>1, Zenon DEF EchoPayload
<1>3. \A f : (Stored(f)' <=> Stored(f))
  BY <1>1, <1>2, SamePristine, Zenon DEF Stored
<1>4. \A f : (Echo(f)' <=> Echo(f))
  BY <1>1, <1>2, SamePristine, Zenon DEF Echo
<1> QED BY <1>3, <1>4, Zenon

\* Types and the checked configuration.
LEMMA TypeStep == TypeInv /\ [Next]_vars => TypeInv'
<1> SUFFICES ASSUME TypeInv, [Next]_vars PROVE TypeInv'
  OBVIOUS
<1>0. /\ conf \in Configs /\ n \in Nat
      /\ at \in {"check", "refused", "send", "to mirror", "in mirror", "to reference", "end", "lost"}
      /\ frame_copy \in {"zero", PayloadPattern}
      /\ hit \in [there : Parts \cup {"none"}, back : Parts \cup {"none"}, early : BOOLEAN]
      /\ at \notin {"check", "refused"} => min_frame_size(conf) <= conf.length /\ conf.length <= MAX_FRAME_SIZE
  BY Zenon DEF TypeInv
<1>1. conf' = conf
  BY Zenon DEF Next, config_sanity_check, MirrorTxStarts, ReferenceSends, Strip, Damage, MirrorReceives, MirrorSends,
         SlaveEchoes, ReferenceReceives, NotForReference, NotDelivered, Continue, Over, vars
<1>2. PayloadPattern' = PayloadPattern /\ min_frame_size(conf)' = min_frame_size(conf)
  BY <1>1, SameConf, Zenon DEF min_frame_size
<1>3. ASSUME at' \in {"send", "to mirror", "in mirror", "to reference", "end", "lost"}, at \notin {"check", "refused"}, n' \in Nat,
             frame_copy' \in {"zero", PayloadPattern},
             hit' \in [there : Parts \cup {"none"}, back : Parts \cup {"none"}, early : BOOLEAN]
      PROVE  TypeInv'
  BY <1>0, <1>1, <1>2, <1>3, Zenon DEF TypeInv
<1>4. CASE config_sanity_check
  BY <1>0, <1>1, <1>2, <1>4 DEF config_sanity_check, TypeInv
<1>5. CASE MirrorTxStarts
  BY <1>0, <1>3, <1>5, Zenon DEF MirrorTxStarts
<1>6. CASE ReferenceSends
  BY <1>0, <1>3, <1>6, Zenon DEF ReferenceSends, NoHit
<1>7. CASE Strip
  BY <1>0, <1>3, <1>7, Zenon DEF Strip
<1>8. CASE Damage
  <2>1. hit' \in [there : Parts \cup {"none"}, back : Parts \cup {"none"}, early : BOOLEAN]
    BY <1>0, <1>8, Zenon DEF Damage
  <2> QED BY <1>0, <1>3, <1>8, <2>1, Zenon DEF Damage
<1>9. CASE MirrorReceives
  <2>1. hit' \in [there : Parts \cup {"none"}, back : Parts \cup {"none"}, early : BOOLEAN]
    BY <1>0, <1>9, Zenon DEF MirrorReceives
  <2>2. at' \in {"in mirror", "end"} /\ at = "to mirror" /\ n' = n /\ frame_copy' = frame_copy
    BY <1>9, Zenon DEF MirrorReceives
  <2> QED BY <1>0, <1>3, <2>1, <2>2, Zenon
<1>10. CASE MirrorSends
  BY <1>0, <1>3, <1>10, Zenon DEF MirrorSends
<1>11. CASE SlaveEchoes
  BY <1>0, <1>3, <1>11, Zenon DEF SlaveEchoes
<1>12. CASE ReferenceReceives
  BY <1>0, <1>3, <1>12, Zenon DEF ReferenceReceives
<1>13. CASE NotForReference \/ NotDelivered
  BY <1>0, <1>3, <1>13, Zenon DEF NotForReference, NotDelivered
<1>14. CASE Continue
  <2>1. n' = n + 1 /\ at \in {"end", "lost"} /\ at' = "send" /\ frame_copy' = frame_copy /\ hit' = hit
    BY <1>14, Zenon DEF Continue
  <2>2. n' \in Nat
    <3>1. n' = n + 1 /\ n \in Nat
      BY <1>0, <2>1, Zenon
    <3> QED BY <3>1
  <2> QED BY <1>0, <1>3, <2>1, <2>2, Zenon
<1>15. CASE UNCHANGED vars
  BY <1>0, <1>1, <1>2, <1>15, Zenon DEF TypeInv, vars
<1>16. CASE Over
  BY <1>15, <1>16 DEF Over
<1> QED BY <1>4, <1>5, <1>6, <1>7, <1>8, <1>9, <1>10, <1>11, <1>12, <1>13, <1>14, <1>15, <1>16 DEF Next

\* EtherCAT frames are neither damaged nor received by a mirror.
LEMMA EtherCatStep == EtherCatInv /\ [Next]_vars => EtherCatInv'
<1> SUFFICES ASSUME EtherCatInv, [Next]_vars, conf'.kind = "ethercat"
             PROVE  hit'.there = "none" /\ hit'.back = "none" /\ mirrored' = Rejected
  BY DEF EtherCatInv, Rejected
<1>1. conf' = conf
  BY Zenon DEF Next, config_sanity_check, MirrorTxStarts, ReferenceSends, Strip, Damage, MirrorReceives, MirrorSends,
         SlaveEchoes, ReferenceReceives, NotForReference, NotDelivered, Continue, Over, vars
<1>2. hit.there = "none" /\ hit.back = "none" /\ mirrored = Rejected /\ conf.kind = "ethercat"
  BY <1>1 DEF EtherCatInv
<1>3. CASE hit' = hit /\ mirrored' = mirrored
  BY <1>2, <1>3
<1>4. CASE ReferenceSends
  BY <1>4, Zenon DEF ReferenceSends, NoHit
<1>5. ~Damage /\ ~MirrorReceives
  BY <1>2 DEF Damage, MirrorReceives
<1> QED BY <1>3, <1>4, <1>5, Zenon
        DEF Next, config_sanity_check, MirrorTxStarts, Strip, MirrorSends, SlaveEchoes, ReferenceReceives,
            NotForReference, NotDelivered, Continue, Over, vars

\* A verdict stays what it was.
LEMMA SameVerdict ==
    ASSUME conf' = conf, n' = n, mirrored' = mirrored, hit'.there = hit.there
    PROVE  Mirrored(mirrored)' <=> Mirrored(mirrored)
<1>1. Fine(mirrored, Pattern(FALSE))' <=> Fine(mirrored, Pattern(FALSE))
  BY SamePristine, Zenon
<1>2. Notices(mirrored, hit.there)' <=> Notices(mirrored, hit.there)
  BY SameConf, Zenon
<1> QED BY <1>1, <1>2, Zenon DEF Mirrored

\* Steps after which there is no frame on its way.
LEMMA PathIdle ==
    ASSUME \/ at' \in {"send", "refused", "lost"}
           \/ conf'.kind = "ethercat" /\ at' # "in mirror"
    PROVE  PathInv'
BY Zenon DEF PathInv, ThereInv, MirrorInv, BackInv, EndInv

\* Steps that change nothing the invariant speaks of.
LEMMA PathSame ==
    ASSUME PathInv, UNCHANGED <<conf, at, n, frame, mirrored, returned, hit>>
    PROVE  PathInv'
<1>0. /\ conf' = conf /\ at' = at /\ n' = n /\ frame' = frame /\ mirrored' = mirrored
      /\ returned' = returned /\ hit' = hit
  OBVIOUS
<1>1. /\ \A f : (IsFrame(f)' <=> IsFrame(f)) /\ (Stored(f)' <=> Stored(f)) /\ (Echo(f)' <=> Echo(f))
                 /\ (Sent(f)' <=> Sent(f))
      /\ \A f, g, part : (IsHit(g, f, part)' <=> IsHit(g, f, part))
      /\ Mirrored(mirrored)' <=> Mirrored(mirrored)
      /\ Rejected' = Rejected /\ EchoTime' = EchoTime
  BY <1>0, SameConf, SamePristine, SameEcho, SameVerdict, Zenon DEF Rejected
<1>2. OnItsWay(frame)' <=> OnItsWay(frame)
  BY <1>0, <1>1, Zenon DEF OnItsWay
<1>3. OnItsWayBack(frame)' <=> OnItsWayBack(frame)
  BY <1>0, <1>1, Zenon DEF OnItsWayBack
<1>4. Notices(returned, hit.back)' <=> Notices(returned, hit.back)
  BY <1>0, SameConf, Zenon
<1>5. Fine(returned, Pattern(hit.early))' <=> Fine(returned, Pattern(hit.early))
  BY <1>0, SamePristine, Zenon
<1>6. (HasVlan(conf)' <=> HasVlan(conf)) /\ (Untouched' <=> Untouched)
  BY <1>0, Zenon DEF HasVlan, Untouched
<1>7. ThereInv'
  BY <1>0, <1>2, Zenon DEF PathInv, ThereInv
<1>8. MirrorInv'
  BY <1>0, <1>1, <1>6, Zenon DEF PathInv, MirrorInv
<1>9. BackInv'
  BY <1>0, <1>1, <1>3, Zenon DEF PathInv, BackInv
<1>10. EndInv'
  BY <1>0, <1>1, <1>4, <1>5, <1>6, Zenon DEF PathInv, EndInv
<1> QED BY <1>7, <1>8, <1>9, <1>10 DEF PathInv

\* A new frame.
LEMMA PathSends ==
    ASSUME TypeInv, ReferenceSends
    PROVE  PathInv'
<1>0. /\ conf' = conf /\ n' = n /\ at' \in {"to mirror", "lost"} /\ frame' = SentFrame /\ returned' = Rejected
      /\ hit' = NoHit /\ conf \in Configs /\ n \in Nat
  BY Zenon DEF ReferenceSends, TypeInv, SentFrame
<1>1. CASE conf.kind = "ethercat" \/ at' = "lost"
  BY <1>0, <1>1, PathIdle, Zenon
<1>2. CASE conf.kind # "ethercat" /\ at' = "to mirror"
  <2>1. Sent(frame')
    BY <1>0, <1>2, SentPristine, Zenon
  <2>2. IsHit(frame', frame', "none")
    <3>1. IsFrame(frame')
      BY <2>1 DEF Sent, Pristine
    <3> QED BY <3>1 DEF IsHit
  <2>3. hit'.there = "none" /\ hit'.back = "none" /\ returned' = Rejected'
    BY <1>0, Zenon DEF NoHit, Rejected
  <2>4. Sent(frame)' /\ IsHit(frame, frame, hit.there)'
    BY <1>0, <2>1, <2>2, <2>3, SamePristine, Zenon
  <2>5. OnItsWay(frame)'
    BY <2>3, <2>4 DEF OnItsWay
  <2> QED BY <1>0, <1>2, <2>5, Zenon DEF PathInv, ThereInv, MirrorInv, BackInv, EndInv
<1> QED BY <1>0, <1>1, <1>2, Zenon

\* Strip: the frame without its tag is that of the sender without its tag.
LEMMA PathStrip ==
    ASSUME TypeInv, PathInv, Strip
    PROVE  PathInv'
<1>0. /\ conf' = conf /\ n' = n /\ at' = at /\ mirrored' = mirrored /\ returned' = returned /\ hit' = hit
      /\ frame' = Stripped(frame) /\ HasVlan(conf) /\ frame.tagged /\ at \in {"to mirror", "to reference"}
      /\ conf \in Configs /\ conf.kind # "ethercat"
  BY Zenon DEF Strip, Stripped, TypeInv, HasVlan
<1>1. ASSUME NEW f, NEW part, NEW iv, NEW time, NEW payload,
             Pristine(f, iv, time, payload), IsHit(frame, f, part)
      PROVE  /\ Pristine(Stripped(f), iv, time, payload) /\ IsHit(Stripped(frame), Stripped(f), part)
             /\ SameAddresses(Stripped(f), f)
  <2>1. IsFrame(f) /\ f.tagged = TRUE
    BY <1>0, <1>1, Zenon DEF Pristine, IsHit, IsFrame
  <2> QED BY <1>0, <1>1, <2>1, StripPristine, StripHit, StripFields, Zenon
<1>2. CASE at = "to mirror"
  <2>1. OnItsWay(frame)
    BY <1>0, <1>2, Zenon DEF PathInv, ThereInv
  <2>2. PICK s : Sent(s) /\ IsHit(frame, s, hit.there)
    BY <2>1, Zenon DEF OnItsWay
  <2>3. Sent(Stripped(s)) /\ IsHit(Stripped(frame), Stripped(s), hit.there)
    BY <1>1, <2>2, Zenon DEF Sent, SameAddresses
  <2>4. Sent(Stripped(s))' /\ IsHit(frame, Stripped(s), hit.there)'
    BY <1>0, <2>3, SamePristine, Zenon DEF Stripped
  <2>5. OnItsWay(frame)'
    BY <1>0, <2>1, <2>4, Zenon DEF OnItsWay, Rejected
  <2> QED BY <1>0, <1>2, <2>5, Zenon DEF PathInv, ThereInv, MirrorInv, BackInv, EndInv
<1>3. CASE at = "to reference"
  <2>1. (hit.there = "none" \/ hit.back = "none") /\ Mirrored(mirrored) /\ OnItsWayBack(frame)
    BY <1>0, <1>3, Zenon DEF PathInv, BackInv
  <2>2. ASSUME hit'.there = "none"
        PROVE  \E e : Echo(e)' /\ IsHit(frame, e, hit.back)'
    <3>1. PICK e : Echo(e) /\ IsHit(frame, e, hit.back)
      BY <1>0, <2>1, <2>2, Zenon DEF OnItsWayBack
    <3>2. Echo(Stripped(e)) /\ IsHit(Stripped(frame), Stripped(e), hit.back)
      BY <1>1, <3>1, Zenon DEF Echo, SameAddresses
    <3> PICK x : x = Stripped(e)
      OBVIOUS
    <3>3. Echo(x)' /\ IsHit(frame, x, hit.back)'
      BY <1>0, <3>2, SameEcho, SamePristine, Zenon
    <3> QED BY <3>3, Zenon
  <2>3. mirrored'.accepted = TRUE => IsFrame(frame)' /\ frame'.time = EchoTime'
    <3>1. mirrored.accepted = TRUE => IsFrame(Stripped(frame)) /\ Stripped(frame).time = EchoTime
      BY <2>1, StripFields, Zenon DEF OnItsWayBack
    <3> QED BY <1>0, <3>1, SameConf, Zenon
  <2>4. OnItsWayBack(frame)'
    BY <2>2, <2>3, Zenon DEF OnItsWayBack
  <2>5. Mirrored(mirrored)'
    BY <1>0, <2>1, SameVerdict, Zenon
  <2> QED BY <1>0, <1>3, <2>1, <2>4, <2>5, Zenon DEF PathInv, ThereInv, MirrorInv, BackInv, EndInv
<1> QED BY <1>0, <1>2, <1>3, Zenon

\* Damage: it is the only one.
LEMMA PathDamage ==
    ASSUME TypeInv, PathInv, Damage
    PROVE  PathInv'
<1>1. PICK part \in Parts :
         /\ frame' = Damaged(frame, part)
         /\ hit' = IF at = "to mirror" THEN [hit EXCEPT !.there = part] ELSE [hit EXCEPT !.back = part]
  BY Zenon DEF Damage
<1>0. /\ conf' = conf /\ n' = n /\ at' = at /\ mirrored' = mirrored /\ returned' = returned
      /\ hit.there = "none" /\ hit.back = "none" /\ at \in {"to mirror", "to reference"} /\ conf.kind # "ethercat"
      /\ hit \in [there : Parts \cup {"none"}, back : Parts \cup {"none"}, early : BOOLEAN]
  BY Zenon DEF Damage, TypeInv
<1>2. ASSUME NEW f, IsHit(frame, f, "none")
      PROVE  IsHit(Damaged(frame, part), f, part)
  <2>1. IsFrame(frame)
    BY <1>2 DEF IsHit
  <2>2. IsHit(Damaged(frame, part), frame, part)
    BY <2>1, DamagedFields, Zenon
  <2> QED BY <1>2, <2>2, HitCompose, Zenon
<1>3. CASE at = "to mirror"
  <2>0. hit'.there = part /\ hit'.back = "none"
    BY <1>0, <1>1, <1>3, Zenon
  <2>1. OnItsWay(frame)
    BY <1>0, <1>3, Zenon DEF PathInv, ThereInv
  <2>2. PICK s : Sent(s) /\ IsHit(frame, s, "none")
    BY <1>0, <2>1, Zenon DEF OnItsWay
  <2>3. IsHit(frame', s, part)
    BY <1>1, <1>2, <2>2, Zenon
  <2>4. Sent(s)' /\ IsHit(frame, s, hit.there)'
    BY <1>0, <2>0, <2>2, <2>3, SamePristine, Zenon
  <2>5. OnItsWay(frame)'
    BY <1>0, <2>0, <2>1, <2>4, Zenon DEF OnItsWay, Rejected
  <2> QED BY <1>0, <1>3, <2>5, Zenon DEF PathInv, ThereInv, MirrorInv, BackInv, EndInv
<1>4. CASE at = "to reference"
  <2>0. hit'.there = "none" /\ hit'.back = part /\ hit'.early = hit.early
    BY <1>0, <1>1, <1>4, Zenon
  <2>1. Mirrored(mirrored) /\ OnItsWayBack(frame)
    BY <1>0, <1>4, Zenon DEF PathInv, BackInv
  <2>2. PICK e : Echo(e) /\ IsHit(frame, e, "none")
    BY <1>0, <2>1, Zenon DEF OnItsWayBack
  <2>3. IsHit(frame', e, part)
    BY <1>1, <1>2, <2>2, Zenon
  <2>4. Echo(e)' /\ IsHit(frame, e, hit.back)'
    BY <1>0, <2>0, <2>2, <2>3, SamePristine, SameEcho, Zenon
  <2>5. IsFrame(frame') /\ frame'.time = EchoTime
    BY <2>2, <2>3, Zenon DEF IsHit, Echo, Pristine
  <2>6. OnItsWayBack(frame)'
    BY <1>0, <2>4, <2>5, SameConf, Zenon DEF OnItsWayBack
  <2>7. Mirrored(mirrored)'
    BY <1>0, <2>0, <2>1, SameVerdict, Zenon
  <2> QED BY <1>0, <1>4, <2>0, <2>6, <2>7, Zenon DEF PathInv, ThereInv, MirrorInv, BackInv, EndInv
<1> QED BY <1>0, <1>3, <1>4, Zenon

\* The mirror accepts an undamaged frame and stores the echo.
LEMMA MirrorAccepts ==
    ASSUME TypeInv, at = "to mirror", conf.kind # "ethercat", conf.length <= MAX_FRAME_SIZE, Sent(frame), Seen(frame)
    PROVE  /\ Verdict(frame).accepted = TRUE /\ Fine(Verdict(frame), Pattern(FALSE))
           /\ Pristine(Forwarded(frame), FromN, "mirror",
                       IF conf.mode = "ae" THEN frame_copy ELSE "pattern")
           /\ conf.kind = "udp" \/ Forwarded(frame).destination # "mirror"
<1>0. conf \in Configs /\ n \in Nat /\ min_frame_size(conf) <= conf.length
  BY Zenon DEF TypeInv
<1>1. /\ Pristine(frame, n, "reference", SentPayload) /\ IsFrame(frame) /\ frame.len = FrameLength(frame.tagged)
      /\ frame.id = conf.kind /\ frame.seq = ToMeta(n)
      /\ frame.text = Text(SentPayload, IF conf.mode = "ae" THEN n ELSE -1)
      /\ frame.source = "reference" /\ (conf.kind \in {"dcp", "lldp"} => frame.destination = "group")
  BY Zenon DEF Sent, Pristine
<1>2. BeforeWrap => FromN = n
  BY <1>0, MetaRound
<1>3. PICK v : v = Verdict(frame)
  OBVIOUS
<1>4. /\ v.accepted = TRUE /\ v.frame_id_mismatch = FALSE
      /\ Secure /\ FromN = n => v.authenticated = TRUE
      /\ SentPayload = "pattern" /\ (conf.mode = "ae" => FromN = n) => v.payload_mismatch = FALSE
  BY <1>0, <1>1, <1>3, PristineAccepted, Zenon
<1>5. Pattern(FALSE) => SentPayload = "pattern"
  BY Zenon DEF Pattern, SentPayload
<1>6. Fine(v, Pattern(FALSE))
  BY <1>2, <1>4, <1>5, Zenon DEF Fine
<1>7. PICK h : h = Forwarded(frame)
  OBVIOUS
<1>8. IsForwarded(h, frame)
  BY <1>0, <1>1, <1>7, ForwardedFields, Zenon
<1>9. h.len = FrameLength(h.tagged)
  BY <1>8 DEF IsForwarded, FrameLength
<1>10. h.text = Text(IF conf.mode = "ae" THEN frame_copy ELSE "pattern", IF conf.mode = "ae" THEN FromN ELSE -1)
  <2>1. CASE conf.mode = "ae"
    BY <1>1, <1>8, <2>1, Zenon DEF IsForwarded, FromN
  <2>2. CASE conf.mode # "ae"
    BY <1>1, <1>8, <2>2, Zenon DEF IsForwarded, SentPayload
  <2> QED BY <2>1, <2>2
<1>11. Pristine(h, FromN, "mirror", IF conf.mode = "ae" THEN frame_copy ELSE "pattern")
  BY <1>1, <1>8, <1>9, <1>10, Zenon DEF IsForwarded, Pristine, FromN
<1>12. conf.kind = "udp" \/ h.destination # "mirror"
  BY <1>0, <1>1, <1>8, ConfType DEF IsForwarded
<1> QED BY <1>3, <1>4, <1>6, <1>7, <1>11, <1>12, Zenon

\* MirrorReceives.
LEMMA PathMirrorReceives ==
    ASSUME TypeInv, PathInv, MirrorReceives
    PROVE  PathInv'
<1>0. /\ conf' = conf /\ n' = n /\ at = "to mirror" /\ mirrored' = Verdict(frame) /\ returned' = returned
      /\ hit'.there = hit.there /\ hit'.back = hit.back /\ (hit'.early = TRUE <=> frame_copy = "zero")
      /\ frame_copy' = frame_copy /\ conf.kind # "ethercat" /\ TagSeen
  BY Zenon DEF MirrorReceives, TypeInv
<1>1. /\ conf \in Configs /\ n \in Nat /\ frame_copy \in {"zero", PayloadPattern}
      /\ conf.length <= MAX_FRAME_SIZE /\ hit.there \in Parts \cup {"none"}
  BY <1>0, Zenon DEF TypeInv
<1>2. OnItsWay(frame)
  BY <1>0, Zenon DEF PathInv, ThereInv
<1>3. PICK s : Sent(s) /\ IsHit(frame, s, hit.there)
  BY <1>2, Zenon DEF OnItsWay
<1>4. IsFrame(frame)
  BY <1>3, Zenon DEF IsHit
<1>5. Seen(frame)
  BY <1>0, <1>1, <1>4, ConfType, Zenon DEF TagSeen, Seen, IsFrame
<1>6. \/ mirrored'.accepted = TRUE /\ frame' = Forwarded(frame) /\ at' = "in mirror"
      \/ mirrored'.accepted = FALSE /\ at' \in {"in mirror", "end"}
  <2>1. mirrored'.accepted \in BOOLEAN
    BY <1>0, <1>1, <1>4, <1>5, AcceptedLength, Zenon
  <2> QED BY <2>1, Zenon DEF MirrorReceives
<1>7. hit'.back = "none" /\ returned' = Rejected'
  BY <1>0, <1>2, Zenon DEF OnItsWay, Rejected
<1>8. CASE hit.there = "none"
  <2>1. Sent(frame)
    BY <1>3, <1>8, HitNone, Zenon DEF Sent
  <2>2. /\ mirrored'.accepted = TRUE /\ Fine(mirrored', Pattern(FALSE))
        /\ Pristine(Forwarded(frame), FromN, "mirror", IF conf.mode = "ae" THEN frame_copy ELSE "pattern")
        /\ conf.kind = "udp" \/ Forwarded(frame).destination # "mirror"
    BY <1>0, <1>1, <1>5, <2>1, MirrorAccepts, Zenon
  <2>3. frame' = Forwarded(frame) /\ at' = "in mirror"
    BY <1>6, <2>2, Zenon
  <2>4. EchoPayload' = IF conf.mode = "ae" THEN frame_copy ELSE "pattern"
    <3>1. PayloadPattern' = PayloadPattern
      BY <1>0, SameConf, Zenon
    <3>2. PayloadPattern # "zero"
      BY DEF PayloadPattern
    <3> QED BY <1>0, <1>1, <3>1, <3>2, Zenon DEF EchoPayload
  <2>5. Pristine(frame', FromN, "mirror", EchoPayload')
    BY <2>2, <2>3, <2>4, Zenon
  <2>6. Pristine(frame, FromN, "mirror", EchoPayload)'
    BY <1>0, <2>5, SamePristine, Zenon
  <2>7. Stored(frame)'
    BY <1>0, <2>2, <2>3, <2>6, Zenon DEF Stored
  <2>8. Mirrored(mirrored)'
    <3>1. Fine(mirrored, Pattern(FALSE))'
      BY <1>0, <2>2, SamePristine, Zenon
    <3> QED BY <1>0, <1>8, <3>1, Zenon DEF Mirrored, Notices
  <2>9. IsFrame(frame)' /\ frame'.time = "mirror" /\ (HasVlan(conf)' => frame'.tagged = TRUE)
    <3>1. IsForwarded(frame', frame)
      BY <1>0, <1>1, <1>4, <1>5, <2>1, <2>3, ForwardedFields, Zenon DEF Sent, Pristine
    <3> QED BY <1>0, <3>1, SameConf, Zenon DEF IsForwarded, HasVlan
  <2> QED BY <1>0, <1>7, <2>3, <2>7, <2>8, <2>9, Zenon DEF PathInv, ThereInv, MirrorInv, BackInv, EndInv
<1>9. CASE hit.there # "none"
  <2>0. hit.there \in Parts
    BY <1>1, <1>9
  <2>1. SentPayload # "damaged"
    BY DEF SentPayload, PayloadPattern
  <2>2. Notices(mirrored', hit.there)
    BY <1>0, <1>1, <1>3, <1>5, <2>0, <2>1, DamageNoticed, Zenon DEF Sent
  <2>3. Notices(mirrored, hit.there)'
    BY <1>0, <2>2, SameConf, Zenon
  <2>4. Mirrored(mirrored)'
    BY <1>0, <1>9, <2>3, Zenon DEF Mirrored
  <2>5. ASSUME mirrored'.accepted = TRUE, at' = "in mirror"
        PROVE  IsFrame(frame)' /\ frame'.time = "mirror" /\ (HasVlan(conf)' => frame'.tagged = TRUE)
    <3>0. frame' = Forwarded(frame)
      BY <1>6, <2>5, ZenonT(40)
    <3>1. frame.len = FrameLength(frame.tagged)
      BY <1>0, <1>1, <1>4, <1>5, <2>5, AcceptedLength, Zenon
    <3>2. IsForwarded(frame', frame)
      BY <1>0, <1>1, <1>4, <1>5, <3>0, <3>1, ForwardedFields, Zenon
    <3> QED BY <1>0, <3>2, SameConf, Zenon DEF IsForwarded, HasVlan
  <2>6. CASE at' = "in mirror"
    BY <1>0, <1>7, <1>9, <2>4, <2>5, <2>6, ZenonT(40) DEF PathInv, ThereInv, MirrorInv, BackInv, EndInv
  <2>7. CASE at' = "end"
    BY <1>0, <1>6, <1>9, <2>4, <2>7, Zenon DEF PathInv, ThereInv, MirrorInv, BackInv, EndInv, Untouched
  <2> QED BY <1>6, <2>6, <2>7, Zenon
<1> QED BY <1>8, <1>9

\* MirrorSends: the stored frame becomes the echo.
LEMMA PathMirrorSends ==
    ASSUME TypeInv, PathInv, MirrorSends
    PROVE  PathInv'
<1> SUFFICES ASSUME at' = "to reference" PROVE PathInv'
  BY PathIdle, Zenon DEF MirrorSends
<1>0. /\ conf' = conf /\ n' = n /\ at = "in mirror" /\ at' = "to reference" /\ mirrored' = mirrored
      /\ hit' = hit /\ frame' = MirrorSent(frame) /\ conf \in Configs /\ conf.length \in Nat
  BY ConfType, Zenon DEF MirrorSends, TypeInv
<1>1. /\ conf.kind # "ethercat" /\ hit.back = "none" /\ Mirrored(mirrored)
      /\ hit.there = "none" => Stored(frame)
      /\ mirrored.accepted = TRUE => IsFrame(frame) /\ frame.time = "mirror" /\ (HasVlan(conf) => frame.tagged = TRUE)
  BY <1>0, Zenon DEF PathInv, MirrorInv
<1>2. mirrored.accepted = TRUE => IsMirrored(frame', frame)
  BY <1>0, <1>1, MirroredFields, Zenon
<1>3. ASSUME hit.there = "none"
      PROVE  Echo(frame') /\ IsHit(frame', frame', "none")
  <2>0. mirrored.accepted = TRUE /\ Stored(frame)
    BY <1>1, <1>3, Zenon DEF Mirrored, Fine
  <2>1. PICK f, g : f = frame /\ g = frame'
    OBVIOUS
  <2>2. /\ IsMirrored(g, f) /\ IsFrame(f) /\ f.time = "mirror" /\ (HasVlan(conf) => f.tagged = TRUE)
        /\ Pristine(f, FromN, "mirror", EchoPayload) /\ (conf.kind = "udp" \/ f.destination # "mirror")
    BY <1>1, <1>2, <2>0, <2>1, Zenon DEF Stored
  <2>3. g.len = FrameLength(g.tagged)
    BY <2>2 DEF IsMirrored, Pristine, FrameLength
  <2>4. Secure => g.tag = Tag(g, FromN)
    <3>1. Secure => g.time = f.time
      BY <2>2 DEF EchoTime, IsMirrored
    <3>2. Secure => Tag(g, FromN) = Tag(f, FromN)
      BY <2>2, <3>1, TagDepends, Zenon DEF IsMirrored, SameContent
    <3> QED BY <2>2, <3>2, Zenon DEF IsMirrored, SameContent, Pristine
  <2>5. Pristine(g, FromN, EchoTime, EchoPayload)
    BY <2>2, <2>3, <2>4, Zenon DEF IsMirrored, SameContent, Pristine
  <2>6. g.destination # "mirror"
    BY <2>2 DEF IsMirrored
  <2>7. IsHit(g, g, "none")
    BY <2>5 DEF Pristine, IsHit
  <2> QED BY <2>1, <2>5, <2>6, <2>7, Zenon DEF Echo
<1>4. hit.there = "none" => Echo(frame)' /\ IsHit(frame, frame, hit.back)'
  BY <1>0, <1>1, <1>3, SameEcho, SamePristine, Zenon
<1>5. mirrored'.accepted = TRUE => IsFrame(frame)' /\ frame'.time = EchoTime'
  BY <1>0, <1>2, SameConf, Zenon DEF IsMirrored
<1>6. OnItsWayBack(frame)'
  BY <1>0, <1>4, <1>5, Zenon DEF OnItsWayBack
<1>7. Mirrored(mirrored)'
  BY <1>0, <1>1, SameVerdict, Zenon
<1> QED BY <1>0, <1>1, <1>6, <1>7, Zenon DEF PathInv, ThereInv, MirrorInv, BackInv, EndInv

\* ReferenceReceives.
LEMMA PathReferenceReceives ==
    ASSUME TypeInv, PathInv, ReferenceReceives, conf.kind # "ethercat"
    PROVE  PathInv'
<1>0. /\ conf' = conf /\ n' = n /\ at = "to reference" /\ at' = "end" /\ mirrored' = mirrored
      /\ hit' = hit /\ frame' = frame /\ returned' = Verdict(frame) /\ TagSeen
      /\ conf \in Configs /\ n \in Nat /\ hit.back \in Parts \cup {"none"}
      /\ min_frame_size(conf) <= conf.length
  BY Zenon DEF ReferenceReceives, TypeInv
<1>1. Mirrored(mirrored) /\ OnItsWayBack(frame)
  BY <1>0, Zenon DEF PathInv, BackInv
<1>2. ASSUME hit.there = "none"
      PROVE  /\ Notices(returned', hit.back)
             /\ hit.back = "none" => Fine(returned', Pattern(hit.early))
  <2>1. PICK e : Echo(e) /\ IsHit(frame, e, hit.back)
    BY <1>1, <1>2, Zenon DEF OnItsWayBack
  <2>2. IsFrame(frame)
    BY <2>1, Zenon DEF IsHit
  <2>3. Seen(frame)
    BY <1>0, <2>2, ConfType, Zenon DEF TagSeen, Seen, IsFrame
  <2>4. Pristine(e, FromN, EchoTime, EchoPayload)
    BY <2>1, Zenon DEF Echo
  <2>5. CASE hit.back = "none"
    <3>1. Pristine(frame, FromN, EchoTime, EchoPayload)
      BY <2>1, <2>4, <2>5, HitNone, Zenon
    <3>2. PICK v : v = Verdict(frame)
      OBVIOUS
    <3>3. /\ v.accepted = TRUE /\ v.frame_id_mismatch = FALSE
          /\ Secure => v.authenticated = TRUE
          /\ EchoPayload = "pattern" => v.payload_mismatch = FALSE
      BY <1>0, <2>3, <3>1, <3>2, PristineAccepted, Zenon
    <3>4. Pattern(hit.early) => EchoPayload = "pattern"
      BY Zenon DEF Pattern, EchoPayload
    <3>5. Fine(v, Pattern(hit.early))
      BY <3>3, <3>4, Zenon DEF Fine
    <3>6. Notices(v, "none")
      BY DEF Notices
    <3> QED BY <1>0, <2>5, <3>2, <3>5, <3>6, Zenon
  <2>6. CASE hit.back # "none"
    <3>1. EchoPayload # "damaged" /\ hit.back \in Parts
      BY <1>0, <2>6, Zenon DEF EchoPayload, PayloadPattern
    <3> QED BY <1>0, <2>1, <2>3, <2>4, <2>6, <3>1, DamageNoticed, Zenon
  <2> QED BY <2>5, <2>6
<1>3. hit'.there = "none" => Notices(returned, hit.back)'
  BY <1>0, <1>2, SameConf, Zenon
<1>4. Untouched' => Fine(returned, Pattern(hit.early))'
  BY <1>0, <1>2, SamePristine, Zenon DEF Untouched
<1>5. mirrored'.accepted = TRUE => frame'.time = EchoTime'
  BY <1>0, <1>1, SameConf, Zenon DEF OnItsWayBack
<1>6. Mirrored(mirrored)'
  BY <1>0, <1>1, SameVerdict, Zenon
<1> QED BY <1>0, <1>3, <1>4, <1>5, <1>6, Zenon DEF PathInv, ThereInv, MirrorInv, BackInv, EndInv

\* NotForReference: only frames damaged on their way to the mirror.
LEMMA PathNotForReference ==
    ASSUME TypeInv, PathInv, NotForReference
    PROVE  PathInv'
<1>0. /\ conf' = conf /\ n' = n /\ at = "to reference" /\ at' = "end" /\ mirrored' = mirrored
      /\ hit' = hit /\ frame' = frame /\ frame.destination = "mirror" /\ conf.kind # "ethercat"
  BY Zenon DEF NotForReference, TypeInv
<1>1. Mirrored(mirrored) /\ OnItsWayBack(frame)
  BY <1>0, Zenon DEF PathInv, BackInv
<1>2. hit.there # "none"
  BY <1>0, <1>1, Zenon DEF OnItsWayBack, Echo, IsHit
<1>3. mirrored'.accepted = TRUE => frame'.time = EchoTime'
  BY <1>0, <1>1, SameConf, Zenon DEF OnItsWayBack
<1>4. Mirrored(mirrored)'
  BY <1>0, <1>1, SameVerdict, Zenon
<1> QED BY <1>0, <1>2, <1>3, <1>4, Zenon DEF PathInv, ThereInv, MirrorInv, BackInv, EndInv, Untouched

\* The frame the EtherCAT master sends.
LEMMA SentEtherCat ==
    ASSUME conf \in Configs, conf.kind = "ethercat"
    PROVE  SentFrame = [NewFrame("group", FALSE, "command") EXCEPT !.time = "reference"]
<1>1. Initialized = NewFrame("group", FALSE, "command")
  BY DEF Initialized, initialize_ethercat_frame
<1>2. PICK e : e = Initialized
  OBVIOUS
<1>3. prepare_frame_for_tx(e) = [e EXCEPT !.time = "reference"]
  <2>1. conf.mode = "none"
    BY ConfType
  <2> QED BY <2>1 DEF prepare_frame_for_tx
<1>4. SentFrame = prepare_frame_for_tx(e)
  <2>1. conf.kind # "udp"
    OBVIOUS
  <2> QED BY <1>2, <2>1, Zenon DEF SentFrame
<1> QED BY <1>1, <1>2, <1>3, <1>4, Zenon

\* EtherCAT: the slave changes the address, and the length check of the callback is
\* implied by that of the configuration.
LEMMA SlaveStep == TypeInv /\ PathInv /\ SlaveInv /\ [Next]_vars => SlaveInv'
<1> SUFFICES ASSUME TypeInv, PathInv, SlaveInv, [Next]_vars, conf'.kind = "ethercat"
             PROVE  /\ at' \in {"to mirror", "to reference"} =>
                          {"len", "source"} \subseteq DOMAIN frame' /\ frame'.len = conf'.length
                          /\ frame'.source \in {"reference", "slave"}
                    /\ at' = "end" => (returned'.accepted = TRUE <=> frame'.source = "slave")
  BY Zenon DEF SlaveInv
<1>1. conf' = conf
  BY Zenon DEF Next, config_sanity_check, MirrorTxStarts, ReferenceSends, Strip, Damage, MirrorReceives, MirrorSends,
         SlaveEchoes, ReferenceReceives, NotForReference, NotDelivered, Continue, Over, vars
<1>2. /\ conf.kind = "ethercat" /\ conf \in Configs
      /\ at \in {"to mirror", "to reference"} =>
            {"len", "source"} \subseteq DOMAIN frame /\ frame.len = conf.length
            /\ frame.source \in {"reference", "slave"}
      /\ at = "end" => (returned.accepted = TRUE <=> frame.source = "slave")
  BY <1>1, Zenon DEF SlaveInv, TypeInv
<1>3. conf.mode = "none" /\ conf.length \in Nat /\ conf.pattern \in Nat
  BY <1>2, ConfType
<1>4. CASE ReferenceSends
  <2>1. SentFrame = [NewFrame("group", FALSE, "command") EXCEPT !.time = "reference"]
    BY <1>2, SentEtherCat
  <2>2. frame' = SentFrame
    BY <1>4, Zenon DEF ReferenceSends, SentFrame
  <2>3. {"len", "source"} \subseteq DOMAIN frame' /\ frame'.len = conf.length /\ frame'.source = "reference"
    BY <2>1, <2>2 DEF NewFrame
  <2>4. at' # "end"
    BY <1>4 DEF ReferenceSends
  <2> QED BY <1>1, <2>3, <2>4
<1>5. CASE SlaveEchoes
  BY <1>1, <1>2, <1>5 DEF SlaveEchoes
<1>6. CASE ReferenceReceives
  <2>1. at = "to reference" /\ at' = "end" /\ frame' = frame /\ returned' = Verdict(frame)
    BY <1>6 DEF ReferenceReceives
  <2>2. Verdict(frame) = receive_ethercat_frame(frame)
    BY <1>2 DEF Verdict
  <2>3. Verdict(frame).accepted = (frame.len >= ETHERCAT /\ frame.source # "reference")
    BY <2>2 DEF receive_ethercat_frame, Rejected
  <2>4. frame.len >= ETHERCAT
    <3>1. min_frame_size(conf) <= conf.length
      BY <2>1 DEF TypeInv
    <3>2. min_frame_size(conf) = IF ETHERCAT > 18 + 16 + conf.pattern THEN ETHERCAT ELSE 18 + 16 + conf.pattern
      BY <1>2 DEF min_frame_size
    <3>3. PICK l, p, m : l = frame.len /\ p = conf.pattern /\ m = min_frame_size(conf) /\ l = conf.length
      BY <1>2, <2>1
    <3>4. m <= l /\ l \in Nat /\ p \in Nat /\ m = IF ETHERCAT > 18 + 16 + p THEN ETHERCAT ELSE 18 + 16 + p
      BY <1>3, <3>1, <3>2, <3>3, Zenon
    <3>5. l >= ETHERCAT
      BY <3>4 DEF ETHERCAT
    <3> QED BY <3>3, <3>5
  <2> QED BY <1>2, <2>1, <2>3, <2>4
<1>7. CASE config_sanity_check \/ Continue \/ NotDelivered
  BY <1>7 DEF config_sanity_check, Continue, NotDelivered
<1>8. CASE MirrorSends
  BY <1>8, <1>2, Zenon DEF MirrorSends, PathInv, MirrorInv
<1>9. CASE MirrorTxStarts \/ Over \/ UNCHANGED vars
  BY <1>1, <1>2, <1>9 DEF MirrorTxStarts, Over, vars
<1>10. ~Strip /\ ~Damage /\ ~MirrorReceives /\ ~NotForReference
  BY <1>2 DEF Strip, HasVlan, Damage, MirrorReceives, NotForReference
<1> QED BY <1>4, <1>5, <1>6, <1>7, <1>8, <1>9, <1>10 DEF Next

\* What the AF_XDP mirror stores still has a length.
LEMMA ForwardedLength ==
    ASSUME conf \in Configs, conf.xdp = TRUE, conf.kind # "ethercat", NEW f, "len" \in DOMAIN f
    PROVE  "len" \in DOMAIN Forwarded(f)
<1>1. conf.kind \in {"rt", "l2"}
  BY ConfType
<1>2. PICK g : g = Stamped(f)
  OBVIOUS
<1>3. "len" \in DOMAIN g
  BY <1>2, Zenon DEF Stamped, Sealed
<1>4. PICK h : h = IF f.tagged THEN g ELSE insert_vlan_tag(g)
  OBVIOUS
<1>5. "len" \in DOMAIN h
  BY <1>3, <1>4, Zenon DEF insert_vlan_tag, Tagged
<1>6. Forwarded(f) = swap_mac_addresses(h)
  BY <1>1, <1>2, <1>4 DEF Forwarded
<1> QED BY <1>5, <1>6, Zenon DEF swap_mac_addresses

\* AF_XDP: lengths only shrink on the way, and start with the configured one.
LEMMA LengthStep == TypeInv /\ PathInv /\ LengthInv /\ [Next]_vars => LengthInv'
<1> SUFFICES ASSUME TypeInv, PathInv, LengthInv, [Next]_vars PROVE LengthInv'
  OBVIOUS
<1>1. conf' = conf
  BY Zenon DEF Next, config_sanity_check, MirrorTxStarts, ReferenceSends, Strip, Damage, MirrorReceives, MirrorSends,
         SlaveEchoes, ReferenceReceives, NotForReference, NotDelivered, Continue, Over, vars
<1>2. /\ conf \in Configs /\ conf.length \in Nat /\ conf.xdp \in BOOLEAN
  BY ConfType DEF TypeInv
<1>3. /\ conf.xdp = TRUE =>
            /\ at \in {"to mirror", "in mirror", "to reference"} => "len" \in DOMAIN frame
            /\ at \in {"to mirror", "to reference"} => frame.len \in Int /\ frame.len <= conf.length
      /\ at = "lost" => ~InChunk(XDP_PACKET_HEADROOM, conf.length)
  BY Zenon DEF LengthInv
<1>4. ASSUME NEW o \in Nat, NEW l \in Int, o <= XDP_PACKET_HEADROOM, l <= conf.length, ~InChunk(o, l)
      PROVE  ~InChunk(XDP_PACKET_HEADROOM, conf.length)
  BY <1>2, <1>4 DEF InChunk, XDP_PACKET_HEADROOM, XDP_FRAME_SIZE
<1>5. InChunk(XDP_PACKET_HEADROOM, conf.length)' <=> InChunk(XDP_PACKET_HEADROOM, conf.length)
  BY <1>1, Zenon DEF InChunk
<1>6. ASSUME at' \in {"to mirror", "in mirror", "to reference", "end", "send", "check", "refused"},
             conf.xdp = TRUE =>
                 /\ at' \in {"to mirror", "in mirror", "to reference"} => "len" \in DOMAIN frame'
                 /\ at' \in {"to mirror", "to reference"} => frame'.len \in Int /\ frame'.len <= conf.length
      PROVE  LengthInv'
  <2>1. at' # "lost"
    BY <1>6
  <2> QED BY <1>1, <1>6, <2>1, Zenon DEF LengthInv
<1>7. ASSUME at' = "lost", ~InChunk(XDP_PACKET_HEADROOM, conf.length)
      PROVE  LengthInv'
  BY <1>5, <1>7, Zenon DEF LengthInv
<1>8. XDP_PACKET_HEADROOM \in Nat /\ XSK_TX_METADATA \in Nat /\ XSK_TX_METADATA <= XDP_PACKET_HEADROOM
      /\ 0 <= XDP_PACKET_HEADROOM
  BY DEF XDP_PACKET_HEADROOM, XSK_TX_METADATA
<1>9. ASSUME at \in {"to mirror", "to reference"}, ~InChunk(RxOffset, frame.len)
      PROVE  ~InChunk(XDP_PACKET_HEADROOM, conf.length)
  <2>1. conf.xdp = TRUE
    BY <1>2, <1>9 DEF InChunk
  <2>2. PICK l : l = frame.len /\ l \in Int /\ l <= conf.length /\ ~InChunk(XDP_PACKET_HEADROOM, l)
    BY <1>3, <1>9, <2>1, Zenon DEF RxOffset
  <2>3. XDP_PACKET_HEADROOM <= XDP_PACKET_HEADROOM
    BY <1>8
  <2> QED BY <1>4, <1>8, <2>2, <2>3, Zenon
<1>10. CASE ReferenceSends
  <2>1. PICK g : g = SentFrame /\ frame' = g
    BY <1>10, Zenon DEF ReferenceSends, SentFrame
  <2>2. "len" \in DOMAIN g /\ g.len \in Int /\ g.len <= conf.length
    <3>1. CASE conf.kind # "ethercat"
      <4>1. Sent(g)
        BY <1>2, <2>1, <3>1, SentPristine, Zenon DEF TypeInv
      <4>2. IsFrame(g) /\ g.len = FrameLength(g.tagged)
        BY <4>1, Zenon DEF Sent, Pristine
      <4> QED BY <1>2, <4>2 DEF IsFrame, FrameLength, VLAN
    <3>2. CASE conf.kind = "ethercat"
      <4>1. g = [NewFrame("group", FALSE, "command") EXCEPT !.time = "reference"]
        BY <1>2, <2>1, <3>2, SentEtherCat, Zenon
      <4> QED BY <1>2, <4>1 DEF NewFrame
    <3> QED BY <3>1, <3>2
  <2>3. CASE InChunk(TxOffset, conf.length)
    <3>1. at' = "to mirror"
      BY <1>10, <2>3, Zenon DEF ReferenceSends
    <3> QED BY <1>6, <2>1, <2>2, <3>1, Zenon
  <2>4. CASE ~InChunk(TxOffset, conf.length)
    <3>1. at' = "lost"
      BY <1>10, <2>4, Zenon DEF ReferenceSends
    <3>2. TxOffset \in {0, XSK_TX_METADATA}
      BY Zenon DEF TxOffset
    <3>3. TxOffset \in Nat /\ TxOffset <= XDP_PACKET_HEADROOM
      BY <1>8, <3>2
    <3>4. conf.length \in Int /\ conf.length <= conf.length
      BY <1>2
    <3>5. ~InChunk(XDP_PACKET_HEADROOM, conf.length)
      BY <1>4, <2>4, <3>3, <3>4, Zenon
    <3> QED BY <1>7, <3>1, <3>5
  <2> QED BY <2>3, <2>4
<1>11. CASE Strip
  <2>1. conf.xdp = TRUE => "len" \in DOMAIN frame' /\ frame'.len = frame.len - VLAN
    BY <1>3, <1>11 DEF Strip
  <2>2. at' = at /\ at \in {"to mirror", "to reference"}
    BY <1>11 DEF Strip
  <2>3. conf.xdp = TRUE => frame'.len \in Int /\ frame'.len <= conf.length
    <3>1. PICK l, g, m : l = frame.len /\ g = frame'.len /\ m = conf.length
      OBVIOUS
    <3>2. conf.xdp = TRUE => l \in Int /\ l <= m /\ g = l - VLAN /\ m \in Nat
      BY <1>2, <1>3, <2>1, <2>2, <3>1, Zenon
    <3>3. conf.xdp = TRUE => g \in Int /\ g <= m
      BY <3>2 DEF VLAN
    <3> QED BY <3>1, <3>3, Zenon
  <2> QED BY <1>6, <2>1, <2>2, <2>3
<1>12. CASE Damage
  <2>1. PICK part \in Parts : frame' = Damaged(frame, part)
    BY <1>12, Zenon DEF Damage
  <2>2. at' = at /\ at \in {"to mirror", "to reference"}
    BY <1>12 DEF Damage
  <2>3. ASSUME conf.xdp = TRUE
        PROVE  "len" \in DOMAIN frame' /\ frame'.len \in {frame.len, frame.len - 1}
    BY <1>3, <2>1, <2>2, <2>3 DEF Damaged, Parts
  <2>4. conf.xdp = TRUE => frame'.len \in Int /\ frame'.len <= conf.length
    <3>1. PICK l, g, m : l = frame.len /\ g = frame'.len /\ m = conf.length
      OBVIOUS
    <3>2. conf.xdp = TRUE => l \in Int /\ l <= m /\ g \in {l, l - 1} /\ m \in Nat
      BY <1>2, <1>3, <2>2, <2>3, <3>1, Zenon
    <3>3. conf.xdp = TRUE => g \in Int /\ g <= m
      BY <3>2
    <3> QED BY <3>1, <3>3, Zenon
  <2> QED BY <1>6, <2>2, <2>3, <2>4
<1>13. CASE MirrorReceives
  <2>1. /\ at = "to mirror" /\ at' \in {"in mirror", "end"} /\ conf.kind # "ethercat"
        /\ frame' \in {frame, Forwarded(frame)}
    BY <1>13, Zenon DEF MirrorReceives
  <2>2. conf.xdp = TRUE => "len" \in DOMAIN frame'
    BY <1>2, <1>3, <2>1, ForwardedLength, Zenon
  <2> QED BY <1>6, <2>1, <2>2
<1>14. CASE MirrorSends
  <2>1. at = "in mirror" /\ frame' = MirrorSent(frame)
    BY <1>14 DEF MirrorSends
  <2>2. conf.xdp = TRUE => "len" \in DOMAIN frame' /\ frame'.len = conf.length
    <3>1. conf.xdp = TRUE => frame' = [frame EXCEPT !.len = conf.length]
      <4>1. conf.xdp = TRUE => conf.kind # "udp"
        BY <1>2, ConfType
      <4> QED BY <2>1, <4>1 DEF MirrorSent, xdp_receive_frames
    <3> QED BY <1>3, <2>1, <3>1
  <2>3. CASE at' = "to reference"
    <3>1. conf.length \in Int /\ conf.length <= conf.length
      BY <1>2
    <3> QED BY <1>6, <2>2, <2>3, <3>1, Zenon
  <2>4. CASE at' # "to reference"
    <3>1. at' = "lost" /\ ~InChunk(RxOffset, frame'.len)
      BY <1>14, <2>1, <2>4, Zenon DEF MirrorSends
    <3>2. conf.xdp = TRUE
      BY <1>2, <3>1 DEF InChunk
    <3>3. ~InChunk(XDP_PACKET_HEADROOM, conf.length)
      BY <2>2, <3>1, <3>2, Zenon DEF RxOffset
    <3> QED BY <1>7, <3>1, <3>3
  <2> QED BY <2>3, <2>4
<1>15. CASE SlaveEchoes
  <2>1. /\ at = "to mirror" /\ at' = "to reference"
        /\ frame' = frame \/ frame' = [frame EXCEPT !.source = "slave"]
    BY <1>15, Zenon DEF SlaveEchoes
  <2>2. conf.xdp = TRUE => "len" \in DOMAIN frame' /\ frame'.len = frame.len
    BY <1>3, <2>1
  <2> QED BY <1>3, <1>6, <2>1, <2>2
<1>16. CASE NotDelivered
  BY <1>7, <1>9, <1>16, Zenon DEF NotDelivered
<1>17. CASE config_sanity_check \/ ReferenceReceives \/ NotForReference \/ Continue
  <2>1. at' \in {"end", "send", "refused"}
    BY <1>17 DEF config_sanity_check, ReferenceReceives, NotForReference, Continue
  <2> QED BY <1>6, <2>1
<1>18. CASE MirrorTxStarts \/ Over \/ UNCHANGED vars
  <2>1. at' = at /\ frame' = frame
    BY <1>18 DEF MirrorTxStarts, Over, vars
  <2> QED BY <1>1, <1>3, <1>5, <2>1, Zenon DEF LengthInv
<1> QED BY <1>10, <1>11, <1>12, <1>13, <1>14, <1>15, <1>16, <1>17, <1>18 DEF Next

\* The invariant is inductive.
LEMMA InvStep == Inv /\ [Next]_vars => Inv'
<1> SUFFICES ASSUME Inv, [Next]_vars PROVE Inv'
  OBVIOUS
<1>0. TypeInv /\ EtherCatInv /\ PathInv /\ SlaveInv /\ LengthInv
  BY DEF Inv
<1>1. TypeInv' /\ EtherCatInv' /\ SlaveInv' /\ LengthInv'
  BY <1>0, TypeStep, EtherCatStep, SlaveStep, LengthStep
<1> SUFFICES PathInv'
  BY <1>1 DEF Inv
<1>2. CASE config_sanity_check \/ NotDelivered \/ Continue
  BY <1>2, PathIdle, Zenon DEF config_sanity_check, NotDelivered, Continue
<1>3. CASE MirrorTxStarts \/ Over \/ UNCHANGED vars
  BY <1>0, <1>3, PathSame DEF MirrorTxStarts, Over, vars
<1>4. CASE ReferenceSends
  BY <1>0, <1>4, PathSends
<1>5. CASE Strip
  BY <1>0, <1>5, PathStrip
<1>6. CASE Damage
  BY <1>0, <1>6, PathDamage
<1>7. CASE MirrorReceives
  BY <1>0, <1>7, PathMirrorReceives
<1>8. CASE MirrorSends
  BY <1>0, <1>8, PathMirrorSends
<1>9. CASE SlaveEchoes
  BY <1>9, PathIdle, Zenon DEF SlaveEchoes
<1>10. CASE ReferenceReceives
  <2>1. CASE conf.kind = "ethercat"
    BY <1>10, <2>1, PathIdle, Zenon DEF ReferenceReceives
  <2> QED BY <1>0, <1>10, <2>1, PathReferenceReceives
<1>11. CASE NotForReference
  BY <1>0, <1>11, PathNotForReference
<1> QED
  BY <1>2, <1>3, <1>4, <1>5, <1>6, <1>7, <1>8, <1>9, <1>10, <1>11 DEF Next

\* It holds always.
LEMMA InvHolds == Spec => []Inv
BY InvInit, InvStep, PTL DEF Spec

---------------------------------------------------------------------------
\* For every configuration and every frame: what nobody damages is accepted by
\* the callbacks of mirror and reference, although the tag is taken off and put
\* on again and secure frames are encrypted twice; nothing is lost but what does
\* not fit a chunk of the umem, and EtherCAT frames are accepted exactly if a
\* slave has processed them.
THEOREM EchoAccepted == Spec => []EchoIsAccepted
<1>1. Inv => EchoIsAccepted
  <2> SUFFICES ASSUME Inv PROVE EchoIsAccepted
    OBVIOUS
  <2>1. TypeInv /\ EndInv /\ SlaveInv /\ LengthInv
    BY Zenon DEF Inv, PathInv
  <2>2. at = "lost" => ~InChunk(XDP_PACKET_HEADROOM, conf.length)
    BY <2>1, Zenon DEF LengthInv
  <2>3. at = "end" /\ conf.kind = "ethercat" => (returned.accepted <=> frame.source = "slave")
    BY <2>1, Zenon DEF SlaveInv
  <2>4. ASSUME at = "end", Untouched, BeforeWrap, conf.kind # "ethercat"
        PROVE  LET inPlace == conf.mode = "ae" => PayloadPattern = "pattern"
               IN  /\ mirrored.accepted /\ returned.accepted
                   /\ Secure => mirrored.authenticated /\ returned.authenticated
                   /\ ~mirrored.frame_id_mismatch /\ ~returned.frame_id_mismatch
                   /\ inPlace => ~mirrored.payload_mismatch
                   /\ inPlace /\ (conf.mode = "ae" => ~hit.early) => ~returned.payload_mismatch
    <3>1. Fine(mirrored, Pattern(FALSE)) /\ Fine(returned, Pattern(hit.early))
      BY <2>1, <2>4, Zenon DEF EndInv, Mirrored, Untouched
    <3>2. hit.early \in BOOLEAN
      BY <2>1 DEF TypeInv
    <3> QED BY <2>4, <3>1, <3>2 DEF Fine, Pattern
  <2> QED BY <2>2, <2>3, <2>4, Zenon DEF EchoIsAccepted
<1> QED BY <1>1, InvHolds, PTL

\* Damage to any part, on either way, is noticed by the next receiver.
THEOREM DamageFound == Spec => []DamageIsNoticed
<1>1. Inv => DamageIsNoticed
  <2> SUFFICES ASSUME EtherCatInv, EndInv, at = "end"
               PROVE  Notices(mirrored, hit.there) /\ (hit.there = "none" => Notices(returned, hit.back))
    BY Zenon DEF Inv, PathInv, DamageIsNoticed
  <2>1. CASE conf.kind = "ethercat"
    BY <2>1 DEF EtherCatInv, Notices
  <2>2. CASE conf.kind # "ethercat"
    BY <2>2, Zenon DEF EndInv, Mirrored
  <2> QED BY <2>1, <2>2
<1> QED BY <1>1, InvHolds, PTL

\* Where both accepted, also with damage that they do not refuse, the frame
\* carries the mirror's time stamp: set on Tx in clear frames over AF_PACKET and
\* in datagrams, estimated on Rx in secure frames and in all AF_XDP frames.
THEOREM MirrorTimeCarried == Spec => []EchoCarriesMirrorTime
<1>1. Inv => EchoCarriesMirrorTime
  <2> SUFFICES ASSUME EtherCatInv, EndInv, at = "end", mirrored.accepted = TRUE, returned.accepted = TRUE
               PROVE  frame.time = EchoTime
    BY Zenon DEF Inv, PathInv, EchoCarriesMirrorTime, EchoTime
  <2>1. conf.kind # "ethercat"
    BY DEF EtherCatInv, Rejected
  <2> QED BY <2>1, Zenon DEF EndInv
<1> QED BY <1>1, InvHolds, PTL
====
