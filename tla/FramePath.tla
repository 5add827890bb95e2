----------------------------- MODULE FramePath ----------------------------
(***************************************************************************)
(* What happens to one frame on its way from the reference to the mirror   *)
(* and back: it is prepared (prepare_frame_for_tx), its VLAN tag may be    *)
(* stripped, the receive callback of the traffic class checks it and, in   *)
(* the mirror, turns it into the frame to send back, which the reference   *)
(* checks with the same callback.  A device on the way may damage a part   *)
(* of it.                                                                  *)
(*                                                                         *)
(* A frame is its fields and its length in bytes.  Where a field lies is   *)
(* computed from the sizes of net_def.h, as in the code.  An AF_XDP frame  *)
(* lies behind other data in its chunk of the umem.  AES-GCM is taken      *)
(* as ideal: a tag verifies for exactly what it was computed of, and a     *)
(* text decrypts under the initial vector it was encrypted with.  The      *)
(* sequence errors of the callbacks are left to MirrorPath.                *)
(***************************************************************************)
EXTENDS Integers

CONSTANTS
    Configs,    \* the configurations to start from
    Fpc,        \* conf->num_frames_per_cycle
    CycleMod,   \* 2^32: the cycle counter of the meta data
    MaxSeq      \* bound: frames sent

XDP_FRAME_SIZE == 4096
MAX_FRAME_SIZE == XDP_FRAME_SIZE

\* What lies in front of a frame in its chunk of the umem: on Tx struct
\* xsk_tx_metadata, on Rx what the drivers leave free (both external).
XSK_TX_METADATA == 24
XDP_PACKET_HEADROOM == 256

ASSUME FramePathAssumption ==
    /\ Configs \subseteq [kind : {"rt", "dcp", "lldp", "udp", "l2", "ethercat"},
                          mode : {"none", "ao", "ae"}, xdp : BOOLEAN, metadata : BOOLEAN,
                          length : Nat, pattern : Nat]
    /\ \A c \in Configs : /\ c.mode # "none" => c.kind = "rt"
                          /\ c.xdp => c.kind \in {"rt", "l2", "ethercat"}
    /\ Fpc \in Nat \ {0} /\ CycleMod \in Nat \ {0, 1} /\ MaxSeq \in Nat

VARIABLES
    conf,       \* both applications' configuration of the class
    at,         \* "check", "refused", "send", "to mirror", "in mirror",
                \* "to reference", "end" or "lost"
    n,          \* sequence_counter of the reference
    frame,      \* the frame in flight
    frame_copy, \* payload in the mirror's frame_copy: "zero" or the pattern
    mirrored,   \* verdict of the mirror's callback on the last frame
    returned,   \* verdict of the reference's callback
    hit         \* history: the part damaged on the way there or back, and whether
                \* the mirror's Rx thread was ahead of its Tx thread's start

vars == <<conf, at, n, frame, frame_copy, mirrored, returned, hit>>

Secure == conf.mode # "none"

---------------------------------------------------------------------------
(***************************************************************************)
(* Layout (net_def.h)                                                      *)
(***************************************************************************)
ETH == 14
VLAN == 4
META == 16
CHECKSUM == 16
FRAME_ID == 2
SECURITY == 8
ETHERCAT == 36      \* Ethernet and EtherCAT header, one command

\* Which kinds of frames have a VLAN tag.
HasVlan(c) == c.kind \in {"rt", "dcp", "l2"}

EthLen(c, tagged) == IF c.kind = "udp" THEN 0 ELSE IF tagged THEN ETH + VLAN ELSE ETH

\* Everything between the Ethernet header and the payload.
HeaderLen(c) ==
    META + (IF c.kind \in {"rt", "dcp"} THEN FRAME_ID ELSE 0)
         + (IF c.mode # "none" THEN SECURITY ELSE 0)

ChecksumLen(c) == IF c.mode # "none" THEN CHECKSUM ELSE 0

\* Where the callbacks find the meta data in a frame.
MetaAt(c, tagged) == EthLen(c, tagged) + HeaderLen(c) - META

\* Mutant of get_meta_data_offset: the VLAN tag is forgotten.
get_meta_data_offsetUntagged(c) ==
    IF c.kind = "udp" THEN 0 ELSE ETH + HeaderLen(c) - META

\* Where set_mirror_tx_timestamp writes it, from the beginning of the frame.
get_meta_data_offset(c) ==
    CASE c.kind \in {"rt", "dcp"} -> IF c.mode = "none" THEN 18 + 2 ELSE 18 + 10
      [] c.kind = "lldp" -> 14
      [] c.kind = "udp" -> 0
      [] OTHER -> 18

\* The frame lengths config_sanity_check asks for.
min_frame_size(c) ==
    CASE c.kind = "rt" -> IF c.mode = "none" THEN 18 + 18 + c.pattern ELSE 18 + 26 + 16 + c.pattern
      [] c.kind = "dcp" -> 18 + 18 + c.pattern
      [] c.kind = "lldp" -> 14 + 16 + c.pattern
      [] c.kind = "udp" -> 16 + c.pattern
      [] c.kind = "l2" -> 18 + 16 + c.pattern
      [] c.kind = "ethercat" ->
            IF ETHERCAT > 18 + 16 + c.pattern THEN ETHERCAT ELSE 18 + 16 + c.pattern

\* Where a frame begins in its chunk (xdp_prepare_tx_desc, xdp_receive_frames).
TxOffset == IF conf.metadata THEN XSK_TX_METADATA ELSE 0
RxOffset == XDP_PACKET_HEADROOM

\* The kernel neither sends nor delivers an AF_XDP frame that leaves its chunk.
InChunk(offset, len) == conf.xdp => offset + len <= XDP_FRAME_SIZE

---------------------------------------------------------------------------
(***************************************************************************)
(* Security (external: OpenSSL)                                            *)
(***************************************************************************)
\* The text under an initial vector; -1 is clear text.
Text(payload, iv) == [payload |-> payload, padding |-> "zero", iv |-> iv]

\* Mutant of Associated: only the header is authenticated.
AssociatedHeader(f) == <<f.id, f.seq, f.time>>

\* What is authenticated besides the ciphertext: with authentication only,
\* everything from the frame id to the checksum; else the header.
Associated(f) ==
    IF conf.mode = "ao" THEN <<f.id, f.seq, f.time, f.text.payload, f.text.padding>>
    ELSE <<f.id, f.seq, f.time>>

Tag(f, iv) == <<iv, Associated(f), IF conf.mode = "ae" THEN f.text ELSE "none">>

Sealed(f, iv) == [f EXCEPT !.tag = Tag(f, iv)]

\* The payload as security_decrypt returns it.
Decrypted(f, iv) == IF f.text.iv = iv THEN f.text.payload ELSE "garbage"

---------------------------------------------------------------------------
(***************************************************************************)
(* Sending                                                                 *)
(***************************************************************************)
\* sequence_counter_to_meta_data and meta_data_to_sequence_counter
ToMeta(s) == [cycle |-> (s \div Fpc) % CycleMod, frame |-> s % Fpc]
FromMeta(m) == m.cycle * Fpc + m.frame

\* What lies at frame_copy + 44 after tc_initialize_frames: with meta data of
\* AF_XDP in front of the frame, not the pattern.
PayloadPattern == IF conf.xdp /\ conf.metadata THEN "shifted" ELSE "pattern"

\* Addresses, tag, frame id and payload, everything else zero.
NewFrame(destination, tagged, payload) ==
    [source |-> "reference", destination |-> destination, tagged |-> tagged, len |-> conf.length,
     id |-> conf.kind, seq |-> ToMeta(0), time |-> "none", text |-> Text(payload, -1), tag |-> <<>>]

\* The initialize_frame operations of the classes.
initialize_rt_profinet_frame(destination) == NewFrame(destination, TRUE, "pattern")
initialize_secure_profinet_frame(destination) == NewFrame(destination, TRUE, "pattern")
initialize_profinet_frame(destination) ==
    IF Secure THEN initialize_secure_profinet_frame(destination)
    ELSE initialize_rt_profinet_frame(destination)
dcp_initialize_frame == initialize_rt_profinet_frame("group")
lldp_initialize_frame == NewFrame("group", FALSE, "pattern")
generic_l2_initialize_frame == NewFrame("mirror", TRUE, "pattern")
initialize_ethercat_frame == NewFrame("group", FALSE, "command")
udp_initialize_frame == NewFrame("mirror", FALSE, "pattern")

Initialized ==
    CASE conf.kind = "rt" -> initialize_profinet_frame("mirror")
      [] conf.kind = "dcp" -> dcp_initialize_frame
      [] conf.kind = "lldp" -> lldp_initialize_frame
      [] conf.kind = "l2" -> generic_l2_initialize_frame
      [] conf.kind = "ethercat" -> initialize_ethercat_frame
      [] conf.kind = "udp" -> udp_initialize_frame

\* Meta data, time stamp, then encryption and checksum.  An EtherCAT frame has no
\* meta data.
prepare_frame_for_tx(f) ==
    LET stamped == [f EXCEPT !.seq = ToMeta(n), !.time = "reference"]
    IN  CASE conf.kind = "ethercat" -> [f EXCEPT !.time = "reference"]
          [] conf.kind # "ethercat" /\ conf.mode = "none" -> stamped
          [] conf.mode = "ao" -> Sealed(stamped, n)
          [] conf.mode = "ae" -> Sealed([stamped EXCEPT !.text = Text(PayloadPattern, n)], n)

\* UDP datagrams get their sequence counter when they are generated and their
\* time stamp when they are sent, in the reference and in the mirror.
udp_gen_and_send_frame(f) == [f EXCEPT !.seq = ToMeta(n), !.time = "reference"]

---------------------------------------------------------------------------
(***************************************************************************)
(* Receiving                                                               *)
(***************************************************************************)
Rejected == [accepted |-> FALSE, payload_mismatch |-> FALSE, frame_id_mismatch |-> FALSE,
             authenticated |-> FALSE]

\* The headers, the pattern and the checksum have room in the frame.
HoldsPattern(f) ==
    EthLen(conf, f.tagged) + HeaderLen(conf) + conf.pattern + ChecksumLen(conf) <= f.len

\* What the callbacks compare with the pattern: in a frame that is too short, bytes
\* of something else.
Compared(f) ==
    IF HoldsPattern(f)
    THEN IF conf.mode = "ae" THEN Decrypted(f, FromMeta(f.seq)) ELSE f.text.payload
    ELSE "garbage"

\* What a callback finds in a clear frame that has to have the given length.
Checked(f, length) ==
    IF f.len # length THEN Rejected
    ELSE [Rejected EXCEPT !.accepted = TRUE, !.payload_mismatch = Compared(f) # "pattern"]

\* The length expected where the tag may have been stripped.
VlanLength(f) == IF f.tagged THEN conf.length ELSE conf.length - VLAN

\* The receive callbacks of the classes.  EtherCAT frames are only looked at for
\* their length and for an address the slave has changed.
receive_profinet_frame(f) ==
    IF f.len # VlanLength(f) THEN Rejected
    ELSE [accepted |-> TRUE,
          payload_mismatch |-> Compared(f) # "pattern",
          frame_id_mismatch |-> f.id # conf.kind,
          authenticated |-> Secure /\ f.tag = Tag(f, FromMeta(f.seq))]
generic_l2_rx_frame(f) == Checked(f, VlanLength(f))
dcp_rx_frame(f) == Checked(f, conf.length - VLAN)
lldp_rx_frame(f) == Checked(f, conf.length)
udp_rx_thread_routine(f) == Checked(f, conf.length)
receive_ethercat_frame(f) ==
    [Rejected EXCEPT !.accepted = f.len >= ETHERCAT /\ f.source # "reference"]

Verdict(f) ==
    CASE conf.kind = "rt" -> receive_profinet_frame(f)
      [] conf.kind = "dcp" -> dcp_rx_frame(f)
      [] conf.kind = "lldp" -> lldp_rx_frame(f)
      [] conf.kind = "l2" -> generic_l2_rx_frame(f)
      [] conf.kind = "ethercat" -> receive_ethercat_frame(f)
      [] conf.kind = "udp" -> udp_rx_thread_routine(f)

---------------------------------------------------------------------------
(***************************************************************************)
(* Sending back                                                            *)
(***************************************************************************)
\* Mutant of Stamped: the checksum is kept.
StampedNotSealed(f) == [f EXCEPT !.time = "mirror"]

\* set_mirror_tx_timestamp_est, after which a secure frame is encrypted again,
\* with the mirror's own pattern and the initial vector of the received frame.
Stamped(f) ==
    LET s == [f EXCEPT !.time = "mirror",
                       !.text = IF conf.mode = "ae" THEN Text(frame_copy, FromMeta(f.seq)) ELSE @]
    IN  IF Secure THEN Sealed(s, FromMeta(f.seq)) ELSE s

swap_mac_addresses(f) == [f EXCEPT !.source = f.destination, !.destination = f.source]

Tagged(f) == [f EXCEPT !.tagged = TRUE, !.len = @ + VLAN]

\* In place, if there is room in the chunk, not regarding where in it the frame
\* begins; a new frame stays unset if there is none.
insert_vlan_tag(f) == IF f.len + VLAN > XDP_FRAME_SIZE THEN f ELSE Tagged(f)
Unset(f) == [f EXCEPT !.text = Text("garbage", -1)]

build_vlan_frame_from_rx(f) ==
    IF MAX_FRAME_SIZE < f.len + VLAN THEN Unset(f) ELSE swap_mac_addresses(Tagged(f))

\* Group addresses are kept, and the source is the own address.
dcp_build_frame_from_rx(f) ==
    IF MAX_FRAME_SIZE < f.len + VLAN THEN Unset(f)
    ELSE [Tagged(f) EXCEPT !.source = "mirror", !.time = "mirror"]
lldp_build_frame_from_rx(f) == [f EXCEPT !.source = "mirror", !.time = "mirror"]

\* What the callbacks make of an accepted frame: AF_XDP in place, else a new frame
\* for the mirror buffer.
Forwarded(f) ==
    CASE conf.kind = "dcp" -> dcp_build_frame_from_rx(f)
      [] conf.kind = "lldp" -> lldp_build_frame_from_rx(f)
      [] conf.kind = "udp" -> Stamped(f)
      [] conf.xdp -> swap_mac_addresses(IF f.tagged THEN Stamped(f) ELSE insert_vlan_tag(Stamped(f)))
      [] conf.kind \in {"rt", "l2"} /\ ~conf.xdp -> build_vlan_frame_from_rx(Stamped(f))

\* The time stamp of clear frames is set again on Tx, at the offset of the meta
\* data; at a wrong offset it would overwrite something else.
set_mirror_tx_timestamp(f) ==
    CASE Secure -> f
      [] ~Secure /\ get_meta_data_offset(conf) = MetaAt(conf, f.tagged) ->
            [f EXCEPT !.time = "mirror tx"]
      [] OTHER -> [f EXCEPT !.text.payload = "damaged"]

\* The mirror sends datagrams to the destination it is configured with.
udp_send_frame(f) ==
    [f EXCEPT !.source = "mirror", !.destination = "reference", !.time = "mirror tx"]

\* AF_XDP sends every descriptor with the configured length, whatever the
\* callback returned.
xdp_receive_frames(f) == [f EXCEPT !.len = conf.length]

MirrorSent(f) ==
    CASE conf.xdp -> xdp_receive_frames(f)
      [] conf.kind = "udp" -> udp_send_frame(f)
      [] OTHER -> set_mirror_tx_timestamp(f)

---------------------------------------------------------------------------
NoFrame == [len |-> 0]
NoHit == [there |-> "none", back |-> "none", early |-> FALSE]

Init ==
    /\ conf \in Configs
    /\ at = "check" /\ n = 0 /\ frame = NoFrame /\ frame_copy = "zero"
    /\ mirrored = Rejected /\ returned = Rejected
    /\ hit = NoHit

\* The frame length conditions of config_sanity_check.
config_sanity_check ==
    /\ at = "check"
    /\ at' = IF min_frame_size(conf) <= conf.length /\ conf.length <= MAX_FRAME_SIZE
             THEN "send" ELSE "refused"
    /\ UNCHANGED <<conf, n, frame, frame_copy, mirrored, returned, hit>>

\* The mirror's Tx thread initialises frame_copy when it starts.
MirrorTxStarts ==
    /\ at \notin {"check", "refused"} /\ frame_copy = "zero"
    /\ frame_copy' = PayloadPattern
    /\ UNCHANGED <<conf, at, n, frame, mirrored, returned, hit>>

ReferenceSends ==
    /\ at = "send" /\ n < MaxSeq
    /\ frame' = IF conf.kind = "udp" THEN udp_gen_and_send_frame(Initialized)
                ELSE prepare_frame_for_tx(Initialized)
    /\ at' = IF InChunk(TxOffset, conf.length) THEN "to mirror" ELSE "lost"
    /\ mirrored' = Rejected /\ returned' = Rejected /\ hit' = NoHit
    /\ UNCHANGED <<conf, n, frame_copy>>

\* The kernel strips the tag for AF_PACKET; for AF_XDP the NIC may.
Strip ==
    /\ at \in {"to mirror", "to reference"} /\ HasVlan(conf) /\ frame.tagged
    /\ frame' = [frame EXCEPT !.tagged = FALSE, !.len = @ - VLAN]
    /\ UNCHANGED <<conf, at, n, frame_copy, mirrored, returned, hit>>

Parts == {"payload", "padding", "id", "seq", "length"}

Damaged(f, part) ==
    CASE part = "payload" -> [f EXCEPT !.text.payload = "damaged"]
      [] part = "padding" -> [f EXCEPT !.text.padding = "damaged"]
      [] part = "id" -> [f EXCEPT !.id = "damaged"]
      [] part = "seq" -> [f EXCEPT !.seq = ToMeta(FromMeta(f.seq) + 1)]
      [] part = "length" -> [f EXCEPT !.len = @ - 1]

Damage ==
    /\ at \in {"to mirror", "to reference"} /\ hit.there = "none" /\ hit.back = "none"
    /\ conf.kind # "ethercat"
    /\ \E part \in Parts :
          /\ frame' = Damaged(frame, part)
          /\ hit' = IF at = "to mirror" THEN [hit EXCEPT !.there = part]
                    ELSE [hit EXCEPT !.back = part]
    /\ UNCHANGED <<conf, at, n, frame_copy, mirrored, returned>>

\* An AF_PACKET socket never sees the tag.
TagSeen == conf.xdp \/ ~HasVlan(conf) \/ ~frame.tagged

\* The mirror's Rx thread: the callback, and the frame it stores.
MirrorReceives ==
    /\ at = "to mirror" /\ conf.kind # "ethercat" /\ TagSeen /\ InChunk(RxOffset, frame.len)
    /\ mirrored' = Verdict(frame)
    /\ \/ /\ mirrored'.accepted
          /\ frame' = Forwarded(frame)
          /\ at' = "in mirror"
       \/ /\ ~mirrored'.accepted /\ conf.xdp
          /\ at' = "in mirror" /\ UNCHANGED frame
       \/ /\ ~mirrored'.accepted /\ ~conf.xdp
          /\ at' = "end" /\ UNCHANGED frame
    /\ hit' = [hit EXCEPT !.early = frame_copy = "zero"]
    /\ UNCHANGED <<conf, n, frame_copy, returned>>

\* The mirror's Tx thread, once it has started.
MirrorSends ==
    /\ at = "in mirror" /\ frame_copy # "zero"
    /\ frame' = MirrorSent(frame)
    /\ at' = IF InChunk(RxOffset, MirrorSent(frame).len) THEN "to reference" ELSE "lost"
    /\ UNCHANGED <<conf, n, frame_copy, mirrored, returned, hit>>

\* The peer of the EtherCAT master is a slave: it changes the source address.
SlaveEchoes ==
    /\ at = "to mirror" /\ conf.kind = "ethercat"
    /\ \/ frame' = [frame EXCEPT !.source = "slave"]
       \/ UNCHANGED frame
    /\ at' = "to reference"
    /\ UNCHANGED <<conf, n, frame_copy, mirrored, returned, hit>>

ReferenceReceives ==
    /\ at = "to reference" /\ TagSeen /\ frame.destination # "mirror"
    /\ InChunk(RxOffset, frame.len)
    /\ returned' = Verdict(frame)
    /\ at' = "end"
    /\ UNCHANGED <<conf, n, frame, frame_copy, mirrored, hit>>

\* A frame the mirror refused and sent as it was is for the mirror's address.
NotForReference ==
    /\ at = "to reference" /\ conf.kind # "ethercat" /\ frame.destination = "mirror"
    /\ at' = "end"
    /\ UNCHANGED <<conf, n, frame, frame_copy, mirrored, returned, hit>>

\* The driver has no room for the frame.
NotDelivered ==
    /\ at \in {"to mirror", "to reference"} /\ ~InChunk(RxOffset, frame.len)
    /\ at' = "lost"
    /\ UNCHANGED <<conf, n, frame, frame_copy, mirrored, returned, hit>>

\* The next frame.
Continue ==
    /\ at \in {"end", "lost"}
    /\ at' = "send" /\ n' = n + 1
    /\ UNCHANGED <<conf, frame, frame_copy, mirrored, returned, hit>>

Over == (at = "refused" \/ (at = "send" /\ n = MaxSeq)) /\ UNCHANGED vars

Next ==
    \/ config_sanity_check \/ MirrorTxStarts \/ ReferenceSends \/ Strip \/ Damage
    \/ MirrorReceives \/ MirrorSends \/ SlaveEchoes \/ ReferenceReceives \/ NotForReference
    \/ NotDelivered \/ Continue \/ Over

Spec == Init /\ [][Next]_vars

---------------------------------------------------------------------------
(***************************************************************************)
(* Properties                                                              *)
(***************************************************************************)
Untouched == hit.there = "none" /\ hit.back = "none"

\* Until the cycle counter of the meta data wraps around (2^32 cycles).
BeforeWrap == n < CycleMod * Fpc

\* A frame that nobody damages comes back: mirror and reference accept its
\* length, frame id, payload and checksum, with or without its VLAN tag stripped
\* on either way, although the mirror changes addresses, tag and time stamp and
\* encrypts again (receive_profinet_frame and the other callbacks,
\* prepare_frame_for_tx).  The lengths that config_sanity_check accepts leave room
\* for all parts of a frame; a frame is lost only over AF_XDP, where accepted
\* lengths above XDP_FRAME_SIZE - XDP_PACKET_HEADROOM do not fit a chunk.  The
\* payload is not the pattern in two cases: AF_XDP meta data with encryption (see
\* PatternIsEncrypted), and an encrypted frame that reaches the mirror before its
\* Tx thread has set up frame_copy.  An EtherCAT frame is accepted exactly if a
\* slave has processed it (receive_ethercat_frame).
EchoIsAccepted ==
    /\ at = "lost" => ~InChunk(XDP_PACKET_HEADROOM, conf.length)
    /\ at = "end" /\ conf.kind = "ethercat" => (returned.accepted <=> frame.source = "slave")
    /\ at = "end" /\ Untouched /\ BeforeWrap /\ conf.kind # "ethercat" =>
        LET inPlace == conf.mode = "ae" => PayloadPattern = "pattern"
        IN  /\ mirrored.accepted /\ returned.accepted
            /\ Secure => mirrored.authenticated /\ returned.authenticated
            /\ ~mirrored.frame_id_mismatch /\ ~returned.frame_id_mismatch
            /\ inPlace => ~mirrored.payload_mismatch
            /\ inPlace /\ (conf.mode = "ae" => ~hit.early) => ~returned.payload_mismatch

\* The application that receives a damaged frame notices: by its length, its
\* payload, its frame id, and with security by the checksum, which also covers
\* the padding and the meta data.
Notices(verdict, part) ==
    CASE part = "none" -> TRUE
      [] part = "length" -> ~verdict.accepted
      [] OTHER ->
            /\ part = "payload" => verdict.payload_mismatch
            /\ part = "id" /\ conf.kind = "rt" => verdict.frame_id_mismatch
            /\ Secure => ~verdict.authenticated

\* Damage done on either way is noticed at the end of that way, in particular by
\* the mirror although it replaces payload and checksum before the frame is seen
\* again (profinet.c).
DamageIsNoticed ==
    at = "end" => /\ Notices(mirrored, hit.there)
                  /\ hit.there = "none" => Notices(returned, hit.back)

\* The time stamp the reference takes for the way back is the mirror's.  Clear
\* frames over AF_PACKET and datagrams carry the one set on Tx
\* (set_mirror_tx_timestamp, udp_send_frame).  Secure frames, whose checksum
\* forbids this, and all AF_XDP frames, which the Tx thread does not touch, carry
\* the estimate made on Rx (set_mirror_tx_timestamp_est).
EchoCarriesMirrorTime ==
    at = "end" /\ mirrored.accepted /\ returned.accepted =>
        frame.time = IF Secure \/ conf.xdp THEN "mirror" ELSE "mirror tx"

\* "In addition, the payload pattern in encrypted and stored in the frame"
\* (utils.c:186).
PatternIsEncrypted ==
    at = "to mirror" /\ conf.mode = "ae" /\ Untouched => frame.text.payload = "pattern"
===========================================================================
