---------------------------- MODULE MC_FramePath --------------------------
(***************************************************************************)
(* Every kind of frame with every option it has, at the limits of the      *)
(* frame length that config_sanity_check accepts and one beyond.           *)
(***************************************************************************)
EXTENDS FramePath

Pattern == 12       \* strlen("Payload! :-)")

Options ==
    {[kind |-> "rt", mode |-> m, xdp |-> x, metadata |-> d] :
        m \in {"none", "ao", "ae"}, x \in BOOLEAN, d \in BOOLEAN}
    \cup {[kind |-> k, mode |-> "none", xdp |-> FALSE, metadata |-> FALSE] :
        k \in {"dcp", "lldp", "udp", "l2", "ethercat"}}
    \cup {[kind |-> k, mode |-> "none", xdp |-> TRUE, metadata |-> d] :
        k \in {"l2", "ethercat"}, d \in BOOLEAN}

With(o, length) ==
    [kind |-> o.kind, mode |-> o.mode, xdp |-> o.xdp, metadata |-> o.metadata,
     length |-> length, pattern |-> Pattern]

\* The least length of a frame that holds all its parts.
Least(o) ==
    LET c == With(o, 0)
    IN  IF o.kind = "ethercat" THEN 18 + 16 + Pattern
        ELSE EthLen(c, HasVlan(c)) + HeaderLen(c) + ChecksumLen(c) + Pattern

\* For AF_XDP, also the longest frames that fit a chunk of the umem on Rx, with and
\* without their tag, and on Tx.
Lengths(o) ==
    {Least(o) - 1, Least(o), Least(o) + 1, MAX_FRAME_SIZE, MAX_FRAME_SIZE + 1}
    \cup (IF o.xdp THEN {XDP_FRAME_SIZE - XDP_PACKET_HEADROOM,
                        XDP_FRAME_SIZE - XDP_PACKET_HEADROOM + VLAN,
                        XDP_FRAME_SIZE - XSK_TX_METADATA}
          ELSE {})

MCConfigs == UNION {{With(o, l) : l \in Lengths(o)} : o \in Options}

EncryptedConfigs == {c \in MCConfigs : c.mode = "ae"}
===========================================================================
