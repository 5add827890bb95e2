------------------------- MODULE MC_TxTimestamps --------------------------
(***************************************************************************)
(* Configurations of TxTimestamps for model checking.                      *)
(***************************************************************************)
EXTENDS TxTimestamps

Config(mirror, xdp, hwts) == [mirror |-> mirror, xdp |-> xdp, hwts |-> hwts]

\* Reference over AF_PACKET with and without hardware timestamps and over
\* AF_XDP, mirror over AF_PACKET and AF_XDP.
PassConfigs == {Config(FALSE, FALSE, TRUE), Config(FALSE, FALSE, FALSE), Config(FALSE, TRUE, TRUE),
                Config(TRUE, FALSE, TRUE), Config(TRUE, TRUE, TRUE)}

GeneratorConfig == {Config(FALSE, TRUE, TRUE)}
===========================================================================
