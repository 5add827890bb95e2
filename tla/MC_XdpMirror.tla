---------------------------- MODULE MC_XdpMirror --------------------------
(***************************************************************************)
(* Rings of three slots and batches of two, with more packets than slots: *)
(* the threads taking turns on a perfect network, or everything going      *)
(* wrong.                                                                  *)
(***************************************************************************)
EXTENDS XdpMirror

MCConfigs ==
    {[lossy |-> FALSE, overrun |-> FALSE, packets |-> 7],
     [lossy |-> TRUE, overrun |-> TRUE, packets |-> 4]}

OverrunOnly == {[lossy |-> FALSE, overrun |-> TRUE, packets |-> 4]}
===========================================================================
