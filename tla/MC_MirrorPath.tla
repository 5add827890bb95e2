--------------------------- MODULE MC_MirrorPath --------------------------
(***************************************************************************)
(* A frame length that divides the size of the mirror buffer, and one that *)
(* does not, with and without failing system calls.  The buffer holds two  *)
(* frames: the third overflows it.                                         *)
(***************************************************************************)
EXTENDS MirrorPath

MCConfigs ==
    {[frame_length |-> 4, calls_may_fail |-> FALSE],
     [frame_length |-> 3, calls_may_fail |-> TRUE]}
===========================================================================
