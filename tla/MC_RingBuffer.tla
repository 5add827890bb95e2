-------------------------- MODULE MC_RingBuffer --------------------------
(***************************************************************************)
(* A buffer of three bytes over two byte values: every string of up to     *)
(* four bytes is added, every length from 0 to 4 is fetched, from every    *)
(* position of both pointers.                                              *)
(***************************************************************************)
EXTENDS RingBuffer, SequencesExt

MCByte == {0, 1}
MCInputs == BoundedSeq(MCByte, 4)
MCLengths == 0 .. 4
===========================================================================
