----------------------------- MODULE MC_TxChain ---------------------------
(***************************************************************************)
(* A chain of three classes in the reference: one started by the clock, a  *)
(* cyclic one started by it, and a burst class with its TxGen thread at    *)
(* the end.  A shorter chain in which clocks fail and waits time out, in   *)
(* the reference with and in the mirror without spurious wakeups.          *)
(***************************************************************************)
EXTENDS TxChain

Good ==
    [active |-> {TSN_HIGH, RTC, RTA}, mirror |-> FALSE, late |-> FALSE, spurious |-> FALSE,
     clock_fails |-> FALSE]

Bad(mirror) ==
    [active |-> {RTC, DCP}, mirror |-> mirror, late |-> TRUE, spurious |-> ~mirror,
     clock_fails |-> TRUE]

MCConfigs == {Good, Bad(TRUE), Bad(FALSE)}
===========================================================================
