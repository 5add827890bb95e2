-------------------------- MODULE TrafficClasses --------------------------
(***************************************************************************)
(* The traffic classes of one testbench instance and the order in which    *)
(* their Tx threads run within a cycle (thread.h, thread.c).  The PROFINET *)
(* classes are numbered like the entries of enum pn_thread_type; GenericL2 *)
(* is a class of its own outside of the chain.                             *)
(***************************************************************************)
EXTENDS Naturals

TSN_HIGH == 0
TSN_LOW == 1
RTC == 2
RTA == 3
DCP == 4
LLDP == 5
UDP_HIGH == 6
UDP_LOW == 7

PnClasses == TSN_HIGH .. UDP_LOW
GenericL2 == 8

\* What find_next_pn_thread and the end of a chain return as NULL.
Null == 9

(***************************************************************************)
(* What the functions that create the threads of a class put into its      *)
(* descriptor: when it sends, and whether it may use AF_XDP.               *)
(***************************************************************************)
tsn_high_threads_create == [tx_model |-> "cyclic", xdp |-> TRUE]
tsn_low_threads_create == [tx_model |-> "cyclic", xdp |-> TRUE]
rtc_threads_create == [tx_model |-> "cyclic", xdp |-> TRUE]
rta_threads_create == [tx_model |-> "burst", xdp |-> TRUE]
dcp_threads_create == [tx_model |-> "burst", xdp |-> FALSE]
lldp_threads_create == [tx_model |-> "burst", xdp |-> FALSE]
generic_l2_threads_create == [tx_model |-> "standalone", xdp |-> TRUE]

\* UDP classes have no descriptor; they behave like burst classes.
udp_high_threads_create == [tx_model |-> "burst", xdp |-> FALSE]
udp_low_threads_create == [tx_model |-> "burst", xdp |-> FALSE]

Descriptor(c) ==
    CASE c = TSN_HIGH -> tsn_high_threads_create
      [] c = TSN_LOW -> tsn_low_threads_create
      [] c = RTC -> rtc_threads_create
      [] c = RTA -> rta_threads_create
      [] c = DCP -> dcp_threads_create
      [] c = LLDP -> lldp_threads_create
      [] c = UDP_HIGH -> udp_high_threads_create
      [] c = UDP_LOW -> udp_low_threads_create
      [] c = GenericL2 -> generic_l2_threads_create

\* TSN and RTC send in every cycle, the others in bursts.
IsBurst(c) == Descriptor(c).tx_model = "burst"

\* Mutant of find_next_pn_thread: a case that finds its class inactive breaks.
find_next_without_fall_through(active) ==
    [i \in PnClasses |-> IF i + 1 \in active \cap PnClasses THEN i + 1 ELSE Null]

\* The switch of find_next_pn_thread: case i looks at class i + 1 and falls
\* through to case i + 1 when that class is not active.
find_next_pn_thread(active) ==
    LET case[i \in PnClasses] ==
            IF i = UDP_LOW THEN Null
            ELSE IF i + 1 \in active THEN i + 1 ELSE case[i + 1]
    IN  case

\* The class whose Tx thread is started by the clock; Null when link_pn_threads
\* finds none.
FirstClass(active) ==
    IF TSN_HIGH \in active THEN TSN_HIGH
    ELSE IF RTC \in active THEN RTC
    ELSE Null

\* Where the walk along next that starts at class t ends.
EndOfChain(next, t) ==
    LET walk[c \in PnClasses] == IF next[c] = Null THEN c ELSE walk[next[c]]
    IN  walk[t]
===========================================================================
