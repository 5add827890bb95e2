------------------------------ MODULE MC_Cycle ----------------------------
(***************************************************************************)
(* Configurations of Cycle for model checking.                             *)
(***************************************************************************)
EXTENDS Cycle

Config(workers, prewarm, interval, logs, faults) ==
    [workers |-> workers, prewarm |-> prewarm, interval |-> interval, logs |-> logs,
     faults |-> faults]

\* A workload with a collection interval that does not end, and statistics
\* without a workload, also where a sleep may fail.
MCConfigs ==
    {Config({1}, p, 99, {}, {}) : p \in BOOLEAN}
    \cup {Config({1}, FALSE, 99, {}, {"spurious"}),
          Config({}, FALSE, 1, Readers, {}),
          Config({}, FALSE, 1, {}, {"overrun"}),
          Config({}, FALSE, 1, {}, {"calls"})}
===========================================================================
