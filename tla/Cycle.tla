------------------------------- MODULE Cycle ------------------------------
(***************************************************************************)
(* One traffic class over many cycles: the Rx thread receives and signals  *)
(* the workload threads, the Tx thread looks for overruns, sends and, as   *)
(* the last of the cycle, updates the statistics; logging threads read     *)
(* them; SIGUSR1 and SIGTERM arrive at any time.                           *)
(*                                                                         *)
(* Rx and Tx threads sleep until fixed times of a cycle, Rx before Tx      *)
(* (config_sanity_check).  As long as both finish in time they alternate;  *)
(* with the fault "overrun" they run in any order.  With the fault "calls"  *)
(* a sleep may fail, which ends its thread, and the class before this one  *)
(* may have ended that way and signal no more.                             *)
(***************************************************************************)
EXTENDS Workload, Statistics

CONSTANT Configs    \* the set of configurations to start from

ASSUME CycleAssumption ==
    Configs \subseteq [workers : SUBSET Workers, prewarm : BOOLEAN, interval : Nat,
                       logs : SUBSET Readers, faults : SUBSET {"overrun", "spurious", "calls"}]

VARIABLES
    conf,       \* workload threads, rx_workload_prewarm, stats_collection_interval_ns
                \* in cycles, logging threads, faults
    rx,         \* step of the Rx thread
    signals,    \* workload threads the Rx thread has yet to signal
    tx,         \* step of the Tx thread
    checks,     \* workload threads the Tx thread has yet to look at
    turn,       \* whose time of the cycle comes next
    stop        \* the stop flags

netVars == <<rx, signals, tx, checks, turn>>
vars == <<conf, netVars, stop, workVars, statVars>>

Init ==
    /\ conf \in Configs
    /\ rx = "sleep" /\ signals = {} /\ tx = "sleep" /\ checks = {}
    /\ turn = "rx" /\ stop = FALSE
    /\ WorkInit(conf.workers) /\ StatInit(conf.logs)

---------------------------------------------------------------------------
(***************************************************************************)
(* tc_rx_thread                                                            *)
(***************************************************************************)

\* Frames are received and counted; a cycle without frames signals nobody, unless
\* the workload is to be kept warm.
RxReceive ==
    /\ rx = "sleep"
    /\ turn = "rx" \/ "overrun" \in conf.faults \/ tx = "done"
    /\ rx' = "signal"
    /\ \/ Count("received") /\ signals' = conf.workers
       \/ /\ signals' = IF conf.prewarm THEN conf.workers ELSE {}
          /\ UNCHANGED <<global, period, unreported>>
    /\ UNCHANGED <<conf, tx, checks, turn, stop, workVars, copies, mutex, reset_stats, elapsed,
                   update, reader, stale>>

\* tc_sleep_until fails: the thread returns.
RxSleepError ==
    /\ rx = "sleep" /\ "calls" \in conf.faults
    /\ rx' = "done"
    /\ UNCHANGED <<conf, signals, tx, checks, turn, stop, workVars, statVars>>

\* workload_signal
RxSignal ==
    /\ rx = "signal"
    /\ \E w \in signals :
          /\ \A v \in signals : w <= v
          /\ SignalOne(w)
          /\ signals' = signals \ {w}
    /\ UNCHANGED <<conf, rx, tx, checks, turn, stop, statVars>>

RxEnd ==
    /\ rx = "signal" /\ signals = {}
    /\ rx' = IF stop THEN "done" ELSE "sleep"
    /\ turn' = "tx"
    /\ UNCHANGED <<conf, signals, tx, checks, stop, workVars, statVars>>

RxNext == RxReceive \/ RxSleepError \/ RxSignal \/ RxEnd

---------------------------------------------------------------------------
(***************************************************************************)
(* tc_tx_thread of the last class                                          *)
(***************************************************************************)
TxTime == turn = "tx" \/ "overrun" \in conf.faults \/ rx = "done"

\* tc_wait_for_tx_cycle returns TC_TX_WAIT_SEND: the sleep is over or the class
\* before has signalled.
TxWake ==
    /\ tx = "sleep" /\ TxTime
    /\ tx' = "check" /\ checks' = conf.workers
    /\ UNCHANGED <<conf, rx, signals, turn, stop, workVars, statVars>>

\* TC_TX_WAIT_STOP: no signal comes, because of the shutdown or because the class
\* before has ended.  The cycle passes without the workload being looked at, frames
\* or statistics.
TxWaitStop ==
    /\ tx = "sleep" /\ TxTime
    /\ stop \/ "calls" \in conf.faults
    /\ tx' = IF stop THEN "done" ELSE "sleep"
    /\ turn' = "rx"
    /\ UNCHANGED <<conf, rx, signals, checks, stop, workVars, statVars>>

\* TC_TX_WAIT_ERROR: tc_sleep_until fails and the thread returns.
TxWaitError ==
    /\ tx = "sleep" /\ "calls" \in conf.faults
    /\ tx' = "done"
    /\ UNCHANGED <<conf, rx, signals, checks, turn, stop, workVars, statVars>>

\* workload_check_finished
TxCheck ==
    /\ tx = "check"
    /\ \E w \in checks :
          /\ \A v \in checks : w <= v
          /\ CheckOne(w)
          /\ checks' = checks \ {w}
    /\ UNCHANGED <<conf, rx, signals, tx, turn, stop, statVars>>

\* Frames are sent and counted, or there are none.
TxSend ==
    /\ tx = "check" /\ checks = {}
    /\ tx' = "update" /\ update' = "enter"
    /\ \/ Count("sent")
       \/ UNCHANGED <<global, period, unreported>>
    /\ UNCHANGED <<conf, rx, signals, checks, turn, stop, workVars, copies, mutex, reset_stats,
                   elapsed, reader, stale>>

TxUpdate ==
    /\ tx = "update"
    /\ StatUpdate(conf.interval)
    /\ UNCHANGED <<conf, netVars, stop, workVars>>

TxEnd ==
    /\ tx = "update" /\ update = "return"
    /\ update' = "idle"
    /\ tx' = IF stop THEN "done" ELSE "sleep"
    /\ turn' = "rx"
    /\ UNCHANGED <<conf, rx, signals, checks, stop, workVars, global, period, copies, mutex,
                   reset_stats, elapsed, reader, unreported, stale>>

TxNext == TxWake \/ TxWaitStop \/ TxWaitError \/ TxCheck \/ TxSend \/ TxUpdate \/ TxEnd

---------------------------------------------------------------------------
(***************************************************************************)
(* Workload and logging threads, signals                                   *)
(***************************************************************************)
WorkerNext(w) ==
    /\ \/ WorkerTop(w, stop) \/ WorkerTimeOut(w) \/ WorkerRun(w) \/ WorkerClear(w)
       \/ WorkerCount(w)
       \/ "spurious" \in conf.faults /\ WorkerSpurious(w)
    /\ UNCHANGED <<conf, netVars, stop, statVars>>

LogNext(r) == ReaderNext(r, stop) /\ UNCHANGED <<conf, netVars, stop, workVars>>

Sigusr1 == RequestReset /\ UNCHANGED <<conf, netVars, stop, workVars>>

Sigterm ==
    /\ ~stop /\ stop' = TRUE
    /\ UNCHANGED <<conf, netVars, workVars, statVars>>

AllDone ==
    /\ rx = "done" /\ tx = "done"
    /\ \A w \in conf.workers : worker[w] = "done"
    /\ \A r \in conf.logs : reader[r].pc = "done"

Next ==
    \/ RxNext \/ TxNext
    \/ \E w \in conf.workers : WorkerNext(w)
    \/ \E r \in conf.logs : LogNext(r)
    \/ Sigusr1 \/ Sigterm

Spec == Init /\ [][Next]_vars

\* Every thread keeps running: the real-time threads are bound to CPUs, all
\* sleeps and waits have timeouts.  Threads that ask for the mutex get it at some
\* time.
FairSpec ==
    /\ Spec
    /\ WF_vars(RxNext) /\ SF_vars(TxNext)
    /\ \A w \in Workers : WF_vars(w \in conf.workers /\ WorkerNext(w))
    /\ \A r \in Readers : SF_vars(r \in conf.logs /\ LogNext(r))

---------------------------------------------------------------------------
\* No activation of the workload is lost unnoticed: when Rx and Tx alternate, no
\* sleep fails and no wait ends spuriously, every signal that finds the workload thread not
\* waiting (workload_signal) corresponds to an overrun the Tx thread has seen or
\* is about to see (workload_check_finished), until the threads are stopped.
LostActivationsAreSeen ==
    conf.faults = {} /\ ~stop =>
        \A w \in conf.workers :
            margin[w] + (IF workload_running[w] /\ (turn = "tx" \/ rx = "signal")
                         THEN 1 ELSE 0) >= 0

\* The periods handed to MQTT account for every frame: what was counted and not
\* reported is what the current period holds, whatever the logging threads and
\* signals do in between (stat_update copies and restarts the period while no Rx
\* or Tx thread counts).
PeriodsAddUp == "overrun" \notin conf.faults /\ update # "restart" => unreported = period

\* A logging thread never sees a mixture of two updates: when it releases the
\* mutex it has read a copy that no stat_update has changed or is changing.
ReadsOneUpdate ==
    \A r \in conf.logs : reader[r].pc = "unlock" => reader[r].copy = Source(r) /\ ~Copying

\* SIGUSR1 is not lost when it races with the reset it or an earlier one asked
\* for: once no request is pending, the totals hold no frame that was counted
\* before the last signal (reset_stats is cleared after stat_reset, unlocked).
ResetIsComplete == "overrun" \notin conf.faults /\ ~reset_stats => stale = {}

\* A requested reset is carried out (stat_update) if statistics are collected,
\* unless the program is terminated or the Tx thread that updates them has ended
\* or waits in vain after a failed sleep.
ResetHappens ==
    reset_stats /\ conf.interval <= MaxElapsed /\ "calls" \notin conf.faults
        ~> ~reset_stats \/ stop

\* After SIGTERM all threads end, also workload threads that nobody signals any
\* more and a Tx thread whose predecessor has ended.
AllThreadsEnd == stop ~> AllDone
===========================================================================
