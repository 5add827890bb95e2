---------------------------- MODULE Statistics ----------------------------
(***************************************************************************)
(* The statistics of stat.c: counters that the network threads add to, the *)
(* copies that stat_update makes for the logging threads, the readers of   *)
(* these copies (log file, MQTT), and the reset that SIGUSR1 requests.     *)
(* Every operator is one step of the thread that calls it; Cycle composes  *)
(* them into the threads.                                                  *)
(***************************************************************************)
EXTENDS Integers, FiniteSets

CONSTANT PeriodMod    \* 2^64: the counters of a period wrap here

ASSUME StatisticsAssumption == PeriodMod \in Nat \ {0, 1}

\* The counters of all network threads: frames_sent and frames_received.  A period
\* is told by the number of frames sent and received in it.
Counters == {"sent", "received"}

\* The log thread (like the JSON thread and the terminal) reads the totals, the
\* MQTT thread the last period.
Readers == {"log", "mqtt"}

\* bounds: totals are only compared with zero; times beyond the longest
\* collection interval in use are not told apart
MaxTotal == 1
MaxElapsed == 2

VARIABLES
    global,          \* global_statistics
    period,          \* statistics_per_period: frames of the current period
    global_for_log,  \* global_statistics_for_log
    period_for_log,  \* statistics_per_period_for_log
    mutex,           \* who holds global_statistics_mutex
    reset_stats,
    elapsed,         \* cycles since the last update, -1 before the first call
    update,          \* step of stat_update
    reader,          \* the logging threads: step and what was read
    unreported,      \* history: frames counted that no copied period contains
    stale            \* history: totals that include frames from before SIGUSR1

copies == <<global_for_log, period_for_log>>
statVars == <<global, period, copies, mutex, reset_stats, elapsed, update, reader, unreported,
              stale>>

Zero == [k \in Counters |-> 0]

\* A logging thread that has read nothing.
Nothing == <<>>

\* stat_init; the logging threads in R have started and sleep.
StatInit(R) ==
    /\ global = Zero /\ period = 0
    /\ global_for_log = Zero /\ period_for_log = 0
    /\ mutex = "none" /\ reset_stats = FALSE /\ elapsed = -1
    /\ update = "idle"
    /\ reader = [r \in R |-> [pc |-> "sleep", copy |-> Nothing]]
    /\ unreported = 0 /\ stale = {}

---------------------------------------------------------------------------
\* stat_frames_sent_batch and stat_frame_received add to the totals and to the
\* current period.
Count(k) ==
    /\ global' = [global EXCEPT ![k] = IF @ < MaxTotal THEN @ + 1 ELSE @]
    /\ period' = (period + 1) % PeriodMod
    /\ unreported' = (unreported + 1) % PeriodMod

\* reset_stats_handler, on SIGUSR1.
RequestReset ==
    /\ reset_stats' = TRUE
    /\ stale' = {k \in Counters : global[k] > 0}
    /\ UNCHANGED <<global, period, copies, mutex, elapsed, update, reader, unreported>>

---------------------------------------------------------------------------
(***************************************************************************)
(* stat_update, called by the last Tx thread of the cycle                  *)
(***************************************************************************)

\* The time since the last update, when the function is entered.
Elapsed ==
    CASE elapsed = -1 -> 0
      [] elapsed = MaxElapsed -> MaxElapsed
      [] OTHER -> elapsed + 1

UpdateEnter(interval) ==
    /\ update = "enter"
    /\ IF Elapsed >= interval
       THEN elapsed' = 0 /\ update' = "lock"
       ELSE elapsed' = Elapsed /\ update' = "return"
    /\ UNCHANGED <<global, period, copies, mutex, reset_stats, reader, unreported, stale>>

\* Mutant of UpdateLock: the copies are made without the mutex.
UpdateLockNot ==
    /\ update = "lock"
    /\ update' = "totals"
    /\ UNCHANGED <<global, period, copies, mutex, reset_stats, elapsed, reader, unreported, stale>>

UpdateLock ==
    /\ update = "lock" /\ mutex = "none"
    /\ mutex' = "update" /\ update' = "totals"
    /\ UNCHANGED <<global, period, copies, reset_stats, elapsed, reader, unreported, stale>>

\* memcpy of the totals.
UpdateCopyTotal ==
    /\ update = "totals"
    /\ global_for_log' = global
    /\ update' = "period"
    /\ UNCHANGED <<global, period, period_for_log, mutex, reset_stats, elapsed, reader,
                   unreported, stale>>

\* memcpy of the period.
UpdateCopyPeriod ==
    /\ update = "period"
    /\ period_for_log' = period
    /\ unreported' = (unreported - period) % PeriodMod
    /\ update' = "restart"
    /\ UNCHANGED <<global, period, global_for_log, mutex, reset_stats, elapsed, reader, stale>>

\* Mutant of UpdateRestart: the period is not started over.
UpdateRestartNot ==
    /\ update = "restart"
    /\ mutex' = "none" /\ update' = "test"
    /\ UNCHANGED <<global, period, copies, reset_stats, elapsed, reader, unreported, stale>>

\* A new period begins; the mutex is released.
UpdateRestart ==
    /\ update = "restart"
    /\ period' = 0
    /\ mutex' = "none" /\ update' = "test"
    /\ UNCHANGED <<global, copies, reset_stats, elapsed, reader, unreported, stale>>

UpdateTest ==
    /\ update = "test"
    /\ update' = IF reset_stats THEN "reset sent" ELSE "return"
    /\ UNCHANGED <<global, period, copies, mutex, reset_stats, elapsed, reader, unreported, stale>>

\* Mutant of UpdateReset: the request is cleared first.
UpdateResetLate ==
    /\ update \in {"reset sent", "reset received"}
    /\ LET k == IF update = "reset sent" THEN "sent" ELSE "received"
       IN  global' = [global EXCEPT ![k] = 0] /\ stale' = stale \ {k}
    /\ update' = IF update = "reset sent" THEN "reset received" ELSE "clear"
    /\ reset_stats' = FALSE
    /\ UNCHANGED <<period, copies, mutex, elapsed, reader, unreported>>

\* stat_reset of the totals, which signals may interrupt.
UpdateReset ==
    /\ update \in {"reset sent", "reset received"}
    /\ LET k == IF update = "reset sent" THEN "sent" ELSE "received"
       IN  global' = [global EXCEPT ![k] = 0] /\ stale' = stale \ {k}
    /\ update' = IF update = "reset sent" THEN "reset received" ELSE "clear"
    /\ UNCHANGED <<period, copies, mutex, reset_stats, elapsed, reader, unreported>>

\* Mutant of UpdateClear: the request stays.
UpdateClearNot ==
    /\ update = "clear"
    /\ update' = "return"
    /\ UNCHANGED <<global, period, copies, mutex, reset_stats, elapsed, reader, unreported, stale>>

UpdateClear ==
    /\ update = "clear"
    /\ reset_stats' = FALSE /\ update' = "return"
    /\ UNCHANGED <<global, period, copies, mutex, elapsed, reader, unreported, stale>>

StatUpdate(interval) ==
    \/ UpdateEnter(interval) \/ UpdateLock \/ UpdateCopyTotal \/ UpdateCopyPeriod
    \/ UpdateRestart \/ UpdateTest \/ UpdateReset \/ UpdateClear

\* The steps during which the copies are being written.
Copying == update \in {"totals", "period", "restart"}

---------------------------------------------------------------------------
(***************************************************************************)
(* The logging threads: stat_get_global_stats, stat_get_stats_per_period   *)
(***************************************************************************)
Source(r) == IF r = "log" THEN global_for_log ELSE period_for_log

ReaderSet(r, pc, copy) ==
    /\ reader' = [reader EXCEPT ![r] = [pc |-> pc, copy |-> copy]]
    /\ UNCHANGED <<global, period, copies, reset_stats, elapsed, update, unreported, stale>>

\* A failing clock_nanosleep ends the thread.
ReaderSleepError(r) ==
    /\ reader[r].pc = "sleep"
    /\ ReaderSet(r, "done", Nothing)
    /\ UNCHANGED mutex

ReaderLock(r) ==
    /\ reader[r].pc = "sleep" /\ mutex = "none"
    /\ mutex' = r
    /\ ReaderSet(r, "copy", Nothing)

ReaderCopy(r) ==
    /\ reader[r].pc = "copy"
    /\ ReaderSet(r, "unlock", Source(r))
    /\ UNCHANGED mutex

\* The mutex is released, the copy is logged, the stop flag is tested.
ReaderUnlock(r, stop) ==
    /\ reader[r].pc = "unlock"
    /\ mutex' = "none"
    /\ ReaderSet(r, IF stop THEN "done" ELSE "sleep", Nothing)

ReaderNext(r, stop) ==
    ReaderSleepError(r) \/ ReaderLock(r) \/ ReaderCopy(r) \/ ReaderUnlock(r, stop)
===========================================================================
