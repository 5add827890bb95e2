--------------------------- MODULE CycleProofs ----------------------------
(***************************************************************************)
(* For every set of workload threads, every collection interval, every set *)
(* of logging threads and all faults a configuration may allow: logging    *)
(* threads read one update, periods add up, resets are complete, and lost  *)
(* activations of a workload are seen.                                     *)
(***************************************************************************)
EXTENDS Cycle, TLAPS

RxSteps == {"sleep", "signal", "done"}
TxSteps == {"sleep", "check", "update", "done"}
UpdateSteps == {"idle", "enter", "lock", "totals", "period", "restart", "test", "reset sent",
                "reset received", "clear", "return"}
WorkerSteps == {"top", "wait", "woken", "ran", "count", "done"}

Totals == [Counters -> 0 .. MaxTotal]

TypeInv ==
    /\ conf \in Configs
    /\ rx \in RxSteps /\ tx \in TxSteps /\ turn \in {"rx", "tx"} /\ stop \in BOOLEAN
    /\ signals \subseteq conf.workers /\ checks \subseteq conf.workers
    /\ worker \in [conf.workers -> WorkerSteps]
    /\ workload_running \in [conf.workers -> BOOLEAN]
    /\ margin \in [conf.workers -> Int]
    /\ global \in Totals /\ period \in Int /\ unreported \in Int
    /\ global_for_log \in Totals /\ period_for_log \in Int
    /\ reset_stats \in BOOLEAN /\ update \in UpdateSteps /\ stale \subseteq Counters
    /\ DOMAIN reader = conf.logs

\* Who holds global_statistics_mutex, and what a reader that holds it has read.
LockInv ==
    /\ mutex = "update" <=> Copying
    /\ \A r \in conf.logs :
          /\ mutex = r <=> reader[r].pc \in {"copy", "unlock"}
          /\ reader[r].pc = "unlock" => reader[r].copy = Source(r)

\* stat_update runs within the last Tx thread; as long as the threads keep their
\* times, the Rx thread does not receive while the Tx thread works.
TurnInv ==
    /\ update # "idle" <=> tx = "update"
    /\ "overrun" \notin conf.faults /\ tx \in {"check", "update"} => turn = "tx" \/ rx = "done"

PeriodInv ==
    "overrun" \notin conf.faults =>
        unreported = IF update = "restart" THEN 0 ELSE period

\* What is left to reset at each step of stat_reset, and no request is forgotten.
ResetInv ==
    "overrun" \notin conf.faults =>
        /\ ~reset_stats => stale = {}
        /\ update = "reset received" => global["sent"] = 0 /\ stale \subseteq {"received"}
        /\ update = "clear" => global = Zero /\ stale = {}

\* Undisturbed, Rx and Tx strictly alternate.
Alternate ==
    /\ rx = "signal" => turn = "rx"
    /\ turn = "rx" => tx = "sleep"
    /\ rx # "done" /\ tx # "done"

\* The Rx thread has passed worker w in this cycle, the Tx thread has not.
Between(w) ==
    \/ turn = "rx" /\ rx = "signal" /\ w \notin signals
    \/ turn = "tx" /\ (tx = "sleep" \/ (tx = "check" /\ w \in checks))

Busy(w) == worker[w] \in {"woken", "ran"}

\* An activation that was lost without an overrun seen before leaves the mark
\* set until the Tx thread looks at it; a worker that is busy when the Rx thread
\* comes has been seen by the Tx thread.
Seen(w) ==
    /\ worker[w] # "done"
    /\ Busy(w) => workload_running[w] = TRUE
    /\ IF Between(w)
       THEN margin[w] >= 0 \/ (margin[w] = -1 /\ workload_running[w] = TRUE /\ ~Busy(w))
       ELSE margin[w] >= IF Busy(w) THEN 1 ELSE 0

WorkInv == conf.faults = {} /\ ~stop => Alternate /\ \A w \in conf.workers : Seen(w)

---------------------------------------------------------------------------
\* Counting modulo PeriodMod yields integers, and nothing for nothing.
LEMMA Modulo ==
    /\ \A i \in Int : i % PeriodMod \in Int
    /\ 0 % PeriodMod = 0
BY StatisticsAssumption, SMT

\* Counting a frame keeps the types of the counters.
LEMMA CountType ==
    ASSUME TypeInv, NEW k \in Counters, Count(k)
    PROVE  global' \in Totals /\ period' \in Int /\ unreported' \in Int
<1>1. global' \in Totals
  BY DEF TypeInv, Count, Totals, MaxTotal
<1>2. period' \in Int /\ unreported' \in Int
  <2>1. period + 1 \in Int /\ unreported + 1 \in Int
    BY DEF TypeInv
  <2> QED BY <2>1, Modulo DEF Count
<1> QED BY <1>1, <1>2

\* Resetting a counter does as well.
LEMMA ResetType ==
    ASSUME NEW g \in Totals, NEW k \in Counters
    PROVE  [g EXCEPT ![k] = 0] \in Totals
BY DEF Totals, MaxTotal

\* The parts of a configuration.
LEMMA ConfigParts ==
    ASSUME TypeInv
    PROVE  /\ conf.logs \subseteq Readers
           /\ conf.faults \subseteq {"overrun", "spurious", "calls"}
BY CycleAssumption DEF TypeInv

\* Each step keeps the types.
LEMMA TypeStep ==
    ASSUME TypeInv, [Next]_vars
    PROVE  TypeInv'
<1>0. /\ margin \in [conf.workers -> Int] /\ global \in Totals
      /\ signals \subseteq conf.workers /\ checks \subseteq conf.workers
  BY DEF TypeInv
<1> USE DEF RxSteps, TxSteps, UpdateSteps, WorkerSteps
<1>1. CASE RxReceive
  <2>1. ASSUME Count("received")
        PROVE  global' \in Totals /\ period' \in Int /\ unreported' \in Int
    BY <2>1, CountType DEF Counters
  <2> QED BY <1>1, <2>1, ZenonT(40) DEF TypeInv, RxReceive, workVars, copies
<1>2. CASE RxSignal
  <2>1. PICK w \in signals : SignalOne(w) /\ signals' = signals \ {w}
    BY <1>2 DEF RxSignal
  <2>2. worker' \in [conf.workers -> WorkerSteps] /\ workload_running' \in [conf.workers -> BOOLEAN]
    BY <2>1, Zenon DEF TypeInv, SignalOne
  <2>3. margin' \in [conf.workers -> Int]
    <3>1. w \in conf.workers /\ margin[w] \in Int /\ margin[w] - 1 \in Int
      BY <2>1, <1>0
    <3>2. \E m \in Int : margin' = [margin EXCEPT ![w] = m]
      BY <2>1, <3>1, Zenon DEF SignalOne
    <3> QED BY <3>1, <3>2, <1>0
  <2> QED BY <1>2, <2>1, <2>2, <2>3, Zenon DEF TypeInv, RxSignal, statVars, copies
<1>3. CASE RxEnd
  BY <1>3, ZenonT(40) DEF TypeInv, RxEnd, workVars, statVars, copies
<1>4. CASE TxWake
  BY <1>4, Zenon DEF TypeInv, TxWake, workVars, statVars, copies
<1>14. CASE RxSleepError \/ TxWaitStop \/ TxWaitError
  BY <1>14, ZenonT(40) DEF TypeInv, RxSleepError, TxWaitStop, TxWaitError, workVars, statVars,
                           copies
<1>5. CASE TxCheck
  <2>1. PICK w \in checks : CheckOne(w) /\ checks' = checks \ {w}
    BY <1>5 DEF TxCheck
  <2>2. margin' \in [conf.workers -> Int]
    <3>1. w \in conf.workers /\ margin[w] \in Int /\ margin[w] + 1 \in Int
      BY <2>1, <1>0
    <3>2. \E m \in Int : margin' = [margin EXCEPT ![w] = m]
      BY <2>1, <3>1, Zenon DEF CheckOne
    <3> QED BY <3>1, <3>2, <1>0
  <2> QED BY <1>5, <2>1, <2>2, ZenonT(40) DEF TypeInv, TxCheck, CheckOne, statVars, copies
<1>6. CASE TxSend
  <2>1. ASSUME Count("sent")
        PROVE  global' \in Totals /\ period' \in Int /\ unreported' \in Int
    BY <2>1, CountType DEF Counters
  <2> QED BY <1>6, <2>1, ZenonT(40) DEF TypeInv, TxSend, workVars, copies
<1>7. CASE TxUpdate
  <2> USE DEF TypeInv, copies
  <2> UNCHANGED <<conf, netVars, stop, workVars>>
    BY <1>7, Zenon DEF TxUpdate
  <2>1. CASE UpdateEnter(conf.interval)
    BY <2>1, Zenon DEF UpdateEnter, netVars, workVars
  <2>2. CASE UpdateLock
    BY <2>2 DEF UpdateLock, netVars, workVars
  <2>3. CASE UpdateCopyTotal
    BY <2>3 DEF UpdateCopyTotal, netVars, workVars
  <2>4. CASE UpdateCopyPeriod
    <3>1. unreported' \in Int
      BY <2>4, Modulo DEF UpdateCopyPeriod
    <3> QED BY <2>4, <3>1 DEF UpdateCopyPeriod, netVars, workVars
  <2>5. CASE UpdateRestart
    BY <2>5 DEF UpdateRestart, netVars, workVars
  <2>6. CASE UpdateTest
    BY <2>6, Zenon DEF UpdateTest, netVars, workVars
  <2>7. CASE UpdateReset
    <3>1. \E k \in Counters : global' = [global EXCEPT ![k] = 0]
      BY <2>7, Zenon DEF UpdateReset, Counters
    <3>2. global' \in Totals
      BY <3>1, <1>0, ResetType, Zenon
    <3> QED BY <2>7, <3>2, ZenonT(40) DEF UpdateReset, netVars, workVars
  <2>8. CASE UpdateClear
    BY <2>8, Zenon DEF UpdateClear, netVars, workVars
  <2> QED BY <1>7, <2>1, <2>2, <2>3, <2>4, <2>5, <2>6, <2>7, <2>8, Zenon DEF TxUpdate, StatUpdate
<1>8. CASE TxEnd
  BY <1>8 DEF TypeInv, TxEnd, workVars, copies
<1>9. CASE \E w \in conf.workers : WorkerNext(w)
  <2>1. PICK w \in conf.workers : WorkerNext(w)
    BY <1>9
  <2>2. PICK from \in WorkerSteps, to \in WorkerSteps : WorkerStep(w, from, to)
    BY <2>1 DEF WorkerNext, WorkerTop, WorkerTimeOut, WorkerRun, WorkerClear, WorkerCount,
                WorkerSpurious
  <2>3. workload_running' \in [conf.workers -> BOOLEAN]
    BY <2>1, Zenon DEF TypeInv, WorkerNext, WorkerTop, WorkerTimeOut, WorkerRun, WorkerClear,
                WorkerCount, WorkerSpurious
  <2> QED BY <2>1, <2>2, <2>3, ZenonT(40) DEF TypeInv, WorkerNext, WorkerStep, netVars, statVars, copies
<1>10. CASE \E r \in conf.logs : LogNext(r)
  <2>1. PICK r \in conf.logs : LogNext(r)
    BY <1>10
  <2>2. \E pc, copy : ReaderSet(r, pc, copy)
    BY <2>1 DEF LogNext, ReaderNext, ReaderSleepError, ReaderLock, ReaderCopy, ReaderUnlock
  <2> QED BY <2>1, <2>2, ZenonT(60) DEF TypeInv, LogNext, ReaderSet, netVars, workVars, copies
<1>11. CASE Sigusr1
  BY <1>11, ZenonT(40) DEF TypeInv, Sigusr1, RequestReset, netVars, workVars, copies
<1>12. CASE Sigterm
  BY <1>12, ZenonT(40) DEF TypeInv, Sigterm, netVars, workVars, statVars, copies
<1>13. CASE UNCHANGED vars
  BY <1>13, ZenonT(40) DEF TypeInv, vars, netVars, workVars, statVars, copies
<1> QED
  BY <1>1, <1>2, <1>3, <1>4, <1>5, <1>6, <1>7, <1>8, <1>9, <1>10, <1>11, <1>12, <1>13, <1>14
     DEF Next, RxNext, TxNext

---------------------------------------------------------------------------
\* stat_update begins and ends with the last step of the Tx thread, and turns are
\* kept unless threads overrun.
LEMMA TurnStep ==
    ASSUME TypeInv, TurnInv, [Next]_vars
    PROVE  TurnInv'
<1>1. CASE UNCHANGED <<conf, rx, tx, turn, update>>
  BY <1>1 DEF TurnInv
<1>2. CASE RxNext
  <2>1. CASE RxReceive
    BY <2>1 DEF RxReceive, TurnInv
  <2>2. CASE RxEnd
    BY <2>2 DEF RxEnd, TurnInv, statVars
  <2>3. CASE RxSleepError
    BY <2>3 DEF RxSleepError, TurnInv, statVars
  <2> QED BY <1>1, <1>2, <2>1, <2>2, <2>3 DEF RxNext, RxSignal, statVars
<1>3. CASE TxNext
  <2>1. CASE TxWake
    BY <2>1 DEF TxWake, TxTime, TurnInv, TypeInv, statVars
  <2>2. CASE TxSend
    BY <2>2 DEF TxSend, TurnInv
  <2>3. CASE TxUpdate
    BY <2>3, Zenon DEF TxUpdate, StatUpdate, UpdateEnter, UpdateLock, UpdateCopyTotal, UpdateCopyPeriod,
                UpdateRestart, UpdateTest, UpdateReset, UpdateClear, TurnInv, netVars
  <2>4. CASE TxEnd
    BY <2>4 DEF TxEnd, TurnInv
  <2>5. CASE TxWaitStop
    BY <2>5 DEF TxWaitStop, TurnInv, TypeInv, statVars
  <2>6. CASE TxWaitError
    BY <2>6 DEF TxWaitError, TurnInv, TypeInv, statVars
  <2> QED BY <1>1, <1>3, <2>1, <2>2, <2>3, <2>4, <2>5, <2>6 DEF TxNext, TxCheck, statVars
<1>4. CASE \E w \in conf.workers : WorkerNext(w)
  BY <1>1, <1>4 DEF WorkerNext, netVars, statVars
<1>5. ASSUME NEW r \in conf.logs, LogNext(r)
      PROVE  TurnInv'
  BY <1>1, <1>5 DEF LogNext, ReaderNext, ReaderSleepError, ReaderLock, ReaderCopy, ReaderUnlock,
                    ReaderSet, netVars
<1>6. CASE Sigusr1 \/ Sigterm \/ UNCHANGED vars
  BY <1>1, <1>6 DEF Sigusr1, RequestReset, Sigterm, vars, netVars, statVars
<1> QED
  BY <1>2, <1>3, <1>4, <1>5, <1>6 DEF Next

\* The steps of the logging threads and of stat_update keep who holds the mutex.
LEMMA LockStep ==
    ASSUME TypeInv, TurnInv, LockInv, [Next]_vars
    PROVE  LockInv'
<1>0. conf.logs \subseteq {"log", "mqtt"} /\ DOMAIN reader = conf.logs
  BY ConfigParts DEF TypeInv, Readers
<1>1. CASE UNCHANGED <<conf, mutex, update, reader, copies>>
  BY <1>1 DEF LockInv, Copying, Source, copies
<1>2. CASE TxSend
  BY <1>2 DEF TxSend, TurnInv, LockInv, Copying, Source, copies
<1>3. CASE TxEnd
  BY <1>3 DEF TxEnd, LockInv, Copying, Source, copies
<1>4. CASE TxUpdate
  <2>0. UNCHANGED <<conf, reader>>
    BY <1>4, Zenon DEF TxUpdate, StatUpdate, UpdateEnter, UpdateLock, UpdateCopyTotal, UpdateCopyPeriod,
                UpdateRestart, UpdateTest, UpdateReset, UpdateClear
  <2>1. CASE UpdateLock
    BY <1>0, <2>0, <2>1 DEF UpdateLock, LockInv, Copying, Source, copies
  <2>2. CASE UpdateCopyTotal \/ UpdateCopyPeriod
    <3>1. mutex = "update" /\ mutex' = "update" /\ Copying'
      BY <2>2 DEF UpdateCopyTotal, UpdateCopyPeriod, LockInv, Copying
    <3>2. \A r \in conf.logs : reader[r].pc \notin {"copy", "unlock"}
      BY <1>0, <3>1 DEF LockInv
    <3> QED BY <1>0, <2>0, <3>1, <3>2 DEF LockInv
  <2>3. CASE UpdateRestart
    <3>1. mutex = "update" /\ mutex' = "none" /\ ~Copying'
      BY <2>3 DEF UpdateRestart, LockInv, Copying
    <3>2. \A r \in conf.logs : reader[r].pc \notin {"copy", "unlock"}
      BY <1>0, <3>1 DEF LockInv
    <3> QED BY <1>0, <2>0, <3>1, <3>2 DEF LockInv
  <2>4. CASE UpdateEnter(conf.interval) \/ UpdateTest \/ UpdateReset \/ UpdateClear
    <3>1. UNCHANGED <<mutex, copies>> /\ ~Copying /\ ~Copying'
      BY <2>4, Zenon DEF UpdateEnter, UpdateTest, UpdateReset, UpdateClear, Copying
    <3> QED BY <2>0, <3>1 DEF LockInv, Source, copies
  <2> QED BY <1>4, <2>1, <2>2, <2>3, <2>4 DEF TxUpdate, StatUpdate
<1>5. ASSUME NEW r \in conf.logs, LogNext(r)
      PROVE  LockInv'
  <2>0. r \in DOMAIN reader /\ r # "none" /\ r # "update" /\ UNCHANGED <<conf, update, copies>>
    BY <1>0, <1>5 DEF LogNext, ReaderNext, ReaderSleepError, ReaderLock, ReaderCopy, ReaderUnlock,
                      ReaderSet
  <2>1. \A q \in conf.logs : q # r => reader'[q] = reader[q]
    BY <1>0, <1>5 DEF LogNext, ReaderNext, ReaderSleepError, ReaderLock, ReaderCopy, ReaderUnlock,
                      ReaderSet
  <2>2. CASE ReaderSleepError(r)
    <3>1. reader'[r].pc = "done" /\ mutex' = mutex /\ mutex # r
      BY <2>0, <2>2 DEF ReaderSleepError, ReaderSet, LockInv
    <3> QED BY <1>0, <2>0, <2>1, <3>1 DEF LockInv, Copying, Source, copies
  <2>3. CASE ReaderLock(r)
    <3>1. reader'[r].pc = "copy" /\ mutex = "none" /\ mutex' = r
      BY <2>0, <2>3 DEF ReaderLock, ReaderSet
    <3> QED BY <1>0, <2>0, <2>1, <3>1 DEF LockInv, Copying, Source, copies
  <2>4. CASE ReaderCopy(r)
    <3>1. /\ reader'[r].pc = "unlock" /\ reader'[r].copy = Source(r)
          /\ mutex = r /\ mutex' = r
      BY <2>0, <2>4 DEF ReaderCopy, ReaderSet, LockInv
    <3> QED BY <1>0, <2>0, <2>1, <3>1 DEF LockInv, Copying, Source, copies
  <2>5. CASE ReaderUnlock(r, stop)
    <3>1. reader'[r].pc \in {"sleep", "done"} /\ mutex = r /\ mutex' = "none"
      BY <2>0, <2>5, SMTT(40) DEF ReaderUnlock, ReaderSet, LockInv
    <3> QED BY <1>0, <2>0, <2>1, <3>1 DEF LockInv, Copying, Source, copies
  <2> QED BY <1>5, <2>2, <2>3, <2>4, <2>5 DEF LogNext, ReaderNext
<1>6. CASE RxNext \/ TxWake \/ TxWaitStop \/ TxWaitError \/ TxCheck \/ Sigusr1 \/ Sigterm
           \/ UNCHANGED vars
  BY <1>1, <1>6 DEF RxNext, RxReceive, RxSleepError, RxSignal, RxEnd, TxWake, TxWaitStop,
                    TxWaitError, TxCheck, Sigusr1, RequestReset, Sigterm, vars, statVars
<1>7. CASE \E w \in conf.workers : WorkerNext(w)
  BY <1>1, <1>7 DEF WorkerNext, statVars
<1> QED
  BY <1>2, <1>3, <1>4, <1>5, <1>6, <1>7, SMTT(40) DEF Next, TxNext

\* As long as turns are kept, no thread counts while stat_update runs.
LEMMA NoCountInUpdate ==
    ASSUME TypeInv, TurnInv, "overrun" \notin conf.faults, RxReceive \/ TxSend
    PROVE  update = "idle"
BY Zenon DEF TurnInv, TypeInv, UpdateSteps, RxReceive, TxSend, RxSteps

\* Frames counted and frames reported stay balanced.
LEMMA PeriodStep ==
    ASSUME TypeInv, TurnInv, PeriodInv, [Next]_vars
    PROVE  PeriodInv'
<1> SUFFICES ASSUME "overrun" \notin conf.faults
    PROVE  PeriodInv'
  <2>1. conf' = conf
    BY DEF Next, RxNext, RxReceive, RxSleepError, RxSignal, RxEnd, TxNext, TxWake, TxWaitStop,
           TxWaitError, TxCheck, TxSend, TxUpdate, TxEnd, WorkerNext, LogNext, Sigusr1, Sigterm, vars
  <2> QED BY <2>1, SMTT(40) DEF PeriodInv
<1>0. unreported = IF update = "restart" THEN 0 ELSE period
  BY DEF PeriodInv
<1>1. CASE UNCHANGED <<conf, unreported, period, update>>
  BY <1>1 DEF PeriodInv
<1>2. CASE RxReceive
  <2>1. update = "idle" /\ update' = "idle"
    BY <1>2, NoCountInUpdate DEF RxReceive
  <2> QED BY <1>0, <1>2, <2>1 DEF RxReceive, Count, PeriodInv
<1>3. CASE TxSend
  <2>1. update = "idle" /\ update' = "enter"
    BY <1>3, NoCountInUpdate DEF TxSend
  <2> QED BY <1>0, <1>3, <2>1 DEF TxSend, Count, PeriodInv
<1>4. CASE TxUpdate
  <2>1. CASE UpdateCopyPeriod
    <3>1. unreported - period = 0
      BY <1>0, <2>1 DEF UpdateCopyPeriod, TypeInv
    <3> QED BY <2>1, <3>1, Modulo DEF UpdateCopyPeriod, PeriodInv
  <2>2. CASE UpdateRestart
    BY <1>0, <2>2 DEF UpdateRestart, PeriodInv
  <2>3. CASE \/ UpdateEnter(conf.interval) \/ UpdateLock \/ UpdateCopyTotal
             \/ UpdateTest \/ UpdateReset \/ UpdateClear
    BY <1>0, <2>3, Zenon DEF UpdateEnter, UpdateLock, UpdateCopyTotal, UpdateTest, UpdateReset,
                      UpdateClear, PeriodInv
  <2> QED BY <1>4, <2>1, <2>2, <2>3 DEF TxUpdate, StatUpdate
<1>5. CASE TxEnd
  BY <1>0, <1>5 DEF TxEnd, PeriodInv
<1>6. CASE \E w \in conf.workers : WorkerNext(w)
  BY <1>1, <1>6 DEF WorkerNext, statVars
<1>7. ASSUME NEW r \in conf.logs, LogNext(r)
      PROVE  PeriodInv'
  BY <1>1, <1>7, SMTT(40) DEF LogNext, ReaderNext, ReaderSleepError, ReaderLock, ReaderCopy, ReaderUnlock,
                    ReaderSet
<1>8. CASE RxSleepError \/ RxSignal \/ RxEnd \/ TxWake \/ TxWaitStop \/ TxWaitError \/ TxCheck
           \/ Sigusr1 \/ Sigterm \/ UNCHANGED vars
  BY <1>1, <1>8 DEF RxSleepError, TxWaitStop, TxWaitError, RxSignal, RxEnd, TxWake, TxCheck, Sigusr1, RequestReset, Sigterm, vars,
                    statVars
<1> QED
  BY <1>2, <1>3, <1>4, <1>5, <1>6, <1>7, <1>8 DEF Next, RxNext, TxNext

\* A request for a reset is cleared only when nothing stale is left, also when
\* another one arrives during the reset.
LEMMA ResetStep ==
    ASSUME TypeInv, TurnInv, ResetInv, [Next]_vars
    PROVE  ResetInv'
<1> SUFFICES ASSUME "overrun" \notin conf.faults
    PROVE  ResetInv'
  <2>1. conf' = conf
    BY DEF Next, RxNext, RxReceive, RxSleepError, RxSignal, RxEnd, TxNext, TxWake, TxWaitStop,
           TxWaitError, TxCheck, TxSend, TxUpdate, TxEnd, WorkerNext, LogNext, Sigusr1, Sigterm, vars
  <2> QED BY <2>1, Zenon DEF ResetInv
<1>0. /\ ~reset_stats => stale = {}
      /\ update = "reset received" => global["sent"] = 0 /\ stale \subseteq {"received"}
      /\ update = "clear" => global = Zero /\ stale = {}
  BY Zenon DEF ResetInv
<1>1. CASE UNCHANGED <<conf, reset_stats, stale, global, update>>
  BY <1>1, Zenon DEF ResetInv
<1>2. CASE RxReceive
  <2>1. update = "idle" /\ update' = "idle" /\ UNCHANGED <<reset_stats, stale>>
    BY <1>2, NoCountInUpdate DEF RxReceive
  <2> QED BY <1>0, <2>1 DEF ResetInv
<1>3. CASE TxSend
  <2>1. update' = "enter" /\ UNCHANGED <<reset_stats, stale>>
    BY <1>3 DEF TxSend
  <2> QED BY <1>0, <2>1, Zenon DEF ResetInv
<1>4. CASE TxUpdate
  <2>1. CASE UpdateReset
    <3>1. CASE update = "reset sent"
      <4>1. /\ global' = [global EXCEPT !["sent"] = 0] /\ stale' = stale \ {"sent"}
            /\ update' = "reset received" /\ reset_stats' = reset_stats
        BY <2>1, <3>1, Zenon DEF UpdateReset
      <4>2. global'["sent"] = 0 /\ stale' \subseteq {"received"}
        BY <4>1, Zenon DEF TypeInv, Totals, Counters
      <4> QED BY <1>0, <4>1, <4>2, Zenon DEF ResetInv
    <3>2. CASE update = "reset received"
      <4>1. /\ global' = [global EXCEPT !["received"] = 0] /\ stale' = stale \ {"received"}
            /\ update' = "clear" /\ reset_stats' = reset_stats
        BY <2>1, <3>2, Zenon DEF UpdateReset
      <4>2. global \in [Counters -> 0 .. MaxTotal]
        BY DEF TypeInv, Totals
      <4>3. global' = Zero
        BY <1>0, <3>2, <4>1, <4>2, Zenon DEF Zero, Counters
      <4>4. stale' = {}
        BY <1>0, <3>2, <4>1, Zenon
      <4> QED BY <4>1, <4>3, <4>4, Zenon DEF ResetInv
    <3> QED BY <2>1, <3>1, <3>2, Zenon DEF UpdateReset
  <2>2. CASE UpdateClear
    BY <1>0, <2>2 DEF UpdateClear, ResetInv
  <2>3. CASE \/ UpdateEnter(conf.interval) \/ UpdateLock \/ UpdateCopyTotal
             \/ UpdateCopyPeriod \/ UpdateRestart \/ UpdateTest
    BY <1>0, <2>3, ZenonT(40) DEF UpdateEnter, UpdateLock, UpdateCopyTotal, UpdateCopyPeriod, UpdateRestart,
                      UpdateTest, ResetInv
  <2> QED BY <1>4, <2>1, <2>2, <2>3 DEF TxUpdate, StatUpdate
<1>5. CASE TxEnd
  BY <1>0, <1>5 DEF TxEnd, ResetInv
<1>6. CASE \E w \in conf.workers : WorkerNext(w)
  BY <1>1, <1>6 DEF WorkerNext, statVars
<1>7. ASSUME NEW r \in conf.logs, LogNext(r)
      PROVE  ResetInv'
  BY <1>1, <1>7 DEF LogNext, ReaderNext, ReaderSleepError, ReaderLock, ReaderCopy, ReaderUnlock,
                    ReaderSet
<1>8. CASE Sigusr1
  <2>1. /\ reset_stats' = TRUE /\ stale' = {k \in Counters : global[k] > 0}
        /\ UNCHANGED <<conf, global, update>>
    BY <1>8 DEF Sigusr1, RequestReset
  <2>2. update = "reset received" => stale' \subseteq {"received"}
    <3>1. ASSUME update = "reset received", NEW k \in stale'
          PROVE  k = "received"
      <4>1. k \in Counters /\ global[k] > 0 /\ global["sent"] = 0
        BY <1>0, <2>1, <3>1, Zenon
      <4>2. k # "sent"
        BY <4>1
      <4> QED BY <4>1, <4>2 DEF Counters
    <3> QED BY <3>1, Zenon
  <2>3. update = "clear" => stale' = {}
    BY <1>0, <2>1, SMTT(40) DEF Zero
  <2> QED BY <1>0, <2>1, <2>2, <2>3, ZenonT(40) DEF ResetInv
<1>9. CASE RxSleepError \/ RxSignal \/ RxEnd \/ TxWake \/ TxWaitStop \/ TxWaitError \/ TxCheck
           \/ Sigterm \/ UNCHANGED vars
  BY <1>1, <1>9, SMTT(40) DEF RxSleepError, TxWaitStop, TxWaitError, RxSignal, RxEnd, TxWake, TxCheck, Sigterm, vars, statVars
<1> QED
  BY <1>2, <1>3, <1>4, <1>5, <1>6, <1>7, <1>8, <1>9 DEF Next, RxNext, TxNext

\* Each step keeps the account of lost activations and overruns seen.
LEMMA WorkStep ==
    ASSUME TypeInv, TurnInv, WorkInv, [Next]_vars
    PROVE  WorkInv'
<1> SUFFICES ASSUME conf.faults = {}, ~stop, ~stop'
    PROVE  Alternate' /\ (\A w \in conf.workers : Seen(w))'
  <2>1. conf' = conf /\ (stop => stop')
    BY SMTT(40) DEF Next, RxNext, RxReceive, RxSleepError, RxSignal, RxEnd, TxNext, TxWake, TxWaitStop,
           TxWaitError, TxCheck, TxSend, TxUpdate, TxEnd, WorkerNext, LogNext, Sigusr1, Sigterm, vars
  <2> QED BY <2>1, SMTT(40) DEF WorkInv
<1>0. /\ Alternate /\ \A w \in conf.workers : Seen(w)
      /\ turn \in {"rx", "tx"} /\ rx \in {"sleep", "signal"} /\ tx \in {"sleep", "check", "update"}
      /\ signals \subseteq conf.workers /\ checks \subseteq conf.workers
      /\ margin \in [conf.workers -> Int]
      /\ worker \in [conf.workers -> WorkerSteps]
      /\ workload_running \in [conf.workers -> BOOLEAN]
  BY DEF WorkInv, TypeInv, Alternate, RxSteps, TxSteps
<1>1. CASE UNCHANGED <<conf, netVars, workVars>>
  BY <1>0, <1>1 DEF Alternate, Seen, Between, Busy, netVars, workVars
<1>2. CASE RxReceive
  <2>1. /\ turn = "rx" /\ turn' = "rx" /\ rx = "sleep" /\ rx' = "signal" /\ tx = "sleep"
        /\ UNCHANGED <<conf, tx, worker, workload_running, margin>>
    BY <1>0, <1>2 DEF RxReceive, Alternate, workVars
  <2>2. Alternate'
    BY <2>1 DEF Alternate
  <2>3. ASSUME NEW w \in conf.workers PROVE Seen(w)'
    <3>1. Seen(w) /\ ~Between(w) /\ margin[w] \in Int
      BY <1>0, <2>1 DEF Between
    <3> QED BY <2>1, <3>1, SMTT(40) DEF Seen, Busy
  <2> QED BY <2>1, <2>2, <2>3
<1>3. CASE RxSignal
  <2>1. PICK v \in signals : SignalOne(v) /\ signals' = signals \ {v}
    BY <1>3 DEF RxSignal
  <2>2. /\ turn = "rx" /\ rx = "signal" /\ v \in conf.workers
        /\ UNCHANGED <<conf, rx, tx, turn>>
    BY <1>0, <1>3 DEF RxSignal, Alternate
  <2>3. ASSUME NEW w \in conf.workers, w # v PROVE Seen(w)'
    <3>1. /\ worker'[w] = worker[w] /\ workload_running'[w] = workload_running[w]
          /\ margin'[w] = margin[w]
      BY <1>0, <2>1, <2>3 DEF SignalOne
    <3>2. Between(w)' <=> Between(w)
      BY <2>1, <2>2, <2>3 DEF Between
    <3> QED BY <1>0, <3>1, <3>2 DEF Seen, Busy
  <2>4. Seen(v)'
    <3>1. Seen(v) /\ ~Between(v) /\ Between(v)' /\ margin[v] \in Int
      BY <1>0, <2>1, <2>2 DEF Between
    <3>2. workload_running'[v] = TRUE
      BY <1>0, <2>1, <2>2 DEF SignalOne
    <3>3. worker'[v] = IF worker[v] = "wait" THEN "woken" ELSE worker[v]
      BY <1>0, <2>1, <2>2 DEF SignalOne
    <3>4. margin'[v] = IF worker[v] # "wait" /\ margin[v] > MinMargin THEN margin[v] - 1 ELSE margin[v]
      BY <1>0, <2>1, <2>2 DEF SignalOne
    <3> QED BY <3>1, <3>2, <3>3, <3>4 DEF Seen, Busy, MinMargin
  <2>5. Alternate'
    BY <1>0, <2>2, SMTT(40) DEF Alternate
  <2> QED BY <2>2, <2>3, <2>4, <2>5
<1>4. CASE RxEnd
  <2>1. /\ turn = "rx" /\ turn' = "tx" /\ rx = "signal" /\ rx' = "sleep" /\ tx = "sleep"
        /\ signals = {} /\ UNCHANGED <<conf, tx, worker, workload_running, margin>>
    BY <1>0, <1>4 DEF RxEnd, Alternate, workVars
  <2>2. \A w \in conf.workers : Between(w) /\ Between(w)'
    BY <2>1, SMTT(40) DEF Between
  <2> QED BY <1>0, <2>1, <2>2 DEF Seen, Busy, Alternate
<1>5. CASE TxWake
  <2>1. /\ turn = "tx" /\ tx = "sleep" /\ tx' = "check" /\ checks' = conf.workers
        /\ UNCHANGED <<conf, rx, turn, worker, workload_running, margin>>
    BY <1>0, <1>5, SMTT(40) DEF TxWake, TxTime, Alternate, workVars
  <2>2. \A w \in conf.workers : Between(w) /\ Between(w)'
    BY <2>1 DEF Between
  <2> QED BY <1>0, <2>1, <2>2, SMTT(40) DEF Seen, Busy, Alternate
<1>6. CASE TxCheck
  <2>1. PICK v \in checks : CheckOne(v) /\ checks' = checks \ {v}
    BY <1>6, SMTT(40) DEF TxCheck
  <2>2. /\ turn = "tx" /\ tx = "check" /\ v \in conf.workers
        /\ UNCHANGED <<conf, rx, signals, tx, turn, worker, workload_running>>
    BY <1>0, <1>6, <2>1, SMTT(40) DEF TxCheck, CheckOne, Alternate
  <2>3. ASSUME NEW w \in conf.workers, w # v PROVE Seen(w)'
    <3>1. margin'[w] = margin[w]
      BY <1>0, <2>1, <2>3, SMTT(40) DEF CheckOne
    <3>2. Between(w)' <=> Between(w)
      BY <2>1, <2>2, <2>3, SMTT(40) DEF Between
    <3> QED BY <1>0, <2>2, <3>1, <3>2 DEF Seen, Busy
  <2>4. Seen(v)'
    <3>1. Seen(v) /\ Between(v) /\ ~Between(v)' /\ margin[v] \in Int
      BY <1>0, <2>1, <2>2 DEF Between
    <3>2. margin'[v] = IF workload_running[v] = TRUE /\ margin[v] < MaxMargin
                      THEN margin[v] + 1 ELSE margin[v]
      BY <1>0, <2>1, <2>2 DEF CheckOne
    <3> QED BY <2>2, <3>1, <3>2 DEF Seen, Busy, MaxMargin
  <2>5. Alternate'
    BY <1>0, <2>2, SMTT(40) DEF Alternate
  <2> QED BY <2>2, <2>3, <2>4, <2>5
<1>7. CASE TxSend
  <2>1. /\ turn = "tx" /\ tx = "check" /\ checks = {} /\ tx' = "update"
        /\ UNCHANGED <<conf, rx, turn, worker, workload_running, margin>>
    BY <1>0, <1>7 DEF TxSend, Alternate, workVars
  <2>2. \A w \in conf.workers : ~Between(w) /\ ~Between(w)'
    BY <2>1, SMTT(40) DEF Between
  <2> QED BY <1>0, <2>1, <2>2, SMTT(40) DEF Seen, Busy, Alternate
<1>8. CASE TxEnd
  <2>1. /\ turn = "tx" /\ tx = "update" /\ turn' = "rx" /\ tx' = "sleep" /\ rx = "sleep"
        /\ UNCHANGED <<conf, rx, worker, workload_running, margin>>
    BY <1>0, <1>8 DEF TxEnd, Alternate, workVars
  <2>2. \A w \in conf.workers : ~Between(w) /\ ~Between(w)'
    BY <2>1 DEF Between
  <2> QED BY <1>0, <2>1, <2>2 DEF Seen, Busy, Alternate
<1>9. ASSUME NEW v \in conf.workers, WorkerNext(v)
      PROVE  Alternate' /\ (\A w \in conf.workers : Seen(w))'
  <2>1. UNCHANGED <<conf, rx, signals, tx, checks, turn, margin>>
    BY <1>9 DEF WorkerNext, WorkerTop, WorkerTimeOut, WorkerRun, WorkerClear, WorkerCount,
                WorkerSpurious, WorkerStep, netVars
  <2>2. ASSUME NEW w \in conf.workers, w # v PROVE Seen(w)'
    <3>1. worker'[w] = worker[w] /\ workload_running'[w] = workload_running[w]
      BY <1>0, <1>9, <2>2, SMTT(40)
         DEF WorkerNext, WorkerTop, WorkerTimeOut, WorkerRun, WorkerClear, WorkerCount,
             WorkerSpurious, WorkerStep
    <3> QED BY <1>0, <2>1, <3>1 DEF Seen, Between, Busy
  <2>3. Seen(v)'
    <3>1. Seen(v) /\ (Between(v)' <=> Between(v)) /\ margin[v] \in Int
      BY <1>0, <2>1, SMTT(40) DEF Between
    <3>2. CASE WorkerClear(v)
      <4>1. worker[v] = "ran" /\ worker'[v] = "count"
        BY <1>0, <3>2, SMTT(40) DEF WorkerClear, WorkerStep
      <4> QED BY <2>1, <3>1, <4>1 DEF Seen, Busy
    <3>3. CASE WorkerRun(v)
      <4>1. worker[v] = "woken" /\ worker'[v] = "ran" /\ workload_running' = workload_running
        BY <1>0, <3>3, SMTT(40) DEF WorkerRun, WorkerStep
      <4> QED BY <2>1, <3>1, <4>1 DEF Seen, Busy
    <3>4. CASE WorkerTop(v, stop) \/ WorkerTimeOut(v) \/ WorkerCount(v)
      <4>1. /\ worker[v] \in {"top", "wait", "count"} /\ worker'[v] \in {"top", "wait"}
            /\ workload_running' = workload_running
        BY <1>0, <3>4, SMTT(40) DEF WorkerTop, WorkerTimeOut, WorkerCount, WorkerStep
      <4> QED BY <2>1, <3>1, <4>1 DEF Seen, Busy
    <3> QED BY <1>9, <3>2, <3>3, <3>4 DEF WorkerNext
  <2>4. Alternate'
    BY <1>0, <2>1, SMTT(40) DEF Alternate
  <2> QED BY <2>1, <2>2, <2>3, <2>4
<1>12. ~RxSleepError /\ ~TxWaitStop /\ ~TxWaitError
  BY DEF RxSleepError, TxWaitStop, TxWaitError
<1>10. CASE TxUpdate \/ Sigusr1 \/ Sigterm \/ UNCHANGED vars
  BY <1>1, <1>10 DEF TxUpdate, Sigusr1, Sigterm, vars
<1>11. ASSUME NEW r \in conf.logs, LogNext(r)
       PROVE  UNCHANGED <<conf, netVars, workVars>>
  BY <1>11 DEF LogNext
<1> QED
  BY <1>1, <1>2, <1>3, <1>4, <1>5, <1>6, <1>7, <1>8, <1>9, <1>10, <1>11, <1>12, Zenon
     DEF Next, RxNext, TxNext

---------------------------------------------------------------------------
\* The inductive invariant.
Inv == TypeInv /\ TurnInv /\ LockInv /\ PeriodInv /\ ResetInv /\ WorkInv

\* It holds when the threads start.
LEMMA InvInit == Init => Inv
<1> SUFFICES ASSUME Init PROVE Inv
  OBVIOUS
<1>1. TypeInv
  <2>1. Zero \in Totals
    BY DEF Zero, Totals, MaxTotal
  <2>2. /\ DOMAIN reader = conf.logs /\ margin \in [conf.workers -> Int]
        /\ worker \in [conf.workers -> WorkerSteps]
        /\ workload_running \in [conf.workers -> BOOLEAN]
    BY DEF Init, WorkInit, StatInit, WorkerSteps
  <2>3. /\ conf \in Configs /\ rx \in RxSteps /\ tx \in TxSteps /\ turn \in {"rx", "tx"}
        /\ stop \in BOOLEAN /\ signals = {} /\ checks = {}
    BY Zenon DEF Init, RxSteps, TxSteps
  <2>4. /\ global \in Totals /\ global_for_log \in Totals
        /\ period = 0 /\ period_for_log = 0 /\ unreported = 0
        /\ reset_stats \in BOOLEAN /\ update \in UpdateSteps /\ stale = {}
    BY <2>1, ZenonT(40) DEF Init, StatInit, UpdateSteps
  <2> QED BY <2>2, <2>3, <2>4 DEF TypeInv
<1>2. TurnInv /\ PeriodInv /\ ResetInv
  BY DEF Init, StatInit, TurnInv, PeriodInv, ResetInv
<1>3. LockInv
  BY <1>1, ConfigParts, SMTT(40) DEF Init, StatInit, LockInv, Copying, Readers
<1>4. WorkInv
  BY DEF Init, WorkInit, WorkInv, Alternate, Seen, Busy, Between
<1> QED BY <1>1, <1>2, <1>3, <1>4 DEF Inv

\* Every step keeps it.
LEMMA InvStep == Inv /\ [Next]_vars => Inv'
BY TypeStep, TurnStep, LockStep, PeriodStep, ResetStep, WorkStep DEF Inv

\* It holds in every behaviour.
LEMMA Invariant == Spec => []Inv
BY InvInit, InvStep, PTL DEF Spec

\* A logging thread never sees a mixture of two updates (stat_get_global_stats,
\* stat_get_stats_per_period against the copies of stat_update), whatever the
\* faults.
THEOREM ReadersConsistent == Spec => []ReadsOneUpdate
<1>1. Inv => ReadsOneUpdate
  <2> SUFFICES ASSUME Inv, NEW r \in conf.logs, reader[r].pc = "unlock"
      PROVE  reader[r].copy = Source(r) /\ ~Copying
    BY DEF ReadsOneUpdate
  <2>1. r # "update"
    BY ConfigParts DEF Inv, Readers
  <2> QED BY <2>1 DEF Inv, LockInv
<1> QED BY <1>1, Invariant, PTL

\* Every frame is accounted for in exactly one period handed to MQTT, unless
\* threads overrun their cycle (stat_update).
THEOREM PeriodsBalance == Spec => []PeriodsAddUp
<1>1. Inv => PeriodsAddUp
  BY DEF Inv, PeriodInv, PeriodsAddUp
<1> QED BY <1>1, Invariant, PTL

\* Once no reset is pending, the totals hold nothing from before the last
\* SIGUSR1, unless threads overrun their cycle (stat_update, reset_stats_handler).
THEOREM ResetsComplete == Spec => []ResetIsComplete
<1>1. Inv => ResetIsComplete
  BY ZenonT(40) DEF Inv, ResetInv, ResetIsComplete
<1> QED BY <1>1, Invariant, PTL

\* Every activation a workload thread misses is an overrun that the Tx thread has
\* seen or is about to see (workload_signal, workload_check_finished), for any
\* number of workload threads, as long as Rx and Tx alternate and no wait ends
\* spuriously.
THEOREM OverrunsNoticed == Spec => []LostActivationsAreSeen
<1>1. Inv => LostActivationsAreSeen
  <2> SUFFICES ASSUME Inv, conf.faults = {}, ~stop, NEW w \in conf.workers
      PROVE  margin[w] + (IF workload_running[w] /\ (turn = "tx" \/ rx = "signal")
                          THEN 1 ELSE 0) >= 0
    BY DEF LostActivationsAreSeen
  <2>1. Seen(w) /\ margin[w] \in Int
    BY DEF Inv, WorkInv, TypeInv
  <2>2. Between(w) => turn = "tx" \/ rx = "signal"
    BY DEF Between
  <2> QED BY <2>1, <2>2 DEF Seen, Busy
<1> QED BY <1>1, Invariant, PTL
===========================================================================
