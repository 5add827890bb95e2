----------------------------- MODULE TxChain ------------------------------
(***************************************************************************)
(* The Tx side of a running instance: the Tx threads of the active classes *)
(* (tc_tx_thread, tc_xdp_tx_thread and udp_tx_thread_routine), which start *)
(* each other along the chain with a condition variable, the TxGen threads *)
(* of the burst classes, and the termination handler.                      *)
(*                                                                         *)
(* The condition variable has no predicate: a signal to a thread that is   *)
(* not waiting is lost, and nothing holds the first class back when the    *)
(* others are late.  A wait ends after one second at the latest.           *)
(*                                                                         *)
(* turns, marks, bursts and updates are history variables.  They saturate  *)
(* at Cap, which keeps the state space finite and preserves <= between     *)
(* counters, while cycles go on for ever.                                  *)
(***************************************************************************)
EXTENDS TrafficClasses

CONSTANTS
    Configs,        \* the configurations to start from
    Cap             \* bound of the history counters

ASSUME TxChainAssumption ==
    /\ Configs \subseteq
          [active : SUBSET PnClasses, mirror : BOOLEAN, late : BOOLEAN, spurious : BOOLEAN,
           clock_fails : BOOLEAN]
    /\ \A c \in Configs : FirstClass(c.active) # Null
    /\ Cap \in Nat \ {0}

VARIABLES
    conf,           \* configuration, and what may go wrong
    tx,             \* where the Tx thread of each class is
    num_frames,     \* whether its local num_frames is not 0
    available,      \* whether num_frames_available is not 0
    gen,            \* where the TxGen thread of each class is
    stop,           \* ctx->stop
    handler,        \* next class whose flag term_handler sets; Null: not called
    turns, marks, bursts, updates

history == <<turns, marks, bursts, updates>>
vars == <<conf, tx, num_frames, available, gen, stop, handler, history>>

\* Active PROFINET classes, at least one of them cyclic.
Active == conf.active

\* rx_mirror_enabled: received frames instead of generated ones.
Mirror == conf.mirror

\* A wait may time out while the predecessor runs, pthread_cond_timedwait may
\* wake up by itself, clock_nanosleep may fail.
Late == conf.late
Spurious == conf.spurious
ClockFails == conf.clock_fails

next == find_next_pn_thread(Active)
First == FirstClass(Active)
Last == EndOfChain(next, First)

\* The Tx threads that a class c hears from.
Predecessors(c) == {p \in Active : next[p] = c}

\* Burst classes have a TxGen thread unless they mirror.
Generators == IF Mirror THEN {} ELSE {c \in Active : IsBurst(c)}

\* The value of handler once term_handler has returned.
HandlerReturned == GenericL2

Count(n) == IF n < Cap THEN n + 1 ELSE n

Init ==
    /\ conf \in Configs
    /\ tx = [c \in Active |-> "loop"]
    /\ num_frames = [c \in Active |-> FALSE]
    /\ available = [c \in Active |-> FALSE]
    /\ gen = [c \in Generators |-> "loop"]
    /\ stop = [c \in Active |-> FALSE]
    /\ handler = Null
    /\ turns = [c \in Active |-> 0]
    /\ marks = [c \in Generators |-> 0]
    /\ bursts = [c \in Generators |-> 0]
    /\ updates = 0

Goto(c, place) == tx' = [tx EXCEPT ![c] = place]

---------------------------------------------------------------------------
\* Mutant of TxLoop: the loop does not end.
TxLoopIgnoresStop(c) ==
    /\ tx[c] = "loop"
    /\ Goto(c, IF c = First THEN "sleep" ELSE "wait")
    /\ UNCHANGED <<conf, num_frames, available, gen, stop, handler, history>>

\* The head of the loop: leave it, or start to wait.  The first class sleeps
\* until its next period, the others wait on their condition variable.
TxLoop(c) ==
    /\ tx[c] = "loop"
    /\ Goto(c, IF stop[c] THEN "done" ELSE IF c = First THEN "sleep" ELSE "wait")
    /\ UNCHANGED <<conf, num_frames, available, gen, stop, handler, history>>

\* tc_sleep_until returns: the class sends num_frames_per_cycle frames.
TxSleep(c) ==
    /\ tx[c] = "sleep"
    /\ Goto(c, "send")
    /\ num_frames' = [num_frames EXCEPT ![c] = TRUE]
    /\ UNCHANGED <<conf, available, gen, stop, handler, history>>

\* clock_nanosleep fails: the thread returns.
TxSleepError(c) ==
    /\ ClockFails /\ tx[c] = "sleep"
    /\ Goto(c, "done")
    /\ UNCHANGED <<conf, num_frames, available, gen, stop, handler, history>>

\* pthread_cond_timedwait ends without a signal, by itself or after a second.
WakeUp(c) ==
    /\ Spurious /\ tx[c] = "wait"
    /\ Goto(c, "signalled")
    /\ UNCHANGED <<conf, num_frames, available, gen, stop, handler, history>>

TimeOut(c) ==
    /\ tx[c] = "wait"
    /\ Late \/ \A p \in Predecessors(c) : tx[p] = "done"
    /\ Goto(c, "timedout")
    /\ UNCHANGED <<conf, num_frames, available, gen, stop, handler, history>>

\* Mutant of TxWaited: the result of the wait is ignored.
TxWaitedSends(c) ==
    /\ tx[c] \in {"signalled", "timedout"}
    /\ Goto(c, "send")
    /\ num_frames' = [num_frames EXCEPT ![c] = IsBurst(c) => available[c]]
    /\ available' = [available EXCEPT ![c] = FALSE]
    /\ UNCHANGED <<conf, gen, stop, handler, history>>

\* Mutant of TxWaited: num_frames_available is not reset.
TxWaitedKeeps(c) ==
    /\ tx[c] \in {"signalled", "timedout"}
    /\ Goto(c, IF tx[c] = "signalled" THEN "send" ELSE "loop")
    /\ num_frames' = [num_frames EXCEPT ![c] = IsBurst(c) => available[c]]
    /\ UNCHANGED <<conf, available, gen, stop, handler, history>>

\* Mutant of TxWaited: num_frames_available is reset before it is read.
TxWaitedForgets(c) ==
    /\ tx[c] \in {"signalled", "timedout"}
    /\ Goto(c, IF tx[c] = "signalled" THEN "send" ELSE "loop")
    /\ num_frames' = [num_frames EXCEPT ![c] = ~IsBurst(c)]
    /\ available' = [available EXCEPT ![c] = FALSE]
    /\ UNCHANGED <<conf, gen, stop, handler, history>>

\* With the mutex held again the thread takes what TxGen made available, also
\* after a timeout; then it sends, or starts over (ETIMEDOUT).  Cyclic classes
\* always have frames to send and nothing marks frames available for them.
TxWaited(c) ==
    /\ tx[c] \in {"signalled", "timedout"}
    /\ Goto(c, IF tx[c] = "signalled" THEN "send" ELSE "loop")
    /\ num_frames' = [num_frames EXCEPT ![c] = IsBurst(c) => available[c]]
    /\ available' = [available EXCEPT ![c] = FALSE]
    /\ UNCHANGED <<conf, gen, stop, handler, history>>

\* Frames are generated when there are some, or the received ones sent back.
TxSend(c) ==
    /\ tx[c] = "send"
    /\ Goto(c, "signal")
    /\ turns' = [turns EXCEPT ![c] = Count(@)]
    /\ bursts' = IF c \in Generators /\ num_frames[c]
                 THEN [bursts EXCEPT ![c] = Count(@)] ELSE bursts
    /\ UNCHANGED <<conf, num_frames, available, gen, stop, handler, marks, updates>>

\* Mutant of TxSignal: every class updates the statistics.
TxSignalUpdates(c) ==
    /\ tx[c] = "signal"
    /\ tx' = [d \in Active |->
                IF d = c THEN "update"
                ELSE IF d = next[c] /\ tx[d] = "wait" THEN "signalled"
                ELSE tx[d]]
    /\ UNCHANGED <<conf, num_frames, available, gen, stop, handler, history>>

\* tc_signal_next wakes the successor if it waits at this moment.
TxSignal(c) ==
    /\ tx[c] = "signal"
    /\ tx' = [d \in Active |->
                IF d = c THEN IF c = Last THEN "update" ELSE "loop"
                ELSE IF d = next[c] /\ tx[d] = "wait" THEN "signalled"
                ELSE tx[d]]
    /\ UNCHANGED <<conf, num_frames, available, gen, stop, handler, history>>

\* The last class of the chain calls stat_update.
TxUpdate(c) ==
    /\ tx[c] = "update"
    /\ Goto(c, "loop")
    /\ updates' = Count(updates)
    /\ UNCHANGED <<conf, num_frames, available, gen, stop, handler, turns, marks, bursts>>

\* tc_tx_gen_thread: head of the loop, then one marking per burst period.
GenLoop(c) ==
    /\ gen[c] = "loop"
    /\ gen' = [gen EXCEPT ![c] = IF stop[c] THEN "done" ELSE "sleep"]
    /\ UNCHANGED <<conf, tx, num_frames, available, stop, handler, history>>

GenMark(c) ==
    /\ gen[c] = "sleep"
    /\ available' = [available EXCEPT ![c] = TRUE]
    /\ marks' = [marks EXCEPT ![c] = Count(@)]
    /\ gen' = [gen EXCEPT ![c] = "loop"]
    /\ UNCHANGED <<conf, tx, num_frames, stop, handler, turns, bursts, updates>>

GenSleepError(c) ==
    /\ ClockFails /\ gen[c] = "sleep"
    /\ gen' = [gen EXCEPT ![c] = "done"]
    /\ UNCHANGED <<conf, tx, num_frames, available, stop, handler, history>>

\* SIGTERM or SIGINT: term_handler sets the stop flags one after the other, in
\* the order of the thread contexts.  Inactive contexts have no thread to see it.
Terminate ==
    /\ handler = Null
    /\ handler' = IF TSN_HIGH \in Active THEN TSN_HIGH ELSE next[TSN_HIGH]
    /\ UNCHANGED <<conf, tx, num_frames, available, gen, stop, history>>

HandlerStep ==
    /\ handler \in Active
    /\ stop' = [stop EXCEPT ![handler] = TRUE]
    /\ handler' = IF next[handler] = Null THEN HandlerReturned ELSE next[handler]
    /\ UNCHANGED <<conf, tx, num_frames, available, gen, history>>

---------------------------------------------------------------------------
TxThread(c) ==
    \/ TxLoop(c) \/ TxSleep(c) \/ TxSleepError(c) \/ WakeUp(c) \/ TimeOut(c)
    \/ TxWaited(c) \/ TxSend(c) \/ TxSignal(c) \/ TxUpdate(c)

GenThread(c) == GenLoop(c) \/ GenMark(c) \/ GenSleepError(c)

\* Every thread has returned; tb_startup joins them.
Finished ==
    /\ \A c \in Active : tx[c] = "done"
    /\ \A c \in Generators : gen[c] = "done"

Next ==
    \/ \E c \in Active : TxThread(c)
    \/ \E c \in Generators : GenThread(c)
    \/ Terminate \/ HandlerStep
    \/ Finished /\ UNCHANGED vars

Spec == Init /\ [][Next]_vars

\* The classes of any of the configurations.
EverActive == UNION {k.active : k \in Configs}

\* Every thread gets the processor: sleeps and waits end by the clock, critical
\* sections are short, and the handler runs in the main thread.
FairSpec ==
    /\ Spec
    /\ \A c \in EverActive : WF_vars(c \in Active /\ TxThread(c))
    /\ \A c \in EverActive : WF_vars(c \in Generators /\ GenThread(c))
    /\ WF_vars(HandlerStep)

---------------------------------------------------------------------------
\* Within a cycle the classes of the chain send in priority order: a class has
\* never sent more often than the class before it, although signals get lost,
\* waits time out and no thread waits for its successor.  (A spurious wakeup is
\* taken for a signal.  The chain starts at the first class: link_pn_threads
\* lets TSN Low alone precede RTC, which then does not wait for it.)
PriorityOrder ==
    ~Spurious => \A c \in Active : First <= c /\ next[c] # Null => turns[next[c]] <= turns[c]

\* stat_update, "called once per cycle after all Tx threads have been finished"
\* (stat.c:170), runs at most once per cycle of the first class, spurious
\* wakeups aside.
UpdatesPerCycle == ~Spurious => updates <= turns[First]

\* "Frames are only transmitted in cycles for which the Tx generation thread
\* marked them as available" (tc.c:104-108): no marking is sent twice.
BurstOncePerMark == \A c \in Generators : bursts[c] <= marks[c]

\* A burst that was marked is sent in a later cycle, unless the instance stops,
\* when waits only time out during shutdown.
MarkedBurstIsSent ==
    \A c \in {d \in EverActive : IsBurst(d)} :
        c \in Generators /\ ~Late /\ ~ClockFails /\ available[c]
            ~> c \in Generators /\ ((tx[c] = "send" /\ num_frames[c]) \/ stop[c])

\* After SIGTERM every Tx and TxGen thread returns, so that the joins of
\* tb_startup do.
StopsOnRequest == handler # Null ~> Finished
===========================================================================
