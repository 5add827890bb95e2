----------------------------- MODULE Workload -----------------------------
(***************************************************************************)
(* The workload threads of a traffic class (workload.c).  The Rx thread    *)
(* marks them as running and signals them; each runs the workload function *)
(* and clears its mark; the Tx thread looks whether the mark is still set  *)
(* and counts an overrun.  The condition variable has no predicate: a      *)
(* signal that finds the thread not waiting is lost, although the mark is  *)
(* set.  Cycle composes these operators with the Rx and the Tx thread.     *)
(***************************************************************************)
EXTENDS Integers, FiniteSets

CONSTANT Workers    \* workload_thread_cpus

VARIABLES
    worker,            \* step of workload_thread_routine
    workload_running,
    margin             \* history: overruns seen minus activations lost

workVars == <<worker, workload_running, margin>>

\* bounds: margins beyond them are not told apart
MaxMargin == 1
MinMargin == -2

\* workload_context_init
WorkInit(W) ==
    /\ worker = [w \in W |-> "top"]
    /\ workload_running = [w \in W |-> FALSE]
    /\ margin = [w \in W |-> 0]

---------------------------------------------------------------------------
\* Mutant of SignalOne: the thread is signalled but not marked as running.
SignalOneUnmarked(w) ==
    /\ worker' = [worker EXCEPT ![w] = IF @ = "wait" THEN "woken" ELSE @]
    /\ margin' = [margin EXCEPT ![w] = IF worker[w] # "wait" /\ @ > MinMargin THEN @ - 1 ELSE @]
    /\ UNCHANGED workload_running

\* workload_signal for one thread, under its mutex.
SignalOne(w) ==
    /\ worker' = [worker EXCEPT ![w] = IF @ = "wait" THEN "woken" ELSE @]
    /\ workload_running' = [workload_running EXCEPT ![w] = TRUE]
    /\ margin' = [margin EXCEPT ![w] = IF worker[w] # "wait" /\ @ > MinMargin THEN @ - 1 ELSE @]

\* workload_check_finished for one thread, under its mutex.
CheckOne(w) ==
    /\ margin' = [margin EXCEPT ![w] = IF workload_running[w] /\ @ < MaxMargin THEN @ + 1 ELSE @]
    /\ UNCHANGED <<worker, workload_running>>

---------------------------------------------------------------------------
\* workload_thread_routine

WorkerStep(w, from, to) ==
    /\ worker[w] = from
    /\ worker' = [worker EXCEPT ![w] = to]
    /\ UNCHANGED margin

WorkerTop(w, stop) ==
    WorkerStep(w, "top", IF stop THEN "done" ELSE "wait") /\ UNCHANGED workload_running

\* Mutant of WorkerTimeOut: a timeout is ignored and the wait continued.
WorkerTimeOutWaits(w) == WorkerStep(w, "wait", "wait") /\ UNCHANGED workload_running

\* ETIMEDOUT
WorkerTimeOut(w) == WorkerStep(w, "wait", "top") /\ UNCHANGED workload_running

WorkerSpurious(w) == WorkerStep(w, "wait", "woken") /\ UNCHANGED workload_running

\* The workload function has returned, with or without an error.
WorkerRun(w) == WorkerStep(w, "woken", "ran") /\ UNCHANGED workload_running

WorkerClear(w) ==
    /\ WorkerStep(w, "ran", "count")
    /\ workload_running' = [workload_running EXCEPT ![w] = FALSE]

\* stat_frame_workload, before the thread waits again.
WorkerCount(w) == WorkerStep(w, "count", "top") /\ UNCHANGED workload_running
===========================================================================
