-------------------------- MODULE TxChainProofs ---------------------------
(***************************************************************************)
(* For every set of active classes, with late turns and failing clocks: no *)
(* burst is sent that the TxGen thread did not mark, and none twice; and,  *)
(* spurious wake-ups aside, the classes of the chain take turns in the     *)
(* order of their priority and the statistics are updated at most once per *)
(* cycle.                                                                  *)
(***************************************************************************)
EXTENDS TxChain, TLAPS

Places == {"loop", "sleep", "wait", "signalled", "timedout", "send", "signal", "update", "done"}

TypeInv ==
    /\ conf \in Configs
    /\ tx \in [Active -> Places]
    /\ num_frames \in [Active -> BOOLEAN] /\ available \in [Active -> BOOLEAN]
    /\ marks \in [Generators -> 0 .. Cap] /\ bursts \in [Generators -> 0 .. Cap]

One(b) == IF b THEN 1 ELSE 0

\* A marking is in num_frames_available, in num_frames on its way to the frames,
\* or it was sent; only the first class, which is cyclic, sends by the clock.
Account(c) ==
    /\ tx[c] # "sleep"
    /\ \/ marks[c] = Cap
       \/ bursts[c] + One(available[c] = TRUE) + One(num_frames[c] = TRUE /\ tx[c] = "send") <= marks[c]

Inv ==
    /\ TypeInv
    /\ \A c \in Generators : Account(c)

\* A class d behind class c in the chain has had at most as many turns, its
\* current one and the signal that c is about to give included.
Behind(c, d) ==
    \/ turns[c] = Cap
    \/ turns[d] + One(tx[d] \in {"signalled", "send"}) + One(tx[c] = "signal" /\ next[c] = d) <= turns[c]

\* So has stat_update, with the one that the last class is about to call.
UpdateBehind ==
    \/ turns[Last] = Cap
    \/ updates + One(tx[Last] \in {"signal", "update"}) <= turns[Last]

OrderInv ==
    /\ turns \in [Active -> 0 .. Cap] /\ updates \in 0 .. Cap
    /\ \A c \in Active : (tx[c] = "sleep" => c = First) /\ (tx[c] = "update" => c = Last)
    /\ Spurious = FALSE =>
          /\ \A c, d \in Active : First <= c /\ c < d => Behind(c, d)
          /\ UpdateBehind

---------------------------------------------------------------------------
\* The first class of the chain is cyclic.
LEMMA FirstIsCyclic ==
    ASSUME conf \in Configs
    PROVE  \A c \in Generators : c \in Active /\ IsBurst(c) /\ c # First
<1>1. First \in {TSN_HIGH, RTC}
  <2>1. First # Null
    BY TxChainAssumption DEF First, Active
  <2> QED BY <2>1 DEF First, FirstClass
<1>2. ~IsBurst(TSN_HIGH) /\ ~IsBurst(RTC)
  <2>1. Descriptor(TSN_HIGH) = tsn_high_threads_create /\ Descriptor(RTC) = rtc_threads_create
    BY DEF Descriptor, TSN_HIGH, TSN_LOW, RTC, RTA, DCP, LLDP, UDP_HIGH, UDP_LOW, GenericL2
  <2> QED BY <2>1 DEF IsBurst, tsn_high_threads_create, rtc_threads_create
<1> QED BY <1>1, <1>2 DEF Generators

\* A saturated count stays in range.
LEMMA CountRange ==
    ASSUME NEW n \in 0 .. Cap
    PROVE  /\ Count(n) \in 0 .. Cap
           /\ Count(n) = Cap \/ Count(n) = n + 1
BY TxChainAssumption DEF Count

\* The invariant holds when the threads start.
LEMMA InvInit == Init => Inv
<1> SUFFICES ASSUME Init PROVE Inv
  OBVIOUS
<1>1. TypeInv
  BY TxChainAssumption DEF Init, TypeInv, Places
<1>2. \A c \in Generators : c \in Active
  BY DEF Generators
<1>3. \A c \in Generators : Account(c)
  BY <1>2 DEF Init, Account, One
<1> QED BY <1>1, <1>3 DEF Inv

\* Every step of a thread keeps the account of every class.
LEMMA InvStep == Inv /\ [Next]_vars => Inv'
<1> SUFFICES ASSUME Inv, [Next]_vars PROVE Inv'
  OBVIOUS
<1>0. /\ conf \in Configs /\ tx \in [Active -> Places]
      /\ num_frames \in [Active -> BOOLEAN] /\ available \in [Active -> BOOLEAN]
      /\ marks \in [Generators -> 0 .. Cap] /\ bursts \in [Generators -> 0 .. Cap]
      /\ \A c \in Generators : c \in Active /\ IsBurst(c) /\ c # First /\ Account(c)
      /\ Cap \in Nat
  BY FirstIsCyclic, TxChainAssumption DEF Inv, TypeInv
<1>1. conf' = conf
  BY DEF Next, TxThread, TxLoop, TxSleep, TxSleepError, WakeUp, TimeOut, TxWaited, TxSend, TxSignal,
         TxUpdate, GenThread, GenLoop, GenMark, GenSleepError, Terminate, HandlerStep, vars
<1>2. Active' = Active /\ Generators' = Generators
  BY <1>1 DEF Active, Generators, Mirror
<1>3. ASSUME UNCHANGED <<num_frames, available, marks, bursts>>, tx' \in [Active -> Places],
             \A c \in Generators : tx'[c] \notin {"send", "sleep"} \/ tx'[c] = tx[c]
      PROVE  Inv'
  <2>1. TypeInv'
    BY <1>0, <1>1, <1>2, <1>3 DEF TypeInv
  <2>2. ASSUME NEW c \in Generators PROVE Account(c)'
    <3>1. Account(c) /\ bursts[c] \in 0 .. Cap /\ marks[c] \in 0 .. Cap
      BY <1>0
    <3> QED BY <1>3, <3>1 DEF Account, One
  <2> QED BY <1>2, <2>1, <2>2 DEF Inv
<1>4. ASSUME NEW c \in Active, NEW place \in Places, Goto(c, place),
             UNCHANGED <<num_frames, available, marks, bursts>>,
             place # "send", place = "sleep" => c = First
      PROVE  Inv'
  BY <1>0, <1>3, <1>4 DEF Goto
<1>5. ASSUME NEW c \in Active, TxThread(c)
      PROVE  Inv'
  <2> USE <1>5
  <2>1. CASE TxLoop(c) \/ TxSleepError(c) \/ WakeUp(c) \/ TimeOut(c) \/ TxUpdate(c)
    <3>1. \E place \in Places :
             /\ Goto(c, place) /\ place # "send" /\ (place = "sleep" => c = First)
             /\ UNCHANGED <<num_frames, available, marks, bursts>>
      BY <2>1 DEF TxLoop, TxSleepError, WakeUp, TimeOut, TxUpdate, Places, history
    <3> QED BY <1>4, <3>1
  <2>2. CASE TxSleep(c)
    <3>1. /\ tx[c] = "sleep" /\ tx' = [tx EXCEPT ![c] = "send"]
          /\ num_frames' = [num_frames EXCEPT ![c] = TRUE]
          /\ UNCHANGED <<available, marks, bursts>>
      BY <2>2 DEF TxSleep, Goto, history
    <3>2. c \notin Generators
      BY <1>0, <3>1 DEF Account
    <3>3. \A d \in Generators : tx'[d] = tx[d] /\ num_frames'[d] = num_frames[d]
      BY <1>0, <3>1, <3>2, Zenon
    <3>4. \A d \in Generators : Account(d)'
      BY <1>0, <3>1, <3>3 DEF Account, One
    <3>5. TypeInv'
      BY <1>0, <1>1, <1>2, <3>1 DEF TypeInv, Places
    <3> QED BY <1>2, <3>4, <3>5 DEF Inv
  <2>3. CASE TxWaited(c)
    <3>1. /\ tx[c] \in {"signalled", "timedout"}
          /\ tx' = [tx EXCEPT ![c] = IF tx[c] = "signalled" THEN "send" ELSE "loop"]
          /\ num_frames' = [num_frames EXCEPT ![c] = (IsBurst(c) => available[c])]
          /\ available' = [available EXCEPT ![c] = FALSE]
          /\ UNCHANGED <<marks, bursts>>
      BY <2>3 DEF TxWaited, Goto, history
    <3>2. ASSUME NEW d \in Generators, d # c PROVE Account(d)'
      <4>1. tx'[d] = tx[d] /\ num_frames'[d] = num_frames[d] /\ available'[d] = available[d]
        BY <1>0, <3>1, <3>2
      <4> QED BY <1>0, <3>1, <4>1 DEF Account, One
    <3>3. ASSUME c \in Generators PROVE Account(c)'
      <4>1. /\ num_frames'[c] = available[c] /\ available'[c] = FALSE
            /\ tx'[c] \in {"send", "loop"} /\ tx[c] # "send"
        BY <1>0, <3>1, <3>3
      <4>2. Account(c) /\ bursts[c] \in 0 .. Cap /\ marks[c] \in 0 .. Cap
        BY <1>0, <3>3
      <4> QED BY <3>1, <4>1, <4>2 DEF Account, One
    <3>4. TypeInv'
      BY <1>0, <1>1, <1>2, <3>1 DEF TypeInv, Places
    <3> QED BY <1>2, <3>2, <3>3, <3>4 DEF Inv
  <2>4. CASE TxSend(c)
    <3>1. /\ tx[c] = "send" /\ tx' = [tx EXCEPT ![c] = "signal"]
          /\ bursts' = IF c \in Generators /\ num_frames[c]
                       THEN [bursts EXCEPT ![c] = Count(bursts[c])] ELSE bursts
          /\ UNCHANGED <<num_frames, available, marks>>
      BY <2>4 DEF TxSend, Goto
    <3>2. ASSUME NEW d \in Generators, d # c PROVE Account(d)'
      <4>1. tx'[d] = tx[d] /\ bursts'[d] = bursts[d]
        BY <1>0, <3>1, <3>2
      <4> QED BY <1>0, <3>1, <4>1 DEF Account, One
    <3>3. ASSUME c \in Generators PROVE Account(c)'
      <4>1. /\ Account(c) /\ bursts[c] \in 0 .. Cap /\ marks[c] \in 0 .. Cap
            /\ num_frames[c] \in BOOLEAN /\ tx'[c] = "signal"
        BY <1>0, <3>1, <3>3
      <4>2. bursts'[c] = IF num_frames[c] = TRUE THEN Count(bursts[c]) ELSE bursts[c]
        BY <1>0, <3>1, <3>3, <4>1
      <4> QED BY <1>0, <3>1, <4>1, <4>2 DEF Account, One, Count
    <3>4. bursts' \in [Generators -> 0 .. Cap]
      BY <1>0, <3>1, CountRange
    <3>5. TypeInv'
      BY <1>0, <1>1, <1>2, <3>1, <3>4 DEF TypeInv, Places
    <3> QED BY <1>2, <3>2, <3>3, <3>5 DEF Inv
  <2>5. CASE TxSignal(c)
    <3>1. /\ UNCHANGED <<num_frames, available, marks, bursts>>
          /\ tx' = [d \in Active |->
                       IF d = c THEN IF c = Last THEN "update" ELSE "loop"
                       ELSE IF d = next[c] /\ tx[d] = "wait" THEN "signalled"
                       ELSE tx[d]]
      BY <2>5 DEF TxSignal, history
    <3>2. tx' \in [Active -> Places]
      BY <1>0, <3>1 DEF Places
    <3>3. \A d \in Generators : tx'[d] \notin {"send", "sleep"} \/ tx'[d] = tx[d]
      BY <1>0, <3>1
    <3> QED BY <1>3, <3>1, <3>2, <3>3
  <2> QED BY <2>1, <2>2, <2>3, <2>4, <2>5 DEF TxThread
<1>6. ASSUME NEW c \in Generators, GenThread(c)
      PROVE  Inv'
  <2>1. CASE GenLoop(c) \/ GenSleepError(c)
    BY <1>0, <1>3, <2>1 DEF GenLoop, GenSleepError, history
  <2>2. CASE GenMark(c)
    <3>1. /\ available' = [available EXCEPT ![c] = TRUE]
          /\ marks' = [marks EXCEPT ![c] = Count(marks[c])]
          /\ UNCHANGED <<tx, num_frames, bursts>>
      BY <2>2 DEF GenMark
    <3>2. ASSUME NEW d \in Generators, d # c PROVE Account(d)'
      <4>1. available'[d] = available[d] /\ marks'[d] = marks[d]
        BY <1>0, <3>1, <3>2
      <4> QED BY <1>0, <3>1, <4>1, Zenon DEF Account, One
    <3>3. Account(c)'
      <4>1. Account(c) /\ bursts[c] \in 0 .. Cap /\ marks[c] \in 0 .. Cap
        BY <1>0
      <4>2. available'[c] = TRUE /\ marks'[c] = Count(marks[c])
        BY <1>0, <3>1
      <4> QED BY <1>0, <3>1, <4>1, <4>2 DEF Account, One, Count
    <3>4. marks' \in [Generators -> 0 .. Cap]
      BY <1>0, <3>1, CountRange
    <3>5. TypeInv'
      BY <1>0, <1>1, <1>2, <3>1, <3>4 DEF TypeInv
    <3> QED BY <1>2, <3>2, <3>3, <3>5 DEF Inv
  <2> QED BY <1>6, <2>1, <2>2 DEF GenThread
<1>7. CASE Terminate \/ HandlerStep \/ UNCHANGED vars
  BY <1>0, <1>3, <1>7 DEF Terminate, HandlerStep, vars, history
<1> QED
  BY <1>5, <1>6, <1>7 DEF Next

\* What the switch of find_next_pn_thread returns in terms of its later cases.
NextStep(active, f) ==
    [i \in PnClasses |-> IF i = UDP_LOW THEN Null ELSE IF i + 1 \in active THEN i + 1 ELSE f[i + 1]]

\* Falling through ends: the eight cases have a solution.
LEMMA NextExists ==
    ASSUME NEW active \in SUBSET PnClasses
    PROVE  \E f : f = NextStep(active, f)
<1> DEFINE x7 == Null
           x6 == IF 7 \in active THEN 7 ELSE x7
           x5 == IF 6 \in active THEN 6 ELSE x6
           x4 == IF 5 \in active THEN 5 ELSE x5
           x3 == IF 4 \in active THEN 4 ELSE x4
           x2 == IF 3 \in active THEN 3 ELSE x3
           x1 == IF 2 \in active THEN 2 ELSE x2
           x0 == IF 1 \in active THEN 1 ELSE x1
           f == [i \in PnClasses |-> IF i = 0 THEN x0 ELSE IF i = 1 THEN x1 ELSE IF i = 2 THEN x2
                   ELSE IF i = 3 THEN x3 ELSE IF i = 4 THEN x4 ELSE IF i = 5 THEN x5
                   ELSE IF i = 6 THEN x6 ELSE x7]
<1>1. f = NextStep(active, f)
  <2>1. PnClasses = {0, 1, 2, 3, 4, 5, 6, 7}
    BY DEF PnClasses, TSN_HIGH, UDP_LOW
  <2> QED BY <2>1 DEF NextStep, UDP_LOW
<1> HIDE DEF f
<1> QED BY <1>1

\* find_next_pn_thread is such a solution.
LEMMA NextIs ==
    ASSUME NEW active \in SUBSET PnClasses
    PROVE  find_next_pn_thread(active) = NextStep(active, find_next_pn_thread(active))
<1>1. find_next_pn_thread(active) = CHOOSE f : f = NextStep(active, f)
  BY DEF find_next_pn_thread, NextStep
<1> QED BY <1>1, NextExists

\* find_next_pn_thread returns the closest active class behind i, Null if none is.
LEMMA NextClosest ==
    ASSUME NEW active \in SUBSET PnClasses, NEW n, n = find_next_pn_thread(active)
    PROVE  \A i \in PnClasses :
              \/ n[i] = Null /\ \A j \in active : j <= i
              \/ n[i] \in active /\ i < n[i] /\ \A j \in active : i < j => n[i] <= j
<1> DEFINE Good(i) == \/ n[i] = Null /\ \A j \in active : j <= i
                      \/ n[i] \in active /\ i < n[i] /\ \A j \in active : i < j => n[i] <= j
<1>0. PnClasses = 0 .. 7 /\ UDP_LOW = 7
  BY DEF PnClasses, TSN_HIGH, UDP_LOW
<1>1. \A i \in PnClasses :
         n[i] = IF i = UDP_LOW THEN Null ELSE IF i + 1 \in active THEN i + 1 ELSE n[i + 1]
  BY NextIs DEF NextStep
<1>2. Good(7)
  BY <1>0, <1>1
<1>3. ASSUME NEW i \in 0 .. 6, Good(i + 1) PROVE Good(i)
  <2>1. n[i] = IF i + 1 \in active THEN i + 1 ELSE n[i + 1]
    BY <1>0, <1>1
  <2>2. CASE i + 1 \in active
    BY <1>0, <2>1, <2>2
  <2>3. CASE i + 1 \notin active
    <3>1. \A j \in active : j \in Nat /\ (i < j => i + 1 < j) /\ (j <= i + 1 => j <= i)
      BY <1>0, <2>3
    <3>2. CASE n[i + 1] = Null /\ \A j \in active : j <= i + 1
      BY <2>1, <2>3, <3>1, <3>2
    <3>3. CASE n[i + 1] \in active /\ i + 1 < n[i + 1] /\ \A j \in active : i + 1 < j => n[i + 1] <= j
      BY <2>1, <2>3, <3>1, <3>3
    <3> QED BY <1>3, <3>2, <3>3
  <2> QED BY <2>2, <2>3
<1>4. Good(6) /\ Good(5) /\ Good(4) /\ Good(3) /\ Good(2) /\ Good(1) /\ Good(0)
  <2> HIDE DEF Good
  <2>6. Good(6) BY <1>2, <1>3
  <2>5. Good(5) BY <2>6, <1>3
  <2>4. Good(4) BY <2>5, <1>3
  <2>3. Good(3) BY <2>4, <1>3
  <2>2. Good(2) BY <2>3, <1>3
  <2>1. Good(1) BY <2>2, <1>3
  <2>0. Good(0) BY <2>1, <1>3
  <2> QED BY <2>0, <2>1, <2>2, <2>3, <2>4, <2>5, <2>6
<1>5. \A i \in PnClasses : Good(i)
  <2> HIDE DEF Good
  <2> QED BY <1>0, <1>2, <1>4
<1> QED BY <1>5

\* One step of the walk along the chain.
WalkStep(n, f) == [c \in PnClasses |-> IF n[c] = Null THEN c ELSE f[n[c]]]

\* The walk ends, as next only leads to later classes.
LEMMA WalkExists ==
    ASSUME NEW n, \A c \in PnClasses : n[c] = Null \/ (n[c] \in PnClasses /\ c < n[c])
    PROVE  \E f : f = WalkStep(n, f)
<1> DEFINE y7 == 7
           y6 == IF n[6] = Null THEN 6 ELSE y7
           y5 == IF n[5] = Null THEN 5 ELSE IF n[5] = 6 THEN y6 ELSE y7
           y4 == IF n[4] = Null THEN 4 ELSE IF n[4] = 5 THEN y5 ELSE IF n[4] = 6 THEN y6 ELSE y7
           y3 == IF n[3] = Null THEN 3 ELSE IF n[3] = 4 THEN y4 ELSE IF n[3] = 5 THEN y5
                 ELSE IF n[3] = 6 THEN y6 ELSE y7
           y2 == IF n[2] = Null THEN 2 ELSE IF n[2] = 3 THEN y3 ELSE IF n[2] = 4 THEN y4
                 ELSE IF n[2] = 5 THEN y5 ELSE IF n[2] = 6 THEN y6 ELSE y7
           y1 == IF n[1] = Null THEN 1 ELSE IF n[1] = 2 THEN y2 ELSE IF n[1] = 3 THEN y3
                 ELSE IF n[1] = 4 THEN y4 ELSE IF n[1] = 5 THEN y5 ELSE IF n[1] = 6 THEN y6 ELSE y7
           y0 == IF n[0] = Null THEN 0 ELSE IF n[0] = 1 THEN y1 ELSE IF n[0] = 2 THEN y2
                 ELSE IF n[0] = 3 THEN y3 ELSE IF n[0] = 4 THEN y4 ELSE IF n[0] = 5 THEN y5
                 ELSE IF n[0] = 6 THEN y6 ELSE y7
           f == [c \in PnClasses |-> IF c = 0 THEN y0 ELSE IF c = 1 THEN y1 ELSE IF c = 2 THEN y2
                   ELSE IF c = 3 THEN y3 ELSE IF c = 4 THEN y4 ELSE IF c = 5 THEN y5
                   ELSE IF c = 6 THEN y6 ELSE y7]
<1>1. PnClasses = 0 .. 7
  BY DEF PnClasses, TSN_HIGH, UDP_LOW
<1>2. f[7] = y7 /\ f[6] = y6 /\ f[5] = y5 /\ f[4] = y4 /\ f[3] = y3 /\ f[2] = y2 /\ f[1] = y1 /\ f[0] = y0
  <2> HIDE DEF y7, y6, y5, y4, y3, y2, y1, y0
  <2> QED BY <1>1
<1>3. \A c \in PnClasses : f[c] = IF n[c] = Null THEN c ELSE f[n[c]]
  <2> SUFFICES ASSUME NEW c \in PnClasses PROVE f[c] = IF n[c] = Null THEN c ELSE f[n[c]]
    BY Zenon
  <2> HIDE DEF f, y7, y6, y5, y4, y3, y2, y1, y0
  <2>7. CASE c = 7 BY <1>1, <1>2, <2>7 DEF y7
  <2>6. CASE c = 6 BY <1>1, <1>2, <2>6 DEF y6
  <2>5. CASE c = 5 BY <1>1, <1>2, <2>5 DEF y5
  <2>4. CASE c = 4 BY <1>1, <1>2, <2>4 DEF y4
  <2>3. CASE c = 3 BY <1>1, <1>2, <2>3 DEF y3
  <2>2. CASE c = 2 BY <1>1, <1>2, <2>2 DEF y2
  <2>1. CASE c = 1 BY <1>1, <1>2, <2>1 DEF y1
  <2>0. CASE c = 0 BY <1>1, <1>2, <2>0 DEF y0
  <2> QED BY <1>1, <2>0, <2>1, <2>2, <2>3, <2>4, <2>5, <2>6, <2>7, SMTT(40)
<1>4. f = [c \in PnClasses |-> f[c]]
  <2> HIDE DEF y7, y6, y5, y4, y3, y2, y1, y0
  <2> QED OBVIOUS
<1>5. f = WalkStep(n, f)
  <2> HIDE DEF f
  <2> QED BY <1>3, <1>4 DEF WalkStep
<1> HIDE DEF f
<1> QED BY <1>5

\* It ends at an active class that is not before the one it started from.
LEMMA ChainEnds ==
    ASSUME NEW active \in SUBSET PnClasses, NEW t \in active
    PROVE  LET e == EndOfChain(find_next_pn_thread(active), t) IN e \in active /\ t <= e
<1>1. PICK n : n = find_next_pn_thread(active)
  OBVIOUS
<1>2. PICK w : w = CHOOSE f : f = WalkStep(n, f)
  OBVIOUS
<1>3. EndOfChain(n, t) = w[t]
  BY <1>2 DEF EndOfChain, WalkStep
<1>4. \A c \in active : n[c] = Null \/ (n[c] \in active /\ c < n[c])
  BY <1>1, NextClosest
<1>5. \A c \in PnClasses : n[c] = Null \/ (n[c] \in PnClasses /\ c < n[c])
  BY <1>1, NextClosest
<1>6. w = WalkStep(n, w)
  BY <1>2, <1>5, WalkExists
<1>7. \A c \in active : w[c] = IF n[c] = Null THEN c ELSE w[n[c]]
  BY <1>6 DEF WalkStep
<1> DEFINE Good(c) == c \in active => w[c] \in active /\ c <= w[c]
<1>8. active \subseteq 0 .. 7
  BY DEF PnClasses, TSN_HIGH, UDP_LOW
<1>9. ASSUME NEW c \in 0 .. 7, \A d \in c + 1 .. 7 : Good(d) PROVE Good(c)
  <2> SUFFICES ASSUME c \in active PROVE w[c] \in active /\ c <= w[c]
    OBVIOUS
  <2>1. CASE n[c] = Null
    BY <1>7, <1>8, <2>1
  <2>2. CASE n[c] \in active /\ c < n[c]
    <3>1. PICK d \in 0 .. 7 : d = n[c] /\ d \in active /\ c < d
      BY <1>8, <2>2, Zenon
    <3>2. d \in c + 1 .. 7 /\ d # Null
      BY <3>1 DEF Null
    <3>3. w[c] = w[d]
      BY <1>7, <3>1, <3>2
    <3>4. PICK e \in 0 .. 7 : e = w[d] /\ e \in active /\ d <= e
      BY <1>8, <1>9, <3>1, <3>2, Zenon
    <3>5. c <= e
      BY <3>1, <3>4
    <3> QED BY <3>3, <3>4, <3>5
  <2> QED BY <1>4, <2>1, <2>2
<1> HIDE DEF Good
<1>10. \A c \in 0 .. 7 : Good(c)
  <2>7. Good(7) BY <1>9
  <2>6. Good(6) BY <1>9, <2>7
  <2>5. Good(5) BY <1>9, <2>6, <2>7
  <2>4. Good(4) BY <1>9, <2>5, <2>6, <2>7
  <2>3. Good(3) BY <1>9, <2>4, <2>5, <2>6, <2>7
  <2>2. Good(2) BY <1>9, <2>3, <2>4, <2>5, <2>6, <2>7
  <2>1. Good(1) BY <1>9, <2>2, <2>3, <2>4, <2>5, <2>6, <2>7
  <2>0. Good(0) BY <1>9, <2>1, <2>2, <2>3, <2>4, <2>5, <2>6, <2>7
  <2> QED BY <2>0, <2>1, <2>2, <2>3, <2>4, <2>5, <2>6, <2>7
<1>11. w[t] \in active /\ t <= w[t]
  BY <1>8, <1>10 DEF Good
<1> QED BY <1>1, <1>3, <1>11

\* The chain of a configuration: from the first class it leads to the last one,
\* by way of all active classes behind the first.
LEMMA Chain ==
    ASSUME conf \in Configs
    PROVE  /\ Active \subseteq 0 .. 7 /\ First \in Active /\ Last \in Active /\ First <= Last /\ Null \notin Active
           /\ \A c \in Active :
                 next[c] # Null =>
                    next[c] \in Active /\ c < next[c] /\ \A d \in Active : c < d => next[c] <= d
<1>1. Active \in SUBSET PnClasses /\ PnClasses = 0 .. 7 /\ First # Null
  BY TxChainAssumption DEF Active, First, PnClasses, TSN_HIGH, UDP_LOW
<1>2. First \in Active
  BY <1>1 DEF First, FirstClass
<1>3. Last \in Active /\ First <= Last
  BY <1>1, <1>2, ChainEnds DEF Last, next
<1>4. Null \notin Active
  BY <1>1 DEF Null
<1>5. \A c \in Active : next[c] # Null =>
         next[c] \in Active /\ c < next[c] /\ \A d \in Active : c < d => next[c] <= d
  BY <1>1, NextClosest DEF next
<1> QED BY <1>1, <1>2, <1>3, <1>4, <1>5

\* The order holds when the threads start.
LEMMA OrderInit == Init => OrderInv
<1> SUFFICES ASSUME Init PROVE OrderInv
  OBVIOUS
<1>1. /\ conf \in Configs /\ Last \in Active
      /\ \A c \in Active : turns[c] = 0 /\ tx[c] = "loop"
  BY Chain DEF Init
<1>2. turns \in [Active -> 0 .. Cap] /\ updates = 0 /\ Cap \in Nat
  BY TxChainAssumption DEF Init
<1> QED BY <1>1, <1>2 DEF OrderInv, Behind, UpdateBehind, One

\* Every step of a thread keeps the order.
LEMMA OrderStep == Inv /\ OrderInv /\ [Next]_vars => OrderInv'
<1> SUFFICES ASSUME Inv, OrderInv, [Next]_vars PROVE OrderInv'
  OBVIOUS
<1>0. /\ conf \in Configs /\ tx \in [Active -> Places] /\ Cap \in Nat
      /\ turns \in [Active -> 0 .. Cap] /\ updates \in 0 .. Cap
      /\ \A c \in Active : (tx[c] = "sleep" => c = First) /\ (tx[c] = "update" => c = Last)
  BY TxChainAssumption, SMTT(40) DEF Inv, TypeInv, OrderInv
<1>1. conf' = conf
  BY DEF Next, TxThread, TxLoop, TxSleep, TxSleepError, WakeUp, TimeOut, TxWaited, TxSend, TxSignal,
         TxUpdate, GenThread, GenLoop, GenMark, GenSleepError, Terminate, HandlerStep, vars
<1>2. Active' = Active /\ next' = next /\ First' = First /\ Last' = Last /\ Spurious' = Spurious
  BY <1>1, SMTT(40) DEF Active, next, First, Last, Spurious
<1>3. /\ Active \subseteq 0 .. 7 /\ First \in Active /\ Last \in Active /\ First <= Last /\ Null \notin Active
      /\ \A c \in Active :
            next[c] # Null => next[c] \in Active /\ c < next[c] /\ \A d \in Active : c < d => next[c] <= d
  BY <1>0, Chain
<1>4. ASSUME Spurious = FALSE
      PROVE  UpdateBehind /\ \A c, d \in Active : First <= c /\ c < d => Behind(c, d)
  BY <1>4 DEF OrderInv
<1>5. ASSUME turns' \in [Active -> 0 .. Cap], updates' \in 0 .. Cap,
             \A c \in Active : (tx'[c] = "sleep" => c = First) /\ (tx'[c] = "update" => c = Last),
             ASSUME Spurious = FALSE, NEW c \in Active, NEW d \in Active, First <= c, c < d
             PROVE  Behind(c, d)',
             Spurious = FALSE => UpdateBehind'
      PROVE  OrderInv'
  BY <1>2, <1>5, Zenon DEF OrderInv
<1>6. ASSUME turns' = turns, updates' = updates,
             \A d \in Active :
                /\ tx'[d] \in {"signalled", "send"} => tx[d] \in {"signalled", "send"} \/ d = First \/ Spurious # FALSE
                /\ tx'[d] = "signal" => tx[d] = "signal"
                /\ tx'[d] = "update" => tx[d] = "update"
                /\ tx'[d] = "sleep" => d = First
      PROVE  OrderInv'
  <2>1. ASSUME Spurious = FALSE, NEW c \in Active, NEW d \in Active, First <= c, c < d PROVE Behind(c, d)'
    <3>1. Behind(c, d)
      BY <1>4, <2>1, Zenon
    <3>4. d # First
      BY <1>3, <2>1
    <3>2. /\ tx'[d] \in {"signalled", "send"} => tx[d] \in {"signalled", "send"}
          /\ tx'[c] = "signal" => tx[c] = "signal"
      BY <1>6, <2>1, <3>4, Zenon
    <3>3. turns[c] \in 0 .. Cap /\ turns[d] \in 0 .. Cap
      BY <1>0
    <3> QED BY <1>0, <1>2, <1>6, <3>1, <3>2, <3>3 DEF Behind, One
  <2>2. ASSUME Spurious = FALSE PROVE UpdateBehind'
    <3>1. UpdateBehind /\ turns[Last] \in 0 .. Cap
      BY <1>0, <1>3, <1>4, <2>2, Zenon
    <3>2. tx'[Last] \in {"signal", "update"} => tx[Last] \in {"signal", "update"}
      BY <1>3, <1>6, Zenon
    <3> QED BY <1>0, <1>2, <1>6, <3>1, <3>2 DEF UpdateBehind, One
  <2>3. /\ turns' \in [Active -> 0 .. Cap] /\ updates' \in 0 .. Cap
        /\ \A c \in Active : (tx'[c] = "sleep" => c = First) /\ (tx'[c] = "update" => c = Last)
    BY <1>0, <1>6, Zenon
  <2> QED BY <1>5, <2>1, <2>2, <2>3, Zenon
<1>7. ASSUME NEW c \in Active, TxThread(c)
      PROVE  OrderInv'
  <2>1. CASE TxLoop(c) \/ TxSleep(c) \/ TxSleepError(c) \/ WakeUp(c) \/ TimeOut(c) \/ TxWaited(c)
    <3>1. /\ turns' = turns /\ updates' = updates
          /\ \E place \in Places :
                /\ tx' = [tx EXCEPT ![c] = place] /\ place \notin {"signal", "update"}
                /\ place = "sleep" => c = First
                /\ place \in {"signalled", "send"} => tx[c] \in {"signalled", "sleep"} \/ Spurious # FALSE
      BY <2>1, Zenon DEF TxLoop, TxSleep, TxSleepError, WakeUp, TimeOut, TxWaited, Goto, history, Places
    <3>2. \A d \in Active :
             /\ tx'[d] \in {"signalled", "send"} => tx[d] \in {"signalled", "send"} \/ d = First \/ Spurious # FALSE
             /\ tx'[d] = "signal" => tx[d] = "signal"
             /\ tx'[d] = "update" => tx[d] = "update"
             /\ tx'[d] = "sleep" => d = First
      BY <1>0, <3>1, Zenon
    <3> QED BY <1>6, <3>1, <3>2, Zenon
  <2>2. CASE TxSend(c)
    <3>1. /\ tx[c] = "send" /\ tx' = [tx EXCEPT ![c] = "signal"]
          /\ turns' = [turns EXCEPT ![c] = Count(turns[c])] /\ updates' = updates
      BY <2>2 DEF TxSend, Goto
    <3>2. /\ turns' \in [Active -> 0 .. Cap] /\ updates' \in 0 .. Cap
          /\ \A d \in Active : (tx'[d] = "sleep" => d = First) /\ (tx'[d] = "update" => d = Last)
      BY <1>0, <3>1, CountRange
    <3>3. ASSUME NEW e \in Active
          PROVE  /\ e = c => turns'[e] = Count(turns[e]) /\ tx[e] = "send" /\ tx'[e] = "signal"
                 /\ e # c => turns'[e] = turns[e] /\ tx'[e] = tx[e]
                 /\ turns[e] \in 0 .. Cap
      BY <1>0, <3>1, SMTT(40)
    <3>4. ASSUME Spurious = FALSE, NEW e \in Active, NEW d \in Active, First <= e, e < d PROVE Behind(e, d)'
      <4>1. Behind(e, d)
        BY <1>4, <3>4, Zenon
      <4>2. e # d
        BY <1>3, <3>4, SMTT(40)
      <4> QED BY <1>0, <1>2, <3>3, <4>1, <4>2 DEF Behind, One, Count
    <3>5. ASSUME Spurious = FALSE PROVE UpdateBehind'
      <4>1. UpdateBehind
        BY <1>4, <3>5, Zenon
      <4> QED BY <1>0, <1>2, <1>3, <3>1, <3>3, <4>1 DEF UpdateBehind, One, Count
    <3> QED BY <1>5, <3>2, <3>4, <3>5, Zenon
  <2>3. CASE TxSignal(c)
    <3>1. /\ tx[c] = "signal" /\ turns' = turns /\ updates' = updates
          /\ tx' = [d \in Active |->
                       IF d = c THEN IF c = Last THEN "update" ELSE "loop"
                       ELSE IF d = next[c] /\ tx[d] = "wait" THEN "signalled"
                       ELSE tx[d]]
      BY <2>3 DEF TxSignal, history
    <3>2. \A d \in Active : /\ tx'[d] = "sleep" => d = First
                            /\ tx'[d] = "update" => d = Last
      BY <1>0, <3>1
    <3>3. ASSUME Spurious = FALSE, NEW e \in Active, NEW d \in Active, First <= e, e < d PROVE Behind(e, d)'
      <4>1. Behind(e, d) /\ turns[e] \in 0 .. Cap /\ turns[d] \in 0 .. Cap
        BY <1>0, <1>4, <3>3, Zenon
      <4>2. CASE tx'[d] = "signalled" /\ tx[d] = "wait"
        <5>1. d = next[c] /\ c < d /\ e <= c /\ First <= c
          BY <1>3, <3>1, <3>3, <4>2
        <5>2. /\ turns[c] \in 0 .. Cap
              /\ turns[c] = Cap \/ turns[d] + 1 <= turns[c]
          <6>1. Behind(c, d)
            BY <1>4, <3>3, <5>1, Zenon
          <6> QED BY <1>0, <3>1, <4>1, <5>1, <6>1 DEF Behind, One
        <5>3. turns[e] = Cap \/ turns[c] <= turns[e]
          <6>1. CASE e = c
            BY <5>2, <6>1
          <6>2. CASE e < c
            <7>1. Behind(e, c)
              BY <1>4, <3>3, <6>2, Zenon
            <7> QED BY <1>0, <4>1, <5>2, <7>1 DEF Behind, One
          <6> QED BY <1>3, <5>1, <6>1, <6>2
        <5>4. tx'[e] = "signal" => next[e] # d
          BY <1>3, <3>1, <3>3, <5>1
        <5> QED BY <1>0, <1>2, <3>1, <4>1, <4>2, <5>2, <5>3, <5>4 DEF Behind, One
      <4>3. CASE ~(tx'[d] = "signalled" /\ tx[d] = "wait")
        <5>1. /\ tx'[d] \in {"signalled", "send"} => tx[d] \in {"signalled", "send"}
              /\ tx'[e] = "signal" => tx[e] = "signal"
          BY <3>1, <4>3
        <5> QED BY <1>0, <1>2, <3>1, <4>1, <5>1 DEF Behind, One
      <4> QED BY <4>2, <4>3
    <3>4. ASSUME Spurious = FALSE PROVE UpdateBehind'
      <4>1. UpdateBehind /\ turns[Last] \in 0 .. Cap
        BY <1>0, <1>3, <1>4, <3>4, ZenonT(40)
      <4>2. tx'[Last] \in {"signal", "update"} => tx[Last] \in {"signal", "update"}
        BY <1>3, <3>1
      <4> QED BY <1>0, <1>2, <3>1, <4>1, <4>2 DEF UpdateBehind, One
    <3>5. turns' \in [Active -> 0 .. Cap] /\ updates' \in 0 .. Cap
      BY <1>0, <3>1
    <3> QED BY <1>5, <3>2, <3>3, <3>4, <3>5, Zenon
  <2>4. CASE TxUpdate(c)
    <3>1. /\ tx[c] = "update" /\ tx' = [tx EXCEPT ![c] = "loop"]
          /\ turns' = turns /\ updates' = Count(updates) /\ c = Last
      BY <1>0, <2>4 DEF TxUpdate, Goto
    <3>2. /\ turns' \in [Active -> 0 .. Cap] /\ updates' \in 0 .. Cap
          /\ \A d \in Active : (tx'[d] = "sleep" => d = First) /\ (tx'[d] = "update" => d = Last)
      BY <1>0, <3>1, CountRange
    <3>3. ASSUME Spurious = FALSE, NEW e \in Active, NEW d \in Active, First <= e, e < d PROVE Behind(e, d)'
      <4>1. Behind(e, d) /\ turns[e] \in 0 .. Cap /\ turns[d] \in 0 .. Cap
        BY <1>0, <1>4, <3>3, Zenon
      <4>2. /\ tx'[d] \in {"signalled", "send"} => tx[d] \in {"signalled", "send"}
            /\ tx'[e] = "signal" => tx[e] = "signal"
        BY <1>0, <3>1
      <4> QED BY <1>0, <1>2, <3>1, <4>1, <4>2 DEF Behind, One
    <3>4. ASSUME Spurious = FALSE PROVE UpdateBehind'
      <4>1. UpdateBehind /\ turns[Last] \in 0 .. Cap /\ tx[Last] = "update" /\ tx'[Last] = "loop"
        BY <1>0, <1>3, <1>4, <3>1, <3>4, Zenon
      <4> QED BY <1>0, <1>2, <3>1, <4>1 DEF UpdateBehind, One, Count
    <3> QED BY <1>5, <3>2, <3>3, <3>4, Zenon
  <2> QED BY <1>7, <2>1, <2>2, <2>3, <2>4 DEF TxThread
<1>8. CASE UNCHANGED <<tx, turns, updates>>
  BY <1>0, <1>6, <1>8, ZenonT(40)
<1>9. ASSUME NEW c \in Generators, GenThread(c) PROVE UNCHANGED <<tx, turns, updates>>
  BY <1>9 DEF GenThread, GenLoop, GenMark, GenSleepError, history
<1>10. Terminate \/ HandlerStep \/ UNCHANGED vars => UNCHANGED <<tx, turns, updates>>
  BY DEF Terminate, HandlerStep, vars, history
<1> QED BY <1>7, <1>8, <1>9, <1>10 DEF Next

\* "Frames are only transmitted in cycles for which the Tx generation thread
\* marked them as available" (tc.c:104-108): whatever the classes, the timeouts
\* and the lost signals, no marking is sent twice.
THEOREM BurstsAreMarked == Spec => []BurstOncePerMark
<1>1. Inv => BurstOncePerMark
  <2> SUFFICES ASSUME Inv, NEW c \in Generators PROVE bursts[c] <= marks[c]
    BY DEF BurstOncePerMark
  <2>1. Account(c) /\ bursts[c] \in 0 .. Cap /\ marks[c] \in 0 .. Cap /\ Cap \in Nat
    BY TxChainAssumption DEF Inv, TypeInv
  <2> QED BY <2>1 DEF Account, One
<1> QED BY <1>1, InvInit, InvStep, PTL DEF Spec

\* The order holds in every reachable state.
LEMMA OrderHolds == Spec => [](Inv /\ OrderInv)
<1>1. Init => Inv /\ OrderInv
  BY InvInit, OrderInit
<1>2. Inv /\ OrderInv /\ [Next]_vars => (Inv /\ OrderInv)'
  BY InvStep, OrderStep
<1> QED BY <1>1, <1>2, PTL DEF Spec

\* Whatever classes are active, a class of the chain has never had more turns
\* than the one before it: a signal is worth one turn at most, a lost one and a
\* timeout are worth none (tc_wait_for_signal, tc_signal_next).
THEOREM ClassesInOrder == Spec => []PriorityOrder
<1>1. Inv /\ OrderInv => PriorityOrder
  <2> SUFFICES ASSUME Inv, OrderInv, Spurious = FALSE, NEW c \in Active, First <= c, next[c] # Null
               PROVE  turns[next[c]] <= turns[c]
    <3>1. Inv => Spurious \in BOOLEAN
      BY TxChainAssumption DEF Inv, TypeInv, Spurious
    <3> QED BY <3>1, Zenon DEF PriorityOrder
  <2>1. next[c] \in Active /\ c < next[c]
    BY Chain DEF Inv, TypeInv
  <2>2. /\ Behind(c, next[c]) /\ turns[c] \in 0 .. Cap /\ turns[next[c]] \in 0 .. Cap /\ Cap \in Nat
    BY <2>1, TxChainAssumption DEF OrderInv
  <2> QED BY <2>2 DEF Behind, One
<1> QED BY <1>1, OrderHolds, PTL

\* stat_update, "called once per cycle after all Tx threads have been finished"
\* (stat.c:170), is not called more often than the first class has had turns,
\* however long the chain is.
THEOREM UpdatesCounted == Spec => []UpdatesPerCycle
<1>1. Inv /\ OrderInv => UpdatesPerCycle
  <2> SUFFICES ASSUME Inv, OrderInv, Spurious = FALSE PROVE updates <= turns[First]
    <3>1. Inv => Spurious \in BOOLEAN
      BY TxChainAssumption DEF Inv, TypeInv, Spurious
    <3> QED BY <3>1, Zenon DEF UpdatesPerCycle
  <2>1. Active \subseteq 0 .. 7 /\ First \in Active /\ Last \in Active /\ First <= Last
    BY Chain DEF Inv, TypeInv
  <2>2. /\ turns[First] \in 0 .. Cap /\ turns[Last] \in 0 .. Cap /\ updates \in 0 .. Cap /\ Cap \in Nat
        /\ UpdateBehind
    BY <2>1, TxChainAssumption DEF OrderInv
  <2>3. updates <= turns[Last]
    BY <2>2 DEF UpdateBehind, One
  <2>4. CASE First < Last
    <3>1. Behind(First, Last)
      BY <2>1, <2>4 DEF OrderInv
    <3> QED BY <2>2, <2>3, <3>1 DEF Behind, One
  <2> QED BY <2>1, <2>3, <2>4
<1> QED BY <1>1, OrderHolds, PTL
===========================================================================
