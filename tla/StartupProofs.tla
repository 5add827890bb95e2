--------------------------- MODULE StartupProofs --------------------------
(***************************************************************************)
(* For every configuration and every failing call: a Tx thread only        *)
(* signals classes whose mutex and condition variable exist, nothing is    *)
(* released while a thread uses it, everything acquired is released, the   *)
(* XDP program is attached while a class uses it, and the chain of Tx      *)
(* threads covers the active classes.                                      *)
(***************************************************************************)
EXTENDS Startup, TLAPS

\* Where in Program a context is created, joined and freed.
CreateAt(c) ==
    IF c \in PnClasses THEN 18 - c
    ELSE IF c = GenericL2 THEN 8 ELSE IF c = LOG THEN 4 ELSE IF c = MQTT THEN 5 ELSE 6
JoinAt(c) ==
    IF c \in Classes THEN 20 + c ELSE IF c = MQTT THEN 29 ELSE IF c = JSON THEN 30 ELSE 31
FreeAt(c) == JoinAt(c) + 12

\* The calls and the labels.
Names ==
    {"desc", "sync", "packet", "rx_frames", "rx_iovecs", "rx_msgs", "tx_iovecs", "tx_msgs",
     "tx_control_msgs", "rx_control_msgs", "tx_completion_frame", "tx_data", "rx_data", "mac",
     "frame_copy", "socket", "xsk", "xdp_program", "xdp_attach", "xsks_map", "hw_timestamping", "umem",
     "fill_ring", "xsk_socket", "xsks_entry", "socket_options", "mirror_buffer", "mirror_data",
     "tx_security", "tx_cipher", "tx_cipher_context", "tx_key", "rx_security", "rx_cipher",
     "rx_cipher_context", "rx_key", "tx_thread", "txgen_thread", "rx_thread", "workload",
     "library", "symbols", "arguments", "setup_arguments", "setup_1", "setup_2",
     "workload_thread_1", "workload_thread_2", "context", "log_data", "file", "thread",
     "packet_only", "tx_security_only", "rx_security_only", "mirror_buffer_only"}

TypeInv ==
    /\ conf \in Configs
    /\ at \in 0 .. 44
    /\ step \in Nat \ {0}
    /\ undoing \in BOOLEAN
    /\ undo \in Seq(Names)
    /\ held \in [Contexts -> SUBSET Names]

\* What a context has acquired before the k-th of its calls.
Before(c, k) == {Steps(c)[i] : i \in {j \in DOMAIN Steps(c) : j < k}} \ Omitted(c)

\* What no thread of the context may lose while it runs.
Needed(c) == Acquisitions(c) \ (Threads \cup WorkloadCalls)

\* What unwinding after a failing call may leave behind.
Left(call) == Transient \cup NotTornDown(call)

\* Whether one of the labels u releases x.
ReleasedBy(x, u) == \E j \in DOMAIN u : x \in Releases(u[j])

\* The labels u release everything of h but what is in left.
Covered(h, left, u) == \A x \in h : x \in left \/ ReleasedBy(x, u)

\* A label that releases something of needed comes after those of all threads in h.
ThreadsFirst(h, needed, u) ==
    \A i \in DOMAIN u :
        Releases(u[i]) \cap needed # {} =>
            \A x \in h \cap Threads : \E j \in 1 .. i - 1 : x \in Releases(u[j])

\* A context that is being created.
CreatingInv(c) ==
    /\ step \in DOMAIN Steps(c) /\ Steps(c)[step] \notin Omitted(c)
    /\ ~undoing => undo = << >> /\ held[c] = Before(c, step)
    /\ undoing => Covered(held[c], Left(Steps(c)[step]), undo)
                  /\ ThreadsFirst(held[c], Needed(c), undo)

\* What a context holds, by what tb_startup is doing.
Holds(c) ==
    /\ IF IsActive(c) THEN held[c] \subseteq Acquisitions(c) ELSE held[c] = {}
    /\ at # 0 /\ at < CreateAt(c) => held[c] = {}
    /\ at = CreateAt(c) /\ IsActive(c) => CreatingInv(c)
    /\ CreateAt(c) < at /\ at <= JoinAt(c) /\ IsActive(c) => held[c] = Acquisitions(c)
    /\ CreateAt(c) < at /\ IsActive(c) /\ c \in Classes => "sync" \in held[c]
    /\ JoinAt(c) < at => held[c] \cap Threads = {}
    /\ FreeAt(c) < at => held[c] \subseteq Transient
    /\ held[c] \cap Threads # {} => Needed(c) \subseteq held[c]

HeldInv == \A c \in Contexts : Holds(c)

\* Between the contexts, no call is under way.
IdleInv ==
    at # 0 /\ ~(Doing("create") /\ IsActive(Current.context)) =>
        step = 1 /\ undoing = FALSE /\ undo = << >>

\* The classes are created from the end of the chain.
OrderInv ==
    \A c, d \in PnClasses :
        IsActive(d) /\ c < d /\ held[c] # {} => "sync" \in held[d]

LinkInv ==
    /\ next = [i \in PnClasses |-> Null] \/ next = find_next_pn_thread(conf.active)
    /\ Linked =>
          /\ next = find_next_pn_thread(conf.active)
          /\ \/ /\ FirstClass(conf.active) # Null
                /\ is_first = {FirstClass(conf.active)}
                /\ is_last = {EndOfChain(next, FirstClass(conf.active))}
             \/ GenericL2 \in conf.active

CreationInv == TypeInv /\ HeldInv /\ IdleInv /\ OrderInv

Inv == CreationInv /\ LinkInv

\* The XDP program, by the counter of the sockets and the call of xdp_prog_init.
AtAttach == Doing("create") /\ NextCall = "xdp_attach"
AtMap == Doing("create") /\ NextCall = "xsks_map"

ProgInv ==
    /\ xdp_prog \in {"none", "opened", "attached", "stays"}
    /\ initialized => xdp_prog = "attached"
    /\ xdp_prog = "opened" => Failed \/ AtAttach
    /\ xdp_prog = "attached" => Failed \/ AtMap \/ initialized
    /\ AtAttach => initialized \/ xdp_prog = "opened"
    /\ AtMap => xdp_prog = "attached"
    /\ AtAttach \/ AtMap => ~Counted(Current.context)

---------------------------------------------------------------------------
(***************************************************************************)
(* The lists, entry by entry                                               *)
(***************************************************************************)
\* The calls of tc_threads_create by their positions.
LEMMA TcStepsAre ==
    /\ DOMAIN TcSteps = 1 .. 48
    /\ TcSteps[1] = "desc" /\ TcSteps[2] = "sync" /\ TcSteps[3] = "packet"
    /\ TcSteps[4] = "rx_frames" /\ TcSteps[5] = "rx_iovecs" /\ TcSteps[6] = "rx_msgs"
    /\ TcSteps[7] = "tx_iovecs" /\ TcSteps[8] = "tx_msgs" /\ TcSteps[9] = "tx_control_msgs"
    /\ TcSteps[10] = "rx_control_msgs" /\ TcSteps[11] = "tx_completion_frame"
    /\ TcSteps[12] = "tx_data" /\ TcSteps[13] = "rx_data" /\ TcSteps[14] = "mac"
    /\ TcSteps[15] = "frame_copy" /\ TcSteps[16] = "socket" /\ TcSteps[17] = "xsk"
    /\ TcSteps[18] = "xdp_program" /\ TcSteps[19] = "xdp_attach" /\ TcSteps[20] = "xsks_map"
    /\ TcSteps[21] = "hw_timestamping"
    /\ TcSteps[22] = "umem" /\ TcSteps[23] = "fill_ring" /\ TcSteps[24] = "xsk_socket"
    /\ TcSteps[25] = "xsks_entry" /\ TcSteps[26] = "socket_options"
    /\ TcSteps[27] = "mirror_buffer" /\ TcSteps[28] = "mirror_data"
    /\ TcSteps[29] = "tx_security" /\ TcSteps[30] = "tx_cipher"
    /\ TcSteps[31] = "tx_cipher_context" /\ TcSteps[32] = "tx_key" /\ TcSteps[33] = "rx_security"
    /\ TcSteps[34] = "rx_cipher" /\ TcSteps[35] = "rx_cipher_context" /\ TcSteps[36] = "rx_key"
    /\ TcSteps[37] = "tx_thread" /\ TcSteps[38] = "txgen_thread" /\ TcSteps[39] = "rx_thread"
    /\ TcSteps[40] = "workload" /\ TcSteps[41] = "library" /\ TcSteps[42] = "symbols"
    /\ TcSteps[43] = "arguments" /\ TcSteps[44] = "setup_arguments" /\ TcSteps[45] = "setup_1"
    /\ TcSteps[46] = "setup_2" /\ TcSteps[47] = "workload_thread_1"
    /\ TcSteps[48] = "workload_thread_2"
BY SMTT(40) DEF TcSteps, PacketSteps, XdpSteps, RingSteps, TxSecuritySteps, RxSecuritySteps, WorkloadSteps

\* tb_startup step by step.
LEMMA ProgramIs ==
    /\ Len(Program) = 43 /\ DOMAIN Program = 1 .. 43
    /\ Program[1] = Do("check", Null) /\ Program[2] = Do("signals", Null)
    /\ Program[3] = Do("init", Null) /\ Program[4] = Do("create", LOG)
    /\ Program[5] = Do("create", MQTT) /\ Program[6] = Do("create", JSON)
    /\ Program[7] = Do("alloc", GenericL2) /\ Program[8] = Do("create", GenericL2)
    /\ Program[9] = Do("alloc", Null) /\ Program[10] = Do("link", Null)
    /\ Program[11] = Do("create", UDP_LOW) /\ Program[12] = Do("create", UDP_HIGH)
    /\ Program[13] = Do("create", LLDP) /\ Program[14] = Do("create", DCP)
    /\ Program[15] = Do("create", RTA) /\ Program[16] = Do("create", RTC)
    /\ Program[17] = Do("create", TSN_LOW) /\ Program[18] = Do("create", TSN_HIGH)
    /\ Program[19] = Do("print", Null) /\ Program[20] = Do("join", TSN_HIGH)
    /\ Program[21] = Do("join", TSN_LOW) /\ Program[22] = Do("join", RTC)
    /\ Program[23] = Do("join", RTA) /\ Program[24] = Do("join", DCP)
    /\ Program[25] = Do("join", LLDP) /\ Program[26] = Do("join", UDP_HIGH)
    /\ Program[27] = Do("join", UDP_LOW) /\ Program[28] = Do("join", GenericL2)
    /\ Program[29] = Do("join", MQTT) /\ Program[30] = Do("join", JSON)
    /\ Program[31] = Do("join", LOG) /\ Program[32] = Do("free", TSN_HIGH)
    /\ Program[33] = Do("free", TSN_LOW) /\ Program[34] = Do("free", RTC)
    /\ Program[35] = Do("free", RTA) /\ Program[36] = Do("free", DCP)
    /\ Program[37] = Do("free", LLDP) /\ Program[38] = Do("free", UDP_HIGH)
    /\ Program[39] = Do("free", UDP_LOW) /\ Program[40] = Do("free", GenericL2)
    /\ Program[41] = Do("free", MQTT) /\ Program[42] = Do("free", JSON)
    /\ Program[43] = Do("free", LOG)
BY DEF Program, Each, CreateOrder, JoinOrder

\* Each context is created, joined and freed once, in the places given above.
LEMMA Places ==
    /\ \A c \in Contexts :
          /\ CreateAt(c) \in 4 .. 18 /\ JoinAt(c) \in 20 .. 31 /\ FreeAt(c) \in 32 .. 43
          /\ Program[CreateAt(c)] = Do("create", c)
          /\ Program[JoinAt(c)] = Do("join", c)
          /\ Program[FreeAt(c)] = Do("free", c)
    /\ \A i \in DOMAIN Program :
          /\ Program[i].do = "create" => Program[i].context \in Contexts /\ CreateAt(Program[i].context) = i
          /\ Program[i].do = "join" => Program[i].context \in Contexts /\ JoinAt(Program[i].context) = i
          /\ Program[i].do = "free" => Program[i].context \in Contexts /\ FreeAt(Program[i].context) = i
          /\ Program[i].do \in {"check", "signals", "init", "alloc", "link", "print"} =>
                i \in {1, 2, 3, 7, 9, 10, 19}
<1> USE DEF CreateAt, JoinAt, FreeAt, Contexts, Classes, LogContexts, PnClasses, Do
<1> USE DEF TSN_HIGH, TSN_LOW, RTC, RTA, DCP, LLDP, UDP_HIGH, UDP_LOW, GenericL2, LOG, MQTT, JSON, Null
<1>1. ASSUME NEW c \in Contexts
      PROVE  /\ CreateAt(c) \in 4 .. 18 /\ JoinAt(c) \in 20 .. 31 /\ FreeAt(c) \in 32 .. 43
             /\ Program[CreateAt(c)] = Do("create", c)
             /\ Program[JoinAt(c)] = Do("join", c)
             /\ Program[FreeAt(c)] = Do("free", c)
  <2>1. c \in 0 .. 8 \/ c \in 10 .. 12
    OBVIOUS
  <2> QED BY <2>1, ProgramIs
<1>2. ASSUME NEW i \in DOMAIN Program
      PROVE  /\ Program[i].do = "create" => Program[i].context \in Contexts /\ CreateAt(Program[i].context) = i
             /\ Program[i].do = "join" => Program[i].context \in Contexts /\ JoinAt(Program[i].context) = i
             /\ Program[i].do = "free" => Program[i].context \in Contexts /\ FreeAt(Program[i].context) = i
             /\ Program[i].do \in {"check", "signals", "init", "alloc", "link", "print"} =>
                   i \in {1, 2, 3, 7, 9, 10, 19}
  <2>1. i \in 1 .. 43
    BY ProgramIs
  <2> QED BY <2>1, ProgramIs
<1> QED BY <1>1, <1>2, Zenon

\* In the order of creating, joining and freeing.
LEMMA Spans ==
    \A c \in Contexts : CreateAt(c) \in 4 .. 18 /\ JoinAt(c) \in 20 .. 31 /\ FreeAt(c) \in 32 .. 43
BY Places, Zenon

\* What the configuration and the contexts are.
LEMMA ConfTypes ==
    ASSUME conf \in Configs
    PROVE  /\ conf.active \in SUBSET Classes /\ conf.logs \in SUBSET {MQTT, JSON}
           /\ conf.mirror \in BOOLEAN /\ conf.xdp \in BOOLEAN
           /\ conf.secure \in BOOLEAN /\ conf.workload \in BOOLEAN
BY StartupAssumption

\* The classes that tc_threads_create creates.
TcClasses == {TSN_HIGH, TSN_LOW, RTC, RTA, DCP, LLDP, GenericL2}

\* The contexts of tb_startup, and which function creates which of them.
LEMMA Kinds ==
    /\ Contexts = {LOG, MQTT, JSON, UDP_HIGH, UDP_LOW} \cup TcClasses
    /\ Steps(LOG) = LogSteps /\ Steps(MQTT) = MqttSteps /\ Steps(JSON) = JsonSteps
    /\ \A c \in {UDP_HIGH, UDP_LOW} : Steps(c) = UdpSteps /\ Labels(c) = UdpLabels /\ IsUdp(c)
    /\ \A c \in TcClasses : Steps(c) = TcSteps /\ Labels(c) = WorkloadLabels \o TcLabels /\ ~IsUdp(c)
    /\ Classes = {UDP_HIGH, UDP_LOW} \cup TcClasses /\ LogContexts = {LOG, MQTT, JSON}
    /\ LOG \notin Classes /\ MQTT \notin Classes /\ JSON \notin Classes
    /\ ~IsUdp(LOG) /\ ~IsUdp(MQTT) /\ ~IsUdp(JSON)
    /\ LOG # MQTT /\ LOG # JSON /\ MQTT # JSON /\ JSON \notin TcClasses
<1> USE DEF TSN_HIGH, TSN_LOW, RTC, RTA, DCP, LLDP, UDP_HIGH, UDP_LOW, GenericL2, LOG, MQTT, JSON
<1>1. PnClasses = {TSN_HIGH, TSN_LOW, RTC, RTA, DCP, LLDP, UDP_HIGH, UDP_LOW}
  BY DEF PnClasses
<1>2. /\ Contexts = {LOG, MQTT, JSON, UDP_HIGH, UDP_LOW} \cup TcClasses
      /\ Classes = {UDP_HIGH, UDP_LOW} \cup TcClasses /\ LogContexts = {LOG, MQTT, JSON}
  BY <1>1 DEF Contexts, Classes, LogContexts, TcClasses
<1>3. /\ LOG \notin Classes /\ MQTT \notin Classes /\ JSON \notin Classes
      /\ LOG # MQTT /\ LOG # JSON /\ MQTT # JSON /\ JSON \notin TcClasses
  BY <1>1 DEF Classes, TcClasses
<1>4. /\ ~IsUdp(LOG) /\ ~IsUdp(MQTT) /\ ~IsUdp(JSON)
      /\ Steps(LOG) = LogSteps /\ Steps(MQTT) = MqttSteps /\ Steps(JSON) = JsonSteps
  BY DEF IsUdp, Steps
<1>5. \A c \in {UDP_HIGH, UDP_LOW} : Steps(c) = UdpSteps /\ Labels(c) = UdpLabels /\ IsUdp(c)
  BY DEF IsUdp, Steps, Labels
<1>6. \A c \in TcClasses : Steps(c) = TcSteps /\ Labels(c) = WorkloadLabels \o TcLabels /\ ~IsUdp(c)
  BY DEF TcClasses, IsUdp, Steps, Labels
<1> QED BY <1>2, <1>3, <1>4, <1>5, <1>6

\* The calls for the other contexts by their positions.
LEMMA OtherStepsAre ==
    /\ DOMAIN UdpSteps = 1 .. 9
    /\ UdpSteps[1] = "socket" /\ UdpSteps[2] = "sync" /\ UdpSteps[3] = "tx_data"
    /\ UdpSteps[4] = "rx_data" /\ UdpSteps[5] = "mirror_buffer" /\ UdpSteps[6] = "mirror_data"
    /\ UdpSteps[7] = "tx_thread" /\ UdpSteps[8] = "txgen_thread" /\ UdpSteps[9] = "rx_thread"
    /\ DOMAIN LogSteps = 1 .. 4
    /\ LogSteps[1] = "context" /\ LogSteps[2] = "log_data" /\ LogSteps[3] = "file"
    /\ LogSteps[4] = "thread"
    /\ DOMAIN MqttSteps = 1 .. 2
    /\ MqttSteps[1] = "context" /\ MqttSteps[2] = "thread"
    /\ DOMAIN JsonSteps = 1 .. 3
    /\ JsonSteps[1] = "context" /\ JsonSteps[2] = "socket" /\ JsonSteps[3] = "thread"
BY DEF UdpSteps, LogSteps, MqttSteps, JsonSteps, RingSteps

\* The sets of calls.
LEMMA CallSets ==
    /\ PacketCalls = {"packet", "rx_frames", "rx_iovecs", "rx_msgs", "tx_iovecs", "tx_msgs",
                      "tx_control_msgs", "rx_control_msgs", "tx_completion_frame"}
    /\ TxSecurityCalls = {"tx_security", "tx_cipher", "tx_cipher_context", "tx_key"}
    /\ RxSecurityCalls = {"rx_security", "rx_cipher", "rx_cipher_context", "rx_key"}
    /\ RingCalls = {"mirror_buffer", "mirror_data"}
    /\ XdpCalls = {"xsk", "xdp_program", "xdp_attach", "xsks_map", "hw_timestamping", "umem",
                   "fill_ring", "xsk_socket", "xsks_entry", "socket_options"}
    /\ WorkloadCalls = {"workload", "library", "symbols", "arguments", "setup_arguments", "setup_1",
                        "setup_2", "workload_thread_1", "workload_thread_2"}
BY DEF PacketCalls, TxSecurityCalls, RxSecurityCalls, RingCalls, XdpCalls, WorkloadCalls, Range,
       PacketSteps, TxSecuritySteps, RxSecuritySteps, RingSteps, XdpSteps, WorkloadSteps

\* UDP sockets are not AF_XDP sockets.
LEMMA UdpIsNotXdp == \A c \in {UDP_HIGH, UDP_LOW} : ~Xdp(c)
<1>1. Descriptor(UDP_HIGH) = udp_high_threads_create /\ Descriptor(UDP_LOW) = udp_low_threads_create
  BY DEF Descriptor, TSN_HIGH, TSN_LOW, RTC, RTA, DCP, LLDP, UDP_HIGH, UDP_LOW, GenericL2
<1> QED BY <1>1 DEF Xdp, udp_high_threads_create, udp_low_threads_create

\* The first call for a context is never left out.
LEMMA FirstCall ==
    ASSUME NEW c \in Contexts
    PROVE  1 \in DOMAIN Steps(c) /\ Steps(c)[1] \notin Omitted(c)
<1> USE CallSets DEF Omitted, AfPacketCalls, SecurityCalls
<1>1. CASE c \in TcClasses
  <2>1. Steps(c) = TcSteps
    BY <1>1, Kinds
  <2>2. 1 \in DOMAIN TcSteps /\ TcSteps[1] = "desc"
    BY TcStepsAre
  <2> QED BY <2>1, <2>2
<1>2. CASE c \in {UDP_HIGH, UDP_LOW}
  BY <1>2, Kinds, OtherStepsAre, UdpIsNotXdp
<1>3. CASE c \in {LOG, MQTT, JSON}
  BY <1>3, Kinds, OtherStepsAre
<1> QED BY <1>1, <1>2, <1>3, Kinds

\* The calls that create a context are numbered from 1 on.
LEMMA StepTypes ==
    ASSUME NEW c \in Contexts
    PROVE  /\ DOMAIN Steps(c) \subseteq Nat \ {0}
           /\ \A i \in DOMAIN Steps(c) : Steps(c)[i] \in Names
           /\ Acquisitions(c) \subseteq Names
<1>1. /\ DOMAIN Steps(c) \subseteq Nat \ {0}
      /\ \A i \in DOMAIN Steps(c) : Steps(c)[i] \in Names
  <2>1. TcSteps \in Seq(Names)
    BY DEF TcSteps, PacketSteps, XdpSteps, RingSteps, TxSecuritySteps, RxSecuritySteps, WorkloadSteps, Names
  <2>2. /\ UdpSteps \in Seq(Names) /\ LogSteps \in Seq(Names)
        /\ MqttSteps \in Seq(Names) /\ JsonSteps \in Seq(Names)
    BY DEF UdpSteps, LogSteps, MqttSteps, JsonSteps, RingSteps, Names
  <2>3. Steps(c) \in Seq(Names)
    BY <2>1, <2>2, Kinds
  <2> QED BY <2>3
<1> QED BY <1>1 DEF Acquisitions, Range

\* Every class has a mutex and a condition variable.
LEMMA SyncAcquired == \A c \in Classes : "sync" \in Acquisitions(c)
<1> SUFFICES ASSUME NEW c \in Classes PROVE "sync" \in Acquisitions(c)
  OBVIOUS
<1>1. "sync" \notin Omitted(c)
  BY CallSets DEF Omitted, AfPacketCalls, SecurityCalls
<1>2. 2 \in DOMAIN Steps(c) /\ Steps(c)[2] = "sync"
  <2>1. 2 \in DOMAIN TcSteps /\ TcSteps[2] = "sync"
    BY TcStepsAre
  <2>2. 2 \in DOMAIN UdpSteps /\ UdpSteps[2] = "sync"
    BY OtherStepsAre
  <2> QED BY <2>1, <2>2, Kinds
<1> QED BY <1>1, <1>2 DEF Acquisitions, Range

\* The threads of a context are created after everything they use.
LEMMA ThreadsLast ==
    ASSUME NEW c \in Contexts, NEW i \in DOMAIN Steps(c), Steps(c)[i] \in Threads,
           NEW j \in DOMAIN Steps(c), i <= j
    PROVE  Steps(c)[j] \in Threads \cup WorkloadCalls
<1>0. Threads = {"thread", "tx_thread", "txgen_thread", "rx_thread", "workload_thread_1", "workload_thread_2"}
  BY DEF Threads, WorkloadThreads
<1>1. CASE c \in TcClasses
  <2>1. Steps(c) = TcSteps /\ DOMAIN TcSteps = 1 .. 48
    BY <1>1, Kinds, TcStepsAre
  <2>2. ASSUME NEW k \in 1 .. 36 PROVE TcSteps[k] \notin Threads
    BY <1>0, TcStepsAre
  <2>3. ASSUME NEW k \in 37 .. 48 PROVE TcSteps[k] \in Threads \cup WorkloadCalls
    BY <1>0, TcStepsAre, CallSets
  <2>4. i \in 37 .. 48
    BY <2>1, <2>2
  <2>5. j \in 37 .. 48
    BY <2>1, <2>4
  <2> QED BY <2>1, <2>3, <2>5
<1>2. CASE c \in {UDP_HIGH, UDP_LOW}
  <2>1. Steps(c) = UdpSteps /\ DOMAIN UdpSteps = 1 .. 9
    BY <1>2, Kinds, OtherStepsAre
  <2>2. ASSUME NEW k \in 1 .. 6 PROVE UdpSteps[k] \notin Threads
    BY <1>0, OtherStepsAre
  <2>3. ASSUME NEW k \in 7 .. 9 PROVE UdpSteps[k] \in Threads
    BY <1>0, OtherStepsAre
  <2>4. i \in 7 .. 9 /\ j \in 7 .. 9
    BY <2>1, <2>2
  <2> QED BY <2>1, <2>3, <2>4
<1>3. CASE c = LOG
  BY <1>0, <1>3, Kinds, OtherStepsAre
<1>4. CASE c = MQTT
  BY <1>0, <1>4, Kinds, OtherStepsAre
<1>5. CASE c = JSON
  BY <1>0, <1>5, Kinds, OtherStepsAre
<1> QED BY <1>1, <1>2, <1>3, <1>4, <1>5, Kinds

\* A class has the longest list.
LEMMA ListLength ==
    ASSUME NEW c \in Contexts
    PROVE  DOMAIN Steps(c) \subseteq 1 .. 48
<1>1. CASE c \in TcClasses
  <2>1. Steps(c) = TcSteps
    BY <1>1, Kinds, Zenon
  <2>2. DOMAIN TcSteps = 1 .. 48
    BY TcStepsAre, Zenon
  <2> QED BY <2>1, <2>2
<1>2. CASE c \notin TcClasses
  <2>1. Steps(c) \in {UdpSteps, LogSteps, MqttSteps, JsonSteps}
    BY <1>2, Kinds, SMTT(40)
  <2>2. /\ DOMAIN UdpSteps = 1 .. 9 /\ DOMAIN LogSteps = 1 .. 4
        /\ DOMAIN MqttSteps = 1 .. 2 /\ DOMAIN JsonSteps = 1 .. 3
    BY OtherStepsAre, Zenon
  <2> QED BY <2>1, <2>2
<1> QED BY <1>1, <1>2, Zenon

\* A set of places in a list has a least element.
LEMMA LeastElement ==
    ASSUME NEW T \in SUBSET (0 .. 48), T # {}
    PROVE  \E x \in T : \A y \in T : x <= y
<1> DEFINE G == {n \in 0 .. 48 : (\E z \in T : z <= n) => \E x \in T : \A y \in T : x <= y}
<1>1. 0 \in G
  OBVIOUS
<1>2. ASSUME NEW n \in 0 .. 47, n \in G PROVE n + 1 \in G
  <2>1. CASE \E z \in T : z <= n
    BY <1>2, <2>1
  <2>2. CASE ~(\E z \in T : z <= n)
    <3>1. \A y \in T : n + 1 <= y
      BY <2>2
    <3> QED BY <3>1
  <2> QED BY <2>1, <2>2
<1>3. 48 \in G
  <2> HIDE DEF G
  <2>1. \A n \in 0 .. 47 : n \in G => n + 1 \in G
    BY <1>2
  <2>2. 8 \in G
    BY <1>1, <2>1
  <2>3. 16 \in G
    BY <2>1, <2>2
  <2>4. 24 \in G
    BY <2>1, <2>3
  <2>5. 32 \in G
    BY <2>1, <2>4
  <2>6. 40 \in G
    BY <2>1, <2>5
  <2> QED BY <2>1, <2>6
<1>4. \E z \in T : z <= 48
  <2>1. PICK z : z \in T
    BY Zenon
  <2> QED BY <2>1
<1> QED BY <1>3, <1>4

\* What a context holds after one more call, be it the last one or not.
LEMMA OneMore ==
    ASSUME NEW c \in Contexts, NEW k \in DOMAIN Steps(c), Steps(c)[k] \notin Omitted(c)
    PROVE  /\ Later(c, k) = {} => Before(c, k) \cup {Steps(c)[k]} = Acquisitions(c)
           /\ \A n : n = (CHOOSE i \in Later(c, k) : \A j \in Later(c, k) : i <= j) /\ Later(c, k) # {} =>
                 /\ n \in DOMAIN Steps(c) /\ Steps(c)[n] \notin Omitted(c)
                 /\ Before(c, n) = Before(c, k) \cup {Steps(c)[k]}
<1>0. DOMAIN Steps(c) \subseteq Nat
  BY StepTypes
<1>1. Later(c, k) = {j \in DOMAIN Steps(c) : k < j /\ Steps(c)[j] \notin Omitted(c)}
  BY DEF Later
<1>2. ASSUME Later(c, k) = {} PROVE Before(c, k) \cup {Steps(c)[k]} = Acquisitions(c)
  <2>1. \A j \in DOMAIN Steps(c) : Steps(c)[j] \notin Omitted(c) => j < k \/ j = k
    BY <1>0, <1>1, <1>2
  <2> QED BY <2>1 DEF Before, Acquisitions, Range
<1>3. ASSUME NEW n, n = (CHOOSE i \in Later(c, k) : \A j \in Later(c, k) : i <= j), Later(c, k) # {}
      PROVE  /\ n \in DOMAIN Steps(c) /\ Steps(c)[n] \notin Omitted(c)
             /\ Before(c, n) = Before(c, k) \cup {Steps(c)[k]}
  <2>1. Later(c, k) \in SUBSET (0 .. 48)
    BY <1>1, ListLength
  <2>2. \E i \in Later(c, k) : \A j \in Later(c, k) : i <= j
    BY <1>3, <2>1, LeastElement, Zenon
  <2>3. n \in Later(c, k) /\ \A j \in Later(c, k) : n <= j
    BY <1>3, <2>2, Zenon
  <2>4. n \in DOMAIN Steps(c) /\ Steps(c)[n] \notin Omitted(c) /\ k < n
    BY <1>1, <2>3
  <2>5. \A j \in DOMAIN Steps(c) : Steps(c)[j] \notin Omitted(c) => (j < n <=> j < k \/ j = k)
    BY <1>0, <1>1, <2>3, <2>4
  <2>6. Before(c, n) = Before(c, k) \cup {Steps(c)[k]}
    BY <1>0, <2>4, <2>5 DEF Before
  <2> QED BY <2>4, <2>6
<1> QED BY <1>2, <1>3, Zenon

---------------------------------------------------------------------------
(***************************************************************************)
(* Unwinding                                                               *)
(***************************************************************************)
\* No label occurs twice in a list.
Distinct(labels) == \A i, j \in DOMAIN labels : labels[i] = labels[j] => i = j

\* A goto leads to the label and to all labels behind it.
LEMMA FromLabel ==
    ASSUME NEW labels \in Seq(Names), Distinct(labels), NEW p \in DOMAIN labels
    PROVE  /\ From(labels, labels[p]) \in Seq(Names)
           /\ DOMAIN From(labels, labels[p]) = 1 .. Len(labels) - p + 1
           /\ \A i \in 1 .. Len(labels) - p + 1 : From(labels, labels[p])[i] = labels[p + i - 1]
<1>1. (CHOOSE i \in DOMAIN labels : labels[i] = labels[p]) = p
  BY DEF Distinct
<1>2. From(labels, labels[p]) = SubSeq(labels, p, Len(labels))
  BY <1>1, Zenon DEF From
<1>3. p \in 1 .. Len(labels) /\ Len(labels) \in Nat
  OBVIOUS
<1>4. /\ SubSeq(labels, p, Len(labels)) \in Seq(Names)
      /\ DOMAIN SubSeq(labels, p, Len(labels)) = 1 .. Len(labels) - p + 1
      /\ \A i \in 1 .. Len(labels) - p + 1 : SubSeq(labels, p, Len(labels))[i] = labels[p + i - 1]
  BY <1>3
<1> QED BY <1>2, <1>4, Zenon

\* It releases what any of these labels releases.
LEMMA ReleasedFrom ==
    ASSUME NEW labels \in Seq(Names), Distinct(labels), NEW p \in DOMAIN labels,
           NEW q \in DOMAIN labels, p <= q, NEW x \in Releases(labels[q])
    PROVE  ReleasedBy(x, From(labels, labels[p]))
<1>0. p \in Nat /\ q \in Nat /\ q <= Len(labels) /\ Len(labels) \in Nat
  OBVIOUS
<1>1. PICK j : j = q - p + 1
  OBVIOUS
<1>2. j \in 1 .. Len(labels) - p + 1 /\ p + j - 1 = q
  BY <1>0, <1>1, SMTT(40)
<1>3. From(labels, labels[p])[j] = labels[q] /\ j \in DOMAIN From(labels, labels[p])
  BY <1>2, FromLabel
<1> QED BY <1>3, Zenon DEF ReleasedBy

\* Two lists of labels release what either releases.
LEMMA ReleasedByBoth ==
    ASSUME NEW u \in Seq(Names), NEW v \in Seq(Names), NEW x, ReleasedBy(x, u) \/ ReleasedBy(x, v)
    PROVE  ReleasedBy(x, u \o v)
<1>1. CASE ReleasedBy(x, u)
  <2>1. PICK j \in DOMAIN u : x \in Releases(u[j])
    BY <1>1 DEF ReleasedBy
  <2>2. j \in DOMAIN (u \o v) /\ (u \o v)[j] = u[j]
    OBVIOUS
  <2> QED BY <2>1, <2>2, Zenon DEF ReleasedBy
<1>2. CASE ReleasedBy(x, v)
  <2>1. PICK j \in DOMAIN v : x \in Releases(v[j])
    BY <1>2 DEF ReleasedBy
  <2>2. Len(u) + j \in DOMAIN (u \o v) /\ (u \o v)[Len(u) + j] = v[j]
    OBVIOUS
  <2> QED BY <2>1, <2>2, Zenon DEF ReleasedBy
<1> QED BY <1>1, <1>2

AllLabels == WorkloadLabels \o TcLabels

\* The labels of tc_threads_create by their positions, and what they release.
LEMMA AllLabelsAre ==
    /\ DOMAIN AllLabels = 1 .. 18
    /\ AllLabels[1] = "workload_thread_1" /\ AllLabels[2] = "setup_1" /\ AllLabels[3] = "setup_arguments"
    /\ AllLabels[4] = "arguments" /\ AllLabels[5] = "library" /\ AllLabels[6] = "workload"
    /\ AllLabels[7] = "rx_thread" /\ AllLabels[8] = "txgen_thread" /\ AllLabels[9] = "tx_thread"
    /\ AllLabels[10] = "rx_security" /\ AllLabels[11] = "tx_security" /\ AllLabels[12] = "mirror_buffer"
    /\ AllLabels[13] = "socket" /\ AllLabels[14] = "frame_copy" /\ AllLabels[15] = "rx_data"
    /\ AllLabels[16] = "tx_data" /\ AllLabels[17] = "packet" /\ AllLabels[18] = "desc"
BY DEF AllLabels, WorkloadLabels, TcLabels

\* No two labels of tc_threads_create and workload_context_init are the same.
LEMMA AllLabelsTyped == AllLabels \in Seq(Names) /\ Len(AllLabels) = 18 /\ Distinct(AllLabels)
<1>1. AllLabels \in Seq(Names) /\ Len(AllLabels) = 18
  BY DEF AllLabels, WorkloadLabels, TcLabels, Names
<1>2. ASSUME NEW i \in 1 .. 18, NEW j \in 1 .. 18, AllLabels[i] = AllLabels[j] PROVE i = j
  BY <1>2, AllLabelsAre
<1>3. DOMAIN AllLabels = 1 .. 18
  BY AllLabelsAre
<1> QED BY <1>1, <1>2, <1>3, Zenon DEF Distinct

\* What each of them releases.
LEMMA AllReleases ==
    /\ Releases("workload_thread_1") = {"workload_thread_1"} /\ Releases("setup_1") = {"setup_1"}
    /\ Releases("setup_arguments") = {"setup_arguments"} /\ Releases("arguments") = {"arguments"}
    /\ Releases("library") = {"library"} /\ Releases("workload") = {"workload"}
    /\ Releases("rx_thread") = {"rx_thread"} /\ Releases("txgen_thread") = {"txgen_thread"}
    /\ Releases("tx_thread") = {"tx_thread"}
    /\ Releases("rx_security") = {"rx_security", "rx_cipher", "rx_cipher_context"}
    /\ Releases("tx_security") = {"tx_security", "tx_cipher", "tx_cipher_context"}
    /\ Releases("mirror_buffer") = {"mirror_buffer", "mirror_data"}
    /\ Releases("socket") = {"socket", "xsk_socket", "umem", "xsks_map", "xsk"}
    /\ Releases("frame_copy") = {"frame_copy"} /\ Releases("rx_data") = {"rx_data"}
    /\ Releases("tx_data") = {"tx_data"} /\ Releases("packet") = PacketCalls
    /\ Releases("desc") = {"desc"}
BY DEF Releases, packet_free, security_exit, xdp_close_socket, ring_buffer_free

\* By the position of a call: the position of the label that releases what it
\* acquires, 0 if there is none.
LabelOf ==
    <<18, 0, 17, 17, 17, 17, 17, 17, 17, 17, 17, 16, 15, 0, 14, 13, 13, 0, 0, 13, 0, 13, 0, 13,
      0, 0, 12, 12, 11, 11, 11, 0, 10, 10, 10, 0, 9, 8, 7, 6, 5, 0, 4, 3, 2, 0, 1, 0>>

\* By the position of a call: the position of the label its failure leads to, 0 if
\* there is none.
GotoOf ==
    <<0, 0, 18, 18, 18, 18, 18, 18, 18, 18, 18, 17, 16, 15, 15, 14, 14, 14, 14, 14, 14, 14, 14,
      14, 14, 14, 13, 13, 12, 12, 12, 12, 11, 11, 11, 11, 10, 9, 8, 7, 6, 5, 5, 4, 3, 2, 3, 1>>

\* They are entries of these lists.
LEMMA PositionTypes ==
    ASSUME NEW i \in 1 .. 48
    PROVE  LabelOf[i] \in 0 .. 18 /\ GotoOf[i] \in 0 .. 18
BY DEF LabelOf, GotoOf

\* Every call that is not transient has a label, but for the set-up and the thread
\* of the second workload.
LEMMA CallReleased ==
    ASSUME NEW i \in 1 .. 48
    PROVE  IF LabelOf[i] = 0 THEN TcSteps[i] \in Transient \cup {"setup_2", "workload_thread_2"}
           ELSE TcSteps[i] \in Releases(AllLabels[LabelOf[i]])
<1>1. CASE i \in 1 .. 15
  BY <1>1, TcStepsAre, AllLabelsAre, AllReleases, CallSets DEF LabelOf, Transient
<1>2. CASE i \in 16 .. 28
  BY <1>2, TcStepsAre, AllLabelsAre, AllReleases DEF LabelOf, Transient
<1>3. CASE i \in 29 .. 39
  BY <1>3, TcStepsAre, AllLabelsAre, AllReleases DEF LabelOf, Transient
<1>4. CASE i \in 40 .. 48
  BY <1>4, TcStepsAre, AllLabelsAre, AllReleases DEF LabelOf, Transient
<1> QED BY <1>1, <1>2, <1>3, <1>4

\* Where the gotos of tc_threads_create lead.
LEMMA GotoTc ==
    ASSUME NEW c \in TcClasses, NEW k \in 1 .. 48
    PROVE  GotoLabel(c, TcSteps[k]) =
              IF GotoOf[k] = 0 THEN << >> ELSE From(AllLabels, AllLabels[GotoOf[k]])
<1>0. Labels(c) = AllLabels /\ ~IsUdp(c) /\ c \notin LogContexts
  <2>1. c \in Classes
    BY Kinds
  <2> QED BY <2>1, Kinds DEF AllLabels
<1>1. Target(c, TcSteps[k]) =
         IF TcSteps[k] \in WorkloadCalls THEN WorkloadTarget(TcSteps[k]) ELSE TcTarget(TcSteps[k])
  BY <1>0 DEF Target
<1>2. CASE k \in 1 .. 2
  <2>1. \A i \in DOMAIN AllLabels : AllLabels[i] # "none"
    BY AllLabelsAre
  <2>2. From(AllLabels, "none") = << >>
    BY <2>1 DEF From
  <2>3. TcSteps[k] \in {"desc", "sync"} /\ GotoOf[k] = 0
    BY <1>2, TcStepsAre DEF GotoOf
  <2>4. TcSteps[k] \notin WorkloadCalls
    BY <2>3, CallSets
  <2>5. TcTarget(TcSteps[k]) = "none"
    BY <2>3, CallSets DEF TcTarget
  <2>6. Target(c, TcSteps[k]) = "none"
    BY <1>1, <2>4, <2>5, Zenon
  <2> QED BY <1>0, <2>2, <2>3, <2>6, Zenon DEF GotoLabel
<1>3. CASE k \in 3 .. 39
  <2>1. TcSteps[k] \notin WorkloadCalls
    BY <1>3, TcStepsAre, CallSets, SMTT(40)
  <2>2. GotoOf[k] # 0 /\ TcTarget(TcSteps[k]) = AllLabels[GotoOf[k]]
    <3>1. CASE k \in 3 .. 11
      BY <3>1, TcStepsAre, AllLabelsAre, CallSets, SMTT(60) DEF TcTarget, GotoOf
    <3>2. CASE k \in 12 .. 15
      BY <3>2, TcStepsAre, AllLabelsAre, CallSets, SMTT(60) DEF TcTarget, GotoOf
    <3>3. CASE k \in 16 .. 26
      BY <3>3, TcStepsAre, AllLabelsAre, CallSets, SMTT(60) DEF TcTarget, GotoOf
    <3>4. CASE k \in 27 .. 32
      BY <3>4, TcStepsAre, AllLabelsAre, CallSets, SMTT(60) DEF TcTarget, GotoOf
    <3>5. CASE k \in 33 .. 39
      BY <3>5, TcStepsAre, AllLabelsAre, CallSets, SMTT(60) DEF TcTarget, GotoOf
    <3> QED BY <1>3, <3>1, <3>2, <3>3, <3>4, <3>5, SMTT(40)
  <2>3. Target(c, TcSteps[k]) = AllLabels[GotoOf[k]]
    BY <1>1, <2>1, <2>2, Zenon
  <2> QED BY <1>0, <2>2, <2>3, Zenon DEF GotoLabel
<1>4. CASE k \in 40 .. 48
  <2>1. TcSteps[k] \in WorkloadCalls
    BY <1>4, TcStepsAre, CallSets, SMTT(40)
  <2>2. GotoOf[k] # 0 /\ WorkloadTarget(TcSteps[k]) = AllLabels[GotoOf[k]]
    BY <1>4, TcStepsAre, AllLabelsAre, SMTT(60) DEF WorkloadTarget, GotoOf
  <2>3. Target(c, TcSteps[k]) = AllLabels[GotoOf[k]]
    BY <1>1, <2>1, <2>2, Zenon
  <2> QED BY <1>0, <2>2, <2>3, Zenon DEF GotoLabel
<1> QED BY <1>2, <1>3, <1>4

\* The labels of the functions that are called, by their positions.
LEMMA InnerLabelsAre ==
    /\ DOMAIN PacketLabels = 1 .. 8
    /\ PacketLabels[1] = "rx_control_msgs" /\ PacketLabels[2] = "tx_control_msgs"
    /\ PacketLabels[3] = "tx_msgs" /\ PacketLabels[4] = "tx_iovecs" /\ PacketLabels[5] = "rx_msgs"
    /\ PacketLabels[6] = "rx_iovecs" /\ PacketLabels[7] = "rx_frames" /\ PacketLabels[8] = "packet_only"
    /\ DOMAIN TxSecurityLabels = 1 .. 3
    /\ TxSecurityLabels[1] = "tx_cipher_context" /\ TxSecurityLabels[2] = "tx_cipher"
    /\ TxSecurityLabels[3] = "tx_security_only"
    /\ DOMAIN RxSecurityLabels = 1 .. 3
    /\ RxSecurityLabels[1] = "rx_cipher_context" /\ RxSecurityLabels[2] = "rx_cipher"
    /\ RxSecurityLabels[3] = "rx_security_only"
    /\ DOMAIN XdpLabels = 1 .. 4
    /\ XdpLabels[1] = "xsk_socket" /\ XdpLabels[2] = "umem"
    /\ XdpLabels[3] = "xsks_map" /\ XdpLabels[4] = "xsk"
BY DEF PacketLabels, TxSecurityLabels, RxSecurityLabels, XdpLabels

\* The labels of packet_init, security_init and xdp_open_socket.
LEMMA InnerLabelsTyped ==
    /\ PacketLabels \in Seq(Names) /\ Distinct(PacketLabels)
    /\ TxSecurityLabels \in Seq(Names) /\ Distinct(TxSecurityLabels)
    /\ RxSecurityLabels \in Seq(Names) /\ Distinct(RxSecurityLabels)
    /\ XdpLabels \in Seq(Names) /\ Distinct(XdpLabels)
<1>1. /\ PacketLabels \in Seq(Names) /\ TxSecurityLabels \in Seq(Names)
      /\ RxSecurityLabels \in Seq(Names) /\ XdpLabels \in Seq(Names)
  BY DEF PacketLabels, TxSecurityLabels, RxSecurityLabels, XdpLabels, Names
<1>2. Distinct(PacketLabels)
  <2>1. ASSUME NEW i \in 1 .. 8, NEW j \in 1 .. 8, PacketLabels[i] = PacketLabels[j] PROVE i = j
    BY <2>1, InnerLabelsAre
  <2>2. DOMAIN PacketLabels = 1 .. 8
    BY InnerLabelsAre
  <2> QED BY <2>1, <2>2, Zenon DEF Distinct
<1>3. Distinct(TxSecurityLabels) /\ Distinct(RxSecurityLabels) /\ Distinct(XdpLabels)
  BY InnerLabelsAre DEF Distinct
<1> QED BY <1>1, <1>2, <1>3

\* What they release.
LEMMA InnerReleases ==
    /\ Releases("rx_control_msgs") = {"rx_control_msgs"} /\ Releases("tx_control_msgs") = {"tx_control_msgs"}
    /\ Releases("tx_msgs") = {"tx_msgs"} /\ Releases("tx_iovecs") = {"tx_iovecs"}
    /\ Releases("rx_msgs") = {"rx_msgs"} /\ Releases("rx_iovecs") = {"rx_iovecs"}
    /\ Releases("rx_frames") = {"rx_frames"} /\ Releases("packet_only") = {"packet"}
    /\ Releases("tx_cipher_context") = {"tx_cipher_context"} /\ Releases("tx_cipher") = {"tx_cipher"}
    /\ Releases("tx_security_only") = {"tx_security"}
    /\ Releases("rx_cipher_context") = {"rx_cipher_context"} /\ Releases("rx_cipher") = {"rx_cipher"}
    /\ Releases("rx_security_only") = {"rx_security"}
    /\ Releases("xsk_socket") = {"xsk_socket"} /\ Releases("umem") = {"umem"}
    /\ Releases("xsks_map") = {"xsks_map"} /\ Releases("xsk") = {"xsk"}
    /\ Releases("mirror_buffer_only") = {"mirror_buffer"}
BY DEF Releases

\* Which of them a failing call goes through.
LEMMA InnerGotos ==
    /\ InnerLabels("tx_completion_frame") = PacketLabels
    /\ InnerLabels("rx_control_msgs") = From(PacketLabels, PacketLabels[2])
    /\ InnerLabels("tx_control_msgs") = From(PacketLabels, PacketLabels[3])
    /\ InnerLabels("tx_msgs") = From(PacketLabels, PacketLabels[4])
    /\ InnerLabels("tx_iovecs") = From(PacketLabels, PacketLabels[5])
    /\ InnerLabels("rx_msgs") = From(PacketLabels, PacketLabels[6])
    /\ InnerLabels("rx_iovecs") = From(PacketLabels, PacketLabels[7])
    /\ InnerLabels("rx_frames") = From(PacketLabels, PacketLabels[8])
    /\ InnerLabels("tx_key") = TxSecurityLabels
    /\ InnerLabels("tx_cipher_context") = From(TxSecurityLabels, TxSecurityLabels[2])
    /\ InnerLabels("tx_cipher") = From(TxSecurityLabels, TxSecurityLabels[3])
    /\ InnerLabels("rx_key") = RxSecurityLabels
    /\ InnerLabels("rx_cipher_context") = From(RxSecurityLabels, RxSecurityLabels[2])
    /\ InnerLabels("rx_cipher") = From(RxSecurityLabels, RxSecurityLabels[3])
    /\ InnerLabels("mirror_data") = <<"mirror_buffer_only">>
    /\ InnerLabels("socket_options") = XdpLabels /\ InnerLabels("xsks_entry") = XdpLabels
    /\ InnerLabels("xsk_socket") = From(XdpLabels, XdpLabels[2])
    /\ InnerLabels("fill_ring") = From(XdpLabels, XdpLabels[2])
    /\ InnerLabels("umem") = From(XdpLabels, XdpLabels[3])
    /\ InnerLabels("hw_timestamping") = From(XdpLabels, XdpLabels[3])
    /\ InnerLabels("xsks_map") = From(XdpLabels, XdpLabels[4])
    /\ InnerLabels("xdp_attach") = From(XdpLabels, XdpLabels[4])
    /\ InnerLabels("xdp_program") = From(XdpLabels, XdpLabels[4])
<1>1. /\ InnerLabels("tx_completion_frame") = PacketLabels
      /\ InnerLabels("rx_control_msgs") = From(PacketLabels, PacketLabels[2])
      /\ InnerLabels("tx_control_msgs") = From(PacketLabels, PacketLabels[3])
      /\ InnerLabels("tx_msgs") = From(PacketLabels, PacketLabels[4])
      /\ InnerLabels("tx_iovecs") = From(PacketLabels, PacketLabels[5])
      /\ InnerLabels("rx_msgs") = From(PacketLabels, PacketLabels[6])
      /\ InnerLabels("rx_iovecs") = From(PacketLabels, PacketLabels[7])
      /\ InnerLabels("rx_frames") = From(PacketLabels, PacketLabels[8])
  BY InnerLabelsAre DEF InnerLabels
<1> QED BY <1>1, InnerLabelsAre DEF InnerLabels

\* Labels of a list release what its positions say.
LEMMA ReleasedAt ==
    ASSUME NEW labels \in Seq(Names), Distinct(labels), NEW p \in DOMAIN labels,
           NEW q \in DOMAIN labels, p <= q, NEW x \in Releases(labels[q]),
           NEW u, u = labels \/ u = From(labels, labels[p])
    PROVE  ReleasedBy(x, u)
<1>1. ReleasedBy(x, labels)
  BY DEF ReleasedBy
<1>2. ReleasedBy(x, From(labels, labels[p]))
  BY ReleasedFrom, Zenon
<1> QED BY <1>1, <1>2

\* packet_init unwinds its own allocations.
LEMMA PacketUnwinds ==
    ASSUME NEW k \in 4 .. 11, NEW i \in 3 .. k - 1
    PROVE  ReleasedBy(TcSteps[i], InnerLabels(TcSteps[k]))
<1>0. i \in 3 .. 10 /\ i < k
  OBVIOUS
<1>1. 11 - i \in DOMAIN PacketLabels /\ TcSteps[i] \in Releases(PacketLabels[11 - i])
  BY <1>0, TcStepsAre, InnerLabelsAre, InnerReleases
<1>2. \E p \in DOMAIN PacketLabels :
         /\ p <= 11 - i
         /\ InnerLabels(TcSteps[k]) = PacketLabels \/ InnerLabels(TcSteps[k]) = From(PacketLabels, PacketLabels[p])
  <2>0. k = 11 \/ k = 10 \/ k = 9 \/ k = 8 \/ k = 7 \/ k = 6 \/ k = 5 \/ k = 4
    OBVIOUS
  <2> USE TcStepsAre, InnerLabelsAre, InnerGotos
  <2>1. CASE k = 11 BY <1>0, <2>1
  <2>2. CASE k = 10 BY <1>0, <2>2
  <2>3. CASE k = 9 BY <1>0, <2>3
  <2>4. CASE k = 8 BY <1>0, <2>4
  <2>5. CASE k = 7 BY <1>0, <2>5
  <2>6. CASE k = 6 BY <1>0, <2>6
  <2>7. CASE k = 5 BY <1>0, <2>7
  <2>8. CASE k = 4 BY <1>0, <2>8
  <2> HIDE TcStepsAre, InnerLabelsAre, InnerGotos
  <2> QED BY <2>0, <2>1, <2>2, <2>3, <2>4, <2>5, <2>6, <2>7, <2>8, Zenon
<1> QED BY <1>1, <1>2, ReleasedAt, InnerLabelsTyped, Zenon

\* So does xdp_open_socket.
LEMMA XdpUnwinds ==
    ASSUME NEW k \in 18 .. 26, NEW i \in 17 .. k - 1
    PROVE  TcSteps[i] \in Left(TcSteps[k]) \/ ReleasedBy(TcSteps[i], InnerLabels(TcSteps[k]))
<1> DEFINE q == IF i = 17 THEN 4 ELSE IF i = 20 THEN 3 ELSE IF i = 22 THEN 2 ELSE 1
           p == IF k \in 18 .. 20 THEN 4 ELSE IF k \in 21 .. 22 THEN 3 ELSE IF k \in 23 .. 24 THEN 2 ELSE 1
<1>0. i \in 17 .. 25 /\ i < k
  OBVIOUS
<1>1. CASE i \in {18, 19, 21, 23, 25}
  <2>1. TcSteps[i] \in Transient
    BY <1>1, TcStepsAre DEF Transient
  <2> QED BY <2>1 DEF Left
<1>2. CASE i \in {17, 20, 22, 24}
  <2>1. q \in DOMAIN XdpLabels /\ TcSteps[i] \in Releases(XdpLabels[q])
    BY <1>2, TcStepsAre, InnerLabelsAre, InnerReleases
  <2>2. /\ p \in DOMAIN XdpLabels /\ p <= q
        /\ InnerLabels(TcSteps[k]) = XdpLabels \/ InnerLabels(TcSteps[k]) = From(XdpLabels, XdpLabels[p])
    <3>1. p \in DOMAIN XdpLabels /\ p <= q
      BY <1>0, <1>2, InnerLabelsAre
    <3>2. InnerLabels(TcSteps[k]) = XdpLabels \/ InnerLabels(TcSteps[k]) = From(XdpLabels, XdpLabels[p])
      BY TcStepsAre, InnerGotos
    <3> QED BY <3>1, <3>2
  <2> HIDE DEF p, q
  <2> QED BY <2>1, <2>2, ReleasedAt, InnerLabelsTyped, Zenon
<1> QED BY <1>0, <1>1, <1>2

\* So do security_init for either direction and ring_buffer_allocate.
LEMMA OthersUnwind ==
    /\ \A k \in 30 .. 32, i \in 29 .. 31 : i < k => ReleasedBy(TcSteps[i], InnerLabels(TcSteps[k]))
    /\ \A k \in 34 .. 36, i \in 33 .. 35 : i < k => ReleasedBy(TcSteps[i], InnerLabels(TcSteps[k]))
    /\ ReleasedBy("mirror_buffer", InnerLabels("mirror_data"))
<1>1. ASSUME NEW k \in 30 .. 32, NEW i \in 29 .. 31, i < k
      PROVE  ReleasedBy(TcSteps[i], InnerLabels(TcSteps[k]))
  <2>1. /\ 32 - i \in DOMAIN TxSecurityLabels /\ TcSteps[i] \in Releases(TxSecurityLabels[32 - i])
        /\ 33 - k \in DOMAIN TxSecurityLabels /\ 33 - k <= 32 - i
    BY <1>1, TcStepsAre, InnerLabelsAre, InnerReleases, SMTT(40)
  <2>2. \/ InnerLabels(TcSteps[k]) = TxSecurityLabels
        \/ InnerLabels(TcSteps[k]) = From(TxSecurityLabels, TxSecurityLabels[33 - k])
    BY TcStepsAre, InnerGotos
  <2> QED BY <2>1, <2>2, ReleasedAt, InnerLabelsTyped, Zenon
<1>2. ASSUME NEW k \in 34 .. 36, NEW i \in 33 .. 35, i < k
      PROVE  ReleasedBy(TcSteps[i], InnerLabels(TcSteps[k]))
  <2>1. /\ 36 - i \in DOMAIN RxSecurityLabels /\ TcSteps[i] \in Releases(RxSecurityLabels[36 - i])
        /\ 37 - k \in DOMAIN RxSecurityLabels /\ 37 - k <= 36 - i
    BY <1>2, TcStepsAre, InnerLabelsAre, InnerReleases
  <2>2. \/ InnerLabels(TcSteps[k]) = RxSecurityLabels
        \/ InnerLabels(TcSteps[k]) = From(RxSecurityLabels, RxSecurityLabels[37 - k])
    BY TcStepsAre, InnerGotos
  <2> QED BY <2>1, <2>2, ReleasedAt, InnerLabelsTyped, Zenon
<1>3. ReleasedBy("mirror_buffer", InnerLabels("mirror_data"))
  <2>1. 1 \in DOMAIN <<"mirror_buffer_only">> /\ <<"mirror_buffer_only">>[1] = "mirror_buffer_only"
    OBVIOUS
  <2>2. "mirror_buffer" \in Releases("mirror_buffer_only")
    BY InnerReleases
  <2> QED BY <2>1, <2>2, InnerGotos, Zenon DEF ReleasedBy
<1> QED BY <1>1, <1>2, <1>3, Zenon

\* Falling through from a label visits labels of the same function.
LEMMA FromTyped ==
    ASSUME NEW labels \in Seq(Names), NEW l
    PROVE  From(labels, l) \in Seq(Names)
<1>1. CASE \E i \in DOMAIN labels : labels[i] = l
  <2>1. PICK m : m = CHOOSE i \in DOMAIN labels : labels[i] = l
    OBVIOUS
  <2>2. m \in DOMAIN labels
    BY <1>1, <2>1
  <2>3. From(labels, l) = SubSeq(labels, m, Len(labels))
    BY <1>1, <2>1, Zenon DEF From
  <2>4. SubSeq(labels, m, Len(labels)) \in Seq(Names)
    BY <2>2
  <2> QED BY <2>3, <2>4
<1>2. CASE ~ \E i \in DOMAIN labels : labels[i] = l
  BY <1>2 DEF From
<1> QED BY <1>1, <1>2

\* The labels a failure leads to are labels.
LEMMA UnwindTyped ==
    ASSUME NEW c \in Contexts, NEW s
    PROVE  InnerLabels(s) \in Seq(Names) /\ GotoLabel(c, s) \in Seq(Names)
<1>1. /\ From(PacketLabels, "tx_control_msgs") \in Seq(Names) /\ From(PacketLabels, "tx_msgs") \in Seq(Names)
      /\ From(PacketLabels, "tx_iovecs") \in Seq(Names) /\ From(PacketLabels, "rx_msgs") \in Seq(Names)
      /\ From(PacketLabels, "rx_iovecs") \in Seq(Names) /\ From(PacketLabels, "rx_frames") \in Seq(Names)
      /\ From(PacketLabels, "packet_only") \in Seq(Names)
      /\ From(TxSecurityLabels, "tx_cipher") \in Seq(Names) /\ From(TxSecurityLabels, "tx_security_only") \in Seq(Names)
      /\ From(RxSecurityLabels, "rx_cipher") \in Seq(Names) /\ From(RxSecurityLabels, "rx_security_only") \in Seq(Names)
      /\ From(XdpLabels, "umem") \in Seq(Names) /\ From(XdpLabels, "xsks_map") \in Seq(Names)
      /\ From(XdpLabels, "xsk") \in Seq(Names)
  BY FromTyped, InnerLabelsTyped, Zenon
<1>2. <<"mirror_buffer_only">> \in Seq(Names) /\ << >> \in Seq(Names)
  BY DEF Names
<1>3. InnerLabels(s) \in Seq(Names)
  BY <1>1, <1>2, InnerLabelsTyped DEF InnerLabels
<1>4. Labels(c) \in Seq(Names)
  <2>1. <<"file", "log_data", "context">> \in Seq(Names) /\ <<"context">> \in Seq(Names)
        /\ <<"socket", "context">> \in Seq(Names) /\ UdpLabels \in Seq(Names)
    BY DEF UdpLabels, Names
  <2>2. WorkloadLabels \o TcLabels \in Seq(Names)
    BY AllLabelsTyped DEF AllLabels
  <2> QED BY <2>1, <2>2 DEF Labels
<1> QED BY <1>3, <1>4, FromTyped DEF GotoLabel

\* What an earlier call has acquired is released by the function that fails, or
\* by one of the labels its failure leads to, or it is one of the exceptions.
LEMMA EarlierCall ==
    ASSUME NEW c \in TcClasses, NEW k \in 1 .. 48, NEW i \in 1 .. 48, i < k,
           TcSteps[i] \notin Omitted(c), TcSteps[k] \notin Omitted(c), TcSteps[k] # "sync"
    PROVE  \/ TcSteps[i] \in Left(TcSteps[k])
           \/ ReleasedBy(TcSteps[i], InnerLabels(TcSteps[k]))
           \/ GotoOf[k] # 0 /\ GotoOf[k] <= LabelOf[i]
<1>0. k \in 3 .. 48
  BY TcStepsAre
<1>1. CASE k \in 4 .. 11 /\ i \in 3 .. 10
  <2>1. i \in 3 .. k - 1
    BY <1>1
  <2> QED BY <1>1, <2>1, PacketUnwinds
<1>2. CASE k \in 18 .. 26 /\ i \in 17 .. 25
  <2>1. i \in 17 .. k - 1
    BY <1>2
  <2> QED BY <1>2, <2>1, XdpUnwinds
<1>3. CASE k \in 17 .. 26 /\ i = 16
  <2>1. TcSteps[i] = "socket" /\ TcSteps[k] \in XdpCalls
    BY <1>3, TcStepsAre, CallSets
  <2> QED BY <2>1 DEF Omitted, AfPacketCalls
<1>4. CASE (k \in 30 .. 32 /\ i \in 29 .. 31) \/ (k \in 34 .. 36 /\ i \in 33 .. 35) \/ (k = 28 /\ i = 27)
  <2>1. TcSteps[27] = "mirror_buffer" /\ TcSteps[28] = "mirror_data"
    BY TcStepsAre
  <2> QED BY <1>4, <2>1, OthersUnwind
<1>5. CASE LabelOf[i] = 0
  <2>1. TcSteps[i] \in Transient \cup {"setup_2", "workload_thread_2"}
    BY <1>5, CallReleased
  <2>2. TcSteps[i] # "workload_thread_2"
    BY TcStepsAre
  <2>3. CASE TcSteps[i] = "setup_2"
    <3>1. i = 46
      BY <2>3, TcStepsAre
    <3>2. TcSteps[k] \in {"workload_thread_1", "workload_thread_2"}
      BY <3>1, TcStepsAre
    <3> QED BY <2>3, <3>2 DEF Left, NotTornDown
  <2> QED BY <2>1, <2>2, <2>3, SMTT(40) DEF Left
<1>6. CASE k = 47 /\ i = 45
  <2>1. TcSteps[45] = "setup_1" /\ TcSteps[47] = "workload_thread_1"
    BY TcStepsAre
  <2> QED BY <1>6, <2>1 DEF Left, NotTornDown
<1>7. CASE /\ LabelOf[i] # 0 /\ ~(k = 47 /\ i = 45)
           /\ ~(k \in 4 .. 11 /\ i \in 3 .. 10) /\ ~(k \in 17 .. 26 /\ i \in 16 .. 25)
           /\ ~(k \in 30 .. 32 /\ i \in 29 .. 31) /\ ~(k \in 34 .. 36 /\ i \in 33 .. 35) /\ ~(k = 28 /\ i = 27)
  <2>1. CASE k \in 3 .. 26
    BY <1>7, <2>1 DEF GotoOf, LabelOf
  <2>2. CASE k \in 27 .. 36
    BY <1>7, <2>2 DEF GotoOf, LabelOf
  <2>3. CASE k \in 37 .. 42
    BY <1>7, <2>3 DEF GotoOf, LabelOf
  <2>4. CASE k \in 43 .. 48
    BY <1>7, <2>4 DEF GotoOf, LabelOf
  <2> QED BY <1>0, <2>1, <2>2, <2>3, <2>4
<1> QED BY <1>1, <1>2, <1>3, <1>4, <1>5, <1>6, <1>7, SMTT(40)

\* When a call of tc_threads_create fails, everything before it is released.
LEMMA CoveredTc ==
    ASSUME NEW c \in TcClasses, NEW k \in 1 .. 48, TcSteps[k] \notin Omitted(c), TcSteps[k] # "sync"
    PROVE  Covered(Before(c, k), Left(TcSteps[k]), InnerLabels(TcSteps[k]) \o GotoLabel(c, TcSteps[k]))
<1> DEFINE inner == InnerLabels(TcSteps[k])
           outer == GotoLabel(c, TcSteps[k])
<1>0. c \in Contexts /\ Steps(c) = TcSteps /\ DOMAIN TcSteps = 1 .. 48
  BY Kinds, TcStepsAre
<1>1. inner \in Seq(Names) /\ outer \in Seq(Names)
  BY <1>0, UnwindTyped
<1>2. ASSUME NEW x \in Before(c, k) PROVE x \in Left(TcSteps[k]) \/ ReleasedBy(x, inner \o outer)
  <2>1. PICK i \in 1 .. 48 : i < k /\ x = TcSteps[i] /\ TcSteps[i] \notin Omitted(c)
    BY <1>0, <1>2 DEF Before
  <2>2. ASSUME GotoOf[k] # 0 /\ GotoOf[k] <= LabelOf[i] PROVE ReleasedBy(x, outer)
    <3>1. LabelOf[i] # 0 /\ GotoOf[k] \in DOMAIN AllLabels /\ LabelOf[i] \in DOMAIN AllLabels
      BY <2>2, PositionTypes, AllLabelsAre, SMTT(40)
    <3>2. x \in Releases(AllLabels[LabelOf[i]])
      BY <2>1, <3>1, CallReleased
    <3>3. outer = From(AllLabels, AllLabels[GotoOf[k]])
      BY <2>2, GotoTc, Zenon
    <3>4. ReleasedBy(x, From(AllLabels, AllLabels[GotoOf[k]]))
      BY <2>2, <3>1, <3>2, ReleasedFrom, AllLabelsTyped, Zenon
    <3> QED BY <3>3, <3>4, ZenonT(40)
  <2>3. x \in Left(TcSteps[k]) \/ ReleasedBy(x, inner) \/ ReleasedBy(x, outer)
    BY <2>1, <2>2, EarlierCall, Zenon
  <2> HIDE DEF inner, outer
  <2> QED BY <1>1, <2>3, ReleasedByBoth, Zenon
<1> QED BY <1>2, Zenon DEF Covered

\* The first nine labels of tc_threads_create are those of threads and workloads.
LEMMA FirstLabels ==
    ASSUME NEW c, NEW q \in 1 .. 9
    PROVE  Releases(AllLabels[q]) \cap Needed(c) = {}
<1>1. Releases(AllLabels[q]) \subseteq Threads \cup WorkloadCalls
  BY AllLabelsAre, AllReleases, CallSets DEF Threads
<1> QED BY <1>1 DEF Needed

\* The labels of threads are among them.
LEMMA ThreadLabels ==
    ASSUME NEW i \in 1 .. 47, TcSteps[i] \in Threads
    PROVE  i \in 37 .. 47 /\ LabelOf[i] \in 1 .. 9 /\ TcSteps[i] \in Releases(AllLabels[LabelOf[i]])
<1>0. Threads = {"thread", "tx_thread", "txgen_thread", "rx_thread", "workload_thread_1", "workload_thread_2"}
  BY DEF Threads, WorkloadThreads
<1>1. i \in {37, 38, 39, 47}
  BY <1>0, TcStepsAre
<1>2. LabelOf[i] \in 1 .. 9
  BY <1>1 DEF LabelOf
<1>3. TcSteps[i] \in Releases(AllLabels[LabelOf[i]])
  BY <1>2, CallReleased, SMTT(40)
<1> QED BY <1>1, <1>2, <1>3

\* When a call of tc_threads_create fails, the threads that run are joined before
\* anything they use is released.
LEMMA ThreadsFirstTc ==
    ASSUME NEW c \in TcClasses, NEW k \in 1 .. 48, TcSteps[k] \notin Omitted(c), TcSteps[k] # "sync"
    PROVE  ThreadsFirst(Before(c, k), Needed(c), InnerLabels(TcSteps[k]) \o GotoLabel(c, TcSteps[k]))
<1>0. c \in Contexts /\ Steps(c) = TcSteps /\ DOMAIN TcSteps = 1 .. 48
  BY Kinds, TcStepsAre
<1>1. CASE Before(c, k) \cap Threads = {}
  BY <1>1 DEF ThreadsFirst
<1>2. CASE Before(c, k) \cap Threads # {}
  <2>1. k \in 38 .. 48
    <3>1. PICK i \in 1 .. 48 : i < k /\ TcSteps[i] \in Threads
      BY <1>0, <1>2 DEF Before
    <3>2. i \in 1 .. 47
      BY <3>1
    <3> QED BY <3>1, <3>2, ThreadLabels
  <2>2. InnerLabels(TcSteps[k]) = << >>
    <3>1. TcSteps[k] \in {"txgen_thread", "rx_thread", "workload", "library", "symbols", "arguments",
                          "setup_arguments", "setup_1", "setup_2", "workload_thread_1", "workload_thread_2"}
      BY <2>1, TcStepsAre
    <3> QED BY <3>1 DEF InnerLabels
  <2>3. GotoOf[k] \in 1 .. 18
    BY <2>1 DEF GotoOf
  <2>4. PICK g \in 1 .. 18 : g = GotoOf[k]
    BY <2>3
  <2>5. PICK u : u = From(AllLabels, AllLabels[g])
    OBVIOUS
  <2>6. GotoLabel(c, TcSteps[k]) = u /\ u \in Seq(Names)
    <3>1. GotoOf[k] # 0
      BY <2>3
    <3>2. GotoLabel(c, TcSteps[k]) = From(AllLabels, AllLabels[GotoOf[k]])
      BY <3>1, GotoTc, Zenon
    <3> QED BY <2>4, <2>5, <3>2, FromTyped, AllLabelsTyped, Zenon
  <2>7. InnerLabels(TcSteps[k]) \o GotoLabel(c, TcSteps[k]) = u
    BY <2>2, <2>6
  <2>8. g \in DOMAIN AllLabels /\ Len(AllLabels) = 18
    BY AllLabelsAre, AllLabelsTyped
  <2>9. DOMAIN u = 1 .. Len(AllLabels) - g + 1 /\ \A i \in 1 .. Len(AllLabels) - g + 1 : u[i] = AllLabels[g + i - 1]
    BY <2>5, <2>8, FromLabel, AllLabelsTyped, Zenon
  <2>10. DOMAIN u = 1 .. 19 - g /\ \A i \in 1 .. 19 - g : u[i] = AllLabels[g + i - 1]
    BY <2>8, <2>9
  <2>11. ASSUME NEW i \in DOMAIN u, Releases(u[i]) \cap Needed(c) # {}, NEW x \in Before(c, k) \cap Threads
         PROVE  \E j \in 1 .. i - 1 : x \in Releases(u[j])
    <3>1. PICK h \in 1 .. 48 : h < k /\ x = TcSteps[h] /\ TcSteps[h] \notin Omitted(c)
      BY <1>0, <2>11 DEF Before
    <3>2. h \in 1 .. 47
      BY <3>1
    <3>3. LabelOf[h] \in 1 .. 9 /\ x \in Releases(AllLabels[LabelOf[h]])
      BY <2>11, <3>1, <3>2, ThreadLabels
    <3>4. PICK l \in 1 .. 9 : l = LabelOf[h] /\ x \in Releases(AllLabels[l])
      BY <3>3, SMTT(40)
    <3>5. g <= l
      <4>1. TcSteps[h] \notin Left(TcSteps[k])
        BY <2>11, <3>1 DEF Left, NotTornDown, Transient, Threads, WorkloadThreads
      <4>2. ~ReleasedBy(TcSteps[h], InnerLabels(TcSteps[k]))
        BY <2>2 DEF ReleasedBy
      <4> QED BY <2>4, <3>1, <3>4, <4>1, <4>2, EarlierCall, ZenonT(40)
    <3>6. i \in 1 .. 19 - g /\ u[i] = AllLabels[g + i - 1] /\ g + i - 1 \in 1 .. 18
      <4>1. i \in 1 .. 19 - g /\ u[i] = AllLabels[g + i - 1]
        BY <2>10, <2>11, Zenon
      <4>2. g + i - 1 \in 1 .. 18
        BY <4>1
      <4> QED BY <4>1, <4>2
    <3>7. g + i - 1 \notin 1 .. 9
      BY <2>11, <3>6, FirstLabels
    <3>8. PICK j : j = l - g + 1
      OBVIOUS
    <3>9. j \in 1 .. i - 1 /\ j \in 1 .. 19 - g /\ g + j - 1 = l
      BY <3>5, <3>6, <3>7, <3>8
    <3>10. u[j] = AllLabels[l]
      BY <2>10, <3>9, SMTT(40)
    <3> QED BY <3>4, <3>9, <3>10
  <2>12. ThreadsFirst(Before(c, k), Needed(c), u)
    BY <2>11, Zenon DEF ThreadsFirst
  <2> QED BY <2>7, <2>12, Zenon
<1> QED BY <1>1, <1>2

\* The labels of udp_threads_create by their positions.
LEMMA UdpLabelsAre ==
    /\ UdpLabels \in Seq(Names) /\ Len(UdpLabels) = 6 /\ DOMAIN UdpLabels = 1 .. 6 /\ Distinct(UdpLabels)
    /\ UdpLabels[1] = "txgen_thread" /\ UdpLabels[2] = "tx_thread" /\ UdpLabels[3] = "mirror_buffer"
    /\ UdpLabels[4] = "rx_data" /\ UdpLabels[5] = "tx_data" /\ UdpLabels[6] = "socket"
<1>1. UdpLabels \in Seq(Names) /\ Len(UdpLabels) = 6 /\ DOMAIN UdpLabels = 1 .. 6
  BY DEF UdpLabels, Names
<1>2. /\ UdpLabels[1] = "txgen_thread" /\ UdpLabels[2] = "tx_thread" /\ UdpLabels[3] = "mirror_buffer"
      /\ UdpLabels[4] = "rx_data" /\ UdpLabels[5] = "tx_data" /\ UdpLabels[6] = "socket"
  BY DEF UdpLabels
<1>3. ASSUME NEW i \in 1 .. 6, NEW j \in 1 .. 6, UdpLabels[i] = UdpLabels[j] PROVE i = j
  BY <1>2, <1>3
<1>4. Distinct(UdpLabels)
  BY <1>1, <1>3, Zenon DEF Distinct
<1> QED BY <1>1, <1>2, <1>4

\* By the position of a call of udp_threads_create: the label that releases what it
\* acquires, and the one its failure leads to.
UdpLabelOf == <<6, 0, 5, 4, 3, 3, 2, 1, 0>>
UdpGotoOf == <<0, 0, 6, 5, 4, 4, 3, 2, 1>>

\* Where the gotos of udp_threads_create lead.
LEMMA GotoUdp ==
    ASSUME NEW c \in {UDP_HIGH, UDP_LOW}, NEW k \in 3 .. 9
    PROVE  /\ UdpGotoOf[k] \in 1 .. 6
           /\ GotoLabel(c, UdpSteps[k]) = From(UdpLabels, UdpLabels[UdpGotoOf[k]])
<1>1. Labels(c) = UdpLabels /\ IsUdp(c) /\ c \notin LogContexts
  <2>1. c \in Classes
    BY Kinds
  <2> QED BY <2>1, Kinds
<1>2. UdpGotoOf[k] \in 1 .. 6
  BY SMTT(40) DEF UdpGotoOf
<1>3. Target(c, UdpSteps[k]) = UdpLabels[UdpGotoOf[k]]
  <2>1. Target(c, UdpSteps[k]) = UdpTarget(UdpSteps[k])
    BY <1>1 DEF Target
  <2>2. UdpTarget(UdpSteps[k]) = UdpLabels[UdpGotoOf[k]]
    BY OtherStepsAre, UdpLabelsAre, CallSets, SMTT(40) DEF UdpTarget, UdpGotoOf
  <2> QED BY <2>1, <2>2
<1> QED BY <1>1, <1>2, <1>3, Zenon DEF GotoLabel

\* What has been acquired before a failing call of udp_threads_create.
LEMMA EarlierUdpCall ==
    ASSUME NEW k \in 3 .. 9, NEW i \in 1 .. 9, i < k
    PROVE  \/ UdpSteps[i] \in Transient
           \/ ReleasedBy(UdpSteps[i], InnerLabels(UdpSteps[k]))
           \/ /\ UdpLabelOf[i] \in 1 .. 6 /\ UdpGotoOf[k] <= UdpLabelOf[i]
              /\ UdpSteps[i] \in Releases(UdpLabels[UdpLabelOf[i]])
<1>1. CASE i = 2
  BY <1>1, OtherStepsAre DEF Transient
<1>2. CASE i = 5 /\ k = 6
  <2>1. UdpSteps[5] = "mirror_buffer" /\ UdpSteps[6] = "mirror_data"
    BY OtherStepsAre
  <2> QED BY <1>2, <2>1, OthersUnwind
<1>3. CASE i # 2 /\ ~(i = 5 /\ k = 6)
  <2>1. UdpLabelOf[i] \in 1 .. 6 /\ UdpGotoOf[k] <= UdpLabelOf[i]
    BY <1>3 DEF UdpLabelOf, UdpGotoOf
  <2>2. i \in {1, 3, 4, 5, 6, 7, 8}
    BY <1>3
  <2>3. UdpSteps[i] \in Releases(UdpLabels[UdpLabelOf[i]])
    BY <2>2, OtherStepsAre, UdpLabelsAre, AllReleases DEF UdpLabelOf
  <2> QED BY <2>1, <2>3
<1> QED BY <1>1, <1>2, <1>3

\* When a call of udp_threads_create fails, everything before it is released, and
\* the threads are joined first.
LEMMA UnwoundUdp ==
    ASSUME NEW c \in {UDP_HIGH, UDP_LOW}, NEW k \in 1 .. 9, UdpSteps[k] # "sync"
    PROVE  /\ Covered(Before(c, k), Left(UdpSteps[k]), InnerLabels(UdpSteps[k]) \o GotoLabel(c, UdpSteps[k]))
           /\ ThreadsFirst(Before(c, k), Needed(c), InnerLabels(UdpSteps[k]) \o GotoLabel(c, UdpSteps[k]))
<1>0. c \in Contexts /\ Steps(c) = UdpSteps /\ DOMAIN UdpSteps = 1 .. 9
  BY Kinds, OtherStepsAre
<1>1. \A x \in Before(c, k) : \E i \in 1 .. 9 : i < k /\ x = UdpSteps[i]
  BY <1>0 DEF Before
<1>2. CASE k = 1
  <2>1. Before(c, k) = {}
    BY <1>1, <1>2
  <2> QED BY <2>1 DEF Covered, ThreadsFirst
<1>3. CASE k \in 3 .. 9
  <2>1. PICK g \in 1 .. 6 : g = UdpGotoOf[k] /\ GotoLabel(c, UdpSteps[k]) = From(UdpLabels, UdpLabels[g])
    BY <1>3, GotoUdp, Zenon
  <2>2. PICK inner : inner = InnerLabels(UdpSteps[k])
    OBVIOUS
  <2>3. PICK u : u = From(UdpLabels, UdpLabels[g])
    OBVIOUS
  <2>4. u = GotoLabel(c, UdpSteps[k])
    BY <2>1, <2>3
  <2>5. inner \in Seq(Names) /\ u \in Seq(Names)
    BY <1>0, <2>2, <2>4, UnwindTyped
  <2>6. g \in DOMAIN UdpLabels
    BY UdpLabelsAre
  <2>7. ASSUME NEW x \in Before(c, k) PROVE x \in Left(UdpSteps[k]) \/ ReleasedBy(x, inner \o u)
    <3>1. PICK i \in 1 .. 9 : i < k /\ x = UdpSteps[i]
      BY <1>1
    <3>2. CASE x \in Transient
      BY <3>2 DEF Left
    <3>3. CASE ReleasedBy(x, inner)
      BY <2>5, <3>3, ReleasedByBoth, Zenon
    <3>4. CASE UdpLabelOf[i] \in 1 .. 6 /\ g <= UdpLabelOf[i] /\ x \in Releases(UdpLabels[UdpLabelOf[i]])
      <4>1. ReleasedBy(x, u)
        BY <2>3, <2>6, <3>4, ReleasedFrom, UdpLabelsAre, Zenon
      <4> QED BY <2>5, <4>1, ReleasedByBoth, Zenon
    <3> QED BY <1>3, <2>1, <2>2, <3>1, <3>2, <3>3, <3>4, EarlierUdpCall, Zenon
  <2>8. ThreadsFirst(Before(c, k), Needed(c), inner \o u)
    <3>0. Threads = {"thread", "tx_thread", "txgen_thread", "rx_thread", "workload_thread_1", "workload_thread_2"}
      BY DEF Threads, WorkloadThreads
    <3>1. CASE k \in 3 .. 7
      <4>1. ASSUME NEW i \in 1 .. 6 PROVE UdpSteps[i] \notin Threads
        BY <3>0, OtherStepsAre
      <4>2. Before(c, k) \cap Threads = {}
        BY <1>1, <3>1, <4>1
      <4> QED BY <4>2 DEF ThreadsFirst
    <3>2. CASE k \in 8 .. 9
      <4>1. inner = << >> /\ g = 10 - k
        <5>1. UdpSteps[k] \in {"txgen_thread", "rx_thread"}
          BY <3>2, OtherStepsAre
        <5> QED BY <2>1, <2>2, <3>2, <5>1, SMTT(40) DEF InnerLabels, UdpGotoOf
      <4>2. inner \o u = u
        BY <2>5, <4>1
      <4>3. DOMAIN u = 1 .. Len(UdpLabels) - g + 1 /\ \A i \in 1 .. Len(UdpLabels) - g + 1 : u[i] = UdpLabels[g + i - 1]
        BY <2>3, <2>6, FromLabel, UdpLabelsAre, Zenon
      <4>4. DOMAIN u = 1 .. 7 - g /\ \A i \in 1 .. 7 - g : u[i] = UdpLabels[g + i - 1]
        BY <4>3, UdpLabelsAre
      <4>5. ASSUME NEW i \in DOMAIN u, Releases(u[i]) \cap Needed(c) # {}, NEW x \in Before(c, k) \cap Threads
            PROVE  \E j \in 1 .. i - 1 : x \in Releases(u[j])
        <5>1. PICK h \in 1 .. 9 : h < k /\ x = UdpSteps[h]
          BY <1>1, <4>5
        <5>2. h \in 7 .. 8
          BY <3>0, <3>2, <4>5, <5>1, OtherStepsAre, SMTT(40)
        <5>3. 9 - h \in 1 .. 2 /\ x \in Releases(UdpLabels[9 - h])
          BY <5>1, <5>2, OtherStepsAre, UdpLabelsAre, AllReleases
        <5>4. i \in 1 .. 7 - g /\ u[i] = UdpLabels[g + i - 1]
          BY <4>4, <4>5, Zenon
        <5>5. g + i - 1 \notin 1 .. 2
          <6>1. ASSUME NEW q \in 1 .. 2 PROVE Releases(UdpLabels[q]) \cap Needed(c) = {}
            BY UdpLabelsAre, AllReleases DEF Needed, Threads
          <6> QED BY <4>5, <5>4, <6>1
        <5>6. PICK j : j = 10 - h - g
          OBVIOUS
        <5>7. j \in 1 .. i - 1 /\ j \in 1 .. 7 - g /\ g + j - 1 = 9 - h
          BY <3>2, <4>1, <5>1, <5>2, <5>4, <5>5, <5>6, SMTT(40)
        <5>8. u[j] = UdpLabels[9 - h]
          BY <4>4, <5>7
        <5> QED BY <5>3, <5>7, <5>8
      <4>6. ThreadsFirst(Before(c, k), Needed(c), u)
        BY <4>5, Zenon DEF ThreadsFirst
      <4> QED BY <4>2, <4>6, ZenonT(40)
    <3> QED BY <1>3, <3>1, <3>2
  <2>9. Covered(Before(c, k), Left(UdpSteps[k]), inner \o u)
    BY <2>7, Zenon DEF Covered
  <2> QED BY <2>2, <2>4, <2>8, <2>9, Zenon
<1>4. k # 2
  BY OtherStepsAre
<1> QED BY <1>2, <1>3, <1>4

\* The labels of the logging threads by their positions.
LEMMA LogLabelsAre ==
    /\ Labels(LOG) \in Seq(Names) /\ DOMAIN Labels(LOG) = 1 .. 3 /\ Distinct(Labels(LOG))
    /\ Labels(LOG)[1] = "file" /\ Labels(LOG)[2] = "log_data" /\ Labels(LOG)[3] = "context"
    /\ Labels(MQTT) \in Seq(Names) /\ DOMAIN Labels(MQTT) = 1 .. 1 /\ Distinct(Labels(MQTT))
    /\ Labels(MQTT)[1] = "context"
    /\ Labels(JSON) \in Seq(Names) /\ DOMAIN Labels(JSON) = 1 .. 2 /\ Distinct(Labels(JSON))
    /\ Labels(JSON)[1] = "socket" /\ Labels(JSON)[2] = "context"
<1>1. /\ Labels(LOG) = <<"file", "log_data", "context">>
      /\ Labels(MQTT) = <<"context">>
      /\ Labels(JSON) = <<"socket", "context">>
  BY Kinds DEF Labels
<1>2. /\ Labels(LOG) \in Seq(Names) /\ DOMAIN Labels(LOG) = 1 .. 3
      /\ Labels(MQTT) \in Seq(Names) /\ DOMAIN Labels(MQTT) = 1 .. 1
      /\ Labels(JSON) \in Seq(Names) /\ DOMAIN Labels(JSON) = 1 .. 2
  BY <1>1 DEF Names
<1>3. Distinct(Labels(LOG)) /\ Distinct(Labels(MQTT)) /\ Distinct(Labels(JSON))
  BY <1>1 DEF Distinct
<1> QED BY <1>1, <1>2, <1>3

\* When a call for a logging thread fails, everything before it is released; its
\* thread is the last it creates.
LEMMA UnwoundLog ==
    ASSUME NEW c \in LogContexts, NEW k \in DOMAIN Steps(c)
    PROVE  /\ Covered(Before(c, k), Left(Steps(c)[k]), InnerLabels(Steps(c)[k]) \o GotoLabel(c, Steps(c)[k]))
           /\ ThreadsFirst(Before(c, k), Needed(c), InnerLabels(Steps(c)[k]) \o GotoLabel(c, Steps(c)[k]))
<1> DEFINE n == IF c = LOG THEN 4 ELSE IF c = MQTT THEN 2 ELSE 3
           u == GotoLabel(c, Steps(c)[k])
           inner == InnerLabels(Steps(c)[k])
<1>0. c \in Contexts /\ c \in {LOG, MQTT, JSON}
  BY Kinds
<1>1. DOMAIN Steps(c) = 1 .. n
  BY <1>0, Kinds, OtherStepsAre, ZenonT(40)
<1>2. \A x \in Before(c, k) : \E i \in 1 .. n : i < k /\ x = Steps(c)[i]
  BY <1>1 DEF Before
<1>3. ASSUME NEW i \in 1 .. n, i < k
      PROVE  /\ Steps(c)[i] \notin Threads
             /\ k \in 2 .. n /\ Target(c, Steps(c)[k]) = Labels(c)[n + 1 - k]
             /\ Steps(c)[i] \in Releases(Labels(c)[n - i])
             /\ n + 1 - k \in DOMAIN Labels(c) /\ n - i \in DOMAIN Labels(c) /\ n + 1 - k <= n - i
  <2>0. /\ Releases("file") = {"file"} /\ Releases("log_data") = {"log_data"} /\ Releases("context") = {"context"}
        /\ "socket" \in Releases("socket")
    BY DEF Releases
  <2>1. Steps(c)[i] \notin Threads
    BY <1>0, <1>1, <1>3, Kinds, OtherStepsAre, SMTT(40) DEF Threads, WorkloadThreads
  <2>2. k \in 2 .. n /\ n + 1 - k \in DOMAIN Labels(c) /\ n - i \in DOMAIN Labels(c) /\ n + 1 - k <= n - i
    BY <1>0, <1>1, <1>3, LogLabelsAre, SMTT(40)
  <2>3. Steps(c)[i] \in Releases(Labels(c)[n - i])
    BY <1>0, <1>1, <1>3, <2>0, Kinds, OtherStepsAre, LogLabelsAre, SMTT(40)
  <2>4. Target(c, Steps(c)[k]) = Labels(c)[n + 1 - k]
    <3>0. Target(c, Steps(c)[k]) = LogTarget(c, Steps(c)[k])
      BY <1>0, Kinds, SMTT(40) DEF Target
    <3>1. CASE c = LOG
      BY <2>2, <3>0, <3>1, Kinds, OtherStepsAre, LogLabelsAre, SMTT(40) DEF LogTarget
    <3>2. CASE c = MQTT
      BY <2>2, <3>0, <3>2, Kinds, OtherStepsAre, LogLabelsAre, SMTT(40) DEF LogTarget
    <3>3. CASE c = JSON
      BY <2>2, <3>0, <3>3, Kinds, OtherStepsAre, LogLabelsAre, SMTT(40) DEF LogTarget
    <3> QED BY <1>0, <3>1, <3>2, <3>3, SMTT(40)
  <2> QED BY <2>1, <2>2, <2>3, <2>4
<1>4. inner \in Seq(Names) /\ u \in Seq(Names)
  BY <1>0, UnwindTyped
<1>5. Labels(c) \in Seq(Names) /\ Distinct(Labels(c))
  BY <1>0, LogLabelsAre
<1> HIDE DEF n
<1>6. ASSUME NEW x \in Before(c, k) PROVE ReleasedBy(x, inner \o u) /\ x \notin Threads
  <2>1. PICK i \in 1 .. n : i < k /\ x = Steps(c)[i]
    BY <1>2
  <2>2. u = From(Labels(c), Labels(c)[n + 1 - k])
    BY <1>3, <2>1, Zenon DEF GotoLabel
  <2>3. ReleasedBy(x, u)
    BY <1>3, <1>5, <2>1, <2>2, ReleasedFrom, Zenon
  <2>4. ReleasedBy(x, inner \o u)
    <3> HIDE DEF inner, u
    <3> QED BY <1>4, <2>3, ReleasedByBoth, Zenon
  <2> QED BY <1>3, <2>1, <2>4, Zenon
<1>7. Covered(Before(c, k), Left(Steps(c)[k]), inner \o u)
  BY <1>6, Zenon DEF Covered
<1>8. ThreadsFirst(Before(c, k), Needed(c), inner \o u)
  <2>1. \A x \in Before(c, k) \cap Threads : FALSE
    BY <1>6
  <2> HIDE DEF inner, u
  <2> QED BY <2>1 DEF ThreadsFirst
<1> QED BY <1>7, <1>8

\* For every context.
LEMMA Unwound ==
    ASSUME NEW c \in Contexts, NEW k \in DOMAIN Steps(c), Steps(c)[k] \notin Omitted(c), Steps(c)[k] # "sync"
    PROVE  /\ InnerLabels(Steps(c)[k]) \o GotoLabel(c, Steps(c)[k]) \in Seq(Names)
           /\ Covered(Before(c, k), Left(Steps(c)[k]), InnerLabels(Steps(c)[k]) \o GotoLabel(c, Steps(c)[k]))
           /\ ThreadsFirst(Before(c, k), Needed(c), InnerLabels(Steps(c)[k]) \o GotoLabel(c, Steps(c)[k]))
<1>0. InnerLabels(Steps(c)[k]) \o GotoLabel(c, Steps(c)[k]) \in Seq(Names)
  <2>1. InnerLabels(Steps(c)[k]) \in Seq(Names) /\ GotoLabel(c, Steps(c)[k]) \in Seq(Names)
    BY UnwindTyped
  <2> QED BY <2>1
<1>1. CASE c \in TcClasses
  <2>0. Steps(c) = TcSteps
    BY <1>1, Kinds
  <2>1. Steps(c) = TcSteps /\ k \in 1 .. 48
    BY <2>0, TcStepsAre
  <2> QED BY <1>0, <1>1, <2>1, CoveredTc, ThreadsFirstTc, Zenon
<1>2. CASE c \in {UDP_HIGH, UDP_LOW}
  <2>1. Steps(c) = UdpSteps /\ k \in 1 .. 9
    BY <1>2, Kinds, OtherStepsAre
  <2> QED BY <1>0, <1>2, <2>1, UnwoundUdp, Zenon
<1>3. CASE c \in LogContexts
  BY <1>0, <1>3, UnwoundLog, Zenon
<1> QED BY <1>1, <1>2, <1>3, Kinds

---------------------------------------------------------------------------
(***************************************************************************)
(* The chain                                                               *)
(***************************************************************************)
\* What the switch of find_next_pn_thread returns in terms of its later cases.
NextStep(active, f) ==
    [i \in PnClasses |-> IF i = UDP_LOW THEN Null ELSE IF i + 1 \in active THEN i + 1 ELSE f[i + 1]]

\* Falling through ends: the eight cases have a solution.
LEMMA NextExists ==
    ASSUME NEW active \in SUBSET PnClasses
    PROVE  \E f : f = NextStep(active, f)
<1> DEFINE x7 == Null
           x6 == IF 7 \in active THEN 7 ELSE x7
           x5 == IF 6 \in active THEN 6 ELSE x6
           x4 == IF 5 \in active THEN 5 ELSE x5
           x3 == IF 4 \in active THEN 4 ELSE x4
           x2 == IF 3 \in active THEN 3 ELSE x3
           x1 == IF 2 \in active THEN 2 ELSE x2
           x0 == IF 1 \in active THEN 1 ELSE x1
           f == [i \in PnClasses |-> IF i = 0 THEN x0 ELSE IF i = 1 THEN x1 ELSE IF i = 2 THEN x2
                   ELSE IF i = 3 THEN x3 ELSE IF i = 4 THEN x4 ELSE IF i = 5 THEN x5
                   ELSE IF i = 6 THEN x6 ELSE x7]
<1>1. f = NextStep(active, f)
  <2>1. PnClasses = {0, 1, 2, 3, 4, 5, 6, 7}
    BY DEF PnClasses, TSN_HIGH, UDP_LOW
  <2> QED BY <2>1 DEF NextStep, UDP_LOW
<1> HIDE DEF f
<1> QED BY <1>1

\* find_next_pn_thread is such a solution.
LEMMA NextIs ==
    ASSUME NEW active \in SUBSET PnClasses
    PROVE  find_next_pn_thread(active) = NextStep(active, find_next_pn_thread(active))
<1>1. find_next_pn_thread(active) = CHOOSE f : f = NextStep(active, f)
  BY DEF find_next_pn_thread, NextStep
<1> QED BY <1>1, NextExists

\* find_next_pn_thread returns the closest active class behind i, Null if none is.
LEMMA NextClosest ==
    ASSUME NEW active \in SUBSET PnClasses, NEW n, n = find_next_pn_thread(active)
    PROVE  \A i \in PnClasses :
              \/ n[i] = Null /\ \A j \in active : j <= i
              \/ n[i] \in active /\ i < n[i] /\ \A j \in active : i < j => n[i] <= j
<1> DEFINE Good(i) == \/ n[i] = Null /\ \A j \in active : j <= i
                      \/ n[i] \in active /\ i < n[i] /\ \A j \in active : i < j => n[i] <= j
<1>0. PnClasses = 0 .. 7 /\ UDP_LOW = 7
  BY DEF PnClasses, TSN_HIGH, UDP_LOW
<1>1. \A i \in PnClasses :
         n[i] = IF i = UDP_LOW THEN Null ELSE IF i + 1 \in active THEN i + 1 ELSE n[i + 1]
  BY NextIs DEF NextStep
<1>2. Good(7)
  BY <1>0, <1>1
<1>3. ASSUME NEW i \in 0 .. 6, Good(i + 1) PROVE Good(i)
  <2>1. n[i] = IF i + 1 \in active THEN i + 1 ELSE n[i + 1]
    BY <1>0, <1>1
  <2>2. CASE i + 1 \in active
    BY <1>0, <2>1, <2>2, SMTT(40)
  <2>3. CASE i + 1 \notin active
    <3>1. \A j \in active : j \in Nat /\ (i < j => i + 1 < j) /\ (j <= i + 1 => j <= i)
      BY <1>0, <2>3
    <3>2. CASE n[i + 1] = Null /\ \A j \in active : j <= i + 1
      BY <2>1, <2>3, <3>1, <3>2
    <3>3. CASE n[i + 1] \in active /\ i + 1 < n[i + 1] /\ \A j \in active : i + 1 < j => n[i + 1] <= j
      BY <2>1, <2>3, <3>1, <3>3
    <3> QED BY <1>3, <3>2, <3>3
  <2> QED BY <2>2, <2>3
<1>4. Good(6) /\ Good(5) /\ Good(4) /\ Good(3) /\ Good(2) /\ Good(1) /\ Good(0)
  <2> HIDE DEF Good
  <2>6. Good(6) BY <1>2, <1>3
  <2>5. Good(5) BY <2>6, <1>3
  <2>4. Good(4) BY <2>5, <1>3
  <2>3. Good(3) BY <2>4, <1>3
  <2>2. Good(2) BY <2>3, <1>3
  <2>1. Good(1) BY <2>2, <1>3
  <2>0. Good(0) BY <2>1, <1>3
  <2> QED BY <2>0, <2>1, <2>2, <2>3, <2>4, <2>5, <2>6, SMTT(40)
<1>5. \A i \in PnClasses : Good(i)
  <2> HIDE DEF Good
  <2> QED BY <1>0, <1>2, <1>4
<1> QED BY <1>5

\* One step of the walk along the chain.
WalkStep(n, f) == [c \in PnClasses |-> IF n[c] = Null THEN c ELSE f[n[c]]]

\* The walk ends, as next only leads to later classes.
LEMMA WalkExists ==
    ASSUME NEW n, \A c \in PnClasses : n[c] = Null \/ (n[c] \in PnClasses /\ c < n[c])
    PROVE  \E f : f = WalkStep(n, f)
<1> DEFINE y7 == 7
           y6 == IF n[6] = Null THEN 6 ELSE y7
           y5 == IF n[5] = Null THEN 5 ELSE IF n[5] = 6 THEN y6 ELSE y7
           y4 == IF n[4] = Null THEN 4 ELSE IF n[4] = 5 THEN y5 ELSE IF n[4] = 6 THEN y6 ELSE y7
           y3 == IF n[3] = Null THEN 3 ELSE IF n[3] = 4 THEN y4 ELSE IF n[3] = 5 THEN y5
                 ELSE IF n[3] = 6 THEN y6 ELSE y7
           y2 == IF n[2] = Null THEN 2 ELSE IF n[2] = 3 THEN y3 ELSE IF n[2] = 4 THEN y4
                 ELSE IF n[2] = 5 THEN y5 ELSE IF n[2] = 6 THEN y6 ELSE y7
           y1 == IF n[1] = Null THEN 1 ELSE IF n[1] = 2 THEN y2 ELSE IF n[1] = 3 THEN y3
                 ELSE IF n[1] = 4 THEN y4 ELSE IF n[1] = 5 THEN y5 ELSE IF n[1] = 6 THEN y6 ELSE y7
           y0 == IF n[0] = Null THEN 0 ELSE IF n[0] = 1 THEN y1 ELSE IF n[0] = 2 THEN y2
                 ELSE IF n[0] = 3 THEN y3 ELSE IF n[0] = 4 THEN y4 ELSE IF n[0] = 5 THEN y5
                 ELSE IF n[0] = 6 THEN y6 ELSE y7
           f == [c \in PnClasses |-> IF c = 0 THEN y0 ELSE IF c = 1 THEN y1 ELSE IF c = 2 THEN y2
                   ELSE IF c = 3 THEN y3 ELSE IF c = 4 THEN y4 ELSE IF c = 5 THEN y5
                   ELSE IF c = 6 THEN y6 ELSE y7]
<1>1. PnClasses = 0 .. 7
  BY DEF PnClasses, TSN_HIGH, UDP_LOW
<1>2. f[7] = y7 /\ f[6] = y6 /\ f[5] = y5 /\ f[4] = y4 /\ f[3] = y3 /\ f[2] = y2 /\ f[1] = y1 /\ f[0] = y0
  <2> HIDE DEF y7, y6, y5, y4, y3, y2, y1, y0
  <2> QED BY <1>1
<1>3. \A c \in PnClasses : f[c] = IF n[c] = Null THEN c ELSE f[n[c]]
  <2> SUFFICES ASSUME NEW c \in PnClasses PROVE f[c] = IF n[c] = Null THEN c ELSE f[n[c]]
    BY Zenon
  <2> HIDE DEF f, y7, y6, y5, y4, y3, y2, y1, y0
  <2>7. CASE c = 7 BY <1>1, <1>2, <2>7 DEF y7
  <2>6. CASE c = 6 BY <1>1, <1>2, <2>6 DEF y6
  <2>5. CASE c = 5 BY <1>1, <1>2, <2>5 DEF y5
  <2>4. CASE c = 4 BY <1>1, <1>2, <2>4 DEF y4
  <2>3. CASE c = 3 BY <1>1, <1>2, <2>3 DEF y3
  <2>2. CASE c = 2 BY <1>1, <1>2, <2>2 DEF y2
  <2>1. CASE c = 1 BY <1>1, <1>2, <2>1, SMTT(40) DEF y1
  <2>0. CASE c = 0 BY <1>1, <1>2, <2>0 DEF y0
  <2> QED BY <1>1, <2>0, <2>1, <2>2, <2>3, <2>4, <2>5, <2>6, <2>7, SMTT(40)
<1>4. f = [c \in PnClasses |-> f[c]]
  <2> HIDE DEF y7, y6, y5, y4, y3, y2, y1, y0
  <2> QED OBVIOUS
<1>5. f = WalkStep(n, f)
  <2> HIDE DEF f
  <2> QED BY <1>3, <1>4 DEF WalkStep
<1> HIDE DEF f
<1> QED BY <1>5

\* It ends at an active class without a successor.
LEMMA ChainEnds ==
    ASSUME NEW active \in SUBSET PnClasses, NEW t \in active, NEW n, n = find_next_pn_thread(active),
           NEW e, e = EndOfChain(n, t)
    PROVE  e \in active /\ n[e] = Null
<1>2. PICK w : w = CHOOSE f : f = WalkStep(n, f)
  OBVIOUS
<1>3. EndOfChain(n, t) = w[t]
  BY <1>2 DEF EndOfChain, WalkStep
<1>4. \A c \in active : n[c] = Null \/ (n[c] \in active /\ c < n[c])
  BY NextClosest
<1>5. \A c \in PnClasses : n[c] = Null \/ (n[c] \in PnClasses /\ c < n[c])
  BY NextClosest
<1>6. w = WalkStep(n, w)
  BY <1>2, <1>5, WalkExists
<1>7. \A c \in active : w[c] = IF n[c] = Null THEN c ELSE w[n[c]]
  BY <1>6 DEF WalkStep
<1> DEFINE Good(c) == c \in active => w[c] \in active /\ n[w[c]] = Null
<1>8. active \subseteq 0 .. 7
  BY DEF PnClasses, TSN_HIGH, UDP_LOW
<1>9. ASSUME NEW c \in 0 .. 7, \A d \in c + 1 .. 7 : Good(d) PROVE Good(c)
  <2> SUFFICES ASSUME c \in active PROVE w[c] \in active /\ n[w[c]] = Null
    OBVIOUS
  <2>1. CASE n[c] = Null
    BY <1>7, <1>8, <2>1
  <2>2. CASE n[c] \in active /\ c < n[c]
    <3>1. PICK d \in 0 .. 7 : d = n[c] /\ d \in active /\ c < d
      BY <1>8, <2>2, Zenon
    <3>2. d \in c + 1 .. 7 /\ d # Null
      BY <3>1 DEF Null
    <3>3. w[c] = w[d]
      BY <1>7, <3>1, <3>2
    <3>4. PICK e2 \in 0 .. 7 : e2 = w[d] /\ e2 \in active /\ n[e2] = Null
      BY <1>8, <1>9, <3>1, <3>2, Zenon
    <3> QED BY <3>3, <3>4
  <2> QED BY <1>4, <2>1, <2>2
<1> HIDE DEF Good
<1>10. \A c \in 0 .. 7 : Good(c)
  <2>7. Good(7) BY <1>9
  <2>6. Good(6) BY <1>9, <2>7
  <2>5. Good(5) BY <1>9, <2>6, <2>7
  <2>4. Good(4) BY <1>9, <2>5, <2>6, <2>7
  <2>3. Good(3) BY <1>9, <2>4, <2>5, <2>6, <2>7
  <2>2. Good(2) BY <1>9, <2>3, <2>4, <2>5, <2>6, <2>7, SMTT(40)
  <2>1. Good(1) BY <1>9, <2>2, <2>3, <2>4, <2>5, <2>6, <2>7, SMTT(40)
  <2>0. Good(0) BY <1>9, <2>1, <2>2, <2>3, <2>4, <2>5, <2>6, <2>7, SMTT(40)
  <2> QED BY <2>0, <2>1, <2>2, <2>3, <2>4, <2>5, <2>6, <2>7, SMTT(40)
<1>11. w[t] \in active /\ n[w[t]] = Null
  BY <1>8, <1>10 DEF Good
<1> QED BY <1>3, <1>11

\* GenericL2 is not looked at.
LEMMA NextSame ==
    ASSUME NEW active
    PROVE  find_next_pn_thread(active) = find_next_pn_thread(active \cap PnClasses)
<1>1. ASSUME NEW f PROVE NextStep(active, f) = NextStep(active \cap PnClasses, f)
  <2>1. \A i \in PnClasses : i # UDP_LOW => i + 1 \in PnClasses
    BY DEF PnClasses, TSN_HIGH, UDP_LOW
  <2> QED BY <2>1 DEF NextStep
<1>2. (CHOOSE f : f = NextStep(active, f)) = CHOOSE f : f = NextStep(active \cap PnClasses, f)
  BY <1>1
<1>3. /\ find_next_pn_thread(active) = CHOOSE f : f = NextStep(active, f)
      /\ find_next_pn_thread(active \cap PnClasses) = CHOOSE f : f = NextStep(active \cap PnClasses, f)
  BY DEF find_next_pn_thread, NextStep
<1> QED BY <1>2, <1>3, Zenon

---------------------------------------------------------------------------
(***************************************************************************)
(* The invariant                                                           *)
(***************************************************************************)
\* link_pn_threads is called once.
LEMMA LinkPlace == Link = 10 /\ \A i \in DOMAIN Program : Program[i].do = "link" <=> i = 10
<1>1. Program[10] = Do("link", Null) /\ 10 \in DOMAIN Program
  <2>1. Program[10] = Do("link", Null) /\ DOMAIN Program = 1 .. 43
    BY ProgramIs, Zenon
  <2> QED BY <2>1
<1>3. DOMAIN Program = 1 .. 43
  BY ProgramIs, Zenon
<1>2. ASSUME NEW i \in 1 .. 43 PROVE Program[i].do = "link" <=> i = 10
  <2>1. Program[i].do = "link" => i \in {1, 2, 3, 7, 9, 10, 19}
    BY <1>3, Places, Zenon
  <2>2. /\ Program[1] = Do("check", Null) /\ Program[2] = Do("signals", Null)
        /\ Program[3] = Do("init", Null) /\ Program[7] = Do("alloc", GenericL2)
        /\ Program[9] = Do("alloc", Null) /\ Program[10] = Do("link", Null)
        /\ Program[19] = Do("print", Null)
    BY ProgramIs, Zenon
  <2> QED BY <2>1, <2>2 DEF Do
<1>4. \A i \in DOMAIN Program : Program[i] = Do("link", Null) => i = 10
  BY <1>2, <1>3 DEF Do
<1>5. Link = 10
  BY <1>1, <1>4 DEF Link, Place
<1> QED BY <1>2, <1>3, <1>5

\* When tb_startup is called, nothing is acquired and nothing linked.
LEMMA InvInit == Init => Inv
<1> SUFFICES ASSUME Init PROVE Inv
  BY Zenon
<1>0. Current = Do("check", Null)
  BY ProgramIs DEF Init, Current
<1>1. TypeInv
  <2>1. conf \in Configs /\ at = 1 /\ step = 1 /\ undoing = FALSE /\ undo = << >>
    BY DEF Init
  <2>2. held \in [Contexts -> SUBSET Names]
    BY DEF Init
  <2>3. at \in 0 .. 44 /\ step \in Nat \ {0}
    BY <2>1
  <2>4. undo \in Seq(Names)
    BY <2>1
  <2>5. undoing \in BOOLEAN
    BY <2>1, Zenon
  <2> QED BY <2>1, <2>2, <2>3, <2>4, <2>5, Zenon DEF TypeInv
<1>2. HeldInv
  <2> SUFFICES ASSUME NEW c \in Contexts PROVE Holds(c)
    BY DEF HeldInv
  <2>1. at = 1 /\ held[c] = {} /\ CreateAt(c) \in 4 .. 18 /\ JoinAt(c) \in 20 .. 31 /\ FreeAt(c) \in 32 .. 43
    BY Spans DEF Init
  <2>2. /\ at # CreateAt(c) /\ ~(CreateAt(c) < at) /\ ~(JoinAt(c) < at) /\ ~(FreeAt(c) < at)
        /\ held[c] \cap Threads = {} /\ held[c] \subseteq Acquisitions(c)
    BY <2>1
  <2> QED BY <2>1, <2>2, Zenon DEF Holds
<1>3. IdleInv
  BY DEF Init, IdleInv
<1>4. OrderInv
  BY DEF Init, OrderInv, Contexts, Classes
<1>6. LinkInv
  BY LinkPlace DEF Init, LinkInv, Linked
<1> QED BY <1>1, <1>2, <1>3, <1>4, <1>6 DEF Inv, CreationInv

\* What depends only on the configuration stays as it is.
LEMMA SameConf ==
    ASSUME NEW c, conf' = conf
    PROVE  /\ IsActive(c)' <=> IsActive(c)
           /\ Omitted(c)' = Omitted(c) /\ Acquisitions(c)' = Acquisitions(c) /\ Needed(c)' = Needed(c)
           /\ \A k : Before(c, k)' = Before(c, k)
<1>1. Omitted(c)' = Omitted(c)
  BY DEF Omitted, Xdp, Secure, HasWorkload
<1>2. Acquisitions(c)' = Acquisitions(c)
  BY <1>1 DEF Acquisitions
<1>3. Needed(c)' = Needed(c)
  BY <1>2 DEF Needed
<1>4. \A k : Before(c, k)' = Before(c, k)
  BY <1>1 DEF Before
<1>5. IsActive(c)' <=> IsActive(c)
  BY Zenon DEF IsActive
<1> QED BY <1>1, <1>2, <1>3, <1>4, <1>5, Zenon

\* A context that a step of tb_startup does not concern: the program exits.
LEMMA OtherExit ==
    ASSUME NEW c \in Contexts, Holds(c), conf' = conf, held'[c] = held[c], at' = 0
    PROVE  Holds(c)'
<1>1. CreateAt(c) \in 4 .. 18 /\ JoinAt(c) \in 20 .. 31 /\ FreeAt(c) \in 32 .. 43
  BY Spans, Zenon
<1>2. (IsActive(c)' <=> IsActive(c)) /\ Acquisitions(c)' = Acquisitions(c) /\ Needed(c)' = Needed(c)
  BY SameConf, ZenonT(40)
<1> QED BY <1>1, <1>2 DEF Holds

\* tb_startup stays in the function that creates another context.
LEMMA OtherStays ==
    ASSUME NEW c \in Contexts, Holds(c), conf' = conf, held'[c] = held[c], at' = at, at # CreateAt(c)
    PROVE  Holds(c)'
<1>1. (IsActive(c)' <=> IsActive(c)) /\ Acquisitions(c)' = Acquisitions(c) /\ Needed(c)' = Needed(c)
  BY SameConf, Zenon
<1> QED BY <1>1, Zenon DEF Holds

\* How one step of tb_startup and the next lie to a third.
LEMMA NextPlace ==
    ASSUME NEW a \in 1 .. 43, NEW p \in 4 .. 43
    PROVE  /\ a + 1 <= p => a < p
           /\ a + 1 < p => a < p
           /\ a + 1 = p => a < p
           /\ p < a + 1 => p < a \/ a = p
           /\ a + 1 <= p => a <= p
           /\ a # 0
BY SMTT(40)

\* tb_startup goes on to its next step.
LEMMA OtherAdvances ==
    ASSUME NEW c \in Contexts, Holds(c), conf' = conf, held'[c] = held[c], at \in 1 .. 43, at' = at + 1,
           step' = 1, undoing' = FALSE, undo' = << >>,
           at # JoinAt(c), at # FreeAt(c), at = CreateAt(c) => ~IsActive(c)
    PROVE  Holds(c)'
<1>0. CreateAt(c) \in 4 .. 43 /\ JoinAt(c) \in 4 .. 43 /\ FreeAt(c) \in 4 .. 43
  <2>1. \A p : p \in 4 .. 18 \/ p \in 20 .. 31 \/ p \in 32 .. 43 => p \in 4 .. 43
    BY SMT
  <2> QED BY <2>1, Spans, Zenon
<1>1. /\ IsActive(c)' <=> IsActive(c)
      /\ Omitted(c)' = Omitted(c) /\ Acquisitions(c)' = Acquisitions(c) /\ Needed(c)' = Needed(c)
  BY SameConf, ZenonT(40)
<1>2. ASSUME at' = CreateAt(c) PROVE CreatingInv(c)'
  <2>0. at < CreateAt(c) /\ at # 0
    BY <1>0, <1>2, NextPlace, Zenon
  <2>1. held'[c] = {}
    BY <2>0, ZenonT(40) DEF Holds
  <2>2. 1 \in DOMAIN Steps(c) /\ Steps(c)[1] \notin Omitted(c)' /\ DOMAIN Steps(c) \subseteq Nat \ {0}
    BY <1>1, FirstCall, StepTypes, Zenon
  <2>3. Before(c, 1)' = {}
    BY <2>2 DEF Before
  <2> QED BY <2>1, <2>2, <2>3, Zenon DEF CreatingInv
<1>3. at' < CreateAt(c) => at < CreateAt(c)
  BY <1>0, NextPlace, Zenon
<1>4. CreateAt(c) < at' => CreateAt(c) < at \/ at = CreateAt(c)
  BY <1>0, NextPlace, Zenon
<1>5. (JoinAt(c) < at' => JoinAt(c) < at) /\ (at' <= JoinAt(c) => at <= JoinAt(c))
  BY <1>0, NextPlace, Zenon
<1>6. (FreeAt(c) < at' => FreeAt(c) < at) /\ at # 0
  BY <1>0, NextPlace, Zenon
<1> QED BY <1>1, <1>2, <1>3, <1>4, <1>5, <1>6, ZenonT(40) DEF Holds

\* The steps of tb_startup that acquire and release nothing.
LEMMA PassOn ==
    ASSUME Inv, Advance, held' = held, at \in DOMAIN Program, Current.do \notin {"join", "free"},
           Current.do = "create" => ~IsActive(Current.context)
    PROVE  CreationInv'
<1>0. at \in 1 .. 43 /\ at' = at + 1 /\ conf' = conf /\ step' = step /\ undoing' = undoing /\ undo' = undo
  BY ProgramIs DEF Advance, unwinding
<1>1. step = 1 /\ undoing = FALSE /\ undo = << >>
  <2>1. at # 0
    BY <1>0
  <2> QED BY <2>1, Zenon DEF Inv, CreationInv, IdleInv, Doing
<1>2. TypeInv'
  <2>1. at' \in 0 .. 44
    BY <1>0
  <2> QED BY <1>0, <2>1, Zenon DEF Inv, CreationInv, TypeInv
<1>3. IdleInv'
  BY <1>0, <1>1, Zenon DEF IdleInv
<1>4. OrderInv'
  BY <1>0, SameConf, Zenon DEF Inv, CreationInv, OrderInv
<1>5. HeldInv'
  <2> SUFFICES ASSUME NEW c \in Contexts PROVE Holds(c)'
    BY DEF HeldInv
  <2>1. Holds(c)
    BY DEF Inv, CreationInv, HeldInv
  <2>2. at # JoinAt(c) /\ at # FreeAt(c) /\ (at = CreateAt(c) => ~IsActive(c))
    <3>1. /\ Program[CreateAt(c)] = Do("create", c) /\ Program[JoinAt(c)] = Do("join", c)
          /\ Program[FreeAt(c)] = Do("free", c)
      BY Places, Zenon
    <3> QED BY <3>1 DEF Current, Do
  <2>3. step' = 1 /\ undoing' = FALSE /\ undo' = << >> /\ held'[c] = held[c]
    BY <1>0, <1>1
  <2> QED BY <1>0, <2>1, <2>2, <2>3, OtherAdvances, Zenon
<1> QED BY <1>2, <1>3, <1>4, <1>5, Zenon DEF CreationInv

\* tb_startup returns an error.
LEMMA Leave ==
    ASSUME Inv, Exit, held' = held
    PROVE  CreationInv'
<1>0. at' = 0 /\ conf' = conf /\ step' = step /\ undoing' = undoing /\ undo' = undo
  BY DEF Exit, unwinding
<1>2. TypeInv'
  <2>1. at' \in 0 .. 44
    BY <1>0
  <2> QED BY <1>0, <2>1, Zenon DEF Inv, CreationInv, TypeInv
<1>3. IdleInv'
  BY <1>0 DEF IdleInv
<1>4. OrderInv'
  BY <1>0, SameConf DEF Inv, CreationInv, OrderInv
<1>5. HeldInv'
  <2> SUFFICES ASSUME NEW c \in Contexts PROVE Holds(c)'
    BY DEF HeldInv
  <2>1. Holds(c)
    BY DEF Inv, CreationInv, HeldInv
  <2>2. held'[c] = held[c]
    OBVIOUS
  <2> QED BY <1>0, <2>1, <2>2, OtherExit, Zenon
<1> QED BY <1>2, <1>3, <1>4, <1>5 DEF CreationInv

\* What is known while a context is created.
LEMMA Creating ==
    ASSUME Inv, Doing("create"), IsActive(Current.context)
    PROVE  /\ Current.context \in Contexts /\ at = CreateAt(Current.context) /\ at \in 4 .. 18
           /\ CreatingInv(Current.context) /\ Holds(Current.context)
           /\ \A c \in Contexts : c # Current.context => at # CreateAt(c)
           /\ \A c \in Contexts : at < JoinAt(c) /\ at < FreeAt(c)
<1>1. Current.context \in Contexts /\ at = CreateAt(Current.context)
  BY Places DEF Doing, Current
<1>2. at \in 4 .. 18
  BY <1>1, Spans
<1>3. Holds(Current.context)
  BY <1>1, Zenon DEF Inv, CreationInv, HeldInv
<1>4. CreatingInv(Current.context)
  BY <1>1, <1>3, Zenon DEF Holds
<1>5. ASSUME NEW c \in Contexts, at = CreateAt(c) PROVE c = Current.context
  <2>1. Program[CreateAt(c)] = Do("create", c)
    BY Places, Zenon
  <2> QED BY <1>5, <2>1 DEF Current, Do
<1>6. \A c \in Contexts : at < JoinAt(c) /\ at < FreeAt(c)
  BY <1>2, Spans, SMTT(40)
<1> QED BY <1>1, <1>2, <1>3, <1>4, <1>5, <1>6, Zenon

\* A thread is created when everything it uses exists.
LEMMA ThreadHasAll ==
    ASSUME NEW c \in Contexts, NEW k \in DOMAIN Steps(c),
           (Before(c, k) \cup {Steps(c)[k]}) \cap Threads # {}
    PROVE  Needed(c) \subseteq Before(c, k)
<1>0. DOMAIN Steps(c) \subseteq Nat
  BY StepTypes
<1>1. PICK i \in DOMAIN Steps(c) : i <= k /\ Steps(c)[i] \in Threads
  BY <1>0 DEF Before
<1>2. SUFFICES ASSUME NEW x \in Needed(c) PROVE x \in Before(c, k)
  OBVIOUS
<1>3. PICK j \in DOMAIN Steps(c) : x = Steps(c)[j] /\ x \notin Omitted(c) /\ x \notin Threads \cup WorkloadCalls
  BY DEF Needed, Acquisitions, Range
<1>4. ~(i <= j)
  BY <1>1, <1>3, ThreadsLast, Zenon
<1>5. j < k
  BY <1>0, <1>1, <1>4
<1> QED BY <1>3, <1>5 DEF Before

\* The next call succeeds.
LEMMA InvAcquire ==
    ASSUME Inv, Acquire
    PROVE  CreationInv'
<1>00. PICK c \in Contexts : c = Current.context
  BY Creating DEF Acquire
<1>0. /\ Doing("create") /\ IsActive(c) /\ ~undoing /\ conf' = conf /\ undoing' = undoing /\ undo' = undo
      /\ held' = [held EXCEPT ![c] = @ \cup {NextCall}]
      /\ \/ Later(c, step) = {} /\ step' = 1 /\ at' = at + 1
         \/ /\ Later(c, step) # {} /\ at' = at
            /\ step' = CHOOSE i \in Later(c, step) : \A j \in Later(c, step) : i <= j
  BY <1>00 DEF Acquire, unwinding
<1>1. /\ at = CreateAt(c) /\ at \in 4 .. 18 /\ CreatingInv(c) /\ Holds(c)
      /\ \A d \in Contexts : d # c => at # CreateAt(d)
      /\ \A d \in Contexts : at < JoinAt(d) /\ at < FreeAt(d)
  BY <1>00, <1>0, Creating
<1>2. TypeInv
  BY Zenon DEF Inv, CreationInv
<1>3. /\ step \in DOMAIN Steps(c) /\ NextCall = Steps(c)[step] /\ NextCall \notin Omitted(c)
      /\ undoing = FALSE /\ undo = << >> /\ held[c] = Before(c, step)
  <2>1. undoing = FALSE
    BY <1>0, <1>2, ZenonT(40) DEF TypeInv
  <2> QED BY <1>00, <1>0, <1>1, <2>1 DEF CreatingInv, NextCall
<1>4. NextCall \in Names /\ NextCall \in Acquisitions(c)
  BY <1>3, StepTypes, Zenon DEF Acquisitions, Range
<1>5. /\ held'[c] = Before(c, step) \cup {NextCall}
      /\ \A d \in Contexts : d # c => held'[d] = held[d]
      /\ held' \in [Contexts -> SUBSET Names]
  <2>1. held \in [Contexts -> SUBSET Names]
    BY <1>2 DEF TypeInv
  <2> QED BY <1>0, <1>3, <1>4, <2>1
<1>6. /\ IsActive(c)' <=> IsActive(c)
      /\ Omitted(c)' = Omitted(c) /\ Acquisitions(c)' = Acquisitions(c) /\ Needed(c)' = Needed(c)
      /\ \A k : Before(c, k)' = Before(c, k)
  BY <1>0, SameConf
<1>7. undoing' = FALSE /\ undo' = << >>
  BY <1>0, <1>3, Zenon
<1>8. held'[c] \subseteq Acquisitions(c) /\ (held'[c] \cap Threads # {} => Needed(c) \subseteq held'[c])
  <2>1. held'[c] \subseteq Acquisitions(c)
    BY <1>1, <1>3, <1>4, <1>5, <1>0, ZenonT(40) DEF Holds
  <2>2. (Before(c, step) \cup {Steps(c)[step]}) \cap Threads # {} => Needed(c) \subseteq Before(c, step)
    BY <1>3, ThreadHasAll
  <2> QED BY <1>3, <1>5, <2>1, <2>2, Zenon
<1>9. OrderInv'
  <2> SUFFICES ASSUME NEW a \in PnClasses, NEW b \in PnClasses, IsActive(b)', a < b, held'[a] # {}
               PROVE  "sync" \in held'[b]
    BY DEF OrderInv
  <2>1. IsActive(b) /\ a \in Contexts /\ b \in Contexts /\ a \in Nat /\ b \in Nat
    BY <1>0, SameConf DEF Contexts, Classes, PnClasses, TSN_HIGH, UDP_LOW
  <2>2. CASE a = c
    <3>1. CreateAt(b) < at /\ b # c /\ b \in Classes
      BY <1>1, <2>1, <2>2, SMTT(40) DEF CreateAt, Classes
    <3>2. "sync" \in held[b]
      BY <2>1, <3>1, Zenon DEF Inv, CreationInv, HeldInv, Holds
    <3> QED BY <1>5, <2>1, <3>1, <3>2, Zenon
  <2>3. CASE a # c
    <3>1. "sync" \in held[b]
      BY <1>5, <2>1, <2>3 DEF Inv, CreationInv, OrderInv
    <3> QED BY <1>3, <1>5, <2>1, <3>1, Zenon
  <2> QED BY <2>2, <2>3
<1>10. CASE Later(c, step) = {}
  <2>1. at' = at + 1 /\ step' = 1 /\ held'[c] = Acquisitions(c)
    BY <1>0, <1>3, <1>5, <1>10, OneMore
  <2>2. TypeInv'
    <3>1. at' \in 0 .. 44 /\ step' \in Nat \ {0}
      BY <1>1, <2>1
    <3> QED BY <1>0, <1>2, <1>5, <3>1, ZenonT(40) DEF TypeInv
  <2>3. IdleInv'
    BY <1>7, <2>1, Zenon DEF IdleInv
  <2>4. Holds(c)'
    <3>1. c \in Classes => "sync" \in Acquisitions(c)
      BY SyncAcquired
    <3>2. at' # CreateAt(c) /\ ~(at' < CreateAt(c)) /\ ~(JoinAt(c) < at') /\ ~(FreeAt(c) < at')
      BY <1>1, <2>1, Spans
    <3> QED BY <1>0, <1>6, <1>8, <2>1, <3>1, <3>2, Zenon DEF Holds
  <2>5. ASSUME NEW d \in Contexts, d # c PROVE Holds(d)'
    <3>1. Holds(d) /\ held'[d] = held[d] /\ at \in 1 .. 43
      BY <1>1, <1>5, <2>5, SMTT(40) DEF Inv, CreationInv, HeldInv
    <3>2. at # CreateAt(d) /\ at # JoinAt(d) /\ at # FreeAt(d)
      BY <1>1, <2>5, Spans
    <3> QED BY <1>0, <1>7, <2>1, <3>1, <3>2, OtherAdvances, ZenonT(40)
  <2>6. HeldInv'
    BY <2>4, <2>5, ZenonT(40) DEF HeldInv
  <2> QED BY <1>9, <2>2, <2>3, <2>6, Zenon DEF CreationInv
<1>11. CASE Later(c, step) # {}
  <2>1. /\ at' = at /\ step' \in DOMAIN Steps(c) /\ Steps(c)[step'] \notin Omitted(c)
        /\ held'[c] = Before(c, step')
    BY <1>0, <1>3, <1>5, <1>11, OneMore, Zenon
  <2>2. TypeInv'
    <3>1. at' \in 0 .. 44 /\ step' \in Nat \ {0}
      BY <1>1, <2>1, StepTypes
    <3> QED BY <1>0, <1>2, <1>5, <3>1, Zenon DEF TypeInv
  <2>3. IdleInv'
    <3>1. Doing("create")' /\ Current' = Current
      BY <1>0, <2>1, Zenon DEF Doing, Current
    <3>2. IsActive(Current.context)'
      BY <1>00, <1>0, <3>1, Zenon DEF IsActive
    <3> QED BY <3>1, <3>2, Zenon DEF IdleInv
  <2>4. Holds(c)'
    <3>1. CreatingInv(c)'
      <4>1. held'[c] = Before(c, step)'
        BY <1>0, <2>1, ZenonT(40) DEF Before, Omitted, Xdp, Secure, HasWorkload
      <4> QED BY <1>6, <1>7, <2>1, <4>1, Zenon DEF CreatingInv
    <3>2. ~(at' < CreateAt(c)) /\ ~(CreateAt(c) < at') /\ ~(JoinAt(c) < at') /\ ~(FreeAt(c) < at')
      BY <1>1, <2>1, Spans
    <3> QED BY <1>0, <1>6, <1>8, <2>1, <3>1, <3>2, Zenon DEF Holds
  <2>5. ASSUME NEW d \in Contexts, d # c PROVE Holds(d)'
    <3>1. Holds(d) /\ held'[d] = held[d] /\ at # CreateAt(d)
      BY <1>1, <1>5, <2>5, Zenon DEF Inv, CreationInv, HeldInv
    <3> QED BY <1>0, <2>1, <3>1, OtherStays, ZenonT(40)
  <2>6. HeldInv'
    BY <2>4, <2>5, Zenon DEF HeldInv
  <2> QED BY <1>9, <2>2, <2>3, <2>6 DEF CreationInv
<1> QED BY <1>10, <1>11

\* It fails, and the labels from its goto on release what there is.
LEMMA InvAcquireFails ==
    ASSUME Inv, AcquireFails
    PROVE  CreationInv'
<1>00. PICK c \in Contexts : c = Current.context
  BY Creating DEF AcquireFails
<1>0. /\ Doing("create") /\ IsActive(c) /\ ~undoing /\ conf' = conf /\ at' = at /\ step' = step /\ held' = held
      /\ NextCall # "sync" /\ undoing' = TRUE
      /\ undo' = InnerLabels(NextCall) \o GotoLabel(c, NextCall)
  BY <1>00 DEF AcquireFails
<1>1. /\ at = CreateAt(c) /\ at \in 4 .. 18 /\ CreatingInv(c) /\ Holds(c)
      /\ \A d \in Contexts : d # c => at # CreateAt(d)
      /\ \A d \in Contexts : at < JoinAt(d) /\ at < FreeAt(d)
  BY <1>00, <1>0, Creating, Zenon
<1>2. TypeInv
  BY DEF Inv, CreationInv
<1>3. /\ step \in DOMAIN Steps(c) /\ NextCall = Steps(c)[step] /\ NextCall \notin Omitted(c)
      /\ held[c] = Before(c, step)
  BY <1>00, <1>0, <1>1, ZenonT(40) DEF CreatingInv, NextCall
<1>4. /\ undo' \in Seq(Names)
      /\ Covered(held[c], Left(Steps(c)[step]), undo')
      /\ ThreadsFirst(held[c], Needed(c), undo')
  BY <1>0, <1>3, Unwound
<1>5. TypeInv'
  <2>1. undoing' \in BOOLEAN
    BY <1>0, ZenonT(40)
  <2> QED BY <1>0, <1>2, <1>4, <2>1, Zenon DEF TypeInv
<1>6. OrderInv'
  BY <1>0, SameConf, Zenon DEF Inv, CreationInv, OrderInv
<1>7. IdleInv'
  <2>1. Doing("create")' /\ Current' = Current
    BY <1>0, Zenon DEF Doing, Current
  <2>2. IsActive(Current.context)'
    BY <1>00, <1>0, <2>1, ZenonT(40) DEF IsActive
  <2> QED BY <2>1, <2>2 DEF IdleInv
<1>8. Holds(c)'
  <2>1. /\ IsActive(c)' <=> IsActive(c)
        /\ Omitted(c)' = Omitted(c) /\ Acquisitions(c)' = Acquisitions(c) /\ Needed(c)' = Needed(c)
    BY <1>0, SameConf, Zenon
  <2>2. CreatingInv(c)'
    <3>1. Covered(held'[c], Left(Steps(c)[step']), undo') /\ ThreadsFirst(held'[c], Needed(c)', undo')
      BY <1>0, <1>4, <2>1
    <3> QED BY <1>0, <1>3, <2>1, <3>1, Zenon DEF CreatingInv
  <2> QED BY <1>0, <1>1, <2>1, <2>2, ZenonT(40) DEF Holds
<1>9. ASSUME NEW d \in Contexts, d # c PROVE Holds(d)'
  <2>1. Holds(d) /\ held'[d] = held[d] /\ at # CreateAt(d)
    BY <1>0, <1>1, <1>9, Zenon DEF Inv, CreationInv, HeldInv
  <2> QED BY <1>0, <2>1, OtherStays, ZenonT(40)
<1>10. HeldInv'
  BY <1>8, <1>9, Zenon DEF HeldInv
<1> QED BY <1>5, <1>6, <1>7, <1>10, Zenon DEF CreationInv

\* One label less.
LEMMA OneLabel ==
    ASSUME NEW h, NEW left, NEW needed, NEW u \in Seq(Names), u # << >>,
           Covered(h, left, u), ThreadsFirst(h, needed, u)
    PROVE  /\ Covered(h \ Releases(Head(u)), left, Tail(u))
           /\ ThreadsFirst(h \ Releases(Head(u)), needed, Tail(u))
           /\ h \cap Threads # {} => Releases(Head(u)) \cap needed = {}
<1>0. Len(u) \in Nat /\ Len(u) >= 1 /\ DOMAIN u = 1 .. Len(u) /\ Head(u) = u[1]
  OBVIOUS
<1>1. /\ DOMAIN Tail(u) = 1 .. Len(u) - 1
      /\ \A i \in 1 .. Len(u) - 1 : Tail(u)[i] = u[i + 1]
  BY <1>0
<1>2. \A i \in DOMAIN u : i = 1 \/ (i - 1 \in DOMAIN Tail(u) /\ Tail(u)[i - 1] = u[i])
  BY <1>0, <1>1
<1>3. Covered(h \ Releases(Head(u)), left, Tail(u))
  <2> SUFFICES ASSUME NEW x \in h \ Releases(Head(u)), x \notin left PROVE ReleasedBy(x, Tail(u))
    BY DEF Covered
  <2>1. PICK j \in DOMAIN u : x \in Releases(u[j])
    BY DEF Covered, ReleasedBy
  <2>2. j # 1
    BY <1>0, <2>1
  <2>3. j - 1 \in DOMAIN Tail(u) /\ x \in Releases(Tail(u)[j - 1])
    BY <1>2, <2>1, <2>2, Zenon
  <2> QED BY <2>3, Zenon DEF ReleasedBy
<1>4. ThreadsFirst(h \ Releases(Head(u)), needed, Tail(u))
  <2> SUFFICES ASSUME NEW i \in DOMAIN Tail(u), Releases(Tail(u)[i]) \cap needed # {},
                      NEW x \in (h \ Releases(Head(u))) \cap Threads
               PROVE  \E j \in 1 .. i - 1 : x \in Releases(Tail(u)[j])
    BY Zenon DEF ThreadsFirst
  <2>1. i + 1 \in DOMAIN u /\ Tail(u)[i] = u[i + 1] /\ i \in 1 .. Len(u) - 1
    BY <1>0, <1>1
  <2>2. PICK j \in 1 .. (i + 1) - 1 : x \in Releases(u[j])
    BY <2>1 DEF ThreadsFirst
  <2>3. j # 1
    BY <1>0, <2>2
  <2>4. j - 1 \in 1 .. i - 1 /\ j \in DOMAIN u
    BY <1>0, <2>1, <2>2, <2>3, SMTT(40)
  <2> QED BY <1>2, <2>2, <2>3, <2>4
<1>5. h \cap Threads # {} => Releases(Head(u)) \cap needed = {}
  <2>1. \A j \in 1 .. 1 - 1 : FALSE
    OBVIOUS
  <2> QED BY <1>0, <2>1 DEF ThreadsFirst
<1> QED BY <1>3, <1>4, <1>5, Zenon

\* Running through a label.
LEMMA InvUnwind ==
    ASSUME Inv, Unwind
    PROVE  CreationInv'
<1>000. IsActive(Current.context)
  <2>0. DOMAIN Program = 1 .. 43
    BY ProgramIs
  <2>1. Doing("create")
    BY DEF Unwind
  <2>2. at # 0
    BY <2>0, <2>1, SMTT(40) DEF Doing
  <2> QED BY <2>2, ZenonT(40) DEF Unwind, Inv, CreationInv, IdleInv
<1>00. PICK c \in Contexts : c = Current.context
  BY <1>000, Creating, Zenon DEF Unwind
<1>0. /\ Doing("create") /\ IsActive(c) /\ undo # << >> /\ conf' = conf /\ at' = at /\ step' = step
      /\ held' = [held EXCEPT ![c] = @ \ Releases(Head(undo))] /\ undo' = Tail(undo) /\ undoing' = undoing
  BY <1>000, <1>00, Zenon DEF Unwind
<1>1. /\ at = CreateAt(c) /\ at \in 4 .. 18 /\ CreatingInv(c) /\ Holds(c)
      /\ \A d \in Contexts : d # c => at # CreateAt(d)
      /\ \A d \in Contexts : at < JoinAt(d) /\ at < FreeAt(d)
  BY <1>00, <1>0, Creating
<1>2. TypeInv
  BY DEF Inv, CreationInv
<1>3. /\ step \in DOMAIN Steps(c) /\ Steps(c)[step] \notin Omitted(c) /\ undoing
      /\ Covered(held[c], Left(Steps(c)[step]), undo)
      /\ ThreadsFirst(held[c], Needed(c), undo)
  BY <1>0, <1>1, Zenon DEF CreatingInv
<1>4. /\ held'[c] = held[c] \ Releases(Head(undo))
      /\ \A d \in Contexts : d # c => held'[d] = held[d]
      /\ held' \in [Contexts -> SUBSET Names]
  <2>1. held \in [Contexts -> SUBSET Names]
    BY <1>2 DEF TypeInv
  <2> QED BY <1>0, <2>1, Zenon
<1>5. /\ Covered(held'[c], Left(Steps(c)[step]), undo')
      /\ ThreadsFirst(held'[c], Needed(c), undo')
      /\ held[c] \cap Threads # {} => Releases(Head(undo)) \cap Needed(c) = {}
  <2>1. undo \in Seq(Names)
    BY <1>2 DEF TypeInv
  <2>2. /\ Covered(held[c] \ Releases(Head(undo)), Left(Steps(c)[step]), Tail(undo))
        /\ ThreadsFirst(held[c] \ Releases(Head(undo)), Needed(c), Tail(undo))
        /\ held[c] \cap Threads # {} => Releases(Head(undo)) \cap Needed(c) = {}
    BY <1>0, <1>3, <2>1, OneLabel, Zenon
  <2> QED BY <1>0, <1>4, <2>2
<1>6. TypeInv'
  <2>1. undo' \in Seq(Names)
    BY <1>0, <1>2 DEF TypeInv
  <2> QED BY <1>0, <1>2, <1>4, <2>1, Zenon DEF TypeInv
<1>7. OrderInv'
  <2> SUFFICES ASSUME NEW a \in PnClasses, NEW b \in PnClasses, IsActive(b)', a < b, held'[a] # {}
               PROVE  "sync" \in held'[b]
    BY DEF OrderInv
  <2>1. IsActive(b) /\ a \in Contexts /\ b \in Contexts /\ a \in Nat /\ b \in Nat
    BY <1>0, SameConf, SMTT(40) DEF Contexts, Classes, PnClasses, TSN_HIGH, UDP_LOW
  <2>2. CASE b = c
    <3>1. at < CreateAt(a) /\ at # 0 /\ a # c
      BY <1>1, <2>1, <2>2, SMTT(40) DEF CreateAt
    <3>2. held[a] = {}
      <4>1. Holds(a)
        BY <2>1, Zenon DEF Inv, CreationInv, HeldInv
      <4> QED BY <3>1, <4>1, Zenon DEF Holds
    <3> QED BY <1>4, <2>1, <3>1, <3>2, Zenon
  <2>3. CASE b # c
    <3>1. held[a] # {}
      BY <1>4, <2>1, Zenon
    <3>2. "sync" \in held[b]
      BY <2>1, <3>1, Zenon DEF Inv, CreationInv, OrderInv
    <3> QED BY <1>4, <2>1, <2>3, <3>2, Zenon
  <2> QED BY <2>2, <2>3, Zenon
<1>8. IdleInv'
  <2>1. Doing("create")' /\ Current' = Current
    BY <1>0, Zenon DEF Doing, Current
  <2>2. IsActive(Current.context)'
    BY <1>00, <1>0, <2>1, Zenon DEF IsActive
  <2> QED BY <2>1, <2>2 DEF IdleInv
<1>9. Holds(c)'
  <2>1. /\ IsActive(c)' <=> IsActive(c)
        /\ Omitted(c)' = Omitted(c) /\ Acquisitions(c)' = Acquisitions(c) /\ Needed(c)' = Needed(c)
    BY <1>0, SameConf
  <2>2. CreatingInv(c)'
    <3>1. Covered(held'[c], Left(Steps(c)[step']), undo') /\ ThreadsFirst(held'[c], Needed(c)', undo')
      BY <1>0, <1>5, <2>1, ZenonT(40)
    <3> QED BY <1>0, <1>3, <2>1, <3>1, ZenonT(40) DEF CreatingInv
  <2>3. held'[c] \cap Threads # {} => Needed(c) \subseteq held'[c]
    <3>1. held[c] \cap Threads # {} => Needed(c) \subseteq held[c]
      BY <1>1, Zenon DEF Holds
    <3> QED BY <1>4, <1>5, <3>1
  <2>4. held'[c] \subseteq held[c]
    BY <1>4
  <2>5. /\ ~(at' < CreateAt(c)) /\ ~(CreateAt(c) < at') /\ ~(JoinAt(c) < at') /\ ~(FreeAt(c) < at')
    BY <1>0, <1>1, Spans, SMTT(40)
  <2> QED BY <1>0, <1>1, <2>1, <2>2, <2>3, <2>4, <2>5, ZenonT(40) DEF Holds
<1>10. ASSUME NEW d \in Contexts, d # c PROVE Holds(d)'
  <2>1. Holds(d) /\ held'[d] = held[d] /\ at # CreateAt(d)
    BY <1>1, <1>4, <1>10, ZenonT(40) DEF Inv, CreationInv, HeldInv
  <2> QED BY <1>0, <2>1, OtherStays, Zenon
<1>11. HeldInv'
  BY <1>9, <1>10, Zenon DEF HeldInv
<1> QED BY <1>6, <1>7, <1>8, <1>11 DEF CreationInv

\* The functions that free a context release all that unwinding would.
LEMMA FreedIsAll ==
    ASSUME NEW c \in Contexts
    PROVE  /\ Acquisitions(c) \ (Threads \cup Freed(c)) \subseteq Transient
           /\ "sync" \notin Freed(c) /\ "sync" \notin Threads
<1>0. Threads = {"thread", "tx_thread", "txgen_thread", "rx_thread", "workload_thread_1", "workload_thread_2"}
  BY DEF Threads, WorkloadThreads
<1>1. "sync" \notin Freed(c) /\ "sync" \notin Threads
  BY <1>0, CallSets, Zenon DEF Freed, security_exit, ring_buffer_free, packet_free, xdp_close_socket
<1>2. SUFFICES ASSUME NEW i \in DOMAIN Steps(c), Steps(c)[i] \notin Omitted(c)
               PROVE  Steps(c)[i] \in Threads \cup Freed(c) \cup Transient
  BY <1>1, Zenon DEF Acquisitions, Range
<1>3. CASE c \in TcClasses
  <2>1. Steps(c) = TcSteps /\ c \notin LogContexts
    BY <1>3, Kinds, Zenon
  <2>2. i \in 1 .. 48
    BY <2>1, TcStepsAre
  <2>3. Freed(c) = {"frame_copy", "tx_data", "rx_data", "socket", "desc", "tx_security", "tx_cipher",
                    "tx_cipher_context", "rx_security", "rx_cipher", "rx_cipher_context",
                    "mirror_buffer", "mirror_data", "xsk_socket", "umem", "xsks_map", "xsk",
                    "workload", "library", "symbols", "arguments", "setup_arguments", "setup_1",
                    "setup_2"} \cup PacketCalls
    BY <1>0, <2>1, CallSets, Zenon DEF Freed, security_exit, ring_buffer_free, packet_free, xdp_close_socket
  <2>4. ASSUME NEW k \in 1 .. 21 PROVE TcSteps[k] \in Freed(c) \cup Transient
    BY <2>3, CallSets, TcStepsAre, SMTT(40) DEF Transient
  <2>5. ASSUME NEW k \in 22 .. 36 PROVE TcSteps[k] \in Freed(c) \cup Transient
    BY <2>3, TcStepsAre, SMTT(40) DEF Transient
  <2>6. ASSUME NEW k \in 37 .. 48 PROVE TcSteps[k] \in Freed(c) \cup Threads
    BY <1>0, <2>3, TcStepsAre
  <2>7. i \in 1 .. 21 \/ i \in 22 .. 36 \/ i \in 37 .. 48
    BY <2>2
  <2> QED BY <2>1, <2>4, <2>5, <2>6, <2>7, Zenon
<1>4. CASE c \in {UDP_HIGH, UDP_LOW}
  <2>1. Steps(c) = UdpSteps /\ c \notin LogContexts /\ i \in 1 .. 9
    BY <1>4, Kinds, OtherStepsAre
  <2>2. {"tx_data", "rx_data", "socket", "mirror_buffer", "mirror_data"} \subseteq Freed(c)
    BY <2>1 DEF Freed, ring_buffer_free
  <2>3. ASSUME NEW k \in 1 .. 9 PROVE UdpSteps[k] \in Threads \cup Freed(c) \cup Transient
    BY <1>0, <2>2, OtherStepsAre, SMTT(40) DEF Transient
  <2> QED BY <2>1, <2>3, Zenon
<1>5. CASE c \in LogContexts
  <2>1. Freed(c) = {"context", "log_data", "file", "socket"}
    BY <1>5, Zenon DEF Freed
  <2>2. CASE c = LOG
    BY <1>0, <2>1, <2>2, Kinds, OtherStepsAre, SMTT(40)
  <2>3. CASE c = MQTT
    BY <1>0, <2>1, <2>3, Kinds, OtherStepsAre, SMTT(40)
  <2>4. CASE c = JSON
    BY <1>0, <2>1, <2>4, Kinds, OtherStepsAre, SMTT(40)
  <2> QED BY <1>5, <2>2, <2>3, <2>4, Kinds, Zenon
<1> QED BY <1>3, <1>4, <1>5, Kinds

\* Joining the threads of a context and freeing it.
LEMMA Shrink ==
    ASSUME Inv, Advance, NEW c \in Contexts, NEW r, held' = [held EXCEPT ![c] = @ \ r], "sync" \notin r,
           \/ at = JoinAt(c) /\ Threads \subseteq r
           \/ at = FreeAt(c) /\ Acquisitions(c) \ (Threads \cup r) \subseteq Transient
    PROVE  CreationInv'
<1>0. at' = at + 1 /\ conf' = conf /\ step' = step /\ undoing' = undoing /\ undo' = undo
  BY Zenon DEF Advance, unwinding
<1>1. /\ CreateAt(c) \in 4 .. 18 /\ JoinAt(c) \in 20 .. 31 /\ FreeAt(c) \in 32 .. 43
      /\ Program[JoinAt(c)] = Do("join", c) /\ Program[FreeAt(c)] = Do("free", c)
  BY Places
<1>2. at \in 20 .. 43 /\ at # 0
  BY <1>1, SMTT(40)
<1>3. Current.do # "create"
  BY <1>1 DEF Current, Do
<1>4. step = 1 /\ undoing = FALSE /\ undo = << >>
  BY <1>2, <1>3, Zenon DEF Inv, CreationInv, IdleInv, Doing
<1>5. /\ held'[c] = held[c] \ r
      /\ \A d \in Contexts : d # c => held'[d] = held[d]
      /\ held' \in [Contexts -> SUBSET Names]
  <2>1. held \in [Contexts -> SUBSET Names]
    BY DEF Inv, CreationInv, TypeInv
  <2> QED BY <2>1
<1>6. TypeInv'
  <2>1. at' \in 0 .. 44
    BY <1>0, <1>2
  <2> QED BY <1>0, <1>5, <2>1, ZenonT(40) DEF Inv, CreationInv, TypeInv
<1>7. IdleInv'
  BY <1>0, <1>4, Zenon DEF IdleInv
<1>8. OrderInv'
  <2> SUFFICES ASSUME NEW a \in PnClasses, NEW b \in PnClasses, IsActive(b)', a < b, held'[a] # {}
               PROVE  "sync" \in held'[b]
    BY Zenon DEF OrderInv
  <2>1. IsActive(b) /\ a \in Contexts /\ b \in Contexts
    BY <1>0, SameConf, Zenon DEF Contexts, Classes
  <2>2. held[a] # {}
    BY <1>5, <2>1, Zenon
  <2>3. "sync" \in held[b]
    BY <2>1, <2>2, Zenon DEF Inv, CreationInv, OrderInv
  <2> QED BY <1>5, <2>1, <2>3, Zenon
<1>9. Holds(c)'
  <2>0. Holds(c)
    BY Zenon DEF Inv, CreationInv, HeldInv
  <2>1. (IsActive(c)' <=> IsActive(c)) /\ Acquisitions(c)' = Acquisitions(c) /\ Needed(c)' = Needed(c)
    BY <1>0, SameConf, Zenon
  <2>2. /\ ~(at' < CreateAt(c)) /\ at' # CreateAt(c) /\ ~(at' <= JoinAt(c)) /\ CreateAt(c) < at
    BY <1>0, <1>1, SMTT(40)
  <2>3. held'[c] \cap Threads = {}
    <3>1. CASE at = JoinAt(c)
      BY <1>1, <1>5, <3>1, SMTT(40)
    <3>2. CASE at = FreeAt(c)
      <4>1. JoinAt(c) < at
        BY <1>1, <3>2
      <4>2. held[c] \cap Threads = {}
        BY <2>0, <4>1, ZenonT(40) DEF Holds
      <4> QED BY <1>5, <4>2, Zenon
    <3> QED BY <3>1, <3>2, Zenon
  <2>4. IF IsActive(c) THEN held'[c] \subseteq Acquisitions(c) ELSE held'[c] = {}
    BY <1>5, <2>0, Zenon DEF Holds
  <2>5. FreeAt(c) < at' => held'[c] \subseteq Transient
    <3>1. FreeAt(c) < at' => at = FreeAt(c) /\ at # JoinAt(c)
      BY <1>0, <1>1, SMTT(40)
    <3> QED BY <1>5, <2>3, <2>4, <3>1, Zenon
  <2>6. IsActive(c) /\ c \in Classes => "sync" \in held'[c]
    BY <1>5, <2>0, <2>2 DEF Holds
  <2> QED BY <2>1, <2>2, <2>3, <2>4, <2>5, <2>6, Zenon DEF Holds
<1>10. ASSUME NEW d \in Contexts, d # c PROVE Holds(d)'
  <2>1. Holds(d) /\ held'[d] = held[d] /\ at \in 1 .. 43
    BY <1>2, <1>5, <1>10, SMTT(40) DEF Inv, CreationInv, HeldInv
  <2>2. at # CreateAt(d) /\ at # JoinAt(d) /\ at # FreeAt(d)
    <3>1. /\ Program[CreateAt(d)] = Do("create", d) /\ Program[JoinAt(d)] = Do("join", d)
          /\ Program[FreeAt(d)] = Do("free", d)
      BY Places, Zenon
    <3> QED BY <1>1, <1>10, <3>1 DEF Do
  <2>3. step' = 1 /\ undoing' = FALSE /\ undo' = << >>
    BY <1>0, <1>4
  <2> QED BY <1>0, <2>1, <2>2, <2>3, OtherAdvances, ZenonT(40)
<1>11. HeldInv'
  BY <1>9, <1>10, Zenon DEF HeldInv
<1> QED BY <1>6, <1>7, <1>8, <1>11, Zenon DEF CreationInv

\* A signal leaves the contexts alone, and so does stuttering.
LEMMA Unconcerned ==
    ASSUME Inv, UNCHANGED <<conf, at, step, undoing, undo, held>>
    PROVE  CreationInv'
<1>1. TypeInv'
  BY DEF Inv, CreationInv, TypeInv
<1>2. IdleInv'
  BY Zenon DEF Inv, CreationInv, IdleInv, Doing, Current, IsActive
<1>3. OrderInv'
  BY DEF Inv, CreationInv, OrderInv, IsActive
<1>4. HeldInv'
  <2> SUFFICES ASSUME NEW c \in Contexts PROVE Holds(c)'
    BY DEF HeldInv
  <2>1. Holds(c)
    BY DEF Inv, CreationInv, HeldInv
  <2>2. /\ IsActive(c)' <=> IsActive(c)
        /\ Omitted(c)' = Omitted(c) /\ Acquisitions(c)' = Acquisitions(c) /\ Needed(c)' = Needed(c)
    BY SameConf, ZenonT(40)
  <2>3. Before(c, step)' = Before(c, step)
    BY DEF Before, Omitted, Xdp, Secure, HasWorkload
  <2>4. CreatingInv(c)' <=> CreatingInv(c)
    BY <2>2, <2>3, Zenon DEF CreatingInv
  <2> QED BY <2>1, <2>2, <2>4, Zenon DEF Holds
<1> QED BY <1>1, <1>2, <1>3, <1>4, Zenon DEF CreationInv

\* Every step of tb_startup, and the handler of signals.
LEMMA CreationStep == Inv /\ [Next]_vars => CreationInv'
<1> SUFFICES ASSUME Inv, [Next]_vars PROVE CreationInv'
  OBVIOUS
<1>0. ASSUME NEW w, Doing(w) PROVE at \in DOMAIN Program /\ Current.do = w
  BY <1>0 DEF Doing
<1>1. CASE config_sanity_check
  <2>1. at \in DOMAIN Program /\ Current.do = "check" /\ held' = held /\ (Exit \/ Advance)
    BY <1>1 DEF config_sanity_check, Doing
  <2> QED BY <2>1, PassOn, Leave, Zenon
<1>2. CASE setup_signals
  <2>1. at \in DOMAIN Program /\ Current.do = "signals" /\ held' = held /\ Advance
    BY <1>2 DEF setup_signals, Doing
  <2> QED BY <2>1, PassOn
<1>3. CASE Allocate
  <2>1. at \in DOMAIN Program /\ Current.do \in {"init", "alloc"} /\ held' = held /\ (Exit \/ Advance)
    BY <1>3 DEF Allocate, Doing
  <2> QED BY <2>1, PassOn, Leave
<1>4. CASE link_pn_threads
  <2>1. at \in DOMAIN Program /\ Current.do = "link" /\ held' = held /\ (Exit \/ Advance)
    BY <1>4 DEF link_pn_threads, Doing
  <2> QED BY <2>1, PassOn, Leave, Zenon
<1>5. CASE CreateNothing
  <2>1. /\ at \in DOMAIN Program /\ Current.do = "create" /\ ~IsActive(Current.context)
        /\ held' = held /\ Advance
    BY <1>5 DEF CreateNothing, Doing
  <2> QED BY <2>1, PassOn
<1>6. CASE Acquire
  BY <1>6, InvAcquire
<1>7. CASE AcquireFails
  BY <1>7, InvAcquireFails, Zenon
<1>8. CASE Unwind
  BY <1>8, InvUnwind
<1>9. CASE CreateFailed
  BY <1>9, Leave DEF CreateFailed
<1>10. CASE print_stats
  <2>1. at \in DOMAIN Program /\ Current.do = "print" /\ held' = held /\ Advance
    BY <1>10 DEF print_stats, Doing
  <2> QED BY <2>1, PassOn
<1>11. CASE WaitForFinish
  <2>1. PICK c \in Contexts : c = Current.context /\ at = JoinAt(c)
    BY <1>11, Places, Zenon DEF WaitForFinish, Doing, Current
  <2>2. Advance /\ held' = [held EXCEPT ![c] = @ \ Threads]
    BY <1>11, <2>1 DEF WaitForFinish
  <2>3. "sync" \notin Threads
    BY FreedIsAll
  <2>4. Threads \subseteq Threads
    OBVIOUS
  <2> QED BY <2>1, <2>2, <2>3, <2>4, Shrink, ZenonT(40)
<1>12. CASE Free
  <2>1. PICK c \in Contexts : c = Current.context /\ at = FreeAt(c)
    BY <1>12, Places, Zenon DEF Free, Doing, Current
  <2>2. Advance /\ held' = [held EXCEPT ![c] = @ \ Freed(c)]
    BY <1>12, <2>1, Zenon DEF Free
  <2>3. "sync" \notin Freed(c) /\ Acquisitions(c) \ (Threads \cup Freed(c)) \subseteq Transient
    BY FreedIsAll
  <2> QED BY <2>1, <2>2, <2>3, Shrink, ZenonT(40)
<1>13. CASE term_handler
  BY <1>13, Unconcerned, Zenon DEF term_handler, unwinding
<1>14. CASE UNCHANGED vars
  BY <1>14, Unconcerned DEF vars, unwinding
<1> QED BY <1>1, <1>2, <1>3, <1>4, <1>5, <1>6, <1>7, <1>8, <1>9, <1>10, <1>11, <1>12, <1>13, <1>14, ZenonT(40) DEF Next, Main

\* The chain is linked once and never changed.
LEMMA LinkStep == Inv /\ [Next]_vars => LinkInv'
<1> SUFFICES ASSUME Inv, [Next]_vars PROVE LinkInv'
  OBVIOUS
<1>0. at \in 0 .. 44 /\ Link = 10
  BY LinkPlace, Zenon DEF Inv, CreationInv, TypeInv
<1>1. CASE link_pn_threads
  <2>0. conf' = conf /\ next' = find_next_pn_thread(conf.active)
    BY <1>1, Zenon DEF link_pn_threads, Advance, Exit
  <2>1. CASE /\ FirstClass(conf.active) # Null /\ is_first' = {FirstClass(conf.active)}
             /\ is_last' = {EndOfChain(next', FirstClass(conf.active))}
    BY <2>0, <2>1, Zenon DEF LinkInv
  <2>2. CASE GenericL2 \in conf.active
    BY <2>0, <2>2, Zenon DEF LinkInv
  <2>3. CASE at' = 0
    BY <1>0, <2>0, <2>3, SMTT(40) DEF LinkInv, Linked
  <2> QED BY <1>1, <2>1, <2>2, <2>3, Zenon DEF link_pn_threads, Exit
<1>2. CASE ~link_pn_threads
  <2>1. UNCHANGED links /\ conf' = conf /\ (at' = at \/ at' = 0 \/ (at' = at + 1 /\ Current.do # "link" /\ at \in DOMAIN Program))
    <3>1. CASE Main
      BY <1>2, <3>1, ZenonT(40) DEF Main, config_sanity_check, setup_signals, Allocate, CreateNothing, Acquire,
         AcquireFails, Unwind, CreateFailed, print_stats, WaitForFinish, Free, Advance, Exit, Doing
    <3>2. CASE term_handler
      BY <3>2 DEF term_handler
    <3>3. CASE UNCHANGED vars
      BY <3>3 DEF vars
    <3> QED BY <3>1, <3>2, <3>3, Zenon DEF Next
  <2>2. Linked' => Linked
    <3>1. at \in DOMAIN Program /\ Current.do # "link" => at # 10
      BY LinkPlace DEF Current
    <3> QED BY <1>0, <2>1, <3>1, SMTT(40) DEF Linked
  <2> QED BY <2>1, <2>2 DEF Inv, LinkInv, links
<1> QED BY <1>1, <1>2, Zenon

\* The invariant holds throughout.
LEMMA InvHolds == Spec => []Inv
<1>1. Inv /\ [Next]_vars => Inv'
  BY CreationStep, LinkStep, Zenon DEF Inv
<1> QED BY <1>1, InvInit, PTL DEF Spec

---------------------------------------------------------------------------
(***************************************************************************)
(* The XDP program                                                         *)
(***************************************************************************)
\* Where xdp_prog_init makes its calls; they are left out together.
LEMMA XdpPlaces ==
    ASSUME NEW c \in Contexts, NEW k \in DOMAIN Steps(c)
    PROVE  /\ Steps(c)[k] \in {"xdp_program", "xdp_attach", "xsks_map"} => c \in TcClasses
           /\ c \in TcClasses =>
                 /\ Steps(c)[k] = "xdp_program" <=> k = 18
                 /\ Steps(c)[k] = "xdp_attach" <=> k = 19
                 /\ Steps(c)[k] = "xsks_map" <=> k = 20
           /\ "xdp_program" \in Omitted(c) <=> ~Xdp(c)
           /\ "xdp_attach" \in Omitted(c) <=> ~Xdp(c)
           /\ "xsks_map" \in Omitted(c) <=> ~Xdp(c)
<1>1. ASSUME c \in TcClasses
      PROVE  /\ Steps(c)[k] = "xdp_program" <=> k = 18
             /\ Steps(c)[k] = "xdp_attach" <=> k = 19
             /\ Steps(c)[k] = "xsks_map" <=> k = 20
  <2>0. Steps(c) = TcSteps
    BY <1>1, Kinds, Zenon
  <2>1. k \in 1 .. 48
    BY <2>0, TcStepsAre, SMTT(40)
  <2>2. ASSUME NEW i \in 1 .. 48
        PROVE  /\ TcSteps[i] = "xdp_program" <=> i = 18
               /\ TcSteps[i] = "xdp_attach" <=> i = 19
               /\ TcSteps[i] = "xsks_map" <=> i = 20
    BY TcStepsAre, SMTT(40)
  <2> QED BY <2>0, <2>1, <2>2, Zenon
<1>2. ASSUME c \notin TcClasses
      PROVE  Steps(c)[k] \notin {"xdp_program", "xdp_attach", "xsks_map"}
  <2>1. CASE c \in {UDP_HIGH, UDP_LOW}
    <3>1. Steps(c) = UdpSteps /\ k \in 1 .. 9
      BY <2>1, Kinds, OtherStepsAre, Zenon
    <3> QED BY <3>1, OtherStepsAre, SMTT(40)
  <2>2. CASE c \in {LOG, MQTT, JSON}
    BY <2>2, Kinds, OtherStepsAre, SMTT(40)
  <2> QED BY <1>2, <2>1, <2>2, Kinds, Zenon
<1>3. /\ "xdp_program" \in Omitted(c) <=> ~Xdp(c)
      /\ "xdp_attach" \in Omitted(c) <=> ~Xdp(c)
      /\ "xsks_map" \in Omitted(c) <=> ~Xdp(c)
  BY CallSets, Zenon DEF Omitted, AfPacketCalls, SecurityCalls
<1> QED BY <1>1, <1>2, <1>3, Zenon

\* After a call of xdp_prog_init comes its next one, and not after any other.
LEMMA XdpNext ==
    ASSUME NEW c \in Contexts, NEW k \in DOMAIN Steps(c), Steps(c)[k] \notin Omitted(c)
    PROVE  /\ Steps(c)[k] \in {"xdp_program", "xdp_attach"} => Later(c, k) # {}
           /\ Later(c, k) # {} =>
                 LET n == CHOOSE i \in Later(c, k) : \A j \in Later(c, k) : i <= j
                 IN  /\ n \in DOMAIN Steps(c)
                     /\ Steps(c)[n] = "xdp_attach" <=> Steps(c)[k] = "xdp_program"
                     /\ Steps(c)[n] = "xsks_map" <=> Steps(c)[k] = "xdp_attach"
<1> DEFINE L == Later(c, k)
           n == CHOOSE i \in L : \A j \in L : i <= j
<1>1. /\ L \subseteq DOMAIN Steps(c) /\ DOMAIN Steps(c) \subseteq Nat
      /\ \A i \in DOMAIN Steps(c) : i \in L <=> k < i /\ Steps(c)[i] \notin Omitted(c)
  BY StepTypes DEF Later
<1>2. L # {} => n \in L /\ \A j \in L : n <= j
  <2> HIDE DEF L
  <2>1. L # {} => \E i \in L : \A j \in L : i <= j
    <3>1. L \in SUBSET (0 .. 48)
      BY <1>1, ListLength
    <3> QED BY <3>1, LeastElement, Zenon
  <2> QED BY <2>1, Zenon
<1>3. ASSUME c \in TcClasses, Xdp(c)
      PROVE  \A i \in {18, 19, 20} : i \in L <=> k < i
  <2>1. DOMAIN Steps(c) = 1 .. 48 /\ Steps(c) = TcSteps
    BY <1>3, Kinds, TcStepsAre, SMTT(40)
  <2>2. TcSteps[18] \notin Omitted(c) /\ TcSteps[19] \notin Omitted(c) /\ TcSteps[20] \notin Omitted(c)
    <3>1. TcSteps[18] = "xdp_program" /\ TcSteps[19] = "xdp_attach" /\ TcSteps[20] = "xsks_map"
      BY TcStepsAre
    <3> QED BY <1>3, <3>1, XdpPlaces, ZenonT(40)
  <2> QED BY <1>1, <2>1, <2>2, SMTT(40)
<1>4. ASSUME NEW m \in DOMAIN Steps(c), Steps(c)[m] \notin Omitted(c),
             Steps(c)[m] \in {"xdp_program", "xdp_attach", "xsks_map"}
      PROVE  c \in TcClasses /\ Xdp(c)
  BY <1>4, XdpPlaces, ZenonT(40)
<1>5. ASSUME Steps(c)[k] \in {"xdp_program", "xdp_attach"} PROVE L # {}
  <2>1. c \in TcClasses /\ Xdp(c)
    BY <1>4, <1>5
  <2>2. k \in {18, 19}
    BY <1>5, <2>1, XdpPlaces, ZenonT(40)
  <2>3. 20 \in L
    BY <1>3, <2>1, <2>2, SMTT(40)
  <2> QED BY <2>3
<1>6. ASSUME L # {}
      PROVE  /\ n \in DOMAIN Steps(c)
             /\ Steps(c)[n] = "xdp_attach" <=> Steps(c)[k] = "xdp_program"
             /\ Steps(c)[n] = "xsks_map" <=> Steps(c)[k] = "xdp_attach"
  <2>1. PICK m \in L : m = n /\ \A j \in L : m <= j
    BY <1>2, <1>6, Zenon
  <2>2. m \in DOMAIN Steps(c) /\ Steps(c)[m] \notin Omitted(c) /\ m \in Nat /\ k \in Nat /\ k < m
    BY <1>1, <2>1, Zenon
  <2>3. CASE c \in TcClasses /\ Xdp(c)
    <3>1. /\ Steps(c)[m] = "xdp_attach" <=> m = 19
          /\ Steps(c)[m] = "xsks_map" <=> m = 20
          /\ Steps(c)[k] = "xdp_program" <=> k = 18
          /\ Steps(c)[k] = "xdp_attach" <=> k = 19
      BY <2>2, <2>3, XdpPlaces, Zenon
    <3>2. (k < 19 => m <= 19) /\ (k < 20 => m <= 20) /\ (k < 18 => m <= 18)
      BY <1>3, <2>1, <2>3, Zenon
    <3>3. (m = 19 <=> k = 18) /\ (m = 20 <=> k = 19)
      BY <2>2, <3>2, SMTT(40)
    <3> QED BY <2>1, <2>2, <3>1, <3>3, Zenon
  <2>4. CASE ~(c \in TcClasses /\ Xdp(c))
    <3>1. /\ Steps(c)[m] \notin {"xdp_program", "xdp_attach", "xsks_map"}
          /\ Steps(c)[k] \notin {"xdp_program", "xdp_attach", "xsks_map"}
      BY <1>4, <2>2, <2>4, Zenon
    <3> QED BY <2>1, <2>2, <3>1
  <2> QED BY <2>3, <2>4
<1> QED BY <1>5, <1>6, Zenon

\* What stays or leaves with the counter: the last socket detaches the program.
LEMMA ProgExit ==
    ASSUME NEW c \in Contexts, NEW r, held \in [Contexts -> SUBSET Names],
           held' = [held EXCEPT ![c] = @ \ r], xdp_prog' \in xdp_prog_exit(c, r),
           c \in Classes \/ "xsks_map" \notin held[c]
    PROVE  \/ xdp_prog' = xdp_prog /\ (initialized' <=> initialized)
           \/ xdp_prog' \in {"none", "stays"} /\ ~initialized' /\ Counted(c)
<1>0. Classes \subseteq Contexts
  BY DEF Contexts
<1>1. /\ \A d \in Classes : d # c => (Counted(d)' <=> Counted(d))
      /\ Counted(c)' <=> Counted(c) /\ "xsks_map" \notin r
  BY <1>0 DEF Counted
<1>2. CASE Counted(c) /\ "xsks_map" \in r /\ \A d \in Classes \ {c} : ~Counted(d)
  <2>1. xdp_prog' \in {"none", "stays"}
    BY <1>2 DEF xdp_prog_exit
  <2> QED BY <1>1, <1>2, <2>1, Zenon DEF initialized
<1>3. CASE ~(Counted(c) /\ "xsks_map" \in r /\ \A d \in Classes \ {c} : ~Counted(d))
  <2>1. xdp_prog' = xdp_prog
    BY <1>3, Zenon DEF xdp_prog_exit
  <2>2. CASE ~Counted(c) \/ "xsks_map" \notin r
    BY <1>1, <2>1, <2>2, Zenon DEF initialized
  <2>3. CASE \E d \in Classes \ {c} : Counted(d)
    BY <1>1, <2>1, <2>3, ZenonT(40) DEF initialized
  <2> QED BY <1>3, <2>2, <2>3, Zenon
<1> QED BY <1>2, <1>3, Zenon

\* A context that is not a class has no AF_XDP socket.
LEMMA LogsUncounted ==
    ASSUME Inv, NEW c \in Contexts
    PROVE  c \in Classes \/ "xsks_map" \notin held[c]
<1> SUFFICES ASSUME c \notin Classes, "xsks_map" \in held[c] PROVE FALSE
  BY Zenon
<1>1. Holds(c)
  BY DEF Inv, CreationInv, HeldInv
<1>2. "xsks_map" \in Acquisitions(c)
  BY <1>1, Zenon DEF Holds
<1>3. PICK k \in DOMAIN Steps(c) : Steps(c)[k] = "xsks_map"
  BY <1>2, ZenonT(40) DEF Acquisitions, Range
<1>4. c \in TcClasses
  BY <1>3, XdpPlaces, Zenon
<1> QED BY <1>4, Kinds, Zenon

\* No context is created with a call of xdp_prog_init first.
LEMMA NotXdpFirst ==
    \A i \in DOMAIN Program :
        Program[i].do = "create" => Steps(Program[i].context)[1] \notin {"xdp_attach", "xsks_map"}
<1> SUFFICES ASSUME NEW i \in DOMAIN Program, Program[i].do = "create"
             PROVE  Steps(Program[i].context)[1] \notin {"xdp_attach", "xsks_map"}
  BY Zenon
<1>1. PICK c \in Contexts : c = Program[i].context
  BY Places, Zenon
<1>2. 1 \in DOMAIN Steps(c)
  BY FirstCall, Zenon
<1>3. c \in TcClasses /\ Steps(c)[1] \in {"xdp_attach", "xsks_map"} => 1 \in {19, 20}
  BY <1>2, XdpPlaces, Zenon
<1>4. Steps(c)[1] \in {"xdp_attach", "xsks_map"} => c \in TcClasses
  BY <1>2, XdpPlaces, Zenon
<1> QED BY <1>1, <1>3, <1>4, SMTT(40)

\* tb_startup goes on, with the program as it is or detached by the last socket.
LEMMA ProgGoesOn ==
    ASSUME ProgInv, at \in 1 .. 43, at' = at + 1, step = 1, step' = 1,
           \/ xdp_prog' = xdp_prog /\ (initialized' <=> initialized)
           \/ xdp_prog' \in {"none", "stays"} /\ ~initialized'
    PROVE  ProgInv'
<1>0. DOMAIN Program = 1 .. 43
  BY ProgramIs, ZenonT(40)
<1>1. ~AtAttach /\ ~AtMap /\ ~Failed
  BY <1>0, NotXdpFirst, SMTT(40) DEF Failed, AtAttach, AtMap, Doing, Current, NextCall
<1>2. ~AtAttach' /\ ~AtMap'
  BY NotXdpFirst DEF AtAttach, AtMap, Doing, Current, NextCall
<1> QED BY <1>1, <1>2 DEF ProgInv

\* tb_startup returns an error.
LEMMA ProgLeaves ==
    ASSUME ProgInv, at' = 0, held' = held, xdp_prog' = xdp_prog
    PROVE  ProgInv'
<1>0. 0 \notin DOMAIN Program
  <2>1. DOMAIN Program = 1 .. 43
    BY ProgramIs, Zenon
  <2> QED BY <2>1
<1>1. ~AtAttach' /\ ~AtMap' /\ Failed'
  BY <1>0 DEF AtAttach, AtMap, Doing, Failed
<1>2. initialized' <=> initialized
  BY Zenon DEF initialized, Counted
<1> QED BY <1>1, <1>2, Zenon DEF ProgInv

\* Nothing about the program changes.
LEMMA ProgStays ==
    ASSUME ProgInv, UNCHANGED <<at, step, held, xdp_prog>>
    PROVE  ProgInv'
BY Zenon DEF ProgInv, AtAttach, AtMap, Doing, Current, NextCall, Failed, initialized, Counted

\* One label less.
LEMMA ProgUnwind ==
    ASSUME Inv, ProgInv, Unwind
    PROVE  ProgInv'
<1>1. PICK c \in Contexts : c = Current.context
  BY Places, ZenonT(40) DEF Unwind, Doing, Current
<1>2. /\ held' = [held EXCEPT ![c] = @ \ Releases(Head(undo))]
      /\ xdp_prog' \in xdp_prog_exit(c, Releases(Head(undo)))
      /\ at' = at /\ step' = step
  BY <1>1 DEF Unwind
<1>3. held \in [Contexts -> SUBSET Names]
  BY DEF Inv, CreationInv, TypeInv
<1>4. \/ xdp_prog' = xdp_prog /\ (initialized' <=> initialized)
      \/ xdp_prog' \in {"none", "stays"} /\ ~initialized' /\ Counted(c)
  <2>1. c \in Classes \/ "xsks_map" \notin held[c]
    BY LogsUncounted, Zenon
  <2> QED BY <1>2, <1>3, <2>1, ProgExit, Zenon
<1>5. (AtAttach' <=> AtAttach) /\ (AtMap' <=> AtMap) /\ (Failed' <=> Failed) /\ Current' = Current
  BY <1>2, ZenonT(40) DEF AtAttach, AtMap, Doing, Current, NextCall, Failed
<1>6. Counted(c)' => Counted(c)
  BY <1>2, <1>3 DEF Counted
<1>7. AtAttach \/ AtMap => ~Counted(c)
  BY <1>1 DEF ProgInv
<1>8. AtAttach' \/ AtMap' => ~Counted(Current.context)'
  BY <1>1, <1>5, <1>6, <1>7, Zenon
<1> QED BY <1>4, <1>5, <1>7, <1>8, ZenonT(40) DEF ProgInv

\* The next call succeeds: xdp_prog_init opens and attaches the program for the
\* first socket.
LEMMA ProgAcquire ==
    ASSUME Inv, ProgInv, Acquire
    PROVE  ProgInv'
<1>00. PICK c \in Contexts : c = Current.context
  BY Creating, Zenon DEF Acquire
<1>0. /\ Doing("create") /\ ~undoing /\ xdp_prog' = xdp_prog_init(NextCall)
      /\ held' = [held EXCEPT ![c] = @ \cup {NextCall}]
      /\ \/ Later(c, step) = {} /\ step' = 1 /\ at' = at + 1
         \/ /\ Later(c, step) # {} /\ at' = at
            /\ step' = CHOOSE i \in Later(c, step) : \A j \in Later(c, step) : i <= j
  BY <1>00, Zenon DEF Acquire
<1>1. CreatingInv(c) /\ at \in 4 .. 18
  BY <1>00, Creating DEF Acquire
<1>2. /\ step \in DOMAIN Steps(c) /\ NextCall = Steps(c)[step] /\ NextCall \notin Omitted(c)
      /\ held[c] = Before(c, step)
  BY <1>00, <1>0, <1>1, Zenon DEF CreatingInv, NextCall
<1>3. held \in [Contexts -> SUBSET Names] /\ Classes \subseteq Contexts
  BY ZenonT(40) DEF Inv, CreationInv, TypeInv, Contexts
<1>4. ~Failed /\ ~Failed' /\ at \in DOMAIN Program
  <2>1. DOMAIN Program = 1 .. 43
    BY ProgramIs, Zenon
  <2>2. at' = at \/ at' = at + 1
    BY <1>0, Zenon
  <2> QED BY <1>1, <2>1, <2>2 DEF Failed
<1>5. /\ AtAttach <=> NextCall = "xdp_attach"
      /\ AtMap <=> NextCall = "xsks_map"
  BY <1>0 DEF AtAttach, AtMap
<1>6. /\ AtAttach' <=> NextCall = "xdp_program"
      /\ AtMap' <=> NextCall = "xdp_attach"
  <2>1. CASE Later(c, step) = {}
    <3>1. step' = 1 /\ NextCall \notin {"xdp_program", "xdp_attach"}
      BY <1>0, <1>2, <2>1, XdpNext, Zenon
    <3>2. ~AtAttach' /\ ~AtMap'
      BY <3>1, NotXdpFirst, Zenon DEF AtAttach, AtMap, Doing, Current, NextCall
    <3> QED BY <3>1, <3>2
  <2>2. CASE Later(c, step) # {}
    <3>1. /\ Steps(c)[step'] = "xdp_attach" <=> NextCall = "xdp_program"
          /\ Steps(c)[step'] = "xsks_map" <=> NextCall = "xdp_attach"
      <4>1. step' = CHOOSE i \in Later(c, step) : \A j \in Later(c, step) : i <= j
        BY <1>0, <2>2, Zenon
      <4>2. /\ Steps(c)[step'] = "xdp_attach" <=> Steps(c)[step] = "xdp_program"
            /\ Steps(c)[step'] = "xsks_map" <=> Steps(c)[step] = "xdp_attach"
        BY <1>2, <2>2, <4>1, XdpNext, SMTT(40)
      <4> QED BY <1>2, <4>2
    <3>2. Doing("create")' /\ NextCall' = Steps(c)[step']
      BY <1>00, <1>0, <2>2, Zenon DEF Doing, Current, NextCall
    <3> QED BY <3>1, <3>2, Zenon DEF AtAttach, AtMap
  <2> QED BY <2>1, <2>2
<1>7. c \in TcClasses /\ NextCall \in {"xdp_program", "xdp_attach"} => ~Counted(c)'
  <2> SUFFICES ASSUME c \in TcClasses, NextCall \in {"xdp_program", "xdp_attach"}, Counted(c)' PROVE FALSE
    BY Zenon
  <2>1. step \in {18, 19}
    BY <1>2, XdpPlaces, Zenon
  <2>2. "xsks_map" \in Before(c, step)
    BY <1>0, <1>2, <1>3, Zenon DEF Counted
  <2>3. PICK j \in DOMAIN Steps(c) : j < step /\ Steps(c)[j] = "xsks_map"
    BY <2>2, Zenon DEF Before
  <2>4. j = 20
    BY <2>3, XdpPlaces, Zenon
  <2> QED BY <2>1, <2>3, <2>4
<1>8. NextCall \in {"xdp_program", "xdp_attach", "xsks_map"} => c \in TcClasses /\ c \in Classes
  BY <1>2, XdpPlaces, Kinds
<1>9. /\ NextCall # "xsks_map" => (initialized' <=> initialized)
      /\ NextCall = "xsks_map" => initialized'
  <2>1. NextCall # "xsks_map" => \A d \in Classes : Counted(d)' <=> Counted(d)
    BY <1>0, <1>3, Zenon DEF Counted
  <2>2. NextCall = "xsks_map" => c \in Classes /\ Counted(c)'
    BY <1>0, <1>3, <1>8, Zenon DEF Counted
  <2> QED BY <2>1, <2>2, Zenon DEF initialized
<1>10. AtAttach' \/ AtMap' => ~Counted(Current.context)'
  <2>1. AtAttach' \/ AtMap' => Current' = Current
    <3>1. NextCall \in {"xdp_program", "xdp_attach"} => at' = at
      BY <1>0, <1>2, XdpNext, ZenonT(40)
    <3> QED BY <1>6, <3>1 DEF Current
  <2> QED BY <1>00, <1>6, <1>7, <1>8, <2>1, ZenonT(40)
<1>11. CASE NextCall = "xdp_program"
  <2>1. xdp_prog' = IF initialized THEN xdp_prog ELSE "opened"
    BY <1>0, <1>11, Zenon DEF xdp_prog_init
  <2> QED BY <1>4, <1>5, <1>6, <1>9, <1>10, <1>11, <2>1, ZenonT(40) DEF ProgInv
<1>12. CASE NextCall = "xdp_attach"
  <2>1. xdp_prog' = IF initialized THEN xdp_prog ELSE "attached"
    BY <1>0, <1>12, Zenon DEF xdp_prog_init
  <2> QED BY <1>4, <1>5, <1>6, <1>9, <1>10, <1>12, <2>1, ZenonT(40) DEF ProgInv
<1>13. CASE NextCall \notin {"xdp_program", "xdp_attach"}
  <2>1. xdp_prog' = xdp_prog
    BY <1>0, <1>13 DEF xdp_prog_init
  <2> QED BY <1>4, <1>5, <1>6, <1>9, <1>13, <2>1, ZenonT(40) DEF ProgInv
<1> QED BY <1>11, <1>12, <1>13, Zenon

\* Every step of tb_startup, and the handler of signals.
LEMMA ProgStep == Inv /\ ProgInv /\ [Next]_vars => ProgInv'
<1> SUFFICES ASSUME Inv, ProgInv, [Next]_vars PROVE ProgInv'
  OBVIOUS
<1>0. ASSUME at \in DOMAIN Program, ~(Doing("create") /\ IsActive(Current.context))
      PROVE  step = 1 /\ at \in 1 .. 43
  <2>1. at \in 1 .. 43
    BY <1>0, ProgramIs, ZenonT(40)
  <2>2. at # 0
    BY <2>1
  <2> QED BY <1>0, <2>1, <2>2, ZenonT(40) DEF Inv, CreationInv, IdleInv
<1>1. ASSUME Advance \/ Exit, at \in DOMAIN Program, held' = held, xdp_prog' = xdp_prog,
             ~(Doing("create") /\ IsActive(Current.context))
      PROVE  ProgInv'
  <2>1. initialized' <=> initialized
    BY <1>1 DEF initialized, Counted
  <2>2. CASE Advance
    <3>1. at' = at + 1 /\ step' = step /\ step = 1 /\ at \in 1 .. 43
      BY <1>0, <1>1, <2>2, Zenon DEF Advance
    <3> QED BY <1>1, <2>1, <3>1, ProgGoesOn, Zenon
  <2>3. CASE Exit
    BY <1>1, <2>3, ProgLeaves, Zenon DEF Exit
  <2> QED BY <1>1, <2>2, <2>3, Zenon
<1>2. CASE config_sanity_check \/ setup_signals \/ Allocate \/ link_pn_threads \/ CreateNothing \/ print_stats
  <2>1. /\ Advance \/ Exit
        /\ at \in DOMAIN Program /\ held' = held /\ xdp_prog' = xdp_prog
        /\ ~(Doing("create") /\ IsActive(Current.context))
    BY <1>2 DEF config_sanity_check, setup_signals, Allocate, link_pn_threads, CreateNothing, print_stats, Doing
  <2> QED BY <1>1, <2>1, ZenonT(40)
<1>3. CASE Acquire
  BY <1>3, ProgAcquire, Zenon
<1>4. CASE AcquireFails
  BY <1>4, ProgStays, Zenon DEF AcquireFails
<1>5. CASE Unwind
  BY <1>5, ProgUnwind
<1>6. CASE CreateFailed
  BY <1>6, ProgLeaves, Zenon DEF CreateFailed, Exit
<1>7. CASE WaitForFinish
  <2>1. PICK c \in Contexts : c = Current.context
    BY <1>7, Places, ZenonT(40) DEF WaitForFinish, Doing, Current
  <2>2. /\ held' = [held EXCEPT ![c] = @ \ Threads] /\ xdp_prog' = xdp_prog
        /\ at' = at + 1 /\ step' = step /\ at \in DOMAIN Program /\ ~Doing("create")
    BY <1>7, <2>1 DEF WaitForFinish, Advance, Doing
  <2>3. "xsks_map" \notin Threads
    BY DEF Threads, WorkloadThreads
  <2>4. \A d \in Classes : Counted(d)' <=> Counted(d)
    BY <2>2, <2>3 DEF Counted, Inv, CreationInv, TypeInv, Contexts
  <2>5. initialized' <=> initialized
    BY <2>4, Zenon DEF initialized
  <2>6. step = 1 /\ at \in 1 .. 43
    BY <1>0, <2>2, Zenon
  <2> QED BY <2>2, <2>5, <2>6, ProgGoesOn, Zenon
<1>8. CASE Free
  <2>1. PICK c \in Contexts : c = Current.context
    BY <1>8, Places, ZenonT(40) DEF Free, Doing, Current
  <2>2. /\ held' = [held EXCEPT ![c] = @ \ Freed(c)] /\ xdp_prog' \in xdp_prog_exit(c, Freed(c))
        /\ at' = at + 1 /\ step' = step /\ at \in DOMAIN Program /\ ~Doing("create")
    BY <1>8, <2>1, Zenon DEF Free, Advance, Doing
  <2>3. held \in [Contexts -> SUBSET Names]
    BY DEF Inv, CreationInv, TypeInv
  <2>4. c \in Classes \/ "xsks_map" \notin held[c]
    BY LogsUncounted
  <2>5. \/ xdp_prog' = xdp_prog /\ (initialized' <=> initialized)
        \/ xdp_prog' \in {"none", "stays"} /\ ~initialized'
    BY <2>2, <2>3, <2>4, ProgExit, Zenon
  <2>6. step = 1 /\ at \in 1 .. 43
    BY <1>0, <2>2, Zenon
  <2> QED BY <2>2, <2>5, <2>6, ProgGoesOn, Zenon
<1>9. CASE term_handler
  BY <1>9, ProgStays, Zenon DEF term_handler
<1>10. CASE UNCHANGED vars
  BY <1>10, ProgStays DEF vars
<1> QED BY <1>2, <1>3, <1>4, <1>5, <1>6, <1>7, <1>8, <1>9, <1>10, ZenonT(40) DEF Next, Main

\* What is known of the program holds throughout.
LEMMA ProgHolds == Spec => []ProgInv
<1>1. Init => ProgInv
  <2> SUFFICES ASSUME Init PROVE ProgInv
    OBVIOUS
  <2>1. ~AtAttach /\ ~AtMap
    BY NotXdpFirst DEF Init, AtAttach, AtMap, Doing, Current, NextCall
  <2>2. ~initialized
    BY DEF Init, initialized, Counted, Contexts
  <2> QED BY <2>1, <2>2, Zenon DEF Init, ProgInv
<1> QED BY <1>1, ProgStep, InvHolds, PTL DEF Spec

---------------------------------------------------------------------------
(***************************************************************************)
(* The properties                                                          *)
(***************************************************************************)
\* A thread of a context has all it uses, whichever call has failed and wherever
\* in unwinding, joining or freeing tb_startup is.
THEOREM NothingInUseReleased == Spec => []NothingReleasedInUse
<1>1. Inv => NothingReleasedInUse
  BY Zenon DEF Inv, CreationInv, HeldInv, Holds, NothingReleasedInUse, Needed
<1> QED BY <1>1, InvHolds, PTL

\* After a normal end every context has been released and the XDP program is
\* detached; the unwinding after a failing call releases what its context had
\* acquired, and the program if no other class uses it.  What stays is what
\* workload_context_init and xdp_prog_init do not undo, and the program that
\* xdp_prog_exit could not detach.
THEOREM AllReleased == Spec => []EverythingIsReleased
<1>1. ASSUME Inv, ProgInv PROVE EverythingIsReleased
  <2>1. ASSUME Exited, NEW c \in Contexts PROVE held[c] \subseteq Transient
    <3>0. Len(Program) = 43
      BY ProgramIs, Zenon
    <3>1. at = 44 /\ FreeAt(c) \in 32 .. 43
      BY <2>1, <3>0, Spans, SMTT(40) DEF Exited
    <3>2. FreeAt(c) < at /\ Holds(c)
      BY <1>1, <3>1 DEF Inv, CreationInv, HeldInv
    <3> QED BY <3>2, Zenon DEF Holds
  <2>2. ASSUME Doing("create"), undoing, undo = << >>
        PROVE  held[Current.context] \subseteq Left(NextCall)
    <3>0. at # 0
      <4>1. DOMAIN Program = 1 .. 43
        BY ProgramIs, Zenon
      <4>2. at \in DOMAIN Program
        BY <2>2, Zenon DEF Doing
      <4> QED BY <4>1, <4>2, SMTT(40)
    <3>1. IsActive(Current.context)
      BY <1>1, <2>2, <3>0, ZenonT(40) DEF Inv, CreationInv, IdleInv
    <3>2. CreatingInv(Current.context)
      BY <1>1, <2>2, <3>1, Creating
    <3>3. Covered(held[Current.context], Left(NextCall), << >>)
      BY <2>2, <3>2, Zenon DEF CreatingInv, NextCall
    <3>4. \A x : ~ReleasedBy(x, << >>)
      BY DEF ReleasedBy
    <3> QED BY <3>3, <3>4, Zenon DEF Covered
  <2>3. ASSUME Exited PROVE xdp_prog \in {"none", "stays"}
    <3>1. ~Failed /\ ~Doing("create")
      <4>1. Len(Program) = 43 /\ DOMAIN Program = 1 .. 43
        BY ProgramIs, Zenon
      <4> QED BY <2>3, <4>1 DEF Exited, Failed, Doing
    <3>2. ~initialized
      <4>1. Classes \subseteq Contexts /\ "xsks_map" \notin Transient
        BY DEF Contexts, Transient
      <4> QED BY <2>1, <2>3, <4>1 DEF initialized, Counted
    <3> QED BY <1>1, <3>1, <3>2, ZenonT(40) DEF ProgInv, AtAttach, AtMap
  <2>4. ASSUME Doing("create"), undoing, undo = << >>
        PROVE  initialized \/ xdp_prog \in {"none", "stays"} \cup NotDetached(NextCall)
    <3>0. 0 \notin DOMAIN Program
      <4>1. DOMAIN Program = 1 .. 43
        BY ProgramIs, Zenon
      <4> QED BY <4>1, SMTT(40)
    <3>1. ~Failed
      BY <2>4, <3>0, Zenon DEF Failed, Doing
    <3>2. /\ AtAttach => NotDetached(NextCall) = {"opened"}
          /\ AtMap => NotDetached(NextCall) = {"attached"}
      BY DEF AtAttach, AtMap, NotDetached
    <3> QED BY <1>1, <3>1, <3>2 DEF ProgInv
  <2> QED BY <2>1, <2>2, <2>3, <2>4, Zenon DEF EverythingIsReleased, Left
<1> QED BY <1>1, InvHolds, ProgHolds, PTL

\* A class whose threads run on an AF_XDP socket is counted, so that no other
\* class's xdp_close_socket detaches the program it receives through.
THEOREM ProgramStaysAttached == Spec => []ProgramAttachedInUse
<1>1. ASSUME Inv, ProgInv, NEW c \in Classes, Xdp(c), held[c] \cap Threads # {}
      PROVE  xdp_prog = "attached"
  <2>1. c \in Contexts /\ Holds(c)
    BY <1>1, ZenonT(40) DEF Inv, CreationInv, HeldInv, Contexts
  <2>2. Needed(c) \subseteq held[c]
    BY <1>1, <2>1, ZenonT(40) DEF Holds
  <2>3. c \in TcClasses
    BY <1>1, UdpIsNotXdp, Kinds, Zenon
  <2>4. Steps(c) = TcSteps /\ 20 \in DOMAIN TcSteps /\ TcSteps[20] = "xsks_map"
    <3>1. Steps(c) = TcSteps
      BY <2>3, Kinds, Zenon
    <3>2. DOMAIN TcSteps = 1 .. 48 /\ TcSteps[20] = "xsks_map"
      BY TcStepsAre, Zenon
    <3> QED BY <3>1, <3>2
  <2>5. "xsks_map" \notin Omitted(c)
    BY <1>1, <2>1, <2>4, XdpPlaces, ZenonT(40)
  <2>6. "xsks_map" \notin Threads \cup WorkloadCalls
    BY CallSets DEF Threads, WorkloadThreads
  <2>7. "xsks_map" \in Needed(c)
    BY <2>4, <2>5, <2>6, Zenon DEF Needed, Acquisitions, Range
  <2>8. initialized
    BY <2>2, <2>7, Zenon DEF initialized, Counted
  <2> QED BY <1>1, <2>8, ZenonT(40) DEF ProgInv
<1>2. Inv /\ ProgInv => ProgramAttachedInUse
  BY <1>1, ZenonT(40) DEF ProgramAttachedInUse
<1> QED BY <1>2, InvHolds, ProgHolds, PTL

\* find_next_pn_thread on the configured classes.
LEMMA NextOfActive ==
    ASSUME Inv, next = find_next_pn_thread(conf.active)
    PROVE  /\ next = find_next_pn_thread(conf.active \cap PnClasses)
           /\ \A i \in PnClasses :
                 \/ next[i] = Null /\ \A j \in conf.active \cap PnClasses : j <= i
                 \/ /\ next[i] \in conf.active \cap PnClasses /\ i < next[i]
                    /\ \A j \in conf.active \cap PnClasses : i < j => next[i] <= j
<1>1. next = find_next_pn_thread(conf.active \cap PnClasses)
  BY NextSame
<1>2. PICK a \in SUBSET PnClasses : a = conf.active \cap PnClasses
  <2>1. conf.active \cap PnClasses \in SUBSET PnClasses
    OBVIOUS
  <2> QED BY <2>1, Zenon
<1>3. \A i \in PnClasses :
         \/ next[i] = Null /\ \A j \in a : j <= i
         \/ next[i] \in a /\ i < next[i] /\ \A j \in a : i < j => next[i] <= j
  BY <1>1, <1>2, NextClosest, Zenon
<1> QED BY <1>1, <1>2, <1>3, Zenon

\* The successor that a Tx thread signals has been created before it: its mutex and
\* condition variable exist (tb_startup, tc_signal_next).
THEOREM SuccessorsAreReady == Spec => []SuccessorIsReady
<1>1. ASSUME Inv PROVE SuccessorIsReady
  <2> SUFFICES ASSUME NEW c \in PnClasses, "tx_thread" \in held[c], next[c] # Null
               PROVE  "sync" \in held[next[c]]
    BY Zenon DEF SuccessorIsReady
  <2>1. next = find_next_pn_thread(conf.active)
    BY <1>1, Zenon DEF Inv, LinkInv
  <2>2. next[c] \in conf.active \cap PnClasses /\ c < next[c]
    BY <1>1, <2>1, NextOfActive, ZenonT(40)
  <2>3. IsActive(next[c]) /\ held[c] # {}
    BY <2>2 DEF IsActive
  <2> QED BY <1>1, <2>2, <2>3, Zenon DEF Inv, CreationInv, OrderInv
<1> QED BY <1>1, InvHolds, PTL

\* Among the active classes before c there is a last one.
LEMMA GreatestBefore ==
    ASSUME NEW T \in SUBSET (0 .. 7), T # {}
    PROVE  \E x \in T : \A y \in T : y <= x
<1> DEFINE D == {d \in 0 .. 7 : 7 - d \in T}
<1>00. PICK t : t \in T
  BY Zenon
<1>0. t \in T /\ t \in 0 .. 7
  BY <1>00
<1>1. D \in SUBSET (0 .. 48) /\ D # {}
  <2>1. 7 - t \in 0 .. 7 /\ 7 - (7 - t) = t
    BY <1>0
  <2>2. 7 - t \in D
    BY <1>0, <2>1
  <2>3. D # {}
    BY <2>2, Zenon
  <2>4. D \in SUBSET (0 .. 48)
    OBVIOUS
  <2> QED BY <2>3, <2>4
<1>2. PICK m \in D : \A z \in D : m <= z
  <2> HIDE DEF D
  <2> QED BY <1>1, LeastElement, Zenon
<1>3. ASSUME NEW y \in T PROVE y <= 7 - m
  <2>1. 7 - y \in 0 .. 7 /\ 7 - (7 - y) = y /\ y \in 0 .. 7 /\ m \in 0 .. 7
    BY <1>2
  <2>2. 7 - y \in D
    BY <2>1
  <2>3. m <= 7 - y
    BY <1>2, <2>2
  <2> QED BY <2>1, <2>3
<1>4. 7 - m \in T
  BY <1>2, Zenon
<1> QED BY <1>3, <1>4

\* link_pn_threads makes one chain: it has one start and one end, the end is the last
\* active class, and with TSN Low only used together with TSN High every active
\* class is reached exactly once, in the order of priorities.
THEOREM ChainCovers == Spec => []ChainCoversUsualProfiles
<1>1. ASSUME Inv PROVE ChainCoversUsualProfiles
  <2> SUFFICES ASSUME Linked, GenericL2 \notin conf.active
               PROVE  /\ \E c \in conf.active : is_first = {c}
                      /\ is_last = {c \in conf.active : next[c] = Null}
                      /\ \A c \in conf.active, d \in is_last : c <= d
                      /\ (TSN_LOW \in conf.active => TSN_HIGH \in conf.active) =>
                            /\ conf.active \subseteq Reached
                            /\ \A c, d \in conf.active :
                                  c # d /\ next[c] # Null => next[c] # next[d] /\ next[c] > c
    BY Zenon DEF ChainCoversUsualProfiles
  <2>0. PnClasses = 0 .. 7 /\ Null \notin PnClasses /\ TSN_HIGH = 0 /\ TSN_LOW = 1 /\ RTC = 2
    BY SMTT(40) DEF PnClasses, Null, TSN_HIGH, TSN_LOW, RTC, UDP_LOW
  <2>1. PICK a \in SUBSET PnClasses : a = conf.active /\ conf.active \cap PnClasses = a
    BY <1>1, ConfTypes, Zenon DEF Inv, CreationInv, TypeInv, Classes
  <2>1a. /\ \A x \in a : x \in 0 .. 7
         /\ Null \notin a
    <3>1. \A x \in a : x \in 0 .. 7
      BY <2>0
    <3>2. Null \notin a
      BY <2>0, Zenon
    <3> QED BY <3>1, <3>2, Zenon
  <2>2. PICK f : f = FirstClass(a)
    BY Zenon
  <2>3. /\ next = find_next_pn_thread(conf.active) /\ f # Null
        /\ is_first = {f} /\ is_last = {EndOfChain(next, f)}
    BY <1>1, <2>1, <2>2 DEF Inv, LinkInv
  <2>4. f \in a /\ (f = 0 \/ (f = 2 /\ 0 \notin a))
    BY <2>0, <2>2, <2>3 DEF FirstClass
  <2>5. /\ next = find_next_pn_thread(a)
        /\ \A i \in 0 .. 7 :
              \/ next[i] = Null /\ \A j \in a : j <= i
              \/ \E n \in a : n = next[i] /\ i < n /\ \A j \in a : i < j => n <= j
    BY <1>1, <2>0, <2>1, <2>3, NextOfActive, Zenon
  <2>6. PICK e : e = EndOfChain(next, f)
    OBVIOUS
  <2>7. e \in a /\ next[e] = Null
    BY <2>4, <2>5, <2>6, ChainEnds, SMTT(40)
  <2>8. \A j \in a : j <= e
    BY <2>0, <2>5, <2>7, Zenon
  <2>9. \A c \in a : next[c] = Null => c = e
    <3> SUFFICES ASSUME NEW c \in a, next[c] = Null PROVE c = e
      OBVIOUS
    <3>1. c \in 0 .. 7 /\ e \in 0 .. 7 /\ e <= c /\ c <= e
      BY <2>1a, <2>5, <2>7, <2>8, Zenon
    <3> QED BY <3>1
  <2>10. is_last = {e} /\ is_last = {c \in a : next[c] = Null}
    BY <2>3, <2>6, <2>7, <2>9
  <2>11. ASSUME TSN_LOW \in conf.active => TSN_HIGH \in conf.active
         PROVE  a \subseteq Reached
    <3> SUFFICES ASSUME NEW c \in a, c # f PROVE c \in {next[p] : p \in a}
      BY <2>1, <2>3 DEF Reached
    <3>1. f < c
      BY <2>0, <2>1, <2>4, <2>11, SMTT(40)
    <3>2. PICK p \in {q \in a : q < c} : \A y \in {q \in a : q < c} : y <= p
      BY <2>0, <2>4, <3>1, GreatestBefore, Zenon
    <3>3. p \in 0 .. 7 /\ c \in 0 .. 7 /\ p \in a /\ p < c
      BY <2>0, <3>2
    <3>4. PICK n \in 0 .. 7 : n = next[p] /\ n \in a /\ p < n /\ n <= c
      <4>1. ~(c <= p)
        BY <3>3
      <4>2. PICK n \in a : n = next[p] /\ p < n /\ \A j \in a : p < j => n <= j
        BY <2>5, <3>3, <4>1, Zenon
      <4> QED BY <2>1a, <3>3, <4>2
    <3>5. ~(n < c)
      BY <3>2, <3>3, <3>4, SMTT(40)
    <3>6. n = c
      BY <3>3, <3>4, <3>5, SMTT(40)
    <3>7. p \in a /\ c = next[p]
      BY <3>3, <3>4, <3>6, Zenon
    <3> QED BY <3>7, Zenon
  <2>12. ASSUME NEW c \in a, NEW d \in a, c # d, next[c] # Null PROVE next[c] # next[d] /\ next[c] > c
    <3>1. c \in 0 .. 7 /\ d \in 0 .. 7
      BY <2>0
    <3>2. PICK n \in 0 .. 7 : n = next[c] /\ c < n /\ (c < d => n <= d)
      <4>1. PICK n \in a : n = next[c] /\ c < n /\ \A j \in a : c < j => n <= j
        BY <2>5, <2>12, <3>1, Zenon
      <4> QED BY <2>1a, <4>1
    <3>3. CASE next[d] = Null
      BY <2>12, <3>2, <3>3, Zenon
    <3>4. CASE next[d] # Null
      <4>1. PICK m \in 0 .. 7 : m = next[d] /\ d < m /\ (d < c => m <= c)
        <5>1. PICK m \in a : m = next[d] /\ d < m /\ \A j \in a : d < j => m <= j
          BY <2>5, <3>1, <3>4, Zenon
        <5> QED BY <2>1a, <5>1
      <4>2. c < d \/ d < c
        BY <2>12, <3>1
      <4>3. n # m
        BY <3>1, <3>2, <4>1, <4>2
      <4> QED BY <3>2, <4>1, <4>3, Zenon
    <3> QED BY <3>3, <3>4
  <2>13. \E c \in conf.active : is_first = {c}
    BY <2>1, <2>3, <2>4, Zenon
  <2>14. is_last = {c \in conf.active : next[c] = Null}
    BY <2>1, <2>10, Zenon
  <2>15. \A c \in conf.active, d \in is_last : c <= d
    BY <2>1, <2>8, <2>10, Zenon
  <2>16. \A c, d \in conf.active : c # d /\ next[c] # Null => next[c] # next[d] /\ next[c] > c
    BY <2>1, <2>12, Zenon
  <2> QED BY <2>1, <2>11, <2>13, <2>14, <2>15, <2>16, Zenon
<1> QED BY <1>1, InvHolds, PTL
===========================================================================
