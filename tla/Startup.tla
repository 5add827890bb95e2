------------------------------ MODULE Startup -----------------------------
(***************************************************************************)
(* tb_startup: the configuration is checked, the logging threads and the   *)
(* threads of every active traffic class are created, the PROFINET classes *)
(* are linked, print_stats runs until SIGTERM, and everything is joined    *)
(* and freed.  Any acquisition may fail; the functions that create the     *)
(* threads of a class then unwind what they have acquired, and main exits. *)
(* SIGTERM arrives at any time after setup_signals.                        *)
(*                                                                         *)
(* A context is a traffic class or one of the logging threads.  Threads    *)
(* are only told apart from other resources by what it takes to get rid of *)
(* them: pthread_join returns after the stop flag of the context was set.  *)
(***************************************************************************)
EXTENDS TrafficClasses, Sequences, Functions

CONSTANT Configs    \* the set of configurations to start from

LOG == 10
MQTT == 11
JSON == 12

Classes == PnClasses \cup {GenericL2}
LogContexts == {LOG, MQTT, JSON}
Contexts == Classes \cup LogContexts

ASSUME StartupAssumption ==
    Configs \subseteq [active : SUBSET Classes, mirror : BOOLEAN, xdp : BOOLEAN, secure : BOOLEAN,
                       workload : BOOLEAN, logs : SUBSET {MQTT, JSON},
                       fail : {"none", "any", "sockets"}]

VARIABLES
    conf,       \* the configuration and the calls that may fail
    at,         \* position in Program; 0 after exit(EXIT_FAILURE)
    step,       \* creating a context: position in Steps of the next call
    undoing,    \* creating it has failed
    undo,       \* unwinding: the labels still to run through
    held,       \* what each context has acquired
    xdp_prog,   \* the XDP program: "none", "opened", "attached" or, when it could not
                \* be detached, "stays"
    stop,       \* contexts whose stop flag is set
    print_stop,
    signalled,  \* history: "no", "early" (some context did not exist yet) or "late"
    next,       \* pn_threads[i].next
    is_first,   \* contexts with is_first set
    is_last     \* contexts with is_last set

links == <<next, is_first, is_last>>
flags == <<stop, print_stop, signalled>>
unwinding == <<undoing, undo>>
vars == <<conf, at, step, unwinding, held, xdp_prog, flags, links>>

---------------------------------------------------------------------------
(***************************************************************************)
(* What tb_startup does, in order                                          *)
(***************************************************************************)
Do(what, c) == [do |-> what, context |-> c]

\* Mutant of CreateOrder: the classes are created in the order of the chain.
CreateOrderForward == <<TSN_HIGH, TSN_LOW, RTC, RTA, DCP, LLDP, UDP_HIGH, UDP_LOW>>

CreateOrder == <<UDP_LOW, UDP_HIGH, LLDP, DCP, RTA, RTC, TSN_LOW, TSN_HIGH>>

JoinOrder ==
    <<TSN_HIGH, TSN_LOW, RTC, RTA, DCP, LLDP, UDP_HIGH, UDP_LOW, GenericL2, MQTT, JSON, LOG>>

Each(what, contexts) == [i \in DOMAIN contexts |-> Do(what, contexts[i])]

Program ==
    <<Do("check", Null), Do("signals", Null), Do("init", Null)>>
    \o Each("create", <<LOG, MQTT, JSON>>)
    \o <<Do("alloc", GenericL2), Do("create", GenericL2), Do("alloc", Null), Do("link", Null)>>
    \o Each("create", CreateOrder)
    \o <<Do("print", Null)>>
    \o Each("join", JoinOrder)
    \o Each("free", JoinOrder)

Current == Program[at]
Doing(what) == at \in DOMAIN Program /\ Current.do = what
Exited == at = Len(Program) + 1
Failed == at = 0

\* Where in Program something is done.
Place(what, c) == CHOOSE i \in DOMAIN Program : Program[i] = Do(what, c)
Signals == Place("signals", Null)
AllocPn == Place("alloc", Null)
Link == Place("link", Null)

---------------------------------------------------------------------------
(***************************************************************************)
(* What the contexts consist of                                            *)
(***************************************************************************)
IsActive(c) == c = LOG \/ c \in conf.logs \/ c \in conf.active

\* TC_SECURITY, TC_WORKLOAD, TC_UDP
Xdp(c) == c \in Classes /\ conf.xdp /\ Descriptor(c).xdp
Secure(c) == conf.secure /\ c \in {TSN_HIGH, TSN_LOW, RTC, RTA}
HasWorkload(c) == conf.workload /\ c \in {TSN_HIGH, RTC, GenericL2}
IsUdp(c) == c \in {UDP_HIGH, UDP_LOW}

WorkloadThreads == {"workload_thread_1", "workload_thread_2"}
Threads == {"thread", "tx_thread", "txgen_thread", "rx_thread"} \cup WorkloadThreads

\* A workload on two CPUs.
WorkloadSteps ==
    <<"workload", "library", "symbols", "arguments", "setup_arguments", "setup_1", "setup_2",
      "workload_thread_1", "workload_thread_2">>

\* The allocations of packet_init, of security_init for either direction and of
\* ring_buffer_allocate, and the calls of xdp_open_socket.
PacketSteps ==
    <<"packet", "rx_frames", "rx_iovecs", "rx_msgs", "tx_iovecs", "tx_msgs", "tx_control_msgs",
      "rx_control_msgs", "tx_completion_frame">>
TxSecuritySteps == <<"tx_security", "tx_cipher", "tx_cipher_context", "tx_key">>
RxSecuritySteps == <<"rx_security", "rx_cipher", "rx_cipher_context", "rx_key">>
RingSteps == <<"mirror_buffer", "mirror_data">>
XdpSteps ==
    <<"xsk", "xdp_program", "xdp_attach", "xsks_map", "hw_timestamping", "umem", "fill_ring",
      "xsk_socket", "xsks_entry", "socket_options">>

\* The calls of tc_threads_create (and of the function of the class that calls it
\* with the descriptor), udp_threads_create and the functions that create the
\* logging threads.
TcSteps ==
    <<"desc", "sync">> \o PacketSteps
    \o <<"tx_data", "rx_data", "mac", "frame_copy", "socket">> \o XdpSteps \o RingSteps
    \o TxSecuritySteps \o RxSecuritySteps \o <<"tx_thread", "txgen_thread", "rx_thread">>
    \o WorkloadSteps
UdpSteps ==
    <<"socket", "sync", "tx_data", "rx_data">> \o RingSteps
    \o <<"tx_thread", "txgen_thread", "rx_thread">>
LogSteps == <<"context", "log_data", "file", "thread">>
MqttSteps == <<"context", "thread">>
JsonSteps == <<"context", "socket", "thread">>

PacketCalls == Range(PacketSteps)
TxSecurityCalls == Range(TxSecuritySteps)
RxSecurityCalls == Range(RxSecuritySteps)
RingCalls == Range(RingSteps)
XdpCalls == Range(XdpSteps)
WorkloadCalls == Range(WorkloadSteps)

AfPacketCalls == PacketCalls \cup {"tx_data", "rx_data", "socket"}
SecurityCalls == TxSecurityCalls \cup RxSecurityCalls

\* The calls that tc_threads_create and udp_threads_create leave out.
Omitted(c) ==
    (IF Xdp(c) THEN AfPacketCalls \cup RingCalls ELSE XdpCalls)
    \cup (IF conf.mirror THEN {} ELSE RingCalls)
    \cup (IF c \in Classes /\ IsBurst(c) /\ ~conf.mirror THEN {} ELSE {"txgen_thread"})
    \cup (IF Secure(c) THEN {} ELSE SecurityCalls)
    \cup (IF HasWorkload(c) THEN {} ELSE WorkloadCalls)

Steps(c) ==
    CASE c = LOG -> LogSteps
      [] c = MQTT -> MqttSteps
      [] c = JSON -> JsonSteps
      [] IsUdp(c) -> UdpSteps
      [] OTHER -> TcSteps

\* What is acquired for a context, and where in Steps the calls after the i-th are.
Acquisitions(c) == Range(Steps(c)) \ Omitted(c)
Later(c, i) ==
    LET steps == Steps(c)
        omitted == Omitted(c)
    IN  {j \in DOMAIN steps : i < j /\ steps[j] \notin omitted}

\* Calls that leave the context nothing to release.
Transient ==
    {"mac", "symbols", "sync", "tx_key", "rx_key", "xdp_program", "xdp_attach",
     "hw_timestamping", "fill_ring", "xsks_entry", "socket_options"}

---------------------------------------------------------------------------
(***************************************************************************)
(* Unwinding.  The labels are in the order of the code; a failing call     *)
(* jumps to one of them and falls through the rest.                        *)
(***************************************************************************)
\* Mutant of UdpLabels: the mirror buffer is freed before the Tx thread is joined.
UdpLabelsBufferFirst ==
    <<"txgen_thread", "mirror_buffer", "tx_thread", "rx_data", "tx_data", "socket">>

UdpLabels == <<"txgen_thread", "tx_thread", "mirror_buffer", "rx_data", "tx_data", "socket">>

TcLabels ==
    <<"rx_thread", "txgen_thread", "tx_thread", "rx_security", "tx_security", "mirror_buffer",
      "socket", "frame_copy", "rx_data", "tx_data", "packet", "desc">>

WorkloadLabels ==
    <<"workload_thread_1", "setup_1", "setup_arguments", "arguments", "library", "workload">>

Labels(c) ==
    CASE c = LOG -> <<"file", "log_data", "context">>
      [] c = MQTT -> <<"context">>
      [] c = JSON -> <<"socket", "context">>
      [] IsUdp(c) -> UdpLabels
      [] OTHER -> WorkloadLabels \o TcLabels

\* The rest of a list of labels from the given one on.
From(labels, label) ==
    IF \E i \in DOMAIN labels : labels[i] = label
    THEN SubSeq(labels, CHOOSE i \in DOMAIN labels : labels[i] = label, Len(labels))
    ELSE << >>

\* The labels of the gotos of failing calls, one list for each function that has
\* something to release.
WorkloadTarget(s) ==
    CASE s = "workload_thread_2" -> "workload_thread_1"
      [] s = "setup_2" -> "setup_1"
      [] s \in {"workload_thread_1", "setup_1"} -> "setup_arguments"
      [] s = "setup_arguments" -> "arguments"
      [] s \in {"arguments", "symbols"} -> "library"
      [] s = "library" -> "workload"
      [] OTHER -> "rx_thread"

TcTarget(s) ==
    CASE s = "rx_thread" -> "txgen_thread"
      [] s = "txgen_thread" -> "tx_thread"
      [] s = "tx_thread" -> "rx_security"
      [] s \in RxSecurityCalls -> "tx_security"
      [] s \in TxSecurityCalls -> "mirror_buffer"
      [] s \in RingCalls -> "socket"
      [] s \in XdpCalls \cup {"socket"} -> "frame_copy"
      [] s \in {"frame_copy", "mac"} -> "rx_data"
      [] s = "rx_data" -> "tx_data"
      [] s = "tx_data" -> "packet"
      [] s \in PacketCalls -> "desc"
      [] OTHER -> "none"

UdpTarget(s) ==
    CASE s = "rx_thread" -> "txgen_thread"
      [] s = "txgen_thread" -> "tx_thread"
      [] s = "tx_thread" -> "mirror_buffer"
      [] s \in RingCalls -> "rx_data"
      [] s = "rx_data" -> "tx_data"
      [] s = "tx_data" -> "socket"
      [] OTHER -> "none"

LogTarget(c, s) ==
    CASE s = "thread" -> (CASE c = LOG -> "file" [] c = MQTT -> "context" [] OTHER -> "socket")
      [] s = "file" -> "log_data"
      [] s \in {"log_data", "socket"} -> "context"
      [] OTHER -> "none"

Target(c, s) ==
    IF c \in LogContexts THEN LogTarget(c, s)
    ELSE IF IsUdp(c) THEN UdpTarget(s)
    ELSE IF s \in WorkloadCalls THEN WorkloadTarget(s) ELSE TcTarget(s)

\* What is released on the way from there.
GotoLabel(c, s) == From(Labels(c), Target(c, s))

\* The functions that are called unwind what they have acquired themselves before
\* they return their error.
PacketLabels ==
    <<"rx_control_msgs", "tx_control_msgs", "tx_msgs", "tx_iovecs", "rx_msgs", "rx_iovecs",
      "rx_frames", "packet_only">>
TxSecurityLabels == <<"tx_cipher_context", "tx_cipher", "tx_security_only">>
RxSecurityLabels == <<"rx_cipher_context", "rx_cipher", "rx_security_only">>
XdpLabels == <<"xsk_socket", "umem", "xsks_map", "xsk">>

InnerLabels(s) ==
    CASE s = "tx_completion_frame" -> PacketLabels
      [] s = "rx_control_msgs" -> From(PacketLabels, "tx_control_msgs")
      [] s = "tx_control_msgs" -> From(PacketLabels, "tx_msgs")
      [] s = "tx_msgs" -> From(PacketLabels, "tx_iovecs")
      [] s = "tx_iovecs" -> From(PacketLabels, "rx_msgs")
      [] s = "rx_msgs" -> From(PacketLabels, "rx_iovecs")
      [] s = "rx_iovecs" -> From(PacketLabels, "rx_frames")
      [] s = "rx_frames" -> From(PacketLabels, "packet_only")
      [] s = "tx_key" -> TxSecurityLabels
      [] s = "tx_cipher_context" -> From(TxSecurityLabels, "tx_cipher")
      [] s = "tx_cipher" -> From(TxSecurityLabels, "tx_security_only")
      [] s = "rx_key" -> RxSecurityLabels
      [] s = "rx_cipher_context" -> From(RxSecurityLabels, "rx_cipher")
      [] s = "rx_cipher" -> From(RxSecurityLabels, "rx_security_only")
      [] s = "mirror_data" -> <<"mirror_buffer_only">>
      [] s \in {"socket_options", "xsks_entry"} -> XdpLabels
      [] s \in {"xsk_socket", "fill_ring"} -> From(XdpLabels, "umem")
      [] s \in {"umem", "hw_timestamping"} -> From(XdpLabels, "xsks_map")
      [] s \in {"xsks_map", "xdp_attach", "xdp_program"} -> From(XdpLabels, "xsk")
      [] OTHER -> << >>

\* What packet_free, security_exit, xdp_close_socket and ring_buffer_free release.
packet_free == PacketCalls
security_exit(d) ==
    IF d = "tx" THEN {"tx_security", "tx_cipher", "tx_cipher_context"}
    ELSE {"rx_security", "rx_cipher", "rx_cipher_context"}
xdp_close_socket == {"xsk_socket", "umem", "xsks_map", "xsk"}
ring_buffer_free == {"mirror_buffer", "mirror_data"}

\* What is released at a label.
Releases(l) ==
    CASE l = "packet" -> packet_free
      [] l = "packet_only" -> {"packet"}
      [] l = "tx_security" -> security_exit("tx")
      [] l = "tx_security_only" -> {"tx_security"}
      [] l = "rx_security" -> security_exit("rx")
      [] l = "rx_security_only" -> {"rx_security"}
      [] l = "socket" -> {"socket"} \cup xdp_close_socket
      [] l = "mirror_buffer" -> ring_buffer_free
      [] l = "mirror_buffer_only" -> {"mirror_buffer"}
      [] OTHER -> {l}

---------------------------------------------------------------------------
Init ==
    /\ conf \in Configs
    /\ at = 1 /\ step = 1 /\ undoing = FALSE /\ undo = << >>
    /\ held = [c \in Contexts |-> {}] /\ xdp_prog = "none"
    /\ stop = {} /\ print_stop = FALSE /\ signalled = "no"
    /\ next = [i \in PnClasses |-> Null]
    /\ is_first = {} /\ is_last = {}

Advance == at' = at + 1 /\ UNCHANGED <<conf, step, unwinding>>

Exit == at' = 0 /\ UNCHANGED <<conf, step, unwinding>>

\* "Either GenericL2 or PROFINET should be active."
config_sanity_check ==
    /\ Doing("check")
    /\ IF GenericL2 \in conf.active /\ conf.active \cap PnClasses # {} THEN Exit ELSE Advance
    /\ UNCHANGED <<held, xdp_prog, flags, links>>

setup_signals == Doing("signals") /\ Advance /\ UNCHANGED <<held, xdp_prog, flags, links>>

\* log_init, histogram_init and stat_init; the allocations of the contexts.
Allocate ==
    /\ Doing("init") \/ Doing("alloc")
    /\ Advance \/ (conf.fail = "any" /\ Exit)
    /\ UNCHANGED <<held, xdp_prog, flags, links>>

link_pn_threads ==
    /\ Doing("link")
    /\ next' = find_next_pn_thread(conf.active)
    /\ \/ /\ FirstClass(conf.active) # Null
          /\ is_first' = {FirstClass(conf.active)}
          /\ is_last' = {EndOfChain(next', FirstClass(conf.active))}
          /\ Advance
       \/ /\ FirstClass(conf.active) = Null
          /\ IF GenericL2 \in conf.active THEN Advance ELSE Exit
          /\ UNCHANGED <<is_first, is_last>>
    /\ UNCHANGED <<held, xdp_prog, flags>>

\* An inactive class or logging thread has nothing to create.
CreateNothing ==
    /\ Doing("create") /\ ~IsActive(Current.context)
    /\ Advance
    /\ UNCHANGED <<held, xdp_prog, flags, links>>

NextCall == Steps(Current.context)[step]

\* The XDP program is opened and attached for the first socket; the others are
\* only counted: xdp_init.initialized is the number of contexts that hold
\* "xsks_map", the last thing xdp_prog_init looks for.
Counted(c) == "xsks_map" \in held[c]
initialized == \E c \in Classes : Counted(c)

xdp_prog_init(call) ==
    IF call = "xdp_program" /\ ~initialized THEN "opened"
    ELSE IF call = "xdp_attach" /\ ~initialized THEN "attached"
    ELSE xdp_prog

\* Mutant of xdp_prog_exit: every socket detaches the program.
xdp_prog_exit_uncounted(c, released) ==
    IF Counted(c) /\ "xsks_map" \in released
    THEN {"none"} \cup (IF conf.fail = "any" THEN {"stays"} ELSE {})
    ELSE {xdp_prog}

\* The last socket detaches and closes the program, unless if_nametoindex fails.
xdp_prog_exit(c, released) ==
    IF Counted(c) /\ "xsks_map" \in released /\ \A d \in Classes \ {c} : ~Counted(d)
    THEN {"none"} \cup (IF conf.fail = "any" THEN {"stays"} ELSE {})
    ELSE {xdp_prog}

\* The next call of the function that creates the context succeeds.
Acquire ==
    /\ Doing("create") /\ IsActive(Current.context) /\ ~undoing
    /\ conf.fail = "sockets" => NextCall # "socket"
    /\ held' = [held EXCEPT ![Current.context] = @ \cup {NextCall}]
    /\ xdp_prog' = xdp_prog_init(NextCall)
    /\ LET later == Later(Current.context, step)
       IN  IF later = {}
           THEN step' = 1 /\ at' = at + 1
           ELSE step' = (CHOOSE i \in later : \A j \in later : i <= j) /\ UNCHANGED at
    /\ UNCHANGED <<conf, unwinding, flags, links>>

\* It fails.  A workload thread that could not be created sets the stop flag.
AcquireFails ==
    /\ Doing("create") /\ IsActive(Current.context) /\ ~undoing
    /\ LET call == NextCall
       IN  /\ call # "sync"
           /\ call \in {"xdp_program", "xdp_attach", "xsks_map"} => ~initialized
           /\ conf.fail = "any" \/ (conf.fail = "sockets" /\ call = "socket")
           /\ undoing' = TRUE
           /\ undo' = InnerLabels(call) \o GotoLabel(Current.context, call)
           /\ stop' = IF call \in WorkloadThreads THEN stop \cup {Current.context} ELSE stop
    /\ UNCHANGED <<conf, at, step, held, xdp_prog, print_stop, signalled, links>>

\* One label: a thread is stopped and joined, anything else is released.
Unwind ==
    /\ Doing("create") /\ undo # << >>
    /\ LET c == Current.context
       IN  /\ held' = [held EXCEPT ![c] = @ \ Releases(Head(undo))]
           /\ xdp_prog' \in xdp_prog_exit(c, Releases(Head(undo)))
           /\ stop' = IF Head(undo) \in Threads THEN stop \cup {c} ELSE stop
    /\ undo' = Tail(undo)
    /\ UNCHANGED <<conf, at, step, undoing, print_stop, signalled, links>>

\* The error is returned to tb_startup, which exits.
CreateFailed ==
    /\ Doing("create") /\ undoing /\ undo = << >>
    /\ Exit
    /\ UNCHANGED <<held, xdp_prog, flags, links>>

print_stats ==
    /\ Doing("print") /\ print_stop
    /\ Advance
    /\ UNCHANGED <<held, xdp_prog, flags, links>>

\* workload_thread_wait_for_finish, then the Rx, Tx and TxGen threads.
WaitForFinish ==
    /\ Doing("join")
    /\ LET c == Current.context
       IN  /\ held[c] \cap Threads = {} \/ c \in stop
           /\ held' = [held EXCEPT ![c] = @ \ Threads]
    /\ Advance
    /\ UNCHANGED <<xdp_prog, flags, links>>

\* Mutant of Freed: the descriptor is kept.
FreedNotDesc(c) ==
    IF c \in LogContexts THEN {"context", "log_data", "file", "socket"}
    ELSE {"frame_copy", "tx_data", "rx_data", "socket"}
         \cup security_exit("tx") \cup security_exit("rx") \cup ring_buffer_free
         \cup packet_free \cup xdp_close_socket \cup (WorkloadCalls \ Threads)

\* What tc_threads_free, workload_thread_free and the functions of the logging
\* threads release.
Freed(c) ==
    IF c \in LogContexts THEN {"context", "log_data", "file", "socket"}
    ELSE {"frame_copy", "tx_data", "rx_data", "socket", "desc"}
         \cup security_exit("tx") \cup security_exit("rx") \cup ring_buffer_free
         \cup packet_free \cup xdp_close_socket \cup (WorkloadCalls \ Threads)

Free ==
    /\ Doing("free")
    /\ held' = [held EXCEPT ![Current.context] = @ \ Freed(Current.context)]
    /\ xdp_prog' \in xdp_prog_exit(Current.context, Freed(Current.context))
    /\ Advance
    /\ UNCHANGED <<flags, links>>

\* The contexts that exist: the pointer to a logging thread is set when it was
\* created, those to the classes when they were allocated.
Exists(c) ==
    CASE c \in LogContexts -> at > Place("create", c) /\ IsActive(c)
      [] c = GenericL2 -> at > Place("alloc", GenericL2)
      [] OTHER -> at > AllocPn

\* Mutant of term_handler: the contexts of the PROFINET classes are forgotten.
term_handler_g2 ==
    /\ at > Signals
    /\ print_stop' = TRUE
    /\ stop' = stop \cup {c \in Contexts \ PnClasses : Exists(c)}
    /\ signalled' = IF Exists(UDP_LOW) THEN "late" ELSE IF signalled = "no" THEN "early" ELSE signalled
    /\ UNCHANGED <<conf, at, step, unwinding, held, xdp_prog, links>>

\* On SIGTERM or SIGINT.
term_handler ==
    /\ at > Signals
    /\ print_stop' = TRUE
    /\ stop' = stop \cup {c \in Contexts : Exists(c)}
    /\ signalled' = IF Exists(UDP_LOW) THEN "late" ELSE IF signalled = "no" THEN "early" ELSE signalled
    /\ UNCHANGED <<conf, at, step, unwinding, held, xdp_prog, links>>

Main ==
    \/ config_sanity_check \/ setup_signals \/ Allocate \/ link_pn_threads
    \/ CreateNothing \/ Acquire \/ AcquireFails \/ Unwind \/ CreateFailed
    \/ print_stats \/ WaitForFinish \/ Free

Ended == Exited \/ Failed

Next == Main \/ (~Ended /\ term_handler) \/ (Ended /\ UNCHANGED vars)

Spec == Init /\ [][Next]_vars

\* Main keeps running; a thread whose stop flag is set returns, so that joining it
\* takes finite time.
FairSpec == Spec /\ WF_vars(Main)

---------------------------------------------------------------------------
(***************************************************************************)
(* Properties                                                              *)
(***************************************************************************)
Linked == at > Link

\* The classes some Tx thread signals, and the one the clock starts.
Reached == is_first \cup {next[c] : c \in conf.active \cap PnClasses}

\* The chain of Tx threads has one start and one end, and the end is the only and
\* the last active class without a successor: exactly one thread calls stat_update.
\* With TSN Low only used together with TSN High, each active class is reached
\* exactly once, in the order of priorities (find_next_pn_thread's fall-through
\* skips the classes that are not configured).
ChainCoversUsualProfiles ==
    Linked /\ GenericL2 \notin conf.active =>
        /\ \E c \in conf.active : is_first = {c}
        /\ is_last = {c \in conf.active : next[c] = Null}
        /\ \A c \in conf.active, d \in is_last : c <= d
        /\ (TSN_LOW \in conf.active => TSN_HIGH \in conf.active) =>
              /\ conf.active \subseteq Reached
              /\ \A c, d \in conf.active : c # d /\ next[c] # Null => next[c] # next[d] /\ next[c] > c

\* "This code will link the traffic classes in order.  Non-active traffic
\* classes will be skipped" (thread.c:157-163): every active class is linked,
\* in every configuration that passes config_sanity_check.
EveryActiveClassIsLinked == Linked => conf.active \cap PnClasses \subseteq Reached

\* What the unwinding after a failing call leaves: when a workload thread cannot be
\* created, the teardown function is not called for its instance and the following
\* ones (workload_context_init).
NotTornDown(call) ==
    CASE call = "workload_thread_1" -> {"setup_1", "setup_2"}
      [] call = "workload_thread_2" -> {"setup_2"}
      [] OTHER -> {}

\* When the program cannot be attached it stays open, and when it has no xsks_map
\* it stays attached as well (xdp_prog_init).
NotDetached(call) ==
    CASE call = "xdp_attach" -> {"opened"}
      [] call = "xsks_map" -> {"attached"}
      [] OTHER -> {}

\* Everything acquired is released: after a normal end no context holds anything
\* and the XDP program is detached; when the creation of a context has failed,
\* that context holds nothing, and neither is the program loaded unless another
\* class uses it.  The exceptions are those above, and the program that stays
\* because xdp_prog_exit cannot look up its interface.
EverythingIsReleased ==
    /\ Exited => xdp_prog \in {"none", "stays"} /\ \A c \in Contexts : held[c] \subseteq Transient
    /\ Doing("create") /\ undoing /\ undo = << >> =>
          /\ held[Current.context] \subseteq Transient \cup NotTornDown(NextCall)
          /\ initialized \/ xdp_prog \in {"none", "stays"} \cup NotDetached(NextCall)

\* The XDP program stays attached as long as a thread of a class with an AF_XDP
\* socket runs, also when the creation of another class fails and unwinds its own
\* socket (xdp_init.initialized counts the sockets).
ProgramAttachedInUse ==
    \A c \in Classes : Xdp(c) /\ held[c] \cap Threads # {} => xdp_prog = "attached"

\* Nothing that a thread uses is released while it runs: neither by the unwinding
\* after a failure nor at the end.  (Workloads are excluded: see README.)
NothingReleasedInUse ==
    \A c \in Contexts :
        held[c] \cap Threads # {} =>
            Acquisitions(c) \ (Threads \cup WorkloadCalls) \subseteq held[c]

\* A Tx thread never signals a class whose mutex and condition variable are not
\* initialised: the classes are created from the end of the chain (tb_startup,
\* tc_signal_next).
SuccessorIsReady ==
    \A c \in PnClasses :
        "tx_thread" \in held[c] /\ next[c] # Null => "sync" \in held[next[c]]

\* SIGTERM ends the program, from wherever it reaches start-up or print_stats once
\* all contexts exist: every thread is joined, whichever other signals came before.
SigtermEndsProgram == signalled = "late" ~> Ended
===========================================================================
