# A TLA+ development of the RTC-Testbench

The testbench sends cyclic real time traffic from a *reference* application to a
*mirror* application, which sends it back, and records losses and latencies. This
directory models its threads, buffers, rings, frames, timestamps, statistics and its
start-up and checks them with TLC. TLAPS proves the ring buffer correct and, for every
value of the constants, nearly every safety property of the other parts: both mirrors,
the order of the classes, timestamps, statistics and workloads, frames, start-up and
shutdown. Source paths are relative to `src/src/`.

## The system

One instance runs, for each active traffic class, a Tx thread, an Rx thread, for
burst classes of a reference a TxGen thread, and optionally workload threads; beside
them run a log thread and optionally MQTT and JSON threads. `main` starts them, prints
a table until SIGTERM, joins them and frees everything.

| Part | Source | Module |
|---|---|---|
| Ring buffer | `ring_buffer.c` | `KeepNewest`, `RingBuffer`, `RingBufferProofs` |
| Mirror over AF_PACKET: Rx thread, checks, mirror buffer, Tx thread | `tc.c`, `packet.c`, `receive_frame` callbacks | `MirrorPath`, `MirrorPathProofs` |
| Traffic classes and their order | `thread.c`, `*_thread.c` | `TrafficClasses` |
| Waiting, signalling, burst generation, termination | `tc.c`, `udp_thread.c`, `tb.c` | `TxChain`, `TxChainProofs` |
| Mirror over AF_XDP | `xdp.c`, `tc.c` | `XdpMirror`, `XdpMirrorProofs` |
| Sending, hardware and software timestamps, backlog | `xdp.c`, `packet.c`, `tc.c`, `stat.c` | `TxTimestamps`, `TxTimestampsProofs` |
| Statistics and their readers | `stat.c`, `log*.c` | `Statistics` |
| Workload threads | `workload.c` | `Workload` |
| A class over many cycles, composing the two above | `tc.c` | `Cycle`, `CycleProofs` |
| Start-up, linking, failing calls, shutdown | `tb.c` and the functions it calls | `Startup`, `StartupProofs` |
| Contents of a frame: layout, meta data, security | `utils.c`, `profinet.c`, `security.c`, the classes | `FramePath`, `FramePathProofs` |

`TxChain` decides when a Tx thread has its turn. What a turn does is in
`MirrorPath`, `XdpMirror` and `TxTimestamps`, each for the part of the state named;
`FramePath` follows a single frame through them. `MirrorPath` uses the buffer through
its abstract specification `KeepNewest`, which `RingBuffer` is proved to implement.
`Startup` creates what the others take for granted.

Most modules have a variable `conf` that is chosen in `Init` from the constant
`Configs`: the configuration, and which faults may happen. A run so covers several
configurations, listed in its `MC_` module.

## Modules

**KeepNewest** is what the ring buffer promises: a byte queue of bounded size that
drops its oldest bytes. Both specifications record the last call in `call`, so that
storing or returning anything but what the same call promises breaks the refinement:
without it, a buffer that stores wrong bytes would pass for one that was given them.
**RingBuffer** is `ring_buffer.c`: storage, read and write pointer as offsets,
`count`, and the split copies at the end of the storage. Adding and fetching are one
step each because the code holds the buffer's mutex.

**MirrorPath** has the kernel's socket queue, the Rx thread (`RxWake`, `RxRecv`,
`RxAccept`, `RxReject` and the error returns), the mirror buffer, and the Tx thread
(`TxFetch`, `TxSend` per `sendmmsg`, `TxSendError`, `TxDone`). Frames may be lost or
foreign. A byte is a pair of sequence number and position, so that a frame glued
together from two others is visible. The VLAN tag is taken as stripped on reception,
as AF_PACKET delivers it; the stored length is then the configured frame length.

**TrafficClasses** has the descriptor each `*_threads_create` fills in, and
`find_next_pn_thread` with the fall-through of its switch.

**TxChain** runs one Tx thread per active class through the places of its loop. The
condition variable has no predicate, so a signal is an update of a thread that waits
at that moment. `term_handler` sets the stop flags one by one. `num_frames` and
`num_frames_available` are booleans: they are zero or `num_frames_per_cycle`. The
history counters saturate at `Cap`, which keeps cycles unbounded and preserves `<=`.

**XdpMirror** moves umem frames through fill, Rx, Tx and completion ring. The slots
of the Tx ring are split into reserved and submitted. A turn of a thread is one step
because it holds `xdp_data_mutex`. Kernel and NIC are external and follow the ring
protocol.

**TxTimestamps** has the four ways of sending (generating or mirroring, AF_PACKET or
AF_XDP), each as send, record the software time, drain completions, in the order of
the code. The backlog of `stat.c` is an array of slots that is reused after `Periods`
cycles. Each timestamp carries, as history, the cycle or frame it was taken for, so
that a sample computed from another cycle's timestamp is visible. `slips` counts
departures from undisturbed operation (a lost frame, a failed `sendmmsg`, a missing
hardware timestamp, a transmission before the software time is recorded, a frame so
late that its slot is reused) and is bounded by `MaxSlips`.

**Statistics** has the counters, the steps of `stat_update`, the readers and the
reset; **Workload** has the workload threads, whose condition variable has no
predicate either. Both define steps only; **Cycle** composes them with an Rx and a Tx
thread and the signals. With the fault `calls`, `tc_sleep_until` may fail and end its
thread (`RxSleepError`, `TxWaitError`), and a wait may end without a signal
(`TxWaitStop`). Counters are only compared with zero or modulo `PeriodMod`.

**Startup** is `tb_startup` as a list of things to do (`Program`). Creating a class
goes through its list of calls (`Steps`) but for those its configuration leaves out
(`Omitted`). A call that fails jumps to a label (`Target`) and falls through the rest,
as the code does, after the called function has unwound itself (`InnerLabels`). `held`
is what each context has acquired. The XDP program is shared by the classes: `xdp_prog`
is its state, and the contexts that hold `xsks_map` are what `xdp_init.initialized`
counts. `xdp_prog_init` opens and attaches it for the first socket, `xdp_prog_exit`
detaches it with the last one.

**FramePath** sends one frame after the other from the reference to the mirror and
back. A frame is its fields and its length; offsets come from the sizes of
`net_def.h`. Over AF_XDP a frame lies in a chunk of the umem, on Tx behind the meta data
if there is any (`TxOffset`), on Rx behind the headroom of the driver (`RxOffset`,
external: 256 bytes); the kernel neither sends nor delivers a frame that leaves its
chunk. AES-GCM is ideal: a tag verifies for exactly what it was computed of. The tag
may be stripped and one part may be damaged on the way. The EtherCAT frames of the
reference are answered by a slave.

## Runs

| Run | Bounds | Shows |
|---|---|---|
| `ring_buffer` | 3 bytes, 2 byte values, inputs up to 4 bytes | pointers agree, drop-oldest queue implemented |
| `mirror_path` | buffer of 8 bytes; frames of 4 bytes, or of 3 bytes with failing calls; 4 frames, 3 queued | whole frames (where lengths divide), newest data intact, order, exact count, error bound, drained and stopped |
| `startup` | all 512 sets of classes with failing sockets; 26 configurations with every call failing | chain, unwinding, XDP program attached while in use, nothing freed in use, successor ready, SIGTERM |
| `link_tsn_low` (violated) | all 512 sets | TSN Low without TSN High is never signalled |
| `tx_chain` | TSN High, RTC, RTA undisturbed; RTC and DCP with late turns, failing clocks, spurious wake-ups | priority order, update rate, bursts sent exactly once, termination |
| `xdp_mirror` | 3 slots, batches of 2; 7 packets undisturbed, 4 with loss and any order of turns | umem conserved, order, numbers, every packet mirrored |
| `xdp_commit` (violated) | as above, no loss | filled slots are left behind |
| `timestamps` | 2 frames per cycle, slots reused after 3 cycles, counter wraps after 6, 7 cycles, one slip | times measured against their own cycle, no sample missed (on the AF_XDP generator: none twice), umem frames not reused early |
| `xdp_drain` (violated) | as above, AF_XDP generator | completion processed before the software time |
| `cycle` | one workload thread or two readers, periods modulo 2; overruns, spurious wake-ups and failing sleeps each in a configuration of their own | lost activations seen, periods, readers, resets, termination |
| `frames` | every kind and option, 5 lengths each and 3 more for AF_XDP, 5 frames, cycle counter modulo 2 | echo accepted or too long for a chunk, damage noticed, mirror's time |
| `ae_payload` (violated) | encrypted configurations of the above | other bytes than the pattern are encrypted |

What the bounds reach: the ring buffer wraps and overflows from every position of its
pointers. The mirror buffer holds two frames and overflows with the third; it never
holds more than one `sendmmsg` takes, but one may send fewer. The AF_XDP mirror
receives full and partial batches and more packets than its rings have slots; as there
are no more umem frames than slots, its rings cannot run full. The chain has a first, a
middle and a last class. A backlog slot is reused twice and the cycle counter wraps
once, with two frames per cycle and one slip. Frames have their least
length and one byte less and more, their greatest and one byte more, and over AF_XDP
the greatest lengths that fit a chunk. Larger sizes, other numbers of frames per cycle and longer runs are left
to the proofs. Deadlock is checked everywhere; a stutter step stands for the joined
threads or the end of a bounded run.

### What the violated runs found

* `link_tsn_low`: `link_pn_threads` starts at TSN High or RTC. TSN Low with RTC
  passes the configuration check, but nobody signals TSN Low.
* `xdp_commit`: `received_frames` is overwritten (`tc.c:634`). If Rx runs twice
  before Tx, even with nothing received the second time, slots stay behind and are
  sent with a later batch.
* `xdp_drain`: `xdp_gen_and_send_frames` drains completions before it records the
  software time (`xdp.c:702`), against "Draining must happen after the caller records
  its Tx SW timestamp" (`tc.c:190`).
* `ae_payload`: `payload_pattern` (`tc.c:692`) does not take the AF_XDP meta data
  into account that `tc_initialize_frames` leaves room for.

Three more comments of the code do not hold in general; the properties are stated
with the condition under which they do:

* "Len should be a multiple of frame size" (`tc.c:422`, `udp_thread.c:173`): the
  mirror buffer drops single bytes. When `frame_length` does not divide
  `MAX_FRAME_SIZE * num_frames_per_cycle`, a full buffer starts inside a frame.
  `TransmitsWholeFrames` is about lengths that divide; `TailIsWholeFrames` shows that
  the newest bytes are whole frames in any case.
* "no one touches global_statistics" (`stat.c:170`): Rx threads and the first class
  sleep on the clock and do not wait for the last class. `PeriodsAddUp` and
  `ResetIsComplete` assume that a cycle's work ends within it; the fault `overrun`
  of `Cycle` drops this for the other properties.
* "Not clearing RX HW timestamp here - it will be cleared by ProcBatch" (`stat.c:745`):
  with one frame per cycle `stat_proc_batch_latency` never runs. `ProcOfOwnCycle`
  allows a slip only with several frames per cycle. With `Fpc = 1` TLC finds it to hold
  undisturbed and to fail, without this condition, after one slip.

### Exceptions stated in the properties

* `EverythingIsReleased`: when a workload thread cannot be created, the teardown
  function is not called for its instance and the later ones (`NotTornDown`). An XDP
  program that cannot be attached stays open, and one without `xsks_map` stays attached
  (`NotDetached`). When `if_nametoindex` fails in `xdp_prog_exit`, the program stays
  attached as well (`"stays"`). `hw_timestamping` may fail in the model even where it
  is not configured, which only adds behaviours.
* `NothingReleasedInUse` leaves workloads out: the Rx and Tx threads use
  `ctx->workload` from their first cycle on, while it is set up after them, and until
  they are joined when setting it up fails.
* `SigtermEndsProgram` is about a signal after all contexts are allocated. After an
  earlier one `print_stats` returns, but the classes run on until a second signal. A
  second signal during the final frees writes to freed logging contexts; nothing can
  be stated about that.
* `PriorityOrder` and `UpdatesPerCycle` exclude spurious wake-ups, which the code
  cannot tell from signals.
* `ProcOfOwnCycle` and `NoSampleMissed` end, for the AF_XDP mirror, with the wrap of
  the cycle counter after 2^32 cycles: it numbers its batches with a 64 bit counter.
  `EchoIsAccepted` ends there too, because initial vectors are computed from 64 bits
  by the sender and from 32 by the receiver.
* `RttOfOwnFrame` and `LatencyOfOwnCycle` do not count a slot that was reused for a
  later cycle, nor a frame or cycle whose software time was not recorded: after a
  failed `sendmmsg`, and not yet on the AF_XDP generator (see `xdp_drain`). The code
  uses what the slot holds in these cases.
* `NoSampleMissed` asks of the AF_XDP generator only that no cycle gives two samples:
  `xdp_complete_tx_only` looks at the first of several completions (`xdp.c:487-498`).
* `ResetHappens` excludes failing sleeps, after which nobody calls `stat_update`.
* `EchoIsAccepted` does not ask for the pattern where `PatternIsEncrypted` fails, nor
  of encrypted frames that the mirror receives before its Tx thread has initialised
  `frame_copy`. Over AF_XDP, frames longer than `XDP_FRAME_SIZE` less the headroom may
  be lost, although `config_sanity_check` accepts them. With meta data the reference
  writes up to 24 bytes past the chunk for the longest of them, and `insert_vlan_tag`
  (`utils.c:66`) up to 4; what they overwrite is not modelled.
* `EchoCarriesMirrorTime`: secure frames cannot be changed on Tx and AF_XDP frames are
  not; both carry the estimate made on Rx.
* `ReusesCompletedFrames` holds as long as no more frames are outstanding than there
  are umem frames; the code does not check this.

## Fairness

Rx, Tx, TxGen and workload threads are weakly fair: they are real time threads bound
to CPUs and driven by `clock_nanosleep`, and waits end after one second. In `Cycle`
the Tx thread and the readers are strongly fair, since they compete for
`global_statistics_mutex`, which is held only for a copy. In `Startup` only `main` is
fair: a thread whose stop flag is set returns, which the other modules show. The
termination handler runs to its end. In `XdpMirror` the kernel and the NIC are weakly
fair on submitted frames. Arrival of frames is never assumed. `StopsOnRequest` of
`MirrorPath` assumes that arrivals end: `packet_receive_messages` reads until its
socket is empty without looking at the stop flag.

In the undisturbed configuration of `tx_chain` a wait times out only when its
predecessor has returned, because a cycle is far shorter than the timeout of one
second. The other configurations drop this.

## Proofs

`RingBufferProofs` assumes only that the size is a positive number and that inputs
are byte strings (`RingBufferAssumption`).

* `TypeCorrect` and `CursorsAgree`: the inductive invariant is the conjunction of
  `TypeOK` and `PointersAgree`. `TypeOK` is preserved by itself; `PointersAgree`
  is not, because the pointers wrap correctly only while they stay in range. The
  refinement needs both.
* `Refinement`: `RingBuffer` implements `KeepNewest`, with the queue read from the
  storage. `WrittenBytes` says what the split copy of an add changes,
  `ReadAtIsPrefix` what the split copy of a fetch returns. `AddRefines`,
  `AddOversizedRefines`, `FetchRefines` and `FetchNothingRefines` treat the actions.

`XdpMirrorProofs` assumes positive ring and batch sizes (`XdpMirrorAssumption`) and
proves `FramesConserved`, `OutstandingExact` and `MirroredInOrder`, with losses,
foreign packets and the threads running in any order, and `BatchesNumbered` for the
undisturbed mirror.

* The invariant puts the rings in a row (`Row`): completion ring, NIC, submitted and
  reserved slots, Rx ring, fill ring. The row holds every umem frame exactly once
  (`Perm`). The kernel, the NIC and the Rx thread only move the boundary between two
  neighbours, which leaves the row as it is (`ShiftHead`, `ShiftPrefix`). The Tx
  thread also rotates completed frames to its other end (`RotatePerm`).
* `UmemConserved` alone is not inductive: `TxTurn` submits `received_frames` slots
  and recycles at most `outstanding_tx` frames, so `CountInv` bounds the first by the
  reserved slots and makes the second exact.
* `OrderInv` orders the packets of `Pipe`, the part of the row between completion and
  fill ring, after each other and after those on the wire. A packet is received into
  a frame that is not in the pipe (`Apart`, from `Perm`), so it overwrites nothing
  there.
* `NumberInv`: reserved slots and Rx ring hold consecutive packets up to the next one
  to arrive. The count that `RxTurn` keeps over its batch follows by induction
  (`ExpectedIs`).

`MirrorPathProofs` proves all five safety properties of the AF_PACKET mirror, for every
frame length, number of frames per cycle and socket queue (`MirrorPathAssumption`). It
looks at the mirror buffer from its end: an add appends one frame and may drop bytes
at the front, so the distance of a byte from the end determines its place in its frame
(`Placed`), and bytes closer to the end are of the same or a later frame (`Grouped`).

* `TailWhole` follows from these two, `WholeFrames` from `WholeInv`, which adds that
  buffer and batch are multiples of the frame length when the frame length divides the
  size of the buffer.
* `MirroredInOrder` needs `WireInv`: what is on the wire is older than what the Tx
  thread still has to send, which is older than what is in the buffer.
* `SentExact` and `ErrorsBounded` from `SentInv` and `CounterInv`: the expected number
  advances by one per frame and by one more per error, and never passes the stream.

`TxChainProofs` is about every set of classes that has a first one
(`TxChainAssumption`).

* `BurstsAreMarked`: the invariant `Account` follows a marking: it is available, or
  held by the Tx thread on its way to the frames, or sent. `BurstOncePerMark` only
  counts the last of these. A burst class never is the first of the chain
  (`FirstIsCyclic`), the only class that sends by the clock.
* `ClassesInOrder` and `UpdatesCounted`: the lemma `Chain` says what
  `find_next_pn_thread` computes, namely the closest active class behind, for all
  classes from the first one on. A class has had no more turns than an earlier one,
  even when the turn it is being signalled for is counted (`Behind`, `UpdateBehind`).
  TSN Low without TSN High (`link_tsn_low`) precedes the first class and is not part of
  the chain, which is what `PriorityOrder` is about.

`TxTimestampsProofs` assumes positive sizes, and that the number of cycles of the
backlog divides the range of the cycle counter (`TxTimestampsAssumption`). Slots are
found by the cycle counter, so they would jump at its wrap otherwise.

* `RttMeasured` and `LatencyMeasured`: frames are stamped in the order of their numbers
  (`QueueInv`, `NoneLater`), and the slot a frame is looked up in, by the number it
  carries modulo the cycle counter, is the slot it was stamped in (`OwnSlot`). So the
  slot of a stamped frame holds its timestamp or that of a later one (`Holding`), which
  the two properties allow. Every other function of `stat.c` leaves software
  timestamps alone (`Mild`).
* `FramesReusedCompleted`: completion ring, NIC and Tx ring together hold the umem
  frames round robin (`Round`), so two of at most `TxFrames` entries differ.

`FramePathProofs` proves the three properties of the contents of a frame, for every
kind, option, length and number of frames. `FramePathAssumption` says that only
PROFINET real time frames are secure, and only these, generic layer 2 and EtherCAT use
AF_XDP. At each place on its way the frame is what its sender made (`Pristine`) after
damage to at most one part (`IsHit`); taking off the VLAN tag commutes with both.

* `EchoAccepted`: a pristine frame passes all checks (`PristineAccepted`), and the
  mirror makes a pristine echo of it. This uses that the lengths `config_sanity_check`
  accepts have room for headers, pattern and checksum (`PatternHeld`).
* `DamageFound`: each damage that `Notices` lists fails the check it should
  (`DamageNoticed`); for secure frames because a tag depends on all it covers
  (`TagDiffers`).
* `MirrorTimeCarried` from the time that the frame carries at each place.

`StartupProofs` is about every set of configurations (`StartupAssumption` gives only
their fields) with any call failing and signals at any time. `Holds` says of each
context what it holds, by what `tb_startup` is doing: nothing before it is created, the
calls made so far while it is (`Before`), everything until its threads are joined,
nothing but `Transient` after it is freed.

* `AllReleased`: the labels that are left to run through release whatever is held
  (`Covered`). That this is so when a call has just failed is the lemma `Unwound`; it
  goes through the calls of every creating function and the labels of its gotos, after
  those of the function that was called.
* `ProgramStaysAttached`, and what `AllReleased` says of the XDP program, from
  `ProgInv`: the program is attached whenever a socket is counted, and opened or
  attached without that only between two calls of `xdp_prog_init`, or once a creation
  has failed. `XdpNext` says that
  these calls follow each other.
* `NothingInUseReleased` alone is not inductive: `ThreadsFirst` says that any label
  that releases what threads use comes after those of all running threads.
  `ThreadsLast` says that threads are created after everything they use.
* `SuccessorsAreReady` from `OrderInv`: as long as a class holds anything, the mutexes
  and condition variables of all later active classes exist, because classes are
  created from the end and the class that is unwound is always the one created last.
* `ChainCovers` from what `find_next_pn_thread` computes (`NextClosest`) and where the
  walk of `link_pn_threads` ends (`ChainEnds`).

`CycleProofs` proves four theorems for every set of workload and logging threads and
every collection interval (`StatisticsAssumption`, `CycleAssumption`):

* `ReadersConsistent` from `LockInv`: who holds `global_statistics_mutex`, and that
  a reader holding it has copied what is still there.
* `PeriodsBalance` and `ResetsComplete` from `PeriodInv` and `ResetInv`, which say what
  each step of `stat_update` has left to do. Both need `TurnInv`: without overruns
  nothing is counted while `stat_update` works.
* `OverrunsNoticed` from `WorkInv`: between the passes of the Rx and the Tx thread an
  unmatched lost activation has left `workload_running` set, and outside of it there
  is none; a worker still busy then has been seen once more than it missed.

Where a proof needs induction over data (`ExpectedIs`, the folds of `TxTimestamps`), it
takes the least counterexample of a set of numbers (`LeastElement`, `UpTo`): the
induction rules of the library have an operator as parameter, which the provers cannot
instantiate. The functions of `TrafficClasses` are defined by recursion over eight
classes and are unfolded case by case.

Only model-checked are:

* all liveness properties, which are outside of the prover's reach;
* `ProcOfOwnCycle`, which bounds the number of slips: the proof would have to follow
  each combination of a slip and the slots it leaves unwritten until they are reused;
* `NoSampleMissed`, which compares counts with the number of cycles at the end of an
  undisturbed run and needs to know how many samples each frame under way will still
  give.

## Not modelled

* `hist.c`: a bounds check and an increment per sample, written out after all threads
  have ended.
* `tx_time.c`: one expression per frame whose result is only given to the kernel.
* Minima, maxima, averages and outlier limits of `stat.c`, and the statistics of
  workloads: data no property tells apart.
* The UDP mirror counts frame by frame and goes on after a failed `sendto`.
* YAML parsing and the checks of single values in `config.c`.
* Formatting and transport of log, MQTT and JSON output, the table of `print.c`.
* `net.c`, the eBPF programs and `napictl.c`: set-up of kernel objects, stateless
  filters, a separate tool.
* A failing `pthread_setname_np` after a thread was created, `mlockall` and the CPU
  latency request, which precede everything modelled.
