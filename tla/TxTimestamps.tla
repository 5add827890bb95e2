--------------------------- MODULE TxTimestamps ---------------------------
(***************************************************************************)
(* Software and hardware timestamps of one traffic class.  stat.c keeps a  *)
(* backlog of timestamps that is reused after STAT_MAX_BACKLOG cycles; a   *)
(* slot is found from the sequence counter that a frame carries as 32 bit  *)
(* cycle and frame counters.  The Tx thread sends, records the software    *)
(* time of sending and drains the hardware's completions; the Rx thread    *)
(* looks up what was recorded when a frame comes back (reference) or       *)
(* records when it arrived (mirror).  The model follows four Tx paths:     *)
(* generating or mirroring, over AF_PACKET (tc.c, packet.c) or AF_XDP      *)
(* (tc.c, xdp.c).                                                          *)
(*                                                                         *)
(* A timestamp is a record: "at" is the clock's value, 0 when there is     *)
(* none, and "of" is history, the cycle (or the frame) it was taken for.   *)
(* Frames are named by the sender's 64 bit sequence counter.               *)
(***************************************************************************)
EXTENDS Integers, Sequences, FiniteSetsExt

CONSTANTS
    Configs,    \* the set of configurations to start from
    Fpc,        \* num_frames_per_cycle
    Periods,    \* STAT_MAX_BACKLOG: cycles after which a slot is reused
    CounterMod, \* 2^32: cycle counters carried by frames wrap here
    TxFrames,   \* XSK_RING_CONS__DEFAULT_NUM_DESCS: umem frames for Tx, slots of a ring
    MaxCycle,   \* bound: cycles sent by the reference
    MaxSlips    \* bound: departures from undisturbed operation

\* CounterMod is a multiple of Periods, as 2^32 is of 1024.
ASSUME TxTimestampsAssumption ==
    /\ \A x \in {Fpc, Periods, CounterMod, TxFrames, MaxCycle} : x \in Nat \ {0}
    /\ MaxSlips \in Nat
    /\ CounterMod % Periods = 0
    /\ Configs \subseteq [mirror : BOOLEAN, xdp : BOOLEAN, hwts : BOOLEAN]

VARIABLES
    conf,       \* mirror or reference, AF_XDP or AF_PACKET, tx_hwtstamp_enabled
    now,        \* the clock shared by application and NIC (CLOCK_TAI)
    next,       \* next frame to generate, or to arrive at the mirror
    queue,      \* frames received by the mirror, not yet sent
    rx_sequence_counter,
    batch,      \* the frames the Tx thread is sending
    pc,         \* step of the Tx thread
    ring,       \* AF_XDP Tx ring: umem frames submitted, not yet taken
    nic,        \* frames handed to the hardware
    cq,         \* completions not yet processed
    umem,       \* the frame stored in each umem frame of the generator
    frame_number,
    air,        \* frames on their way back to the reference
    stat,       \* backlog and statistics, see Init
    stamped,    \* history: what a software timestamp was recorded for
    slips       \* history: number of departures from undisturbed operation

kernel == <<ring, nic, cq, umem, frame_number>>
vars == <<conf, now, next, queue, rx_sequence_counter, batch, pc, kernel, air, stat,
          stamped, slips>>

---------------------------------------------------------------------------
\* sequence_counter_to_meta_data followed by meta_data_to_sequence_counter:
\* the sequence counter as the receiver of a frame computes it.
Carried(n) == ((n \div Fpc) % CounterMod) * Fpc + (n % Fpc)

BacklogLen == Periods * Fpc

\* Mutant of FirstFrameIdx: the counter is not rounded down to its cycle.
OwnFrameIdx(seq) == seq % BacklogLen

\* Mutant of FirstFrameIdx: the counter has been advanced to the next cycle.
NextCycleIdx(seq) == (((seq \div Fpc) + 1) * Fpc) % BacklogLen

\* get_first_frame_backlog_idx; the completion paths compute the same.
FirstFrameIdx(seq) == ((seq \div Fpc) * Fpc) % BacklogLen

\* The first and the last frame of a cycle get a hardware timestamp.
IsFirst(seq) == seq % Fpc = 0
IsLast(seq) == seq % Fpc = Fpc - 1
Flagged(seq) == conf.hwts /\ (IsFirst(seq) \/ IsLast(seq))

NoStamp == [at |-> 0, of |-> -1]

\* What a timestamp recorded for frame n stands for: with hardware timestamps
\* the cycle, otherwise the frame.
Owner(n) == IF conf.hwts THEN n \div Fpc ELSE n

Kinds == {"rtt", "latency", "first", "batch"}

\* A frame handed to the kernel: AF_XDP passes the address of a umem frame,
\* AF_PACKET and the mirror a frame of their own.
Entry(n, f) == [n |-> n, f |-> f, hw |-> 0]

\* The backlog is allocated with zeros by stat_init.
Init ==
    /\ conf \in Configs
    /\ now = 1 /\ next = 0 /\ queue = << >> /\ rx_sequence_counter = 0
    /\ batch = << >> /\ pc = "idle"
    /\ ring = << >> /\ nic = << >> /\ cq = << >>
    /\ umem = [f \in 0 .. TxFrames - 1 |-> Entry(-1, f)] /\ frame_number = 0
    /\ air = << >>
    /\ stat = [backlog |-> [i \in 0 .. BacklogLen - 1 |->
                               [sw |-> NoStamp, hw |-> NoStamp, rx |-> NoStamp]],
               count |-> [k \in Kinds |-> 0],
               missing |-> 0,       \* tx_hw_timestamp_missing
               stale |-> {},        \* history: kinds with a sample taken against another
                                    \* cycle's timestamp
               early |-> FALSE]     \* history: a completion was processed before the
                                    \* software timestamp of its cycle was recorded
    /\ stamped = {} /\ slips = 0

---------------------------------------------------------------------------
(***************************************************************************)
(* stat.c                                                                  *)
(***************************************************************************)

\* Adds a sample measured from timestamp t for owner o.  A slot that is used
\* for a later owner already has been reused; that is not held against the
\* code, and neither is a missing software timestamp (see early).
Sample(s, kind, t, o, excused) ==
    [s EXCEPT !.count[kind] = @ + 1,
              !.stale = @ \cup (IF t.of < o /\ ~excused THEN {kind} ELSE {})]

\* Mutant of Aligned: every slot the batch touches is stamped, also that of a
\* cycle whose first frame was sent before.
AlignedToBase(seq, i) == (seq + i) % Fpc = 0 \/ i = 0

\* With hardware timestamps only the first frame of a cycle is stamped.
Aligned(seq, i) == (seq + i) % Fpc = 0

\* stat_frames_sent_batch: frames fs, numbered from seq, at time t.  Of several
\* frames with the same slot, the last one stays.
FramesSentBatch(backlog, seq, fs, t) ==
    LET Slot(i) == (IF conf.hwts THEN ((seq + i) \div Fpc) * Fpc ELSE seq + i) % BacklogLen
        Hits(s) == {i \in 0 .. Len(fs) - 1 : (conf.hwts => Aligned(seq, i)) /\ Slot(i) = s}
    IN  [s \in DOMAIN backlog |->
            IF Hits(s) = {} THEN backlog[s]
            ELSE [backlog[s] EXCEPT !.sw = [at |-> t, of |-> Owner(fs[Max(Hits(s)) + 1])]]]

\* stat_frame_sent_latency for the cycle o at backlog index idx.
SentLatency(s, idx, o) ==
    LET slot == s.backlog[idx]
    IN  IF slot.sw.at # 0 /\ slot.hw.at = 0 THEN s
        ELSE IF slot.hw.at > slot.sw.at
        THEN [Sample(s, "latency", slot.sw, o, o \notin stamped) EXCEPT !.backlog[idx].hw = NoStamp]
        ELSE [s EXCEPT !.missing = @ + 1]

\* stat_proc_first_latency: does not clear rx_hw_ts.
ProcFirst(s, idx, o, hw) ==
    LET rx == s.backlog[idx].rx
    IN  IF rx.at # 0 /\ hw > rx.at THEN Sample(s, "first", rx, o, FALSE) ELSE s

\* Mutant of ProcBatch: rx_hw_ts is not cleared.
ProcBatchKeeps(s, idx, o, hw) ==
    LET rx == s.backlog[idx].rx
    IN  IF rx.at # 0 /\ hw > rx.at THEN Sample(s, "batch", rx, o, FALSE) ELSE s

\* stat_proc_batch_latency: clears rx_hw_ts in any case.
ProcBatch(s, idx, o, hw) ==
    LET rx == s.backlog[idx].rx
        cleared == [s EXCEPT !.backlog[idx].rx = NoStamp]
    IN  IF rx.at # 0 /\ hw > rx.at THEN Sample(cleared, "batch", rx, o, FALSE) ELSE cleared

\* A completion of frame n with hardware time hw: packet_process_tx_completions
\* and xdp_process_tx_timestamp.
Completed(s, n, hw) ==
    LET seq == Carried(n)
        idx == FirstFrameIdx(seq)
        o == Owner(n)
        s1 == [s EXCEPT !.early = @ \/ (hw # 0 /\ o \notin stamped)]
        s2 == IF IsFirst(seq)
              THEN SentLatency([s1 EXCEPT !.backlog[idx].hw = [at |-> hw, of |-> o]], idx, o)
              ELSE s1
    IN  IF hw = 0 \/ s.backlog[idx].sw.at = 0 THEN s1
        ELSE IF ~conf.mirror \/ hw <= s.backlog[idx].sw.at THEN s2
        ELSE IF IsFirst(seq) THEN ProcFirst(s2, idx, o, hw)
        ELSE IF IsLast(seq) THEN ProcBatch(s2, idx, o, hw)
        ELSE s2

\* stat_frame_received on the mirror, frame n with hardware time hw.
ReceivedByMirror(s, n, hw) ==
    LET seq == Carried(n)
    IN  IF conf.hwts /\ hw # 0 /\ IsFirst(seq)
        THEN [s EXCEPT !.backlog[FirstFrameIdx(seq)].rx = [at |-> hw, of |-> Owner(n)]]
        ELSE s

\* stat_frame_received on the reference: the round trip of frame n.
ReceivedByReference(s, n) ==
    LET seq == Carried(n)
        idx == IF conf.hwts THEN FirstFrameIdx(seq) ELSE seq % BacklogLen
    IN  Sample(s, "rtt", s.backlog[idx].sw, Owner(n), Owner(n) \notin stamped)

---------------------------------------------------------------------------
(***************************************************************************)
(* The Tx thread                                                           *)
(***************************************************************************)
Generator == conf.xdp /\ ~conf.mirror

\* What a completion holds when it is looked at: the generator's umem frame may
\* have been written again.
Echo(e) == IF Generator THEN umem[e.f] ELSE e

Entries(fs) == [i \in 1 .. Len(fs) |-> Entry(fs[i], -1)]

Slip(n) == slips + n <= MaxSlips /\ slips' = slips + n

\* When the reference sends, or the mirror receives frame n, a frame that has
\* been on its way for so long that its slot is reused before its return or its
\* completion can be dealt with is late.
Late(n) ==
    LET Before(m, cycles) == (m \div Fpc) + cycles <= n \div Fpc
        out == [i \in DOMAIN (ring \o nic) |-> Echo((ring \o nic)[i]).n]
        done == [i \in DOMAIN cq |-> cq[i].n]
        kept == IF conf.mirror THEN out \o done \o batch \o queue ELSE air
    IN  IF \/ ~conf.mirror /\ \E i \in DOMAIN out : Before(out[i], Periods - 1)
           \/ \E i \in DOMAIN kept : Before(kept[i], Periods)
        THEN 1 ELSE 0

\* tc_gen_and_send_frames up to sendmmsg; after an error the frames sent so far
\* are not counted and no timestamp is recorded.
GenSend ==
    LET fs == [i \in 1 .. Fpc |-> next + i - 1]
    IN  /\ pc = "idle" /\ ~conf.mirror /\ ~conf.xdp /\ next < MaxCycle * Fpc
        /\ next' = next + Fpc
        /\ \/ nic' = nic \o Entries(fs) /\ batch' = fs /\ pc' = "stamp" /\ Slip(Late(next))
           \/ /\ Slip(1 + Late(next))
              /\ \E k \in 0 .. Fpc - 1 : nic' = nic \o Entries(SubSeq(fs, 1, k))
              /\ batch' = << >> /\ pc' = "drain"
        /\ UNCHANGED <<conf, now, queue, rx_sequence_counter, ring, cq, umem, frame_number,
                       air, stat, stamped>>

\* Mutant of UmemFrame: the second half of the umem area is taken to be one
\* frame shorter.
UmemFrameShort(i) == (frame_number + i) % (TxFrames - 1)

\* The umem frame for the i-th frame of a cycle.
UmemFrame(i) == (frame_number + i) % TxFrames

\* xdp_gen_and_send_frames up to the submission.  Without room in the Tx ring
\* the cycle is skipped.
GenSubmit ==
    LET fs == [i \in 1 .. Fpc |-> next + i - 1]
        us == [i \in 1 .. Fpc |-> UmemFrame(i - 1)]
    IN  /\ pc = "idle" /\ Generator /\ next < MaxCycle * Fpc
        /\ next' = next + Fpc /\ pc' = "drain" /\ Slip(Late(next))
        /\ IF Len(ring) + Fpc <= TxFrames
           THEN /\ batch' = fs
                /\ ring' = ring \o [i \in 1 .. Fpc |-> Entry(-1, us[i])]
                /\ umem' = [u \in DOMAIN umem |->
                              IF \E i \in 1 .. Fpc : us[i] = u
                              THEN Entry(fs[CHOOSE i \in 1 .. Fpc : us[i] = u], u) ELSE umem[u]]
                /\ frame_number' = UmemFrame(Fpc)
           ELSE batch' = << >> /\ UNCHANGED <<ring, umem, frame_number>>
        /\ UNCHANGED <<conf, now, queue, rx_sequence_counter, nic, cq, air, stat, stamped>>

\* The mirror hands what it received to the kernel: tc_send_frames, or the
\* submission in tc_xdp_tx_thread.
MirrorSend ==
    /\ pc = "idle" /\ conf.mirror
    /\ queue' = << >>
    /\ \/ /\ batch' = queue /\ pc' = IF queue = << >> THEN "drain" ELSE "stamp"
          /\ IF conf.xdp THEN ring' = ring \o Entries(queue) /\ UNCHANGED nic
                         ELSE nic' = nic \o Entries(queue) /\ UNCHANGED ring
          /\ UNCHANGED slips
       \/ /\ ~conf.xdp /\ queue # << >> /\ Slip(1)
          /\ \E k \in 0 .. Len(queue) - 1 : nic' = nic \o Entries(SubSeq(queue, 1, k))
          /\ batch' = << >> /\ pc' = "drain" /\ UNCHANGED ring
    /\ UNCHANGED <<conf, now, next, rx_sequence_counter, cq, umem, frame_number, air, stat,
                   stamped>>

\* Records the time for the frames fs, numbered from seq.  History: the owners
\* of frames that were given their own number.
Record(seq, fs) ==
    /\ stat' = [stat EXCEPT !.backlog = FramesSentBatch(@, seq, fs, now + 1)]
    /\ now' = IF stat' = stat THEN now ELSE now + 1
    /\ stamped' = stamped \cup
           {Owner(fs[i]) : i \in {j \in 1 .. Len(fs) : /\ conf.hwts => IsFirst(fs[j])
                                                       /\ Carried(seq + j - 1) = Carried(fs[j])}}

\* stat_frames_sent_batch: the generators pass the counter they numbered the
\* frames with, the AF_XDP mirror derives it from rx_sequence_counter.
StampBatch ==
    /\ pc = "stamp" /\ (conf.xdp \/ ~conf.mirror)
    /\ Record(IF conf.mirror THEN rx_sequence_counter - Len(batch) ELSE batch[1], batch)
    /\ batch' = << >> /\ pc' = IF Generator THEN "idle" ELSE "drain"
    /\ UNCHANGED <<conf, next, queue, rx_sequence_counter, kernel, air, slips>>

\* stat_frame_sent: the AF_PACKET mirror records frame by frame, by the number
\* in the frame.
StampFrame ==
    /\ pc = "stamp" /\ conf.mirror /\ ~conf.xdp
    /\ Record(Carried(Head(batch)), <<Head(batch)>>)
    /\ batch' = Tail(batch) /\ pc' = IF Len(batch) = 1 THEN "drain" ELSE "stamp"
    /\ UNCHANGED <<conf, next, queue, rx_sequence_counter, kernel, air, slips>>

\* packet_process_tx_completions: one message of the error queue.
DrainMessage ==
    /\ pc = "drain" /\ ~conf.xdp /\ cq # << >>
    /\ stat' = Completed(stat, Head(cq).n, Head(cq).hw)
    /\ cq' = Tail(cq)
    /\ UNCHANGED <<conf, now, next, queue, rx_sequence_counter, batch, pc, ring, nic, umem,
                   frame_number, air, stamped, slips>>

DrainEnd ==
    /\ pc = "drain" /\ ~conf.xdp /\ cq = << >>
    /\ pc' = "idle"
    /\ UNCHANGED <<conf, now, next, queue, rx_sequence_counter, batch, kernel, air, stat,
                   stamped, slips>>

\* The timestamp of a completion, if one was requested for its frame.
WithTimestamp(s, e) ==
    IF Flagged(Carried(Echo(e).n)) THEN Completed(s, Echo(e).n, Echo(e).hw) ELSE s

\* xdp_complete_tx handles all completions, xdp_complete_tx_only the first one;
\* both release them all.
DrainRing ==
    /\ pc = "drain" /\ conf.xdp
    /\ LET handled == IF conf.mirror \/ cq = << >> THEN cq ELSE <<Head(cq)>>
           after[i \in 0 .. Len(handled)] ==
               IF i = 0 THEN stat ELSE WithTimestamp(after[i - 1], handled[i])
       IN  stat' = after[Len(handled)]
    /\ cq' = << >>
    /\ pc' = IF batch = << >> THEN "idle" ELSE "stamp"
    /\ UNCHANGED <<conf, now, next, queue, rx_sequence_counter, batch, ring, nic, umem,
                   frame_number, air, stamped, slips>>

---------------------------------------------------------------------------
(***************************************************************************)
(* Kernel, NIC and Rx thread                                               *)
(***************************************************************************)
KernelTake ==
    /\ ring # << >> /\ Len(nic) + Len(cq) < TxFrames
    /\ nic' = Append(nic, Head(ring)) /\ ring' = Tail(ring)
    /\ UNCHANGED <<conf, now, next, queue, rx_sequence_counter, batch, pc, cq, umem,
                   frame_number, air, stat, stamped, slips>>

\* The NIC sends a frame and takes its time if asked to: after everything that
\* has been timed so far, not after what will be.  It slips when it takes
\* no time, or sends before the software time of the cycle is recorded.
NicTransmit ==
    /\ nic # << >>
    /\ LET e == Head(nic)
           n == Echo(e).n
           fast == n \in Range(batch) /\ Owner(n) \notin stamped
       IN  /\ IF Flagged(Carried(n))
              THEN \E hw \in {0, now + 1} :
                      /\ Slip((IF hw = 0 THEN 1 ELSE 0) + (IF fast THEN 1 ELSE 0))
                      /\ cq' = Append(cq, [e EXCEPT !.hw = hw])
                      /\ umem' = IF Generator THEN [umem EXCEPT ![e.f].hw = hw] ELSE umem
              ELSE /\ cq' = IF conf.xdp THEN Append(cq, e) ELSE cq
                   /\ UNCHANGED <<umem, slips>>
           /\ air' = IF conf.mirror THEN air ELSE Append(air, n)
    /\ nic' = Tail(nic)
    /\ UNCHANGED <<conf, now, next, queue, rx_sequence_counter, batch, pc, ring, frame_number,
                   stat, stamped>>

\* A frame arrives at the mirror and is handled by its Rx thread, which AF_XDP
\* keeps from running during a turn of the Tx thread.  The hardware may fail to
\* provide the time.
RxMirror ==
    /\ conf.mirror /\ next < MaxCycle * Fpc /\ Len(queue) < Fpc
    /\ conf.xdp => pc = "idle"
    /\ IF IsFirst(Carried(next))
       THEN /\ \E hw \in {0, now + 1} :
                  /\ Slip((IF hw = 0 THEN 1 ELSE 0) + Late(next))
                  /\ stat' = ReceivedByMirror(stat, next, hw)
            /\ now' = now + 1
       ELSE Slip(Late(next)) /\ UNCHANGED <<stat, now>>
    /\ queue' = Append(queue, next)
    /\ rx_sequence_counter' = rx_sequence_counter +
                              (IF Carried(next) # rx_sequence_counter THEN 2 ELSE 1)
    /\ next' = next + 1
    /\ UNCHANGED <<conf, batch, pc, kernel, air, stamped>>

\* A frame is lost on its way to the mirror.
LoseToMirror ==
    /\ conf.mirror /\ next < MaxCycle * Fpc /\ Slip(1)
    /\ next' = next + 1
    /\ UNCHANGED <<conf, now, queue, rx_sequence_counter, batch, pc, kernel, air, stat, stamped>>

\* A frame comes back to the reference, in order and possibly late.
RxReference ==
    /\ air # << >>
    /\ stat' = ReceivedByReference(stat, Head(air))
    /\ air' = Tail(air)
    /\ UNCHANGED <<conf, now, next, queue, rx_sequence_counter, batch, pc, kernel, stamped, slips>>

LoseToReference ==
    /\ air # << >> /\ Slip(1)
    /\ air' = Tail(air)
    /\ UNCHANGED <<conf, now, next, queue, rx_sequence_counter, batch, pc, kernel, stat, stamped>>

\* The reference stops at the bound.
Finished ==
    /\ ~conf.mirror /\ next = MaxCycle * Fpc /\ pc = "idle"
    /\ UNCHANGED vars

Next ==
    \/ GenSend \/ GenSubmit \/ MirrorSend \/ StampBatch \/ StampFrame
    \/ DrainMessage \/ DrainEnd \/ DrainRing
    \/ KernelTake \/ NicTransmit
    \/ RxMirror \/ LoseToMirror \/ RxReference \/ LoseToReference
    \/ Finished

Spec == Init /\ [][Next]_vars

---------------------------------------------------------------------------
\* A round trip time is measured from the software timestamp of the frame that
\* came back, or of its cycle (stat_frame_received), also after the 32 bit cycle
\* counter has wrapped, if that timestamp was recorded and its slot not reused
\* since.  The code does not check either: a frame that a failing sendmmsg has
\* sent is measured from what its slot holds.
RttOfOwnFrame == "rtt" \notin stat.stale

\* The latency of a transmission is measured from the software timestamp of its
\* own cycle (stat_frame_sent_latency) if that timestamp was recorded before the
\* completion is processed: not so after a failing sendmmsg, nor on the AF_XDP
\* generator, which drains before it stamps, for a frame sent meanwhile.
LatencyOfOwnCycle == "latency" \notin stat.stale

\* The AF_XDP mirror compares a 64 bit counter of its own with the numbers that
\* frames carry; they agree until the cycle counter wraps.
NumbersAgree == conf.mirror /\ conf.xdp => next <= CounterMod * Fpc

\* The mirror's processing times are measured from the arrival of their own
\* cycle (stat_proc_first_latency, stat_proc_batch_latency): with several frames
\* in a cycle no single lost frame, missing timestamp, failed call or early
\* transmission makes a value left in a reused slot count.  With one frame in a
\* cycle that holds undisturbed only: the first frame is then the last one too,
\* stat_proc_batch_latency never runs, and rx_hw_ts is never cleared.
ProcOfOwnCycle ==
    slips <= (IF Fpc > 1 THEN 1 ELSE 0) /\ NumbersAgree
        => {"first", "batch"} \cap stat.stale = {}

\* Undisturbed, every cycle that was sent and completed has given one latency,
\* and on the mirror one time for its first and one for its last frame; none is
\* reported missing.  The AF_XDP generator misses latencies even so, because
\* xdp_complete_tx_only looks at the first of several completions only: there no
\* cycle has given more than one.
NoSampleMissed ==
    (/\ slips = 0 /\ conf.hwts /\ pc = "idle"
     /\ nic = << >> /\ ring = << >> /\ cq = << >> /\ queue = << >> /\ next % Fpc = 0
     /\ NumbersAgree)
    => /\ stat.missing = 0
       /\ IF Generator THEN stat.count["latency"] <= next \div Fpc
                       ELSE stat.count["latency"] = next \div Fpc
       /\ conf.mirror => /\ stat.count["first"] = next \div Fpc
                         /\ Fpc > 1 => stat.count["batch"] = next \div Fpc

\* The generator overwrites a umem frame only after its transmission is
\* completed, as long as no more frames are outstanding than it has umem frames
\* (xdp_gen_and_send_frames reuses them round robin without looking).
ReusesCompletedFrames ==
    LET out == ring \o nic \o cq
    IN  Generator /\ Len(out) <= TxFrames
        => \A i, j \in DOMAIN out : i # j => out[i].f # out[j].f

\* "Draining must happen after the caller records its Tx SW timestamp"
\* (tc.c:190): no completion is processed before the software timestamp of its
\* cycle is recorded.
DrainsAfterStamp == ~stat.early
===========================================================================
