----------------------------- MODULE XdpMirror ----------------------------
(***************************************************************************)
(* One traffic class of the mirror application over an AF_XDP socket.      *)
(* Frames are not copied: the Rx thread moves the umem frame of a received *)
(* packet from the Rx ring into reserved slots of the Tx ring              *)
(* (xdp_receive_frames), the Tx thread submits as many slots as the Rx     *)
(* thread reported and recycles completed frames into the fill ring        *)
(* (tc_xdp_tx_thread, xdp_complete_tx).  Both hold xdp_data_mutex while    *)
(* they touch the rings, so each turn of a thread is one step.             *)
(*                                                                         *)
(* Rings are sequences of umem frames.  The kernel and the NIC are         *)
(* modelled by the ring protocol of libxdp: a reservation is all or        *)
(* nothing, a submission passes on the oldest reserved slots.              *)
(***************************************************************************)
EXTENDS Integers, Sequences, Functions

CONSTANTS
    RingSize,   \* XSK_RING_PROD__DEFAULT_NUM_DESCS: slots per ring, umem frames for Rx
    Batch,      \* XDP_BATCH_SIZE
    Configs     \* what may go wrong and how much is sent: the choices to start from

ASSUME XdpMirrorAssumption ==
    /\ RingSize \in Nat \ {0} /\ Batch \in Nat \ {0}
    /\ Configs \subseteq [lossy : BOOLEAN, overrun : BOOLEAN, packets : Nat]

VARIABLES
    conf,       \* what may go wrong, and the bound of the reference's stream
    next,       \* next packet of the reference's stream
    fq,         \* fill ring: frames the kernel may receive into
    rx,         \* Rx ring: frames with a received packet
    reserved,   \* slots of the Tx ring filled by Rx, not yet submitted
    submitted,  \* slots of the Tx ring submitted, not yet taken by the kernel
    nic,        \* frames being transmitted
    cq,         \* completion ring: frames transmitted
    packet,     \* the packet stored in each umem frame
    received_frames,
    rx_sequence_counter,
    outstanding_tx,
    turn,       \* the thread whose offset in the cycle comes next
    misnumbered,    \* a stat_frames_sent_batch was given another number than its frames have
    wire        \* packets transmitted

rings == <<fq, rx, reserved, submitted, nic, cq>>
vars == <<conf, next, rings, packet, received_frames, rx_sequence_counter, outstanding_tx,
          turn, misnumbered, wire>>

\* Packets may be lost or come from someone else.
Lossy == conf.lossy

\* A thread may run again before the other had its turn.
Overrun == conf.overrun

\* Bound: the reference sends packets 0 .. MaxSeq - 1.
MaxSeq == conf.packets

\* Umem frames of the Rx half; xdp_open_socket puts all of them into fq.
Frames == 0 .. RingSize - 1

\* A packet of another protocol or length.
Foreign == -1

Init ==
    /\ conf \in Configs
    /\ next = 0
    /\ fq = [i \in 1 .. RingSize |-> i - 1]
    /\ rx = << >> /\ reserved = << >> /\ submitted = << >> /\ nic = << >> /\ cq = << >>
    /\ packet = [f \in Frames |-> Foreign]
    /\ received_frames = 0 /\ rx_sequence_counter = 0 /\ outstanding_tx = 0
    /\ turn = "rx" /\ misnumbered = FALSE /\ wire = << >>

---------------------------------------------------------------------------
\* The kernel and the NIC.
Receive(p) ==
    /\ fq # << >>
    /\ rx' = Append(rx, Head(fq))
    /\ packet' = [packet EXCEPT ![Head(fq)] = p]
    /\ fq' = Tail(fq)
    /\ UNCHANGED <<conf, reserved, submitted, nic, cq, received_frames, rx_sequence_counter,
                   outstanding_tx, turn, misnumbered, wire>>

KernelReceive == next < MaxSeq /\ Receive(next) /\ next' = next + 1

KernelReceiveForeign == Lossy /\ Receive(Foreign) /\ UNCHANGED next

KernelLose ==
    /\ Lossy /\ next < MaxSeq
    /\ next' = next + 1
    /\ UNCHANGED <<conf, rings, packet, received_frames, rx_sequence_counter, outstanding_tx,
                   turn, misnumbered, wire>>

\* A Tx descriptor is taken when the completion ring has room for its frame.
KernelTake ==
    /\ submitted # << >> /\ Len(nic) + Len(cq) < RingSize
    /\ nic' = Append(nic, Head(submitted))
    /\ submitted' = Tail(submitted)
    /\ UNCHANGED <<conf, next, fq, rx, reserved, cq, packet, received_frames, rx_sequence_counter,
                   outstanding_tx, turn, misnumbered, wire>>

NicTransmit ==
    /\ nic # << >>
    /\ wire' = IF packet[Head(nic)] = Foreign THEN wire ELSE Append(wire, packet[Head(nic)])
    /\ cq' = Append(cq, Head(nic))
    /\ nic' = Tail(nic)
    /\ UNCHANGED <<conf, next, fq, rx, reserved, submitted, packet, received_frames,
                   rx_sequence_counter, outstanding_tx, turn, misnumbered>>

---------------------------------------------------------------------------
\* receive_frame over a batch: only frames that pass the checks advance the
\* expected sequence counter, by one more when they do not match.
Expected(frames) ==
    LET after[i \in 0 .. Len(frames)] ==
            IF i = 0 THEN rx_sequence_counter
            ELSE IF packet[frames[i]] = Foreign THEN after[i - 1]
            ELSE after[i - 1] + (IF packet[frames[i]] # after[i - 1] THEN 2 ELSE 1)
    IN  after[Len(frames)]

\* xdp_receive_frames takes up to Batch frames if it can reserve as many slots
\* of the Tx ring; otherwise it gives them back to the Rx ring.
Accepted ==
    LET peeked == IF Len(rx) < Batch THEN Len(rx) ELSE Batch
    IN  IF Len(reserved) + Len(submitted) + peeked <= RingSize THEN peeked ELSE 0

\* Mutant of Stored: the slots of a batch are filled from the last to the first.
StoredReversed(frames) == reserved \o [i \in DOMAIN frames |-> frames[Len(frames) + 1 - i]]

\* The loop of xdp_receive_frames: each frame of the batch gets the next slot.
Stored(frames) == reserved \o frames

\* Mutant of RxTurn: a batch that is not full is not reported to the Tx thread.
RxTurnFullBatches ==
    LET frames == SubSeq(rx, 1, Accepted)
    IN  /\ turn = "rx" \/ Overrun
        /\ reserved' = Stored(frames)
        /\ rx' = SubSeq(rx, Accepted + 1, Len(rx))
        /\ rx_sequence_counter' = Expected(frames)
        /\ received_frames' = IF Accepted = Batch THEN Batch ELSE 0
        /\ turn' = "tx"
        /\ UNCHANGED <<conf, next, fq, submitted, nic, cq, packet, outstanding_tx, misnumbered, wire>>

\* A turn of tc_xdp_rx_thread.
RxTurn ==
    LET frames == SubSeq(rx, 1, Accepted)
    IN  /\ turn = "rx" \/ Overrun
        /\ reserved' = Stored(frames)
        /\ rx' = SubSeq(rx, Accepted + 1, Len(rx))
        /\ rx_sequence_counter' = Expected(frames)
        /\ received_frames' = Accepted
        /\ turn' = "tx"
        /\ UNCHANGED <<conf, next, fq, submitted, nic, cq, packet, outstanding_tx, misnumbered, wire>>

\* xdp_complete_tx with so many frames outstanding: how many frames return from
\* cq to fq.  Nothing returns when fq has no room for all of them.
Recycled(outstanding) ==
    LET received == IF Len(cq) < outstanding THEN Len(cq) ELSE outstanding
    IN  IF Len(fq) + received <= RingSize THEN received ELSE 0

\* Mutant of Released: the entries read from the completion ring stay there.
ReleasedNone(n) == cq

\* The completion ring after n entries are released.
Released(n) == SubSeq(cq, n + 1, Len(cq))

\* Mutant of BatchNumber: the frames of the batch are not subtracted.
BatchNumberNext(received) == rx_sequence_counter

\* The number of the first frame sent, as tc_xdp_tx_thread computes it.
BatchNumber(received) == rx_sequence_counter - received

\* Mutant of Outstanding: completed frames are not subtracted.
OutstandingGrows(outstanding, n) == outstanding

\* xsk->outstanding_tx after n completions.
Outstanding(outstanding, n) == outstanding - n

\* A turn of tc_xdp_tx_thread.
TxTurn ==
    LET received == received_frames
        outstanding == outstanding_tx + received
        n == Recycled(outstanding)
    IN  /\ turn = "tx" \/ Overrun
        /\ submitted' = submitted \o SubSeq(reserved, 1, received)
        /\ reserved' = SubSeq(reserved, received + 1, Len(reserved))
        /\ misnumbered' = (misnumbered \/ (received > 0 /\ packet[Head(reserved)] # BatchNumber(received)))
        /\ received_frames' = 0
        /\ fq' = fq \o SubSeq(cq, 1, n)
        /\ cq' = Released(n)
        /\ outstanding_tx' = Outstanding(outstanding, n)
        /\ turn' = "rx"
        /\ UNCHANGED <<conf, next, rx, nic, packet, rx_sequence_counter, wire>>

---------------------------------------------------------------------------
Kernel == KernelReceive \/ KernelReceiveForeign \/ KernelLose \/ KernelTake \/ NicTransmit

Next == Kernel \/ RxTurn \/ TxTurn

Spec == Init /\ [][Next]_vars

\* Both threads run once per cycle; the kernel and the NIC work on what is
\* submitted.
FairSpec == Spec /\ WF_vars(RxTurn) /\ WF_vars(TxTurn) /\ WF_vars(KernelTake) /\ WF_vars(NicTransmit)

---------------------------------------------------------------------------
\* No umem frame is ever lost or in two places: the six rings partition the
\* frames whatever the two threads, the kernel and the NIC do.  A frame in two
\* rings would be overwritten by a received packet while it is transmitted.
UmemConserved ==
    LET all == fq \o rx \o reserved \o submitted \o nic \o cq
    IN  Len(all) = RingSize /\ \A f \in Frames : \E i \in DOMAIN all : all[i] = f

\* outstanding_tx counts exactly the frames that are submitted and not yet
\* recycled, so that the unsigned subtraction in xdp_complete_tx never wraps.
OutstandingIsExact == outstanding_tx = Len(submitted) + Len(nic) + Len(cq)

\* Packets are sent back in order and none twice.
MirrorsInOrder == \A i, j \in DOMAIN wire : i < j => wire[i] < wire[j]

\* "The XDP receiver stored the frames within the umem area and populated the
\* Tx ring. Now, the Tx ring can be committed to the kernel" (tc.c:517-518): what
\* the Tx thread is about to submit is everything the Rx thread stored.
CommitsWholeTxRing == received_frames = Len(reserved)

\* The sequence number the Tx thread passes to stat_frames_sent_batch,
\* rx_sequence_counter - received, is that of the first frame it submits, as long
\* as the threads take turns and every packet arrives.
BatchNumberedByItsFrames == ~Lossy /\ ~Overrun => ~misnumbered

\* Every packet received is transmitted, and its umem frame completed, as long as
\* the threads take turns; when Rx runs twice, some packets wait in the Tx ring
\* until more are received (tc.c:634).
EveryPacketMirrored ==
    \A f \in Frames : ~Overrun /\ f \in Range(rx) ~> f \in Range(cq)
===========================================================================
