---------------------------- MODULE MirrorPath ----------------------------
(***************************************************************************)
(* One traffic class of the mirror application over an AF_PACKET socket.   *)
(* The Rx thread takes frames from its socket, checks them and stores them *)
(* in the mirror buffer (tc_rx_thread, packet_receive_messages and the     *)
(* receive_frame callbacks).  The Tx thread drains the buffer once per     *)
(* cycle and transmits what it holds (tc_tx_thread and                     *)
(* packet_send_messages).  The threads share the mirror buffer and nothing *)
(* else, and neither waits for the other.                                  *)
(*                                                                         *)
(* A frame is known by the sequence number the reference gave it.  Its     *)
(* bytes are pairs <<sequence number, position>>, so that a property can   *)
(* tell whether FrameLen consecutive bytes are one frame.                  *)
(***************************************************************************)
EXTENDS Integers, Sequences

CONSTANTS
    Configs,        \* the configurations to start from
    MaxFrame,       \* MAX_FRAME_SIZE
    Fpc,            \* conf->num_frames_per_cycle
    SocketLimit,    \* frames the kernel queues on the socket
    MaxSeq          \* bound: the reference sends frames 0 .. MaxSeq - 1

ASSUME MirrorPathAssumption ==
    /\ Configs \subseteq [frame_length : 1 .. MaxFrame, calls_may_fail : BOOLEAN]
    /\ MaxFrame \in Nat /\ Fpc \in Nat \ {0} /\ SocketLimit \in Nat /\ MaxSeq \in Nat

VARIABLES
    conf,           \* frame_length, and whether system calls may fail
    next,           \* next frame of the reference's stream to reach the network
    socket,         \* frames queued on the Rx socket
    stop,           \* ctx->stop
    rx,             \* "loop", "recv", "process" or "done"
    batch,          \* frames of the last recvmmsg not yet processed
    rx_sequence_counter,
    latest,         \* sequence number of the last frame accepted, -1 at first
    mirror_buffer,  \* bytes held by the mirror buffer
    tx,             \* "loop", "send" or "done"
    received_frames,    \* the Tx thread's copy of the fetched bytes
    sent,           \* frames of received_frames already transmitted
    wire,           \* frames transmitted, each as its bytes
    stat            \* the class's statistics counters

netvars == <<next, socket>>
rxvars == <<rx, batch, rx_sequence_counter, latest>>
txvars == <<tx, received_frames, sent, wire>>
vars == <<conf, netvars, stop, rxvars, mirror_buffer, txvars, stat>>

FrameLen == conf.frame_length

\* Whether sendmmsg, recvmmsg and clock_nanosleep may fail.
CallsMayFail == conf.calls_may_fail

\* Mutant of BufferSize: one byte short.
BufferSizeShort == MaxFrame * Fpc - 1

\* The mirror buffer is allocated with room for Fpc frames of maximum size.
BufferSize == MaxFrame * Fpc

\* Queue!Add and Queue!Fetch are ring_buffer_add and ring_buffer_fetch.
Queue == INSTANCE KeepNewest
    WITH Size <- BufferSize, Inputs <- {}, Lengths <- {},
         queue <- mirror_buffer, out <- received_frames, call <- << >>

Bytes(seq) == [k \in 1 .. FrameLen |-> <<seq, k>>]

Init ==
    /\ conf \in Configs
    /\ next = 0 /\ socket = << >> /\ stop = FALSE
    /\ rx = "loop" /\ batch = << >> /\ rx_sequence_counter = 0 /\ latest = -1
    /\ mirror_buffer = << >>
    /\ tx = "loop" /\ received_frames = << >> /\ sent = 0 /\ wire = << >>
    /\ stat = [received |-> 0, out_of_order |-> 0, sent |-> 0]

---------------------------------------------------------------------------
\* Environment: the reference's next frame arrives, or is lost on the way
\* (also because the socket queue is full), and foreign frames arrive too.
NetDeliver ==
    /\ next < MaxSeq /\ Len(socket) < SocketLimit
    /\ next' = next + 1
    /\ socket' = Append(socket, [seq |-> next, valid |-> TRUE])
    /\ UNCHANGED <<conf, stop, rxvars, mirror_buffer, txvars, stat>>

NetLose ==
    /\ next < MaxSeq
    /\ next' = next + 1
    /\ UNCHANGED <<conf, socket, stop, rxvars, mirror_buffer, txvars, stat>>

NetForeign ==
    /\ Len(socket) < SocketLimit
    /\ socket' = Append(socket, [seq |-> 0, valid |-> FALSE])
    /\ UNCHANGED <<conf, next, stop, rxvars, mirror_buffer, txvars, stat>>

\* term_handler sets the stop flag of every thread context.
Stop ==
    /\ ~stop /\ stop' = TRUE
    /\ UNCHANGED <<conf, netvars, rxvars, mirror_buffer, txvars, stat>>

---------------------------------------------------------------------------
\* Mutant of RxWake: the stop flag is not checked.
RxWakeAlways ==
    /\ rx = "loop"
    /\ rx' = "recv"
    /\ UNCHANGED <<conf, netvars, stop, batch, rx_sequence_counter, latest, mirror_buffer, txvars, stat>>

\* Rx thread: next period begins, or the loop ends.
RxWake ==
    /\ rx = "loop"
    /\ rx' = IF stop THEN "done" ELSE "recv"
    /\ UNCHANGED <<conf, netvars, stop, batch, rx_sequence_counter, latest, mirror_buffer, txvars, stat>>

\* recvmmsg returns up to Fpc frames; with nothing queued it fails with
\* EAGAIN and the period's reception is over.
RxRecv ==
    LET n == IF Len(socket) < Fpc THEN Len(socket) ELSE Fpc
    IN  /\ rx = "recv"
        /\ rx' = IF socket = << >> THEN "loop" ELSE "process"
        /\ batch' = SubSeq(socket, 1, n)
        /\ socket' = SubSeq(socket, n + 1, Len(socket))
        /\ UNCHANGED <<conf, next, stop, rx_sequence_counter, latest, mirror_buffer, txvars, stat>>

\* clock_nanosleep fails: the Rx thread returns.
RxSleepError ==
    /\ CallsMayFail /\ rx = "loop" /\ ~stop
    /\ rx' = "done"
    /\ UNCHANGED <<conf, netvars, stop, batch, rx_sequence_counter, latest, mirror_buffer, txvars, stat>>

\* recvmmsg fails for another reason: the frames stay queued until next period.
RxRecvError ==
    /\ CallsMayFail /\ rx = "recv"
    /\ rx' = "loop"
    /\ UNCHANGED <<conf, netvars, stop, batch, rx_sequence_counter, latest, mirror_buffer, txvars, stat>>

\* Where the Rx thread goes after it has processed the head of its batch.
AfterFrame == IF Len(batch) = 1 THEN "recv" ELSE "process"

\* Mutant of Expected: both increments are taken for every frame.
ExpectedTwice(expected, seq) == expected + 2

\* The next expected sequence counter after frame seq: one further, and one
\* more when it did not match.
Expected(expected, seq) == expected + (IF seq # expected THEN 2 ELSE 1)

\* Mutant of StoredLength: the length as received, without the VLAN header.
StoredLengthShort == FrameLen - 1

\* What ring_buffer_add gets as length: the received length plus the VLAN
\* header that was added again.
StoredLength == FrameLen

\* receive_frame for a frame that passes the checks: statistics, sequence
\* counter, and the frame stored for the Tx thread.
RxAccept ==
    LET seq == Head(batch).seq
    IN  /\ rx = "process" /\ Head(batch).valid
        /\ stat' = [stat EXCEPT !.received = @ + 1,
                                !.out_of_order = @ + (IF seq # rx_sequence_counter THEN 1 ELSE 0)]
        /\ rx_sequence_counter' = Expected(rx_sequence_counter, seq)
        /\ latest' = seq
        /\ Queue!Add(SubSeq(Bytes(seq), 1, StoredLength))
        /\ rx' = AfterFrame
        /\ batch' = Tail(batch)
        /\ UNCHANGED <<conf, netvars, stop, tx, sent, wire>>

\* receive_frame for a frame of another protocol or length: ignored.
RxReject ==
    /\ rx = "process" /\ ~Head(batch).valid
    /\ rx' = AfterFrame
    /\ batch' = Tail(batch)
    /\ UNCHANGED <<conf, netvars, stop, rx_sequence_counter, latest, mirror_buffer, txvars, stat>>

---------------------------------------------------------------------------
\* Tx thread: the loop ends at the stop flag or when clock_nanosleep fails ...
TxExit ==
    /\ tx = "loop" /\ (stop \/ CallsMayFail)
    /\ tx' = "done"
    /\ UNCHANGED <<conf, netvars, stop, rxvars, mirror_buffer, received_frames, sent, wire, stat>>

\* Mutant of TxFetch: the bytes are copied but stay in the buffer.
TxFetchKeeps ==
    /\ tx = "loop" /\ ~stop
    /\ received_frames' = mirror_buffer
    /\ tx' = "send" /\ sent' = 0
    /\ UNCHANGED <<conf, netvars, stop, rxvars, mirror_buffer, wire, stat>>

\* Mutant of TxFetch: only a full buffer is fetched.
TxFetchFull ==
    /\ tx = "loop" /\ ~stop /\ Len(mirror_buffer) = BufferSize
    /\ Queue!Fetch(BufferSize)
    /\ tx' = "send" /\ sent' = 0
    /\ UNCHANGED <<conf, netvars, stop, rxvars, wire, stat>>

\* ... or the next cycle begins and fetches everything received so far.
TxFetch ==
    /\ tx = "loop" /\ ~stop
    /\ Queue!Fetch(BufferSize)
    /\ tx' = "send" /\ sent' = 0
    /\ UNCHANGED <<conf, netvars, stop, rxvars, wire, stat>>

num_frames == Len(received_frames) \div FrameLen

\* Frame i (from 0) of the fetched bytes.
FrameAt(i) == SubSeq(received_frames, i * FrameLen + 1, (i + 1) * FrameLen)

\* What is left to send of the current chunk of at most Fpc frames.
ChunkLeft ==
    LET chunk == Fpc - (sent % Fpc)
    IN  IF num_frames - sent < chunk THEN num_frames - sent ELSE chunk

\* sendmmsg transmits some of the frames of the chunk.
TxSend ==
    /\ tx = "send" /\ sent < num_frames
    /\ \E k \in 1 .. ChunkLeft :
          /\ wire' = wire \o [i \in 1 .. k |-> FrameAt(sent + i - 1)]
          /\ sent' = sent + k
    /\ UNCHANGED <<conf, netvars, stop, rxvars, mirror_buffer, tx, received_frames, stat>>

\* Mutant of TxSendError: the frames are counted although sending failed.
TxSendErrorCounts ==
    /\ CallsMayFail /\ tx = "send" /\ sent < num_frames
    /\ stat' = [stat EXCEPT !.sent = @ + num_frames]
    /\ tx' = "loop"
    /\ UNCHANGED <<conf, netvars, stop, rxvars, mirror_buffer, received_frames, sent, wire>>

\* sendmmsg fails: packet_send_messages returns the error at once, and
\* tc_send_frames counts nothing of this cycle.
TxSendError ==
    /\ CallsMayFail /\ tx = "send" /\ sent < num_frames
    /\ tx' = "loop"
    /\ UNCHANGED <<conf, netvars, stop, rxvars, mirror_buffer, received_frames, sent, wire, stat>>

\* All frames are out: tc_send_frames calls stat_frame_sent for each.
TxDone ==
    /\ tx = "send" /\ sent = num_frames
    /\ stat' = [stat EXCEPT !.sent = @ + num_frames]
    /\ tx' = "loop"
    /\ UNCHANGED <<conf, netvars, stop, rxvars, mirror_buffer, received_frames, sent, wire>>

---------------------------------------------------------------------------
Net == NetDeliver \/ NetLose \/ NetForeign
Rx == RxWake \/ RxSleepError \/ RxRecv \/ RxRecvError \/ RxAccept \/ RxReject
Tx == TxExit \/ TxFetch \/ TxSend \/ TxSendError \/ TxDone

\* Both threads have returned and are joined.
Finished == rx = "done" /\ tx = "done" /\ UNCHANGED vars

Next == Net \/ Stop \/ Rx \/ Tx \/ Finished

Spec == Init /\ [][Next]_vars

\* Both threads are driven by clocks and never block on each other.
FairSpec == Spec /\ WF_vars(Rx) /\ WF_vars(Tx)

---------------------------------------------------------------------------
\* The mirror transmits whole frames only, and all that it fetched, if the frame
\* length divides the size of the mirror buffer: the bytes dropped by an
\* overflowing ring_buffer_add and the division in tc_tx_thread, "Len should be a
\* multiple of frame size" (tc.c:422), then agree on where a frame starts.
TransmitsWholeFrames ==
    (MaxFrame * Fpc) % FrameLen = 0 =>
        /\ Len(received_frames) % FrameLen = 0
        /\ \A i \in DOMAIN wire : wire[i] = Bytes(wire[i][1][1])

\* However many bytes were dropped, the newest data is complete: counted from
\* its end the mirror buffer is a sequence of whole frames, every byte at its
\* place, the bytes of one frame and of no other together.  A misaligned buffer
\* is therefore repaired by the next fetch, which empties it.
TailIsWholeFrames ==
    LET fromEnd(i) == Len(mirror_buffer) - i
        frame(i) == fromEnd(i) \div FrameLen
    IN  /\ \A i \in DOMAIN mirror_buffer :
              mirror_buffer[i][2] = FrameLen - (fromEnd(i) % FrameLen)
        /\ \A i, j \in DOMAIN mirror_buffer :
              frame(i) = frame(j) <=> mirror_buffer[i][1] = mirror_buffer[j][1]

\* The mirror sends back in the order of arrival and nothing twice, although
\* Rx stores and Tx fetches interleave freely: sequence numbers of transmitted
\* frames strictly increase.
MirrorsInOrder ==
    \A i, j \in DOMAIN wire : i < j => wire[i][1][1] < wire[j][1][1]

\* FramesSent, "How many frames have been transmitted", never runs ahead of what
\* was transmitted, and is exact between two cycles as long as sendmmsg does not
\* fail (tc_send_frames counts after packet_send_messages returned without error).
SentIsExact ==
    /\ stat.sent <= Len(wire)
    /\ tx # "send" /\ ~CallsMayFail => stat.sent = Len(wire)

\* A lost frame costs at most one OutofOrderErrors: the expected counter of
\* receive_frame never runs ahead of an in-order stream, so that errors are
\* bounded by the gaps in what was accepted.
ErrorsBoundedByLosses ==
    /\ rx_sequence_counter <= latest + 1
    /\ stat.out_of_order <= latest + 1 - stat.received

\* Nothing stays in the mirror buffer: as long as the Tx thread runs, what the
\* Rx thread stored is fetched.
BufferDrains == mirror_buffer # << >> ~> mirror_buffer = << >> \/ tx = "done"

\* Once stopped, both threads leave their loops, provided that frames stop
\* arriving: packet_receive_messages reads until the socket is empty and does
\* not look at the stop flag before that.
StopsOnRequest == <>[][~Net]_vars => (stop ~> rx = "done" /\ tx = "done")
===========================================================================
