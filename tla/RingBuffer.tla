---------------------------- MODULE RingBuffer ----------------------------
(***************************************************************************)
(* The circular byte buffer of ring_buffer.c.  Its users are the mirror    *)
(* buffer between an AF_PACKET or UDP Rx thread and the Tx thread of the   *)
(* same traffic class, and the log.                                        *)
(*                                                                         *)
(* Pointers are offsets from rb->data.  Both operations do all their work  *)
(* on the buffer between pthread_mutex_lock and pthread_mutex_unlock, so   *)
(* each is one step.                                                       *)
(***************************************************************************)
EXTENDS Integers, Sequences

CONSTANTS
    Byte,       \* byte values
    Zero,       \* the byte calloc fills the buffer with
    Size,       \* rb->size
    Inputs,     \* the byte strings callers add; some may exceed Size
    Lengths     \* the lengths callers fetch; some may exceed Size

ASSUME RingBufferAssumption ==
    /\ Size \in Nat \ {0}
    /\ Zero \in Byte
    /\ Inputs \subseteq Seq(Byte)
    /\ Lengths \subseteq Nat

VARIABLES
    data,       \* rb->data, one byte per offset
    rp,         \* offset of rb->rp
    wp,         \* offset of rb->wp
    count,      \* rb->count
    out,        \* the bytes the last fetch copied out; Len(out) is *out_len
    call        \* the last call: operation, argument, flag

rbvars == <<data, rp, wp, count, out>>
vars == <<data, rp, wp, count, out, call>>

Offsets == 0 .. Size - 1

\* ring_buffer_allocate
Init ==
    /\ data = [i \in Offsets |-> Zero]
    /\ rp = 0
    /\ wp = 0
    /\ count = 0
    /\ out = << >>
    /\ call = <<"allocate", Size, FALSE>>

\* memcpy of s to offset at of the buffer
CopyIn(buf, at, s) ==
    [i \in Offsets |-> IF at <= i /\ i < at + Len(s) THEN s[i - at + 1] ELSE buf[i]]

\* memcpy of n bytes from offset at of the buffer
CopyOut(buf, at, n) == [i \in 1 .. n |-> buf[at + i - 1]]

\* Mutant of Rewind: the pointer is not reset.
RewindMissing(p) == p

\* A pointer that has reached the end of the buffer goes back to its start.
Rewind(p) == IF p = Size THEN 0 ELSE p

\* Mutant of Written: the second memcpy starts at the beginning of s again.
WrittenFromStart(s) ==
    LET available == Size - wp
    IN  IF Len(s) <= available
        THEN CopyIn(data, wp, s)
        ELSE CopyIn(CopyIn(data, wp, SubSeq(s, 1, available)),
                    0, SubSeq(s, 1, Len(s) - available))

\* The buffer after s is written at wp, in one piece or around the end.
Written(s) ==
    LET available == Size - wp
    IN  IF Len(s) <= available
        THEN CopyIn(data, wp, s)
        ELSE CopyIn(CopyIn(data, wp, SubSeq(s, 1, available)),
                    0, SubSeq(s, available + 1, Len(s)))

\* A pointer p moved by n <= Size bytes.
Advanced(p, n) ==
    LET available == Size - p
    IN  Rewind(IF n <= available THEN p + n ELSE n - available)

\* n bytes read at rp, in one piece or around the end.
ReadAt(n) ==
    LET available == Size - rp
    IN  IF n <= available
        THEN CopyOut(data, rp, n)
        ELSE CopyOut(data, rp, available) \o CopyOut(data, 0, n - available)

\* Mutant of AddFitting: the read pointer does not follow an overflow.
AddFittingStuck(s) ==
    /\ Len(s) <= Size
    /\ data' = Written(s)
    /\ wp' = Advanced(wp, Len(s))
    /\ count' = IF count + Len(s) > Size THEN Size ELSE count + Len(s)
    /\ UNCHANGED <<rp, out>>

\* ring_buffer_add when the data fits into the buffer
AddFitting(s) ==
    /\ Len(s) <= Size
    /\ data' = Written(s)
    /\ wp' = Advanced(wp, Len(s))
    /\ IF count + Len(s) > Size
       THEN rp' = wp' /\ count' = Size
       ELSE rp' = rp /\ count' = count + Len(s)
    /\ UNCHANGED out

\* ring_buffer_add of more than the buffer holds: silently refused
AddOversized(s) == Len(s) > Size /\ UNCHANGED rbvars

\* ring_buffer_fetch of at most Size bytes from a buffer that is not empty
FetchAvailable(len) ==
    LET real_len == IF len < count THEN len ELSE count
    IN  /\ len <= Size
        /\ count # 0
        /\ out' = ReadAt(real_len)
        /\ rp' = Advanced(rp, real_len)
        /\ count' = count - real_len
        /\ UNCHANGED <<data, wp>>

\* ring_buffer_fetch with *out_len = 0: too much asked for, or nothing there
FetchNothing(len) ==
    /\ len > Size \/ count = 0
    /\ out' = << >>
    /\ UNCHANGED <<data, rp, wp, count>>

\* The call a caller makes, as in KeepNewest.
Called(op, arg) == call' = <<op, arg, ~call[3]>>

Next ==
    \/ \E s \in Inputs : (AddFitting(s) \/ AddOversized(s)) /\ Called("add", s)
    \/ \E len \in Lengths : (FetchAvailable(len) \/ FetchNothing(len)) /\ Called("fetch", len)

Spec == Init /\ [][Next]_vars

---------------------------------------------------------------------------
\* Every pointer stays inside the buffer: rb->rp and rb->wp are always valid
\* to dereference, never one past the end, and count never exceeds the size.
TypeOK ==
    /\ data \in [Offsets -> Byte]
    /\ rp \in Offsets
    /\ wp \in Offsets
    /\ count \in 0 .. Size
    /\ out \in Seq(Byte)

\* p modulo Size for p < 2 * Size
Wrap(p) == IF p >= Size THEN p - Size ELSE p

\* The write pointer is count bytes ahead of the read pointer around the ring.
\* rp, wp and count are updated by separate statements of ring_buffer_add and
\* ring_buffer_fetch; if they disagree the reader returns stale bytes.
PointersAgree == wp = Wrap(rp + count)

\* The bytes held, oldest first: what the next fetches will return.
Content == [i \in 1 .. count |-> data[Wrap(rp + i - 1)]]

\* The buffer implements the drop-oldest queue that ring_buffer.h describes:
\* every add keeps the newest Size bytes, every fetch returns the oldest ones.
Queue == INSTANCE KeepNewest WITH queue <- Content

ImplementsKeepNewest == Queue!Spec
===========================================================================
