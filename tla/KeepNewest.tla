---------------------------- MODULE KeepNewest ----------------------------
(***************************************************************************)
(* What ring_buffer.h promises to its callers: a byte queue of bounded     *)
(* capacity that never blocks.  "The policy is drop oldest data first and  *)
(* keep the newest."  An add that cannot fit at all and a fetch of more    *)
(* than the capacity are refused without an error code.                    *)
(*                                                                         *)
(* RingBuffer implements this specification; the components that use a     *)
(* ring buffer (the mirror path) are built on it.                          *)
(***************************************************************************)
EXTENDS Naturals, Sequences

CONSTANTS
    Size,       \* capacity in bytes
    Inputs,     \* the byte strings callers add
    Lengths     \* the lengths callers ask for

VARIABLES
    queue,      \* the bytes held, oldest first
    out,        \* what the last fetch handed to its caller
    call        \* the last call: operation, argument, flag

kvars == <<queue, out, call>>

\* The newest Size bytes of q.
Newest(q) == IF Len(q) > Size THEN SubSeq(q, Len(q) - Size + 1, Len(q)) ELSE q

\* How many bytes a fetch of len bytes from q returns.
Granted(q, len) == IF len > Size THEN 0 ELSE IF len < Len(q) THEN len ELSE Len(q)

Init == queue = << >> /\ out = << >> /\ call = <<"allocate", Size, FALSE>>

Add(s) ==
    /\ queue' = IF Len(s) > Size THEN queue ELSE Newest(queue \o s)
    /\ UNCHANGED out

Fetch(len) ==
    LET n == Granted(queue, len)
    IN  /\ out' = SubSeq(queue, 1, n)
        /\ queue' = SubSeq(queue, n + 1, Len(queue))

\* The call is part of the state, so that an implementation is held to the
\* argument it was given.  The flag tells equal calls in a row apart.
Called(op, arg) == call' = <<op, arg, ~call[3]>>

Next ==
    \/ \E s \in Inputs : Add(s) /\ Called("add", s)
    \/ \E len \in Lengths : Fetch(len) /\ Called("fetch", len)

Spec == Init /\ [][Next]_kvars
===========================================================================
