------------------------------ MODULE ByteQueue ------------------------------
(***************************************************************************)
(* What a buffer between two sides promises: a first-in, first-out queue   *)
(* of Capacity bytes.  A taker gets the byte in its own conversion.  May   *)
(* says how bytes may be lost: by a drop, of a byte that finds the queue   *)
(* full, or by a flush, of all it holds.                                   *)
(***************************************************************************)
EXTENDS Naturals, Sequences

CONSTANTS Byte, Capacity, May, Taker, Conv(_, _)

VARIABLES
    queue,   \* the bytes that arrived and were not taken
    got,     \* who took the last byte, and what it was
    lost     \* a byte has been dropped since one was taken

Nobody == <<"nobody", 0>>

Init == queue = << >> /\ got = Nobody /\ lost = FALSE

Arrive(b) ==
    /\ Len(queue) < Capacity
    /\ queue' = Append(queue, b)
    /\ UNCHANGED <<got, lost>>

Drop ==
    /\ "drop" \in May /\ Len(queue) = Capacity
    /\ lost' = TRUE
    /\ UNCHANGED <<queue, got>>

Flush ==
    /\ "flush" \in May
    /\ queue' = << >> /\ lost' = FALSE
    /\ UNCHANGED got

Take(taker) ==
    /\ queue # << >>
    /\ got' = <<taker, Conv(taker, Head(queue))>>
    /\ queue' = Tail(queue) /\ lost' = FALSE

Next ==
    \/ \E b \in Byte : Arrive(b)
    \/ Drop \/ Flush
    \/ \E taker \in Taker : Take(taker)

Spec == Init /\ [][Next]_<<queue, got, lost>>
=============================================================================
