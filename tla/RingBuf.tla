------------------------------- MODULE RingBuf -------------------------------
(***************************************************************************)
(* The ring buffers of ringbuf.c: one for the keys typed, one for the      *)
(* bytes each serial channel received.  An interrupt handler puts, the     *)
(* main line takes.                                                        *)
(*                                                                         *)
(* mask + 1 is a power of two, so "& mask" is "% (mask + 1)", of a         *)
(* negative difference too.  ringbuf_get is not atomic for the main line:  *)
(* it is the three operators ringbuf_peek, NextTail and SetTail, which     *)
(* read the byte, read the tail and write the tail.                        *)
(***************************************************************************)
EXTENDS Integers, Sequences

Ring(Byte, mask) ==
    [buf : [0 .. mask -> Byte], head : 0 .. mask, tail : 0 .. mask, mask : {mask}]

ringbuf_init(storage, mask) ==
    [buf |-> storage, head |-> 0, tail |-> 0, mask |-> mask]

ringbuf_reset_HeadOnly(rb) == [rb EXCEPT !.head = 0]
ringbuf_reset(rb) == [rb EXCEPT !.head = 0, !.tail = 0]

Wrap(i, rb) == i % (rb.mask + 1)

ringbuf_has_data(rb) == rb.head # rb.tail
ringbuf_count(rb)    == Wrap(rb.head - rb.tail, rb)
ringbuf_full(rb)     == Wrap(rb.head + 1, rb) = rb.tail

ringbuf_put_Overwrites(rb, b) ==
    [rb EXCEPT !.buf[rb.head] = b, !.head = Wrap(rb.head + 1, rb)]

\* A byte for which there is no room is discarded.
ringbuf_put(rb, b) ==
    IF ringbuf_full(rb) THEN rb
    ELSE [rb EXCEPT !.buf[rb.head] = b, !.head = Wrap(rb.head + 1, rb)]

ringbuf_peek(rb)    == rb.buf[rb.tail]
NextTail_NoWrap(rb) == rb.tail + 1
NextTail(rb)        == Wrap(rb.tail + 1, rb)
SetTail(rb, next)   == [rb EXCEPT !.tail = next]

\* The bytes in the ring, the oldest first.
Contents(rb) ==
    [i \in 1 .. ringbuf_count(rb) |-> rb.buf[Wrap(rb.tail + i - 1, rb)]]
=============================================================================
