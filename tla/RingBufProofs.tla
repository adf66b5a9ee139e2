--------------------------- MODULE RingBufProofs ---------------------------
(***************************************************************************)
(* A ring buffer is a queue, for every size: what ringbuf.c does to its    *)
(* contents, taken an access at a time with interrupts in between.         *)
(***************************************************************************)
EXTENDS RingBuf, SequenceTheorems, TLAPS

(***************************************************************************)
(* Indices.                                                                *)
(***************************************************************************)
LEMMA WrapIs ==
    ASSUME NEW N \in Nat \ {0}, NEW i \in -N .. 2 * N - 1
    PROVE  i % N = IF i < 0 THEN i + N ELSE IF i < N THEN i ELSE i - N
  OBVIOUS

LEMMA NextIndex ==
    ASSUME NEW mask \in Nat, NEW i \in 0 .. mask
    PROVE  (i + 1) % (mask + 1) = IF i = mask THEN 0 ELSE i + 1
  <1> DEFINE N == mask + 1
             j == i + 1
  <1>1. N \in Nat \ {0} /\ j \in -N .. 2 * N - 1 /\ ~(j < 0)
    OBVIOUS
  <1> HIDE DEF N, j
  <1>2. j % N = IF j < N THEN j ELSE j - N
    BY <1>1, WrapIs
  <1> QED
    BY <1>2 DEF N, j

\* The index of the entry that is k places after the tail.
LEMMA SlotIs ==
    ASSUME NEW mask \in Nat, NEW t \in 0 .. mask, NEW k \in 0 .. mask
    PROVE  (t + k) % (mask + 1) = IF t + k <= mask THEN t + k ELSE t + k - (mask + 1)
  <1> DEFINE N == mask + 1
             j == t + k
  <1>1. N \in Nat \ {0} /\ j \in -N .. 2 * N - 1 /\ ~(j < 0)
    OBVIOUS
  <1> HIDE DEF N, j
  <1>2. j % N = IF j < N THEN j ELSE j - N
    BY <1>1, WrapIs
  <1> QED
    BY <1>2 DEF N, j

\* Rings of the two kinds of use: any bytes, any mask.
LEMMA RingFields ==
    ASSUME NEW Byte, NEW mask \in Nat, NEW rb \in Ring(Byte, mask)
    PROVE  /\ rb.buf \in [0 .. mask -> Byte]
           /\ rb.head \in 0 .. mask /\ rb.tail \in 0 .. mask /\ rb.mask = mask
  BY DEF Ring

LEMMA CountIs ==
    ASSUME NEW Byte, NEW mask \in Nat, NEW rb \in Ring(Byte, mask)
    PROVE  /\ ringbuf_count(rb) = IF rb.head < rb.tail
                                  THEN rb.head - rb.tail + mask + 1
                                  ELSE rb.head - rb.tail
           /\ ringbuf_count(rb) \in 0 .. mask
           /\ ringbuf_has_data(rb) <=> ringbuf_count(rb) # 0
  <1>1. rb.head \in 0 .. mask /\ rb.tail \in 0 .. mask /\ rb.mask = mask
    BY RingFields
  <1>2. mask + 1 \in Nat \ {0}
    OBVIOUS
  <1>3. rb.head - rb.tail \in -(mask + 1) .. 2 * (mask + 1) - 1
    BY <1>1
  <1>4. (rb.head - rb.tail) % (mask + 1)
          = IF rb.head < rb.tail THEN rb.head - rb.tail + mask + 1
            ELSE rb.head - rb.tail
    BY <1>1, <1>2, <1>3, WrapIs
  <1> QED
    BY <1>1, <1>4 DEF ringbuf_count, ringbuf_has_data, Wrap

LEMMA FullIs ==
    ASSUME NEW Byte, NEW mask \in Nat, NEW rb \in Ring(Byte, mask)
    PROVE  /\ Wrap(rb.head + 1, rb) = IF rb.head = mask THEN 0 ELSE rb.head + 1
           /\ NextTail(rb) = IF rb.tail = mask THEN 0 ELSE rb.tail + 1
           /\ NextTail(rb) \in 0 .. mask
           /\ ringbuf_full(rb) <=> ringbuf_count(rb) = mask
  <1>1. rb.head \in 0 .. mask /\ rb.tail \in 0 .. mask /\ rb.mask = mask
    BY RingFields
  <1>2. Wrap(rb.head + 1, rb) = IF rb.head = mask THEN 0 ELSE rb.head + 1
    BY <1>1, NextIndex DEF Wrap
  <1>3. NextTail(rb) = IF rb.tail = mask THEN 0 ELSE rb.tail + 1
    BY <1>1, NextIndex DEF Wrap, NextTail
  <1>4. ringbuf_full(rb) <=> ringbuf_count(rb) = mask
    BY <1>1, <1>2, CountIs DEF ringbuf_full
  <1> QED
    BY <1>1, <1>2, <1>3, <1>4

-----------------------------------------------------------------------------
(***************************************************************************)
(* The contents.                                                           *)
(***************************************************************************)
\* The k-th byte waiting is k - 1 places after the tail.
EntryAt(rb, k) == rb.buf[IF rb.tail + k - 1 <= rb.mask THEN rb.tail + k - 1
                    ELSE rb.tail + k - 1 - (rb.mask + 1)]

LEMMA ContentsAre ==
    ASSUME NEW Byte, NEW mask \in Nat, NEW rb \in Ring(Byte, mask)
    PROVE  /\ Contents(rb) \in Seq(Byte)
           /\ Len(Contents(rb)) = ringbuf_count(rb)
           /\ \A k \in 1 .. ringbuf_count(rb) : Contents(rb)[k] = EntryAt(rb, k)
  <1> DEFINE n == ringbuf_count(rb)
             f == [k \in 1 .. n |-> EntryAt(rb, k)]
  <1>1. /\ rb.buf \in [0 .. mask -> Byte]
        /\ rb.head \in 0 .. mask /\ rb.tail \in 0 .. mask /\ rb.mask = mask
    BY RingFields
  <1>2. n \in 0 .. mask
    BY CountIs
  <1>3. \A k \in 1 .. n : rb.buf[Wrap(rb.tail + k - 1, rb)] = EntryAt(rb, k)
    <2> SUFFICES ASSUME NEW k \in 1 .. n
                 PROVE  rb.buf[Wrap(rb.tail + k - 1, rb)] = EntryAt(rb, k)
      OBVIOUS
    <2>1. k - 1 \in 0 .. mask /\ rb.tail + (k - 1) = rb.tail + k - 1
      BY <1>1, <1>2
    <2>2. (rb.tail + (k - 1)) % (mask + 1)
            = IF rb.tail + (k - 1) <= mask THEN rb.tail + (k - 1)
              ELSE rb.tail + (k - 1) - (mask + 1)
      BY <1>1, <2>1, SlotIs
    <2> QED
      BY <1>1, <2>1, <2>2 DEF Wrap, EntryAt
  <1>4. Contents(rb) = f
    BY <1>3 DEF Contents
  <1>5. \A k \in 1 .. n : EntryAt(rb, k) \in Byte
    BY <1>1, <1>2 DEF EntryAt
  <1>6. f \in [1 .. n -> Byte]
    BY <1>5
  <1>7. f \in Seq(Byte) /\ Len(f) = n
    BY <1>2, <1>6
  <1> QED
    BY <1>4, <1>7

\* A ring without data has no contents.
LEMMA EmptyRing ==
    ASSUME NEW Byte, NEW mask \in Nat, NEW rb \in Ring(Byte, mask)
    PROVE  ringbuf_has_data(rb) <=> Contents(rb) # << >>
  BY ContentsAre, CountIs, EmptySeq

LEMMA FullRing ==
    ASSUME NEW Byte, NEW mask \in Nat, NEW rb \in Ring(Byte, mask)
    PROVE  ringbuf_full(rb) <=> Len(Contents(rb)) = mask
  BY ContentsAre, FullIs

\* ringbuf_init and ringbuf_reset leave a ring without contents.
LEMMA Initial ==
    ASSUME NEW Byte, NEW mask \in Nat, NEW storage \in [0 .. mask -> Byte]
    PROVE  /\ ringbuf_init(storage, mask) \in Ring(Byte, mask)
           /\ Contents(ringbuf_init(storage, mask)) = << >>
  <1> DEFINE rb == ringbuf_init(storage, mask)
  <1>1. rb \in Ring(Byte, mask) /\ ~ringbuf_has_data(rb)
    BY DEF ringbuf_init, Ring, ringbuf_has_data
  <1> QED
    BY <1>1, EmptyRing

LEMMA ResetEmpties ==
    ASSUME NEW Byte, NEW mask \in Nat, NEW rb \in Ring(Byte, mask)
    PROVE  /\ ringbuf_reset(rb) \in Ring(Byte, mask)
           /\ Contents(ringbuf_reset(rb)) = << >>
  <1> DEFINE e == ringbuf_reset(rb)
  <1>1. /\ rb.buf \in [0 .. mask -> Byte]
        /\ rb.head \in 0 .. mask /\ rb.tail \in 0 .. mask /\ rb.mask = mask
    BY RingFields
  <1>2. rb = [buf |-> rb.buf, head |-> rb.head, tail |-> rb.tail, mask |-> rb.mask]
    BY DEF Ring
  <1>3. e = [buf |-> rb.buf, head |-> 0, tail |-> 0, mask |-> rb.mask]
    <2> DEFINE first == [rb EXCEPT !.head = 0]
    <2>1. first = [buf |-> rb.buf, head |-> 0, tail |-> rb.tail, mask |-> rb.mask]
      BY <1>2
    <2>2. e = [first EXCEPT !.tail = 0]
      BY DEF ringbuf_reset
    <2> HIDE DEF first
    <2> QED
      BY <2>1, <2>2
  <1>4. e \in Ring(Byte, mask) /\ ~ringbuf_has_data(e)
    BY <1>1, <1>3 DEF Ring, ringbuf_has_data
  <1> QED
    BY <1>4, EmptyRing

\* A put writes where the next byte belongs, and nowhere else.
LEMMA FirstFree ==
    ASSUME NEW mask \in Nat, NEW hd \in 0 .. mask, NEW tl \in 0 .. mask,
           NEW n \in 0 .. mask, n # mask,
           n = IF hd < tl THEN hd - tl + mask + 1 ELSE hd - tl,
           NEW k \in 1 .. n + 1
    PROVE  LET at == IF tl + k - 1 <= mask THEN tl + k - 1
                     ELSE tl + k - 1 - (mask + 1)
           IN  at \in 0 .. mask /\ (at = hd <=> k = n + 1)
  <1>1. CASE hd < tl
    BY <1>1
  <1>2. CASE ~(hd < tl)
    BY <1>2
  <1> QED
    BY <1>1, <1>2

\* A put appends; the tail and the bytes waiting stay where they are.
THEOREM PutAppends ==
    ASSUME NEW Byte, NEW mask \in Nat \ {0}, NEW rb \in Ring(Byte, mask), NEW b \in Byte,
           ~ringbuf_full(rb)
    PROVE  /\ ringbuf_put(rb, b) \in Ring(Byte, mask)
           /\ Contents(ringbuf_put(rb, b)) = Append(Contents(rb), b)
           /\ ringbuf_put(rb, b).tail = rb.tail
           /\ ringbuf_count(ringbuf_put(rb, b)) = ringbuf_count(rb) + 1
           /\ ringbuf_put(rb, b) # rb
  <1> DEFINE n == ringbuf_count(rb)
             h == Wrap(rb.head + 1, rb)
             e == ringbuf_put(rb, b)
  <1>1. /\ rb.buf \in [0 .. mask -> Byte]
        /\ rb.head \in 0 .. mask /\ rb.tail \in 0 .. mask /\ rb.mask = mask
    BY RingFields
  <1>2. n \in 0 .. mask /\ n # mask
        /\ n = IF rb.head < rb.tail THEN rb.head - rb.tail + mask + 1
               ELSE rb.head - rb.tail
    BY CountIs, FullIs
  <1>3. h = (IF rb.head = mask THEN 0 ELSE rb.head + 1) /\ h \in 0 .. mask /\ h # rb.head
    BY <1>1, FullIs
  <1>4. /\ e.buf = [rb.buf EXCEPT ![rb.head] = b] /\ e.head = h
        /\ e.tail = rb.tail /\ e.mask = mask
    BY <1>1 DEF ringbuf_put, Ring
  <1>5. e \in Ring(Byte, mask)
    BY <1>1, <1>3 DEF ringbuf_put, Ring
  <1>6. ringbuf_count(e) = n + 1
    <2>1. ringbuf_count(e) = IF e.head < e.tail THEN e.head - e.tail + mask + 1
                             ELSE e.head - e.tail
      BY <1>5, CountIs
    <2>2. ringbuf_count(e) = IF h < rb.tail THEN h - rb.tail + mask + 1 ELSE h - rb.tail
      BY <1>4, <2>1
    <2> DEFINE hd == rb.head
               tl == rb.tail
    <2>3. /\ hd \in 0 .. mask /\ tl \in 0 .. mask /\ n \in 0 .. mask /\ n # mask
          /\ n = IF hd < tl THEN hd - tl + mask + 1 ELSE hd - tl
          /\ h = IF hd = mask THEN 0 ELSE hd + 1
          /\ ringbuf_count(e) = IF h < tl THEN h - tl + mask + 1 ELSE h - tl
      BY <1>1, <1>2, <1>3, <2>2
    <2> HIDE DEF n, h, e, hd, tl
    <2>4. CASE hd = mask
      BY <2>3, <2>4
    <2>5. CASE hd # mask
      BY <2>3, <2>5
    <2> QED
      BY <2>4, <2>5
  <1>7. e # rb
    BY <1>3, <1>4
  <1>8. ASSUME NEW k \in 1 .. n + 1
        PROVE  EntryAt(e, k) = IF k = n + 1 THEN b ELSE EntryAt(rb, k)
    <2> DEFINE at == IF rb.tail + k - 1 <= mask THEN rb.tail + k - 1
                     ELSE rb.tail + k - 1 - (mask + 1)
    <2>1. at \in 0 .. mask /\ (at = rb.head <=> k = n + 1)
      <3> DEFINE hd == rb.head
                 tl == rb.tail
      <3>1. /\ hd \in 0 .. mask /\ tl \in 0 .. mask /\ n \in 0 .. mask /\ n # mask
            /\ n = IF hd < tl THEN hd - tl + mask + 1 ELSE hd - tl
        BY <1>1, <1>2
      <3>2. at = IF tl + k - 1 <= mask THEN tl + k - 1 ELSE tl + k - 1 - (mask + 1)
        OBVIOUS
      <3> HIDE DEF n, hd, tl, at
      <3>3. at \in 0 .. mask /\ (at = hd <=> k = n + 1)
        BY <3>1, <3>2, FirstFree
      <3> QED
        BY <3>3 DEF hd, tl
    <2>2. EntryAt(e, k) = e.buf[at] /\ EntryAt(rb, k) = rb.buf[at]
      BY <1>1, <1>4 DEF EntryAt
    <2>3. e.buf[at] = IF at = rb.head THEN b ELSE rb.buf[at]
      BY <1>1, <1>4, <2>1
    <2> QED
      BY <2>1, <2>2, <2>3
  <1>9. /\ Contents(e) \in Seq(Byte) /\ Len(Contents(e)) = n + 1
        /\ \A k \in 1 .. n + 1 : Contents(e)[k] = EntryAt(e, k)
    BY <1>5, <1>6, ContentsAre
  <1>10. /\ Contents(rb) \in Seq(Byte) /\ Len(Contents(rb)) = n
         /\ \A k \in 1 .. n : Contents(rb)[k] = EntryAt(rb, k)
    BY ContentsAre
  <1>11. /\ Append(Contents(rb), b) \in Seq(Byte)
         /\ Len(Append(Contents(rb), b)) = n + 1
         /\ \A k \in 1 .. n : Append(Contents(rb), b)[k] = Contents(rb)[k]
         /\ Append(Contents(rb), b)[n + 1] = b
    BY <1>10, AppendProperties
  <1>12. \A k \in 1 .. n + 1 : Contents(e)[k] = Append(Contents(rb), b)[k]
    BY <1>2, <1>8, <1>9, <1>10, <1>11
  <1>13. Contents(e) = Append(Contents(rb), b)
    BY <1>9, <1>11, <1>12, SeqEqual
  <1> QED
    BY <1>4, <1>5, <1>6, <1>7, <1>13

\* A full ring takes nothing.
LEMMA PutDiscards ==
    ASSUME NEW rb, NEW b, ringbuf_full(rb)
    PROVE  ringbuf_put(rb, b) = rb
  BY DEF ringbuf_put

\* The first half of a get: the byte read is the oldest.
LEMMA PeekIsHead ==
    ASSUME NEW Byte, NEW mask \in Nat, NEW rb \in Ring(Byte, mask), ringbuf_has_data(rb)
    PROVE  ringbuf_peek(rb) = Head(Contents(rb)) /\ ringbuf_peek(rb) \in Byte
  <1>1. /\ rb.buf \in [0 .. mask -> Byte]
        /\ rb.head \in 0 .. mask /\ rb.tail \in 0 .. mask /\ rb.mask = mask
    BY RingFields
  <1>2. ringbuf_count(rb) \in 1 .. mask
    BY CountIs
  <1>3. Contents(rb)[1] = EntryAt(rb, 1)
    BY <1>2, ContentsAre
  <1>4. EntryAt(rb, 1) = ringbuf_peek(rb)
    BY <1>1 DEF EntryAt, ringbuf_peek
  <1>5. Head(Contents(rb)) = Contents(rb)[1]
    OBVIOUS
  <1> QED
    BY <1>1, <1>3, <1>4, <1>5 DEF ringbuf_peek

\* The second half: the tail written takes the oldest byte out, and no other.
THEOREM SetTailTakes ==
    ASSUME NEW Byte, NEW mask \in Nat, NEW rb \in Ring(Byte, mask), ringbuf_has_data(rb)
    PROVE  /\ SetTail(rb, NextTail(rb)) \in Ring(Byte, mask)
           /\ Contents(SetTail(rb, NextTail(rb))) = Tail(Contents(rb))
           /\ ringbuf_count(SetTail(rb, NextTail(rb))) = ringbuf_count(rb) - 1
  <1> DEFINE n == ringbuf_count(rb)
             t == NextTail(rb)
             e == SetTail(rb, t)
  <1>1. /\ rb.buf \in [0 .. mask -> Byte]
        /\ rb.head \in 0 .. mask /\ rb.tail \in 0 .. mask /\ rb.mask = mask
    BY RingFields
  <1>2. n \in 1 .. mask
        /\ n = IF rb.head < rb.tail THEN rb.head - rb.tail + mask + 1
               ELSE rb.head - rb.tail
    BY CountIs
  <1>3. t = (IF rb.tail = mask THEN 0 ELSE rb.tail + 1) /\ t \in 0 .. mask
    BY <1>1, FullIs
  <1>4. e.buf = rb.buf /\ e.head = rb.head /\ e.tail = t /\ e.mask = mask
    BY <1>1 DEF SetTail, Ring
  <1>5. e \in Ring(Byte, mask)
    BY <1>1, <1>3 DEF SetTail, Ring
  <1>6. ringbuf_count(e) = n - 1
    BY <1>1, <1>2, <1>3, <1>4, <1>5, CountIs
  <1>7. ASSUME NEW k \in 1 .. n - 1
        PROVE  EntryAt(e, k) = EntryAt(rb, k + 1)
    <2> DEFINE new == IF t + k - 1 <= mask THEN t + k - 1 ELSE t + k - 1 - (mask + 1)
               old == IF rb.tail + (k + 1) - 1 <= mask THEN rb.tail + (k + 1) - 1
                      ELSE rb.tail + (k + 1) - 1 - (mask + 1)
    <2>1. k \in Nat /\ 1 <= k /\ k <= mask - 1
      BY <1>2
    <2>2. new = old
      <3> HIDE DEF t
      <3> QED
        BY <1>1, <1>3, <2>1
    <2>3. EntryAt(e, k) = e.buf[IF e.tail + k - 1 <= e.mask THEN e.tail + k - 1
                                ELSE e.tail + k - 1 - (e.mask + 1)]
      BY DEF EntryAt
    <2>4. EntryAt(e, k) = rb.buf[new]
      BY <1>4, <2>3, Zenon
    <2>5. EntryAt(rb, k + 1) = rb.buf[old]
      BY <1>1 DEF EntryAt
    <2> HIDE DEF e, new, old
    <2> QED
      BY <2>2, <2>4, <2>5
  <1>8. /\ Contents(e) \in Seq(Byte) /\ Len(Contents(e)) = n - 1
        /\ \A k \in 1 .. n - 1 : Contents(e)[k] = EntryAt(e, k)
    BY <1>5, <1>6, ContentsAre
  <1>9. /\ Contents(rb) \in Seq(Byte) /\ Len(Contents(rb)) = n
        /\ \A k \in 1 .. n : Contents(rb)[k] = EntryAt(rb, k)
    BY ContentsAre
  <1>10. Contents(rb) # << >>
    BY <1>2, <1>9, EmptySeq
  <1>11. /\ Tail(Contents(rb)) \in Seq(Byte) /\ Len(Tail(Contents(rb))) = n - 1
         /\ \A k \in 1 .. n - 1 : Tail(Contents(rb))[k] = Contents(rb)[k + 1]
    BY <1>9, <1>10, HeadTailProperties
  <1>12. \A k \in 1 .. n - 1 : Contents(e)[k] = Tail(Contents(rb))[k]
    BY <1>2, <1>7, <1>8, <1>9, <1>11
  <1>13. Contents(e) = Tail(Contents(rb))
    BY <1>8, <1>11, <1>12, SeqEqual
  <1> QED
    BY <1>5, <1>6, <1>13

\* A handler that puts between the two halves disturbs neither.
THEOREM PutLeavesOldest ==
    ASSUME NEW Byte, NEW mask \in Nat \ {0}, NEW rb \in Ring(Byte, mask), NEW b \in Byte
    PROVE  /\ ringbuf_put(rb, b) \in Ring(Byte, mask)
           /\ NextTail(ringbuf_put(rb, b)) = NextTail(rb)
           /\ ringbuf_has_data(ringbuf_put(rb, b))
           /\ ringbuf_has_data(rb) => ringbuf_peek(ringbuf_put(rb, b)) = ringbuf_peek(rb)
  <1> DEFINE e == ringbuf_put(rb, b)
  <1>1. /\ rb.buf \in [0 .. mask -> Byte]
        /\ rb.head \in 0 .. mask /\ rb.tail \in 0 .. mask /\ rb.mask = mask
    BY RingFields
  <1>2. CASE ringbuf_full(rb)
    <2>1. e = rb /\ ringbuf_has_data(rb)
      BY <1>2, PutDiscards, CountIs, FullIs
    <2> QED
      BY <2>1
  <1>3. CASE ~ringbuf_full(rb)
    <2>1. /\ e.buf = [rb.buf EXCEPT ![rb.head] = b]
          /\ e.tail = rb.tail /\ e.mask = rb.mask
      BY <1>1, <1>3 DEF ringbuf_put, Ring
    <2>2. e \in Ring(Byte, mask) /\ ringbuf_count(e) = ringbuf_count(rb) + 1
      BY <1>3, PutAppends
    <2>3. ringbuf_has_data(e)
      BY <2>2, CountIs
    <2>4. ringbuf_has_data(rb) => e.buf[rb.tail] = rb.buf[rb.tail]
      BY <1>1, <2>1 DEF ringbuf_has_data
    <2> QED
      BY <2>1, <2>2, <2>3, <2>4 DEF NextTail, Wrap, ringbuf_peek
  <1> QED
    BY <1>2, <1>3

\* Whatever is read or written, with or without data: the ring stays a ring.
LEMMA RingTypes ==
    ASSUME NEW Byte, NEW mask \in Nat \ {0}, NEW rb \in Ring(Byte, mask)
    PROVE  /\ rb.mask = mask
           /\ ringbuf_peek(rb) \in Byte
           /\ NextTail(rb) \in 0 .. mask
           /\ \A t \in 0 .. mask : SetTail(rb, t) \in Ring(Byte, mask)
           /\ \A b \in Byte : ringbuf_put(rb, b) \in Ring(Byte, mask)
           /\ ringbuf_reset(rb) \in Ring(Byte, mask)
  <1>1. /\ rb.buf \in [0 .. mask -> Byte]
        /\ rb.head \in 0 .. mask /\ rb.tail \in 0 .. mask /\ rb.mask = mask
    BY RingFields
  <1>2. ringbuf_peek(rb) \in Byte
    BY <1>1 DEF ringbuf_peek
  <1>3. NextTail(rb) \in 0 .. mask
    BY FullIs
  <1>4. \A t \in 0 .. mask : SetTail(rb, t) \in Ring(Byte, mask)
    BY <1>1 DEF SetTail, Ring
  <1>5. \A b \in Byte : ringbuf_put(rb, b) \in Ring(Byte, mask)
    BY PutLeavesOldest
  <1> QED
    BY <1>1, <1>2, <1>3, <1>4, <1>5, ResetEmpties

\* What a step of a queue needs: the ring, and what it holds.
LEMMA QueueSteps ==
    ASSUME NEW Byte, NEW mask \in Nat \ {0}, NEW rb \in Ring(Byte, mask), NEW b \in Byte
    PROVE  /\ ringbuf_put(rb, b) # rb => Len(Contents(rb)) < mask
                                        /\ Contents(ringbuf_put(rb, b)) = Append(Contents(rb), b)
           /\ ringbuf_put(rb, b) = rb => Len(Contents(rb)) = mask
  <1>1. CASE ringbuf_full(rb)
    BY <1>1, PutDiscards, FullRing
  <1>2. CASE ~ringbuf_full(rb)
    <2>1. Len(Contents(rb)) # mask /\ Len(Contents(rb)) \in 0 .. mask
      BY <1>2, FullRing, ContentsAre, CountIs
    <2> QED
      BY <1>2, <2>1, PutAppends
  <1> QED
    BY <1>1, <1>2
=============================================================================
