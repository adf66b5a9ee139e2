------------------------- MODULE ConsoleInputProofs -------------------------
(***************************************************************************)
(* Theorems about ConsoleInput, for any keys, bytes, console modes,        *)
(* conversion table and sizes of the rings, a receive error being free to  *)
(* strike anywhere unless a theorem says otherwise.                        *)
(***************************************************************************)
EXTENDS ConsoleInput, RingBufProofs

(***************************************************************************)
(* The inductive invariant.                                                *)
(***************************************************************************)
\* The index to be written is one of its ring; got is that of two rings.
Ranges ==
    /\ DOMAIN got = {"keyboard", "serial"}
    /\ pc = "store" => next \in 0 .. Source.mask

\* Who is taking, and from what.
Course ==
    /\ pc \in {"idle", "keyboard", "serial"} => taker = "CONIN"
    /\ pc \in {"status", "setstatus"} => src = "keyboard"
    /\ (pc \notin {"idle", "keyboard", "serial", "reader"} /\ src = "keyboard")
         => taker = "CONIN"

\* While CONIN tests the ring, keyboard.status may be behind it.
StatusFollows ==
    /\ pc = "setstatus" /\ has => ringbuf_has_data(kb)
    /\ status = 255 =>
         ringbuf_has_data(kb) \/ pc = "status" \/ (pc = "setstatus" /\ ~has)

\* A character promised is one the poll ahead will find.
PromiseKept ==
    /\ ready /\ pc \in {"idle", "keyboard"} => InputWaits
    /\ ready /\ pc = "serial" => iobyte_serial_allowed /\ ringbuf_has_data(sio_b)

\* What an interrupt may change while the main line holds a byte it has not
\* yet taken out: neither the byte nor the tail to write.  The oldest byte of
\* the ring is still there, and what was read of it still true.
Holding(source, rb) ==
    src = source =>
        /\ pc \in {"take", "load", "store"} => ringbuf_has_data(rb)
        /\ pc \in {"load", "store"} => ch = ringbuf_peek(rb)
        /\ pc = "store" => next = NextTail(rb)

IInv == /\ TypeOK /\ Ranges /\ Course /\ Holding("keyboard", kb)
        /\ StatusFollows /\ PromiseKept

\* No receive error strikes while CONIN or READER has its hands on a ring.
CleanTakes == ErrorsAt \cap {"take", "load", "store"} = {}

LEMMA Masks ==
    /\ KB_MASK \in Nat \ {0} /\ SIO_MASK \in Nat \ {0}
    /\ 0 .. KB_MASK \subseteq 0 .. 255 /\ 0 .. SIO_MASK \subseteq 0 .. 255
  <1>1. KB_BUFSZ \in 2 .. 256 /\ SIO_BUFSZ \in 2 .. 256
    BY ConsoleAssumption, Zenon
  <1>2. /\ KB_BUFSZ \in Nat /\ 2 <= KB_BUFSZ /\ KB_BUFSZ <= 256
        /\ SIO_BUFSZ \in Nat /\ 2 <= SIO_BUFSZ /\ SIO_BUFSZ <= 256
    BY ONLY <1>1
  <1> QED
    BY ONLY <1>2 DEF KB_MASK, SIO_MASK

LEMMA Converted ==
    ASSUME NEW who, NEW b \in Key \cup Char
    PROVE  Convert(who, b) \in 0 .. 255 /\ Convert("CONIN", b) \in 0 .. 127
  <1>1. b \in 0 .. 255 /\ inconv[b] \in 0 .. 255
    BY ConsoleAssumption
  <1>2. inconv[b] % 128 \in 0 .. 127
    BY <1>1
  <1> QED
    BY <1>1, <1>2 DEF Convert

\* What the operators of a ring give, for the two rings of the BIOS.
LEMMA KeyRing ==
    ASSUME kb \in Ring(Key, KB_MASK)
    PROVE  /\ kb.mask = KB_MASK /\ ringbuf_peek(kb) \in Key
           /\ NextTail(kb) \in 0 .. KB_MASK
           /\ \A t \in 0 .. KB_MASK : SetTail(kb, t) \in Ring(Key, KB_MASK)
           /\ \A k \in Key : ringbuf_put(kb, k) \in Ring(Key, KB_MASK)
           /\ \A k \in Key : /\ NextTail(ringbuf_put(kb, k)) = NextTail(kb)
                             /\ ringbuf_has_data(ringbuf_put(kb, k))
                             /\ ringbuf_has_data(kb) =>
                                  ringbuf_peek(ringbuf_put(kb, k)) = ringbuf_peek(kb)
  BY Masks, RingTypes, PutLeavesOldest

LEMMA ByteRing ==
    ASSUME sio_b \in Ring(Char, SIO_MASK)
    PROVE  /\ sio_b.mask = SIO_MASK /\ ringbuf_peek(sio_b) \in Char
           /\ NextTail(sio_b) \in 0 .. SIO_MASK
           /\ \A t \in 0 .. SIO_MASK : SetTail(sio_b, t) \in Ring(Char, SIO_MASK)
           /\ \A b \in Char : ringbuf_put(sio_b, b) \in Ring(Char, SIO_MASK)
           /\ \A b \in Char : /\ NextTail(ringbuf_put(sio_b, b)) = NextTail(sio_b)
                              /\ ringbuf_has_data(ringbuf_put(sio_b, b))
                              /\ ringbuf_has_data(sio_b) =>
                                   ringbuf_peek(ringbuf_put(sio_b, b)) = ringbuf_peek(sio_b)
           /\ ringbuf_reset(sio_b) \in Ring(Char, SIO_MASK)
  BY Masks, RingTypes, PutLeavesOldest

\* The ring taken from is one of the two.
LEMMA SourceRing ==
    ASSUME TypeOK
    PROVE  /\ ringbuf_peek(Source) \in Key \cup Char
           /\ NextTail(Source) \in 0 .. Source.mask
           /\ 0 .. Source.mask \subseteq 0 .. 255
  BY KeyRing, ByteRing, Masks DEF TypeOK, Source

LEMMA InitIInv == Init => IInv /\ Holding("serial", sio_b)
  <1> SUFFICES ASSUME Init
               PROVE  IInv /\ Holding("serial", sio_b)
    OBVIOUS
  <1>1. kb \in Ring(Key, KB_MASK) /\ sio_b \in Ring(Char, SIO_MASK)
    <2>1. /\ [i \in 0 .. KB_MASK |-> 0] \in [0 .. KB_MASK -> Key]
          /\ [i \in 0 .. SIO_MASK |-> 0] \in [0 .. SIO_MASK -> Char]
      BY ConsoleAssumption
    <2> QED
      BY <2>1, Masks, Initial DEF Init
  <1>2. /\ 0 \in Key /\ 0 \in 0 .. 255 /\ 0 \in 0 .. 127
        /\ got["keyboard"] = <<"nobody", 0>> /\ got["serial"] = <<"nobody", 0>>
        /\ DOMAIN got = {"keyboard", "serial"}
    <2>1. 0 \in Key
      BY ConsoleAssumption
    <2> QED
      BY <2>1 DEF Init
  <1>3. TypeOK
    BY <1>1, <1>2 DEF Init, TypeOK, PC
  <1> QED
    BY <1>2, <1>3 DEF Init, IInv, Ranges, Course, Holding, StatusFollows,
       PromiseKept

\* Each action keeps the types and who takes what.
LEMMA TypeStep == TypeOK /\ Ranges /\ Course /\ Next => TypeOK' /\ Ranges'
  <1> SUFFICES ASSUME TypeOK, Ranges, Course, Next
               PROVE  TypeOK' /\ Ranges'
    OBVIOUS
  <1> USE DEF rings, locals
  <1>1. ASSUME NEW mode \in Con, SetIobyte(mode)
        PROVE  TypeOK' /\ Ranges'
    BY <1>1 DEF TypeOK, Ranges, Course, PC, SetIobyte
  <1>2. CASE bios_const
    <2>1. ready' \in BOOLEAN
      BY <1>2 DEF bios_const, InputWaits
    <2> QED
      BY <1>2, <2>1 DEF TypeOK, Ranges, Course, PC, bios_const, Source
  <1>3. CASE bios_conin
    BY <1>3 DEF TypeOK, Ranges, Course, PC, bios_conin
  <1>4. CASE bios_reader
    BY <1>4 DEF TypeOK, Ranges, Course, PC, bios_reader
  <1>5. CASE PollKeyboard
    BY <1>5 DEF TypeOK, Ranges, Course, PC, PollKeyboard, TakeFrom
  <1>6. CASE PollSerial
    BY <1>6 DEF TypeOK, Ranges, Course, PC, PollSerial, TakeFrom
  <1>7. CASE PollReader
    BY <1>7 DEF TypeOK, Ranges, Course, PC, PollReader, TakeFrom
  <1>8. CASE TakeByte
    BY <1>8, SourceRing DEF TypeOK, Ranges, Course, PC, TakeByte, Source
  <1>9. CASE LoadTail
    BY <1>9, SourceRing DEF TypeOK, Ranges, Course, PC, LoadTail, Source
  <1>10. CASE StoreTail
    <2>1. CASE src = "keyboard"
      <3>1. next \in 0 .. KB_MASK
        BY <1>10, <2>1, KeyRing DEF TypeOK, Ranges, StoreTail, Source
      <3>2. kb' \in Ring(Key, KB_MASK)
        BY <1>10, <2>1, <3>1, KeyRing DEF TypeOK, StoreTail
      <3> QED
        BY <1>10, <2>1, <3>2 DEF TypeOK, Ranges, Course, PC, StoreTail
    <2>2. CASE src = "serial"
      <3>1. next \in 0 .. SIO_MASK
        BY <1>10, <2>2, ByteRing DEF TypeOK, Ranges, StoreTail, Source
      <3>2. sio_b' \in Ring(Char, SIO_MASK)
        BY <1>10, <2>2, <3>1, ByteRing DEF TypeOK, StoreTail
      <3> QED
        BY <1>10, <2>2, <3>2 DEF TypeOK, Ranges, Course, PC, StoreTail
    <2> QED
      BY <2>1, <2>2 DEF TypeOK
  <1>11. CASE TestStatus
    <2>1. has' \in BOOLEAN
      BY <1>11 DEF TestStatus, KeysLeft, ringbuf_has_data
    <2> QED
      BY <1>11, <2>1 DEF TypeOK, Ranges, Course, PC, TestStatus
  <1>12. CASE SetStatus
    BY <1>12 DEF TypeOK, Ranges, Course, PC, SetStatus
  <1>13. CASE Return
    <2> DEFINE value == <<taker, Convert(taker, ch)>>
    <2>1. /\ value \in {"CONIN", "READER"} \X (0 .. 255)
          /\ src = "keyboard" => value \in {"CONIN"} \X (0 .. 127)
      BY <1>13, Converted DEF TypeOK, Course, Return
    <2>2. got' = [got EXCEPT ![src] = value]
      BY <1>13 DEF Return
    <2> HIDE DEF value
    <2>3. /\ DOMAIN got' = {"keyboard", "serial"}
          /\ got'["keyboard"] \in {"nobody", "CONIN"} \X (0 .. 127)
          /\ got'["serial"] \in {"nobody", "CONIN", "READER"} \X (0 .. 255)
      BY <2>1, <2>2 DEF TypeOK, Ranges
    <2>4. /\ 0 \in Key \cup Char /\ 0 \in 0 .. 255
      BY ConsoleAssumption
    <2> QED
      BY <1>13, <2>3, <2>4 DEF TypeOK, Ranges, Course, PC, Return
  <1>14. ASSUME NEW k \in Key, keyboard_isr(k)
        PROVE  TypeOK' /\ Ranges'
    <2>1. kb' \in Ring(Key, KB_MASK) /\ kb'.mask = kb.mask
      BY <1>14, KeyRing, Masks, RingTypes DEF TypeOK, keyboard_isr
    <2>2. klost' \in BOOLEAN
      BY <1>14 DEF TypeOK, keyboard_isr
    <2>3. status' \in {0, 255}
      BY <1>14 DEF TypeOK, keyboard_isr
    <2>4. Source'.mask = Source.mask
      BY <1>14, <2>1 DEF keyboard_isr, Source
    <2> QED
      BY <1>14, <2>1, <2>2, <2>3, <2>4 DEF TypeOK, Ranges, Course, PC,
         keyboard_isr
  <1>15. ASSUME NEW b \in Char, isr_sio_b_rx(b)
        PROVE  TypeOK' /\ Ranges'
    <2>1. sio_b' \in Ring(Char, SIO_MASK) /\ sio_b'.mask = sio_b.mask
      BY <1>15, ByteRing, Masks, RingTypes DEF TypeOK, isr_sio_b_rx
    <2>2. slost' \in BOOLEAN
      BY <1>15 DEF TypeOK, isr_sio_b_rx
    <2>3. Source'.mask = Source.mask
      BY <1>15, <2>1 DEF isr_sio_b_rx, Source
    <2> QED
      BY <1>15, <2>1, <2>2, <2>3 DEF TypeOK, Ranges, Course, PC, isr_sio_b_rx
  <1>16. CASE isr_sio_b_spec
    <2>1. sio_b' \in Ring(Char, SIO_MASK) /\ sio_b'.mask = sio_b.mask
      BY <1>16, ByteRing, Masks, RingTypes DEF TypeOK, isr_sio_b_spec
    <2>2. Source'.mask = Source.mask
      BY <1>16, <2>1 DEF isr_sio_b_spec, Source
    <2>3. UNCHANGED <<pc, taker, con, kb, status, src, ch, next, has, got,
       klost>>
      BY <1>16 DEF isr_sio_b_spec
    <2>4. ready' \in BOOLEAN /\ slost' \in BOOLEAN
      BY <1>16 DEF isr_sio_b_spec
    <2> QED
      BY <2>1, <2>2, <2>3, <2>4 DEF TypeOK, Ranges, Course, PC
  <1> QED
    BY <1>1, <1>2, <1>3, <1>4, <1>5, <1>6, <1>7, <1>8, <1>9, <1>10, <1>11,
       <1>12, <1>13, <1>14, <1>15, <1>16 DEF Next, MainLine

LEMMA CourseStep == TypeOK /\ Course /\ Next => Course'
  <1> SUFFICES ASSUME TypeOK, Course, Next
               PROVE  Course'
    OBVIOUS
  <1> USE DEF rings, locals
  <1>1. ASSUME NEW mode \in Con, SetIobyte(mode)
        PROVE  Course'
    BY <1>1 DEF TypeOK, Course, SetIobyte
  <1>2. CASE bios_const
    BY <1>2 DEF TypeOK, Course, bios_const
  <1>3. CASE bios_conin
    BY <1>3 DEF TypeOK, Course, bios_conin
  <1>4. CASE bios_reader
    BY <1>4 DEF TypeOK, Course, bios_reader
  <1>5. CASE PollKeyboard
    BY <1>5 DEF TypeOK, Course, PollKeyboard, TakeFrom
  <1>6. CASE PollSerial
    BY <1>6 DEF TypeOK, Course, PollSerial, TakeFrom
  <1>7. CASE PollReader
    BY <1>7 DEF TypeOK, Course, PollReader, TakeFrom
  <1>8. CASE TakeByte
    BY <1>8 DEF TypeOK, Course, TakeByte
  <1>9. CASE LoadTail
    BY <1>9 DEF TypeOK, Course, LoadTail
  <1>10. CASE StoreTail
    BY <1>10 DEF TypeOK, Course, StoreTail
  <1>11. CASE TestStatus
    BY <1>11 DEF TypeOK, Course, TestStatus
  <1>12. CASE SetStatus
    BY <1>12 DEF TypeOK, Course, SetStatus
  <1>13. CASE Return
    BY <1>13 DEF TypeOK, Course, Return
  <1>14. ASSUME NEW k \in Key, keyboard_isr(k)
        PROVE  Course'
    BY <1>14 DEF TypeOK, Course, keyboard_isr
  <1>15. ASSUME NEW b \in Char, isr_sio_b_rx(b)
        PROVE  Course'
    BY <1>15 DEF TypeOK, Course, isr_sio_b_rx
  <1>16. CASE isr_sio_b_spec
    BY <1>16 DEF TypeOK, Course, isr_sio_b_spec
  <1> QED
    BY <1>1, <1>2, <1>3, <1>4, <1>5, <1>6, <1>7, <1>8, <1>9, <1>10, <1>11,
       <1>12, <1>13, <1>14, <1>15, <1>16 DEF Next, MainLine

LEMMA StatusStep == TypeOK /\ StatusFollows /\ Next => StatusFollows'
  <1> SUFFICES ASSUME TypeOK, StatusFollows, Next
               PROVE  StatusFollows'
    OBVIOUS
  <1> USE DEF rings, locals
  <1>1. ASSUME NEW mode \in Con, SetIobyte(mode)
        PROVE  StatusFollows'
    BY <1>1 DEF TypeOK, StatusFollows, SetIobyte
  <1>2. CASE bios_const
    BY <1>2 DEF TypeOK, StatusFollows, bios_const
  <1>3. CASE bios_conin
    BY <1>3 DEF TypeOK, StatusFollows, bios_conin
  <1>4. CASE bios_reader
    BY <1>4 DEF TypeOK, StatusFollows, bios_reader
  <1>5. CASE PollKeyboard
    BY <1>5 DEF TypeOK, StatusFollows, PollKeyboard, TakeFrom
  <1>6. CASE PollSerial
    BY <1>6 DEF TypeOK, StatusFollows, PollSerial, TakeFrom
  <1>7. CASE PollReader
    BY <1>7 DEF TypeOK, StatusFollows, PollReader, TakeFrom
  <1>8. CASE TakeByte
    BY <1>8 DEF TypeOK, StatusFollows, TakeByte
  <1>9. CASE LoadTail
    BY <1>9 DEF TypeOK, StatusFollows, LoadTail
  <1>10. CASE StoreTail
    BY <1>10 DEF TypeOK, StatusFollows, StoreTail
  <1>11. CASE TestStatus
    BY <1>11 DEF TypeOK, StatusFollows, TestStatus, KeysLeft
  <1>12. CASE SetStatus
    BY <1>12 DEF TypeOK, StatusFollows, SetStatus
  <1>13. CASE Return
    BY <1>13 DEF TypeOK, StatusFollows, Return
  <1>14. ASSUME NEW k \in Key, keyboard_isr(k)
        PROVE  StatusFollows'
    BY <1>14, KeyRing DEF TypeOK, StatusFollows, keyboard_isr
  <1>15. ASSUME NEW b \in Char, isr_sio_b_rx(b)
        PROVE  StatusFollows'
    BY <1>15 DEF TypeOK, StatusFollows, isr_sio_b_rx
  <1>16. CASE isr_sio_b_spec
    BY <1>16 DEF TypeOK, StatusFollows, isr_sio_b_spec
  <1> QED
    BY <1>1, <1>2, <1>3, <1>4, <1>5, <1>6, <1>7, <1>8, <1>9, <1>10, <1>11,
       <1>12, <1>13, <1>14, <1>15, <1>16 DEF Next, MainLine

LEMMA PromiseStep == TypeOK /\ PromiseKept /\ Next => PromiseKept'
  <1> SUFFICES ASSUME TypeOK, PromiseKept, Next
               PROVE  PromiseKept'
    OBVIOUS
  <1> USE DEF rings, locals
  <1>1. ASSUME NEW mode \in Con, SetIobyte(mode)
        PROVE  PromiseKept'
    BY <1>1 DEF TypeOK, PromiseKept, InputWaits, iobyte_keyboard_allowed,
       iobyte_serial_allowed, SetIobyte
  <1>2. CASE bios_const
    BY <1>2 DEF TypeOK, PromiseKept, InputWaits, iobyte_keyboard_allowed,
       iobyte_serial_allowed, bios_const
  <1>3. CASE bios_conin
    BY <1>3 DEF TypeOK, PromiseKept, InputWaits, iobyte_keyboard_allowed,
       iobyte_serial_allowed, bios_conin
  <1>4. CASE bios_reader
    BY <1>4 DEF TypeOK, PromiseKept, InputWaits, iobyte_keyboard_allowed,
       iobyte_serial_allowed, bios_reader
  <1>5. CASE PollKeyboard
    BY <1>5 DEF TypeOK, PromiseKept, InputWaits, iobyte_keyboard_allowed,
       iobyte_serial_allowed, PollKeyboard, TakeFrom
  <1>6. CASE PollSerial
    BY <1>6 DEF TypeOK, PromiseKept, InputWaits, iobyte_keyboard_allowed,
       iobyte_serial_allowed, PollSerial, TakeFrom
  <1>7. CASE PollReader
    BY <1>7 DEF TypeOK, PromiseKept, InputWaits, iobyte_keyboard_allowed,
       iobyte_serial_allowed, PollReader, TakeFrom
  <1>8. CASE TakeByte
    BY <1>8 DEF TypeOK, PromiseKept, InputWaits, iobyte_keyboard_allowed,
       iobyte_serial_allowed, TakeByte
  <1>9. CASE LoadTail
    BY <1>9 DEF TypeOK, PromiseKept, InputWaits, iobyte_keyboard_allowed,
       iobyte_serial_allowed, LoadTail
  <1>10. CASE StoreTail
    BY <1>10 DEF TypeOK, PromiseKept, InputWaits, iobyte_keyboard_allowed,
       iobyte_serial_allowed, StoreTail
  <1>11. CASE TestStatus
    BY <1>11 DEF TypeOK, PromiseKept, InputWaits, iobyte_keyboard_allowed,
       iobyte_serial_allowed, TestStatus
  <1>12. CASE SetStatus
    BY <1>12 DEF TypeOK, PromiseKept, InputWaits, iobyte_keyboard_allowed,
       iobyte_serial_allowed, SetStatus
  <1>13. CASE Return
    BY <1>13 DEF TypeOK, PromiseKept, InputWaits, iobyte_keyboard_allowed,
       iobyte_serial_allowed, Return
  <1>14. ASSUME NEW k \in Key, keyboard_isr(k)
        PROVE  PromiseKept'
    BY <1>14, KeyRing DEF TypeOK, PromiseKept, InputWaits,
       iobyte_keyboard_allowed, iobyte_serial_allowed, keyboard_isr
  <1>15. ASSUME NEW b \in Char, isr_sio_b_rx(b)
        PROVE  PromiseKept'
    BY <1>15, ByteRing DEF TypeOK, PromiseKept, InputWaits,
       iobyte_keyboard_allowed, iobyte_serial_allowed, isr_sio_b_rx
  <1>16. CASE isr_sio_b_spec
    BY <1>16 DEF TypeOK, PromiseKept, InputWaits, iobyte_keyboard_allowed,
       iobyte_serial_allowed, isr_sio_b_spec
  <1> QED
    BY <1>1, <1>2, <1>3, <1>4, <1>5, <1>6, <1>7, <1>8, <1>9, <1>10, <1>11,
       <1>12, <1>13, <1>14, <1>15, <1>16 DEF Next, MainLine

LEMMA KeyStep == TypeOK /\ Holding("keyboard", kb) /\ Next => Holding("keyboard", kb)'
  <1> SUFFICES ASSUME TypeOK, Holding("keyboard", kb), Next
               PROVE  Holding("keyboard", kb)'
    OBVIOUS
  <1> USE DEF rings, locals
  <1>1. ASSUME NEW mode \in Con, SetIobyte(mode)
        PROVE  Holding("keyboard", kb)'
    BY <1>1 DEF TypeOK, Holding, SetIobyte
  <1>2. CASE bios_const
    BY <1>2 DEF TypeOK, Holding, bios_const
  <1>3. CASE bios_conin
    BY <1>3 DEF TypeOK, Holding, bios_conin
  <1>4. CASE bios_reader
    BY <1>4 DEF TypeOK, Holding, bios_reader
  <1>5. CASE PollKeyboard
    BY <1>5 DEF TypeOK, Holding, PollKeyboard, TakeFrom
  <1>6. CASE PollSerial
    BY <1>6 DEF TypeOK, Holding, PollSerial, TakeFrom
  <1>7. CASE PollReader
    BY <1>7 DEF TypeOK, Holding, PollReader, TakeFrom
  <1>8. CASE TakeByte
    BY <1>8 DEF TypeOK, Holding, TakeByte, Source
  <1>9. CASE LoadTail
    BY <1>9 DEF TypeOK, Holding, LoadTail, Source
  <1>10. CASE StoreTail
    BY <1>10 DEF TypeOK, Holding, StoreTail
  <1>11. CASE TestStatus
    BY <1>11 DEF TypeOK, Holding, TestStatus
  <1>12. CASE SetStatus
    BY <1>12 DEF TypeOK, Holding, SetStatus
  <1>13. CASE Return
    BY <1>13 DEF TypeOK, Holding, Return
  <1>14. ASSUME NEW k \in Key, keyboard_isr(k)
        PROVE  Holding("keyboard", kb)'
    BY <1>14, KeyRing DEF TypeOK, Holding, keyboard_isr
  <1>15. ASSUME NEW b \in Char, isr_sio_b_rx(b)
        PROVE  Holding("keyboard", kb)'
    BY <1>15 DEF TypeOK, Holding, isr_sio_b_rx
  <1>16. CASE isr_sio_b_spec
    BY <1>16 DEF TypeOK, Holding, isr_sio_b_spec
  <1> QED
    BY <1>1, <1>2, <1>3, <1>4, <1>5, <1>6, <1>7, <1>8, <1>9, <1>10, <1>11,
       <1>12, <1>13, <1>14, <1>15, <1>16 DEF Next, MainLine

LEMMA ByteStep == TypeOK /\ Holding("serial", sio_b) /\ CleanTakes /\ Next => Holding("serial", sio_b)'
  <1> SUFFICES ASSUME TypeOK, Holding("serial", sio_b), CleanTakes, Next
               PROVE  Holding("serial", sio_b)'
    OBVIOUS
  <1> USE DEF rings, locals
  <1>1. ASSUME NEW mode \in Con, SetIobyte(mode)
        PROVE  Holding("serial", sio_b)'
    BY <1>1 DEF TypeOK, Holding, SetIobyte
  <1>2. CASE bios_const
    BY <1>2 DEF TypeOK, Holding, bios_const
  <1>3. CASE bios_conin
    BY <1>3 DEF TypeOK, Holding, bios_conin
  <1>4. CASE bios_reader
    BY <1>4 DEF TypeOK, Holding, bios_reader
  <1>5. CASE PollKeyboard
    BY <1>5 DEF TypeOK, Holding, PollKeyboard, TakeFrom
  <1>6. CASE PollSerial
    BY <1>6 DEF TypeOK, Holding, PollSerial, TakeFrom
  <1>7. CASE PollReader
    BY <1>7 DEF TypeOK, Holding, PollReader, TakeFrom
  <1>8. CASE TakeByte
    BY <1>8 DEF TypeOK, Holding, TakeByte, Source
  <1>9. CASE LoadTail
    BY <1>9 DEF TypeOK, Holding, LoadTail, Source
  <1>10. CASE StoreTail
    BY <1>10 DEF TypeOK, Holding, StoreTail
  <1>11. CASE TestStatus
    BY <1>11 DEF TypeOK, Holding, TestStatus
  <1>12. CASE SetStatus
    BY <1>12 DEF TypeOK, Holding, SetStatus
  <1>13. CASE Return
    BY <1>13 DEF TypeOK, Holding, Return
  <1>14. ASSUME NEW k \in Key, keyboard_isr(k)
        PROVE  Holding("serial", sio_b)'
    BY <1>14 DEF TypeOK, Holding, keyboard_isr
  <1>15. ASSUME NEW b \in Char, isr_sio_b_rx(b)
        PROVE  Holding("serial", sio_b)'
    BY <1>15, ByteRing DEF TypeOK, Holding, isr_sio_b_rx
  <1>16. CASE isr_sio_b_spec
    BY <1>16 DEF TypeOK, Holding, isr_sio_b_spec, CleanTakes
  <1> QED
    BY <1>1, <1>2, <1>3, <1>4, <1>5, <1>6, <1>7, <1>8, <1>9, <1>10, <1>11,
       <1>12, <1>13, <1>14, <1>15, <1>16 DEF Next, MainLine

-----------------------------------------------------------------------------
(***************************************************************************)
(* The rings are queues.                                                   *)
(***************************************************************************)
\* What the taker of a key, of a byte, got last.
KeyGot == IF Taken("keyboard") THEN <<taker, Convert(taker, ch)>> ELSE got["keyboard"]
ByteGot == IF Taken("serial") THEN <<taker, Convert(taker, ch)>> ELSE got["serial"]

KeyQueue == <<Contents(kb), KeyGot, klost>>
LineQueue == <<Contents(sio_b), ByteGot, slost>>

\* Most steps leave the queues alone; what Return stores had been taken before.
Idling == \/ \E mode \in Con : SetIobyte(mode)
          \/ bios_const \/ bios_conin \/ bios_reader \/ PollKeyboard \/ PollSerial
          \/ PollReader \/ TakeByte \/ LoadTail \/ TestStatus \/ SetStatus
          \/ Return

Untouched == UNCHANGED <<kb, klost, sio_b, slost, KeyGot, ByteGot>>

LEMMA IdlingTouchesNothing == Ranges /\ Idling => Untouched
  <1> SUFFICES ASSUME Ranges, Idling
               PROVE  Untouched
    OBVIOUS
  <1> USE DEF rings, locals, Untouched
  <1>1. ASSUME NEW mode \in Con, SetIobyte(mode)
        PROVE  Untouched
    BY <1>1 DEF KeyGot, ByteGot, Taken, SetIobyte
  <1>2. CASE bios_const
    BY <1>2 DEF KeyGot, ByteGot, Taken, bios_const
  <1>3. CASE bios_conin
    BY <1>3 DEF KeyGot, ByteGot, Taken, bios_conin
  <1>4. CASE bios_reader
    BY <1>4 DEF KeyGot, ByteGot, Taken, bios_reader
  <1>5. CASE PollKeyboard
    BY <1>5 DEF KeyGot, ByteGot, Taken, PollKeyboard, TakeFrom
  <1>6. CASE PollSerial
    BY <1>6 DEF KeyGot, ByteGot, Taken, PollSerial, TakeFrom
  <1>7. CASE PollReader
    BY <1>7 DEF KeyGot, ByteGot, Taken, PollReader, TakeFrom
  <1>8. CASE TakeByte
    BY <1>8 DEF KeyGot, ByteGot, Taken, TakeByte
  <1>9. CASE LoadTail
    BY <1>9 DEF KeyGot, ByteGot, Taken, LoadTail
  <1>10. CASE TestStatus
    BY <1>10 DEF KeyGot, ByteGot, Taken, TestStatus
  <1>11. CASE SetStatus
    BY <1>11 DEF KeyGot, ByteGot, Taken, SetStatus
  <1>12. CASE Return
    <2> DEFINE value == <<taker, Convert(taker, ch)>>
    <2>1. /\ pc = "convert" /\ pc' = "idle" /\ got' = [got EXCEPT ![src] = value]
          /\ UNCHANGED rings
      BY <1>12 DEF Return
    <2>2. KeyGot' = got'["keyboard"] /\ ByteGot' = got'["serial"]
      BY <2>1 DEF KeyGot, ByteGot, Taken
    <2>3. /\ KeyGot = IF src = "keyboard" THEN value ELSE got["keyboard"]
          /\ ByteGot = IF src = "serial" THEN value ELSE got["serial"]
      BY <2>1 DEF KeyGot, ByteGot, Taken
    <2> HIDE DEF value
    <2> QED
      BY <2>1, <2>2, <2>3 DEF Ranges
  <1> QED
    BY <1>1, <1>2, <1>3, <1>4, <1>5, <1>6, <1>7, <1>8, <1>9, <1>10, <1>11,
       <1>12 DEF Idling

LEMMA KeysNext ==
    ASSUME TypeOK, Ranges, Course, Holding("keyboard", kb), Next
    PROVE  Keys!Next \/ UNCHANGED KeyQueue
  <1> USE DEF rings, locals
  <1>1. CASE Idling
    BY <1>1, IdlingTouchesNothing DEF Untouched, KeyQueue
  <1>2. CASE StoreTail /\ src = "keyboard"
    <2>1. /\ pc = "store" /\ kb' = SetTail(kb, next) /\ klost' = FALSE
          /\ pc' \in {"status", "convert"} /\ UNCHANGED <<taker, src, ch>>
      BY <1>2 DEF StoreTail
    <2>2. /\ ringbuf_has_data(kb) /\ ch = ringbuf_peek(kb)
          /\ next = NextTail(kb) /\ kb \in Ring(Key, KB_MASK)
      BY <1>2, <2>1 DEF Holding, TypeOK
    <2>3. Contents(kb) # << >> /\ ch = Head(Contents(kb))
      BY <2>2, Masks, EmptyRing, PeekIsHead
    <2>4. Contents(kb)' = Tail(Contents(kb))
      BY <2>1, <2>2, Masks, SetTailTakes
    <2>5. KeyGot' = <<taker, Convert(taker, ch)>>
      BY <1>2, <2>1 DEF KeyGot, Taken, Convert
    <2>6. taker \in {"CONIN"}
      BY <1>2, <2>1 DEF Course, TypeOK
    <2>7. Keys!Take(taker)
      BY <2>1, <2>3, <2>4, <2>5 DEF Keys!Take, KeyGot
    <2> QED
      BY <2>6, <2>7 DEF Keys!Next
  <1>3. CASE StoreTail /\ src = "serial"
    BY <1>3 DEF KeyQueue, KeyGot, Taken, StoreTail
  <1>4. ASSUME NEW k \in Key, keyboard_isr(k)
        PROVE  Keys!Next
    <2>1. UNCHANGED KeyGot
      BY <1>4 DEF KeyGot, Taken, keyboard_isr
    <2>2. kb' = ringbuf_put(kb, k) /\ klost' = (klost \/ kb' = kb)
      BY <1>4 DEF keyboard_isr
    <2>3. CASE kb' # kb
      <3>1. /\ Len(Contents(kb)) < KB_MASK
            /\ Contents(kb)' = Append(Contents(kb), k)
        BY <2>2, <2>3, Masks, QueueSteps DEF TypeOK
      <3>2. klost' = klost
        BY <2>2, <2>3 DEF TypeOK
      <3>3. Keys!Arrive(k)
        BY <2>1, <3>1, <3>2 DEF Keys!Arrive, KeyGot
      <3> QED
        BY <3>3 DEF Keys!Next
    <2>4. CASE kb' = kb
      <3>1. ringbuf_put(kb, k) = kb /\ kb \in Ring(Key, KB_MASK)
        BY <2>2, <2>4 DEF TypeOK
      <3>2. Len(Contents(kb)) = KB_MASK
        BY <1>4, <3>1, Masks, QueueSteps
      <3>3. klost' = TRUE /\ Contents(kb)' = Contents(kb)
        BY <2>2, <2>4
      <3>4. Keys!Drop
        BY <2>1, <3>2, <3>3 DEF Keys!Drop, KeyGot
      <3> QED
        BY <3>4 DEF Keys!Next
    <2> QED
      BY <2>3, <2>4
  <1>5. CASE \E b \in Char : isr_sio_b_rx(b)
    BY <1>5 DEF KeyQueue, KeyGot, Taken, isr_sio_b_rx
  <1>6. CASE isr_sio_b_spec
    BY <1>6 DEF KeyQueue, KeyGot, Taken, isr_sio_b_spec
  <1> QED
    BY <1>1, <1>2, <1>3, <1>4, <1>5, <1>6 DEF Next, MainLine, Idling, TypeOK

LEMMA BytesNext ==
    ASSUME TypeOK, Ranges, Course, Holding("serial", sio_b), Next
    PROVE  Bytes!Next \/ UNCHANGED LineQueue
  <1> USE DEF rings, locals
  <1>1. CASE Idling
    BY <1>1, IdlingTouchesNothing DEF Untouched, LineQueue
  <1>2. CASE StoreTail /\ src = "serial"
    <2>1. /\ pc = "store" /\ sio_b' = SetTail(sio_b, next) /\ slost' = FALSE
          /\ pc' \in {"status", "convert"} /\ UNCHANGED <<taker, src, ch>>
      BY <1>2 DEF StoreTail
    <2>2. /\ ringbuf_has_data(sio_b) /\ ch = ringbuf_peek(sio_b)
          /\ next = NextTail(sio_b) /\ sio_b \in Ring(Char, SIO_MASK)
      BY <1>2, <2>1 DEF Holding, TypeOK
    <2>3. Contents(sio_b) # << >> /\ ch = Head(Contents(sio_b))
      BY <2>2, Masks, EmptyRing, PeekIsHead
    <2>4. Contents(sio_b)' = Tail(Contents(sio_b))
      BY <2>1, <2>2, Masks, SetTailTakes
    <2>5. ByteGot' = <<taker, Convert(taker, ch)>>
      BY <1>2, <2>1 DEF ByteGot, Taken, Convert
    <2>6. taker \in {"CONIN", "READER"}
      BY <1>2, <2>1 DEF Course, TypeOK
    <2>7. Bytes!Take(taker)
      BY <2>1, <2>3, <2>4, <2>5 DEF Bytes!Take, ByteGot
    <2> QED
      BY <2>6, <2>7 DEF Bytes!Next
  <1>3. CASE StoreTail /\ src = "keyboard"
    BY <1>3 DEF LineQueue, ByteGot, Taken, StoreTail
  <1>4. ASSUME NEW b \in Char, isr_sio_b_rx(b)
        PROVE  Bytes!Next
    <2>1. UNCHANGED ByteGot
      BY <1>4 DEF ByteGot, Taken, isr_sio_b_rx
    <2>2. sio_b' = ringbuf_put(sio_b, b) /\ slost' = (slost \/ sio_b' = sio_b)
      BY <1>4 DEF isr_sio_b_rx
    <2>3. CASE sio_b' # sio_b
      <3>1. /\ Len(Contents(sio_b)) < SIO_MASK
            /\ Contents(sio_b)' = Append(Contents(sio_b), b)
        BY <2>2, <2>3, Masks, QueueSteps DEF TypeOK
      <3>2. slost' = slost
        BY <2>2, <2>3 DEF TypeOK
      <3>3. Bytes!Arrive(b)
        BY <2>1, <3>1, <3>2 DEF Bytes!Arrive, ByteGot
      <3> QED
        BY <3>3 DEF Bytes!Next
    <2>4. CASE sio_b' = sio_b
      <3>1. ringbuf_put(sio_b, b) = sio_b /\ sio_b \in Ring(Char, SIO_MASK)
        BY <2>2, <2>4 DEF TypeOK
      <3>2. Len(Contents(sio_b)) = SIO_MASK
        BY <1>4, <3>1, Masks, QueueSteps
      <3>3. slost' = TRUE /\ Contents(sio_b)' = Contents(sio_b)
        BY <2>2, <2>4
      <3>4. Bytes!Drop
        BY <2>1, <3>2, <3>3 DEF Bytes!Drop, ByteGot
      <3> QED
        BY <3>4 DEF Bytes!Next
    <2> QED
      BY <2>3, <2>4
  <1>5. CASE \E k \in Key : keyboard_isr(k)
    BY <1>5 DEF LineQueue, ByteGot, Taken, keyboard_isr
  <1>6. CASE isr_sio_b_spec
    <2>1. UNCHANGED ByteGot
      BY <1>6 DEF ByteGot, Taken, isr_sio_b_spec
    <2>2. Contents(sio_b)' = << >> /\ slost' = FALSE
      BY <1>6, Masks, ResetEmpties DEF TypeOK, isr_sio_b_spec
    <2>3. Bytes!Flush
      BY <2>1, <2>2 DEF Bytes!Flush, ByteGot
    <2> QED
      BY <2>3 DEF Bytes!Next
  <1> QED
    BY <1>1, <1>2, <1>3, <1>4, <1>5, <1>6 DEF Next, MainLine, Idling, TypeOK

-----------------------------------------------------------------------------
(***************************************************************************)
(* The theorems.                                                           *)
(***************************************************************************)
\* The inductive invariant holds, whatever the receive errors do.
THEOREM Invariance == Spec => []IInv
  <1>1. Init => IInv
    BY InitIInv
  <1>2. IInv /\ [Next]_vars => IInv'
    <2>1. IInv /\ Next => IInv'
      BY TypeStep, CourseStep, StatusStep, PromiseStep, KeyStep DEF IInv
    <2>2. IInv /\ UNCHANGED vars => IInv'
      BY DEF IInv, vars, rings, locals, TypeOK, Ranges, Course, Holding,
         StatusFollows,
             PromiseKept, Source, InputWaits, iobyte_keyboard_allowed,
             iobyte_serial_allowed
    <2> QED
      BY <2>1, <2>2
  <1> QED
    BY <1>1, <1>2, PTL DEF Spec

\* The main line, its locals and the two rings stay what they are, for every
\* size of ring an index of a byte can have.
THEOREM TypeCorrect == Spec => []TypeOK
  <1>1. IInv => TypeOK
    BY DEF IInv
  <1> QED
    BY <1>1, Invariance, PTL

\* Between calls keyboard.status is set only if a key waits: the second look
\* CONIN has at the ring, and the interrupt that may come between the look
\* and the store, leave no stale 0xFF behind.
THEOREM StatusCorrect == Spec => []StatusMeansKey
  <1>1. IInv => StatusMeansKey
    BY DEF IInv, StatusFollows, StatusMeansKey
  <1> QED
    BY <1>1, Invariance, PTL

\* What CONST said, CONIN finds: it does not begin its loop again.
THEOREM PromiseCorrect == Spec => ConstPromise
  <1>1. IInv /\ [Next]_vars => [pc = "serial" /\ ready => pc' # "keyboard"]_vars
    <2> SUFFICES ASSUME IInv, Next, pc = "serial", ready
                 PROVE  pc' # "keyboard"
      OBVIOUS
    <2>1. iobyte_serial_allowed /\ ringbuf_has_data(sio_b)
      BY DEF IInv, PromiseKept
    <2> QED
      BY <2>1 DEF Next, MainLine, SetIobyte, bios_const, bios_conin,
         bios_reader, PollKeyboard,
         PollSerial, PollReader, TakeFrom, TakeByte, LoadTail, StoreTail, TestStatus,
         SetStatus, Return, keyboard_isr, isr_sio_b_rx, isr_sio_b_spec
  <1> QED
    BY <1>1, Invariance, PTL DEF Spec, ConstPromise

\* keyboard.ring, with the handler that fills it and CONIN that empties it an
\* access at a time, is the queue LineQueueueue promises.
THEOREM KeysRefinement == Spec => KeysInOrder
  <1>1. Init => Keys!Init
    <2> SUFFICES ASSUME Init
                 PROVE  Keys!Init
      OBVIOUS
    <2>1. Contents(kb) = << >>
      <3>1. [i \in 0 .. KB_MASK |-> 0] \in [0 .. KB_MASK -> Key]
        BY ConsoleAssumption
      <3> QED
        BY <3>1, Masks, Initial DEF Init
    <2>2. ~Taken("keyboard") /\ got["keyboard"] = <<"nobody", 0>> /\ klost =
       FALSE
      BY DEF Init, Taken
    <2> QED
      BY <2>1, <2>2 DEF Keys!Init, Keys!Nobody
  <1>2. IInv /\ [Next]_vars => [Keys!Next]_KeyQueue
    <2>1. IInv /\ Next => Keys!Next \/ UNCHANGED KeyQueue
      BY KeysNext DEF IInv
    <2>2. UNCHANGED vars => UNCHANGED KeyQueue
      BY DEF vars, rings, locals, KeyQueue, KeyGot, Taken
    <2> QED
      BY <2>1, <2>2
  <1>3. [Keys!Next]_KeyQueue
          => [Keys!Next]_<<Contents(kb), IF Taken("keyboard")
                                         THEN <<taker, Convert(taker, ch)>>
                                         ELSE got["keyboard"], klost>>
    BY DEF KeyQueue, KeyGot
  <1> QED
    BY <1>1, <1>2, <1>3, Invariance, PTL DEF Spec, KeysInOrder, Keys!Spec

\* The same of channel B's ring, for CONIN and READER both, provided that no
\* receive error strikes while one of them has read the byte or the tail and
\* has not yet written the tail: then the tail it writes is that of the ring
\* before it was flushed, and bytes come out that had been discarded, which
\* the run ConsoleLineError shows.
THEOREM BytesRefinement == CleanTakes => (Spec => BytesInOrder)
  <1> SUFFICES ASSUME CleanTakes
               PROVE  Spec => BytesInOrder
    OBVIOUS
  <1>1. Init => Bytes!Init
    <2> SUFFICES ASSUME Init
                 PROVE  Bytes!Init
      OBVIOUS
    <2>1. Contents(sio_b) = << >>
      <3>1. [i \in 0 .. SIO_MASK |-> 0] \in [0 .. SIO_MASK -> Char]
        BY ConsoleAssumption
      <3> QED
        BY <3>1, Masks, Initial DEF Init
    <2>2. ~Taken("serial") /\ got["serial"] = <<"nobody", 0>> /\ slost = FALSE
      BY DEF Init, Taken
    <2> QED
      BY <2>1, <2>2 DEF Bytes!Init, Bytes!Nobody
  <1>2. Spec => []Holding("serial", sio_b)
    <2>1. Init => Holding("serial", sio_b)
      BY InitIInv
    <2>2. IInv /\ Holding("serial", sio_b) /\ [Next]_vars =>
       Holding("serial", sio_b)'
      <3>1. IInv /\ Holding("serial", sio_b) /\ Next => Holding("serial", sio_b)'
        BY ByteStep DEF IInv
      <3>2. Holding("serial", sio_b) /\ UNCHANGED vars => Holding("serial",
         sio_b)'
        BY DEF vars, rings, locals, Holding
      <3> QED
        BY <3>1, <3>2
    <2> QED
      BY <2>1, <2>2, Invariance, PTL DEF Spec
  <1>3. IInv /\ Holding("serial", sio_b) /\ [Next]_vars =>
     [Bytes!Next]_LineQueue
    <2>1. IInv /\ Holding("serial", sio_b) /\ Next => Bytes!Next \/ UNCHANGED LineQueue
      BY BytesNext DEF IInv
    <2>2. UNCHANGED vars => UNCHANGED LineQueue
      BY DEF vars, rings, locals, LineQueue, ByteGot, Taken
    <2> QED
      BY <2>1, <2>2
  <1>4. [Bytes!Next]_LineQueue
          => [Bytes!Next]_<<Contents(sio_b), IF Taken("serial")
                                             THEN <<taker, Convert(taker, ch)>>
                                             ELSE got["serial"], slost>>
    BY DEF LineQueue, ByteGot
  <1> QED
    BY <1>1, <1>2, <1>3, <1>4, Invariance, PTL DEF Spec, BytesInOrder,
       Bytes!Spec
=============================================================================
