----------------------------- MODULE ConsoleInput -----------------------------
(***************************************************************************)
(* Console input (main.c): CONST, CONIN and READER in its BAT mode, the    *)
(* ring of keys and the receive ring of serial channel B they read, and    *)
(* the interrupt handlers that fill them (serial.c, on the vectors they    *)
(* are named for).                                                         *)
(*                                                                         *)
(* A handler is atomic, CONIN and READER are taken a memory access at a    *)
(* time.  The IOBYTE is that of the call: CONIN reads the keyboard in CON: *)
(* modes CRT and UC1, channel B in all but CRT.  READER in its UC1 mode    *)
(* takes nothing and returns end of file.                                  *)
(***************************************************************************)
EXTENDS RingBuf

CONSTANTS
    Key,        \* the codes the keyboard sends
    Char,       \* the bytes channel B receives
    KB_BUFSZ, SIO_BUFSZ,
    inconv,     \* the input conversion table
    Con,        \* the CON: modes the caller uses
    ErrorsAt    \* where in CONIN a receive error of channel B may strike

KB_MASK == KB_BUFSZ - 1
SIO_MASK == SIO_BUFSZ - 1

PC == {"idle", "keyboard", "serial", "reader", "take", "load", "store", "status",
       "setstatus", "convert"}

ASSUME ConsoleAssumption ==
    /\ Key \subseteq 0 .. 255 /\ Char \subseteq 0 .. 255 /\ 0 \in Key \cap Char
    /\ KB_BUFSZ \in 2 .. 256 /\ SIO_BUFSZ \in 2 .. 256   \* an index is a byte
    /\ inconv \in [0 .. 255 -> 0 .. 255]
    /\ Con \subseteq {"TTY", "CRT", "BAT", "UC1"}
    /\ ErrorsAt \subseteq PC

VARIABLES
    pc,      \* where the main line is
    taker,   \* the entry point called last
    con,     \* CON: field of the IOBYTE, for this call
    kb,      \* keyboard.ring
    status,  \* keyboard.status
    sio_b,   \* sio_b.rx_ring
    src,     \* the ring it takes from
    ch,      \* its byte
    next,    \* its new tail
    has,     \* its ringbuf_has_data for the status
    got,     \* from each ring, who took the last byte and what it got
    klost, slost,   \* a key, a byte was discarded since one was taken
    ready    \* CONST has said that a character waits

rings  == <<kb, status, sio_b, klost, slost>>
locals == <<src, ch, next, has>>
vars == <<pc, taker, con, rings, locals, got, ready>>

TypeOK ==
    /\ pc \in PC
    /\ taker \in {"CONIN", "READER"} /\ con \in Con
    /\ kb \in Ring(Key, KB_MASK) /\ sio_b \in Ring(Char, SIO_MASK)
    /\ status \in {0, 255}
    /\ src \in {"keyboard", "serial"}
    /\ ch \in Key \cup Char /\ next \in 0 .. 255 /\ has \in BOOLEAN
    /\ got["keyboard"] \in {"nobody", "CONIN"} \X (0 .. 127)
    /\ got["serial"] \in {"nobody", "CONIN", "READER"} \X (0 .. 255)
    /\ klost \in BOOLEAN /\ slost \in BOOLEAN /\ ready \in BOOLEAN

iobyte_keyboard_allowed_Uc1 == con = "UC1"
iobyte_keyboard_allowed == con \in {"CRT", "UC1"}
iobyte_serial_allowed   == con # "CRT"

\* serial_ch_init and keyboard_init
Init ==
    /\ pc = "idle" /\ taker = "CONIN" /\ con \in Con
    /\ kb = ringbuf_init([i \in 0 .. KB_MASK |-> 0], KB_MASK)
    /\ sio_b = ringbuf_init([i \in 0 .. SIO_MASK |-> 0], SIO_MASK)
    /\ status = 0
    /\ src = "keyboard" /\ ch = 0 /\ next = 0 /\ has = FALSE
    /\ got = [source \in {"keyboard", "serial"} |-> <<"nobody", 0>>]
    /\ klost = FALSE /\ slost = FALSE /\ ready = FALSE

(***************************************************************************)
(* CONST and CONIN.                                                        *)
(***************************************************************************)
\* A program may change the IOBYTE between two calls.
SetIobyte(mode) ==
    /\ pc = "idle"
    /\ con' = mode /\ ready' = FALSE
    /\ UNCHANGED <<pc, taker, rings, locals, got>>

InputWaits_AnyMode == ringbuf_has_data(kb) \/ ringbuf_has_data(sio_b)
InputWaits == \/ iobyte_keyboard_allowed /\ ringbuf_has_data(kb)
              \/ iobyte_serial_allowed /\ ringbuf_has_data(sio_b)

bios_const ==
    /\ pc = "idle"
    /\ ready' = InputWaits
    /\ UNCHANGED <<pc, taker, con, rings, locals, got>>

bios_conin ==
    /\ pc = "idle"
    /\ pc' = "keyboard"
    /\ UNCHANGED <<taker, con, rings, locals, got, ready>>

\* In mode BAT.
bios_reader ==
    /\ pc = "idle"
    /\ pc' = "reader" /\ taker' = "READER"
    /\ UNCHANGED <<con, rings, locals, got, ready>>

TakeFrom(source) ==
    pc' = "take" /\ src' = source

PollKeyboard ==
    /\ pc = "keyboard"
    /\ IF iobyte_keyboard_allowed /\ ringbuf_has_data(kb)
       THEN TakeFrom("keyboard") /\ ready' = ready
       ELSE pc' = "serial" /\ UNCHANGED <<src, ready>>
    /\ UNCHANGED <<taker, con, rings, ch, next, has, got>>

\* Nothing in either ring: the loop begins again.
PollSerial ==
    /\ pc = "serial"
    /\ IF iobyte_serial_allowed /\ ringbuf_has_data(sio_b)
       THEN TakeFrom("serial")
       ELSE pc' = "keyboard" /\ src' = src
    /\ UNCHANGED <<taker, con, rings, ch, next, has, got, ready>>

PollReader ==
    /\ pc = "reader" /\ ringbuf_has_data(sio_b)
    /\ TakeFrom("serial")
    /\ UNCHANGED <<taker, con, rings, ch, next, has, got, ready>>

Source == IF src = "keyboard" THEN kb ELSE sio_b

TakeByte ==
    /\ pc = "take"
    /\ pc' = "load" /\ ch' = ringbuf_peek(Source)
    /\ UNCHANGED <<taker, con, rings, src, next, has, got, ready>>

LoadTail ==
    /\ pc = "load"
    /\ pc' = "store" /\ next' = NextTail(Source)
    /\ UNCHANGED <<taker, con, rings, src, ch, has, got, ready>>

StoreTail ==
    /\ pc = "store"
    /\ \/ /\ src = "keyboard" /\ pc' = "status"
          /\ kb' = SetTail(kb, next) /\ klost' = FALSE
          /\ UNCHANGED <<sio_b, slost>>
       \/ /\ src = "serial" /\ pc' = "convert"
          /\ sio_b' = SetTail(sio_b, next) /\ slost' = FALSE
          /\ UNCHANGED <<kb, klost>>
    /\ UNCHANGED <<taker, con, status, locals, got, ready>>

KeysLeft_Ignored(rb) == TRUE
KeysLeft(rb) == ringbuf_has_data(rb)

TestStatus ==
    /\ pc = "status"
    /\ pc' = "setstatus" /\ has' = KeysLeft(kb)
    /\ UNCHANGED <<taker, con, rings, src, ch, next, got, ready>>

SetStatus ==
    /\ pc = "setstatus"
    /\ pc' = "convert" /\ status' = IF has THEN 255 ELSE 0
    /\ UNCHANGED <<taker, con, kb, sio_b, locals, got, klost, slost, ready>>

\* CONIN applies chartab_input, then clears bit 7.
Convert(who, b) == IF who = "CONIN" THEN inconv[b] % 128 ELSE b

\* The locals are gone.
Return ==
    /\ pc = "convert"
    /\ pc' = "idle" /\ got' = [got EXCEPT ![src] = <<taker, Convert(taker, ch)>>]
    /\ ready' = FALSE /\ taker' = "CONIN"
    /\ src' = "keyboard" /\ ch' = 0 /\ next' = 0 /\ has' = FALSE
    /\ UNCHANGED <<con, rings>>

MainLine == PollKeyboard \/ PollSerial \/ PollReader \/ TakeByte \/ LoadTail \/ StoreTail
         \/ TestStatus \/ SetStatus \/ Return

(***************************************************************************)
(* The interrupt handlers.                                                 *)
(***************************************************************************)
keyboard_isr(k) ==
    /\ kb' = ringbuf_put(kb, k)
    /\ status' = IF ringbuf_full(kb) THEN status ELSE 255
    /\ klost' = (klost \/ kb' = kb)
    /\ UNCHANGED <<pc, taker, con, sio_b, locals, got, slost, ready>>

isr_sio_b_rx(b) ==
    /\ sio_b' = ringbuf_put(sio_b, b)
    /\ slost' = (slost \/ sio_b' = sio_b)
    /\ UNCHANGED <<pc, taker, con, kb, status, locals, got, klost, ready>>

\* A parity, framing or overrun error: what is buffered is flushed.
isr_sio_b_spec ==
    /\ pc \in ErrorsAt
    /\ sio_b' = ringbuf_reset(sio_b) /\ slost' = FALSE
    /\ ready' = FALSE
    /\ UNCHANGED <<pc, taker, con, kb, status, locals, got, klost>>

Next ==
    \/ \E mode \in Con : SetIobyte(mode)
    \/ bios_const \/ bios_conin \/ bios_reader \/ MainLine
    \/ \E k \in Key : keyboard_isr(k)
    \/ \E b \in Char : isr_sio_b_rx(b)
    \/ isr_sio_b_spec

\* CONIN and READER run, handlers in between.
Spec == Init /\ [][Next]_vars /\ WF_vars(MainLine)
-----------------------------------------------------------------------------
(***************************************************************************)
(* Properties.                                                             *)
(***************************************************************************)
\* CONIN returns the keys typed, in their order, wherever in CONIN the
\* keyboard interrupts; a key is lost only when KB_MASK keys wait.
Taken(source) == src = source /\ pc \in {"status", "setstatus", "convert"}

Keys == INSTANCE ByteQueue WITH
            Byte <- Key, Capacity <- KB_MASK, May <- {"drop"}, Conv <- Convert,
            Taker <- {"CONIN"}, queue <- Contents(kb), lost <- klost,
            got <- IF Taken("keyboard") THEN <<taker, Convert(taker, ch)>>
                   ELSE got["keyboard"]
KeysInOrder == Keys!Spec

\* The same of the bytes channel B receives, whether CONIN or READER takes
\* them, each in its own form, except that a receive error discards all that
\* is buffered, as the specification of the handler wants.
Bytes == INSTANCE ByteQueue WITH
            Byte <- Char, Capacity <- SIO_MASK, May <- {"drop", "flush"},
            Conv <- Convert, Taker <- {"CONIN", "READER"},
            queue <- Contents(sio_b), lost <- slost,
            got <- IF Taken("serial") THEN <<taker, Convert(taker, ch)>>
                   ELSE got["serial"]
BytesInOrder == Bytes!Spec

\* CONIN does not wait after CONST has said that a character is there.
ConstPromise == [][pc = "serial" /\ ready => pc' # "keyboard"]_vars

\* CONIN returns if a key is there and the console mode has the keyboard.
KeyAnswered ==
    /\ con \in {"CRT", "UC1"} /\ pc \notin {"idle", "reader"}
    /\ ringbuf_has_data(kb)
    ~> pc = "idle"

\* Between calls, keyboard.status is set only if a key waits.
StatusMeansKey == pc = "idle" /\ status = 255 => ringbuf_has_data(kb)

\* What main.c says of the error handler: it flushes the buffer.  Said here
\* of an error that may strike while CONIN takes a byte.
FlushEmpties == BytesInOrder
=============================================================================
