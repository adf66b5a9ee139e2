---------------------------------- MODULE Sio ---------------------------------
(***************************************************************************)
(* The serial channels A and B: the driver (serial.c), its interrupt       *)
(* handlers and the entry points READER, PUNCH, LIST and LISTST (main.c)   *)
(* as the IOBYTE routes them, with the control ports of the Z80-SIO and    *)
(* the devices at the other end of the lines.  What channel B receives,    *)
(* and READER in the modes that do not take from channel A, are in         *)
(* ConsoleInput.                                                           *)
(*                                                                         *)
(* A handler, and the part of serial_send under hal_di, are atomic; READER *)
(* is taken a memory or port access at a time.  An interrupt runs the      *)
(* handler in the slot of the vector the SIO gives.                        *)
(*                                                                         *)
(* A session says what the program does.  "in": READER only.  "duplex":    *)
(* READER and PUNCH on A.  "printer": output on A, "terminal": output on   *)
(* B, "shared": output on both, and in these three A receives nothing but  *)
(* errors.  Status and error interrupts of A come in every session, and in *)
(* the last three all those of B too, what it receives included.           *)
(***************************************************************************)
EXTENDS RingBuf, SioPort, Config

CONSTANTS
    Byte,             \* the bytes received and sent
    Iobyte,           \* the values programs give the IOBYTE
    SIO_BUFSZ,        \* size of the receive ring
    SIO_A_HIGHWATER,  \* RTS drops when that many bytes are buffered
    Lag,              \* bytes the device may still send once RTS is off
    Session           \* the sessions followed

SIO_MASK == SIO_BUFSZ - 1

ASSUME SioAssumption ==
    /\ Byte \subseteq 0 .. 255 /\ 0 \in Byte /\ Iobyte \subseteq 0 .. 255
    /\ SIO_BUFSZ \in Nat /\ SIO_A_HIGHWATER \in Nat /\ Lag \in Nat
    /\ 1 < SIO_A_HIGHWATER /\ SIO_A_HIGHWATER + Lag + 1 < SIO_BUFSZ
    /\ Session \subseteq {"in", "duplex", "printer", "terminal", "shared"}

Channel == {"A", "B"}

VARIABLES
    session,
    iobyte_val,
    pc,        \* where the main line is
    rx_ring,   \* sio_a.rx_ring
    tx_ready,  \* of each channel: 0 busy, 255 ready
    sio,       \* the two channels of the chip
    full,      \* the channels whose transmitter holds a byte
    call,      \* the LIST or PUNCH in progress, and its channel
    announced, \* LISTST has said that the printer is ready
    late,      \* bytes received since RTS went off
    ch, next,  \* READER's byte, and the new tail
    got,       \* what READER returned last
    lost,      \* a byte was discarded since one was taken
    forced,    \* since the ring was empty, an output has raised RTS
    struck,    \* history: READER was interrupted between its two writes
               \* of WR5 by a handler that writes to the same port
    misled     \* history: an interrupt has run a handler not its own

received == <<late, ch, next, got, lost>>
reader == <<received, forced>>
setting == <<session, iobyte_val>>
request == <<call, announced>>
history == <<struck, misled>>
vars == <<setting, pc, rx_ring, tx_ready, sio, full, request, reader, history>>

wr5 == wr5_base(confi_defaults)  \* bits a character, of each channel
WR5_DTR_RTS_TX_NoRts == 136
WR5_DTR_RTS_TX == 138            \* DTR, RTS, transmitter enabled
WR5_DTR_TX     == 136

Nothing == [to |-> "none", list |-> FALSE]

TypeOK ==
    /\ session \in Session /\ iobyte_val \in 0 .. 255
    /\ pc \in {"idle", "poll", "take", "load", "store", "check", "select",
               "set", "ready", "send"}
    /\ rx_ring \in Ring(Byte, SIO_MASK)
    /\ tx_ready \in [Channel -> {0, 255}]
    /\ DOMAIN sio = Channel /\ \A c \in Channel : sio[c] \in PortType(c)
    /\ full \subseteq Channel
    /\ call \in [to : Channel, list : BOOLEAN] \cup {Nothing}
    /\ announced \in BOOLEAN
    /\ late \in 0 .. Lag
    /\ ch \in Byte /\ next \in 0 .. SIO_MASK
    /\ {lost, forced, struck, misled} \subseteq BOOLEAN

\* The channels a session sends on.
Sends == CASE session = "in" -> {}
           [] session \in {"duplex", "printer"} -> {"A"}
           [] session = "terminal" -> {"B"} [] session = "shared" -> Channel

\* The bytes that may come next.  Data is never looked at, so one byte unlike
\* the others in the ring at a time shows their order; where both directions
\* are used they are all alike.
Bytes ==
    IF session = "in" /\ \A i \in 0 .. SIO_MASK : rx_ring.buf[i] = 0
    THEN Byte ELSE {0}

\* The channels whose interrupts are followed.  Nothing READER and PUNCH use
\* can be touched by the handlers of B as long as nothing is sent on B.
Followed == IF session \in {"in", "duplex"} THEN {"A"} ELSE Channel

\* The chip is initialised from the default block.  Nothing in the BIOS says
\* whether a transmit interrupt is pending then.
Started ==
    [A |-> hw_init_sio("A", Part(confi_defaults, CONFI_SIO_A_START, 9)),
     B |-> hw_init_sio("B", Part(confi_defaults, CONFI_SIO_B_START, 11))]

Init ==
    /\ session \in Session /\ iobyte_val = 149
    /\ pc = "idle" /\ tx_ready = [c \in Channel |-> 0] /\ late = 0
    /\ rx_ring = ringbuf_init([i \in 0 .. SIO_MASK |-> 0], SIO_MASK)
    /\ \E idle \in SUBSET Followed :
          sio = [c \in Channel |-> [Started[c] EXCEPT
                    !.ip = IF c \in idle THEN {"tx"} ELSE {}]]
    /\ full = {} /\ call = Nothing /\ announced = FALSE
    /\ ch = 0 /\ next = 0 /\ got = <<"nobody", 0>>
    /\ lost = FALSE /\ forced = FALSE
    /\ struck = FALSE /\ misled = FALSE

(***************************************************************************)
(* The IOBYTE and its fields.                                              *)
(***************************************************************************)
iobyte_rdr_mode == (iobyte_val \div 4) % 4
iobyte_pun_mode == (iobyte_val \div 16) % 4
iobyte_lst_mode == iobyte_val \div 64

ListTo  == <<"B", "crt", "A", "none">>[iobyte_lst_mode + 1]
PunchTo == <<"A", "A", "B", "none">>[iobyte_pun_mode + 1]

bios_set_iobyte(value) ==
    /\ pc = "idle" /\ session \in {"printer", "terminal", "shared"}
    /\ iobyte_val' = value /\ announced' = FALSE
    /\ UNCHANGED <<session, history, pc, rx_ring, tx_ready, sio, full, call,
                   reader>>

(***************************************************************************)
(* READER from channel A.                                                  *)
(***************************************************************************)
bios_reader ==
    /\ pc = "idle" /\ session \in {"in", "duplex"}
    /\ iobyte_rdr_mode \in {0, 1}
    /\ pc' = "poll"
    /\ UNCHANGED <<setting, history, rx_ring, tx_ready, sio, full, request,
                   reader>>

Poll ==
    /\ pc = "poll" /\ ringbuf_has_data(rx_ring)
    /\ pc' = "take"
    /\ UNCHANGED <<setting, history, rx_ring, tx_ready, sio, full, request,
                   reader>>

\* serial_receive, that is ringbuf_get.
TakeByte ==
    /\ pc = "take"
    /\ pc' = "load" /\ ch' = ringbuf_peek(rx_ring)
    /\ UNCHANGED <<setting, history, rx_ring, tx_ready, sio, full, request,
                   late, next, got, lost, forced>>

LoadTail ==
    /\ pc = "load"
    /\ pc' = "store" /\ next' = NextTail(rx_ring)
    /\ UNCHANGED <<setting, history, rx_ring, tx_ready, sio, full, request,
                   late, ch, got, lost, forced>>

StoreTail ==
    /\ pc = "store"
    /\ pc' = "check" /\ rx_ring' = SetTail(rx_ring, next)
    /\ lost' = FALSE /\ forced' = (forced /\ ringbuf_has_data(rx_ring'))
    /\ UNCHANGED <<setting, history, tx_ready, sio, full, request, late, ch,
                   next, got>>

\* serial_a_reassert_rts, with interrupts enabled.
Drained_Never(rb) == FALSE
Drained(rb) == ~ringbuf_has_data(rb)

CheckDrained ==
    /\ pc = "check"
    /\ IF Drained(rx_ring) THEN pc' = "select" /\ got' = got
                           ELSE pc' = "idle" /\ got' = <<"READER", ch>>
    /\ UNCHANGED <<setting, history, rx_ring, tx_ready, sio, full, request,
                   late, ch, next, lost, forced>>

\* The device counts anew once RTS is on.
LateNow == IF Rts(sio'["A"]) THEN 0 ELSE late

SelectWR5 ==
    /\ pc = "select"
    /\ pc' = "set" /\ sio' = [sio EXCEPT !["A"] = Out(@, 5)]
    /\ UNCHANGED <<setting, history, rx_ring, tx_ready, full, request, reader>>

RaiseRts ==
    /\ pc = "set"
    /\ pc' = "idle" /\ got' = <<"READER", ch>>
    /\ sio' = [sio EXCEPT !["A"] = Out(@, wr5["A"] + WR5_DTR_RTS_TX)]
    /\ late' = LateNow
    /\ UNCHANGED <<setting, history, rx_ring, tx_ready, full, request, ch,
                   next, lost, forced>>

Reader == Poll \/ TakeByte \/ LoadTail \/ StoreTail \/ CheckDrained
          \/ SelectWR5 \/ RaiseRts

(***************************************************************************)
(* PUNCH and LIST: serial_send, which gives up after 255 polls of the      *)
(* ready flag.  LISTST.                                                    *)
(***************************************************************************)
Output(to, list) ==
    /\ pc = "idle"
    /\ to \in Sends
    /\ pc' = "ready" /\ call' = [to |-> to, list |-> list]
    /\ UNCHANGED <<setting, history, rx_ring, tx_ready, sio, full, announced,
                   reader>>

bios_punch == Output(PunchTo, FALSE)
bios_list  == Output(ListTo, TRUE)

\* What LISTST returns.
bios_listst ==
    CASE ListTo \in Channel -> tx_ready[ListTo]
      [] ListTo = "crt" -> 255 [] ListTo = "none" -> 0

AskStatus ==
    /\ pc = "idle" /\ Sends # {}
    /\ announced' = (bios_listst = 255)
    /\ UNCHANGED <<setting, history, pc, rx_ring, tx_ready, sio, full, call,
                   reader>>

PollTx ==
    /\ pc = "ready"
    /\ IF tx_ready[call.to] = 0
       THEN pc' = "idle" /\ call' = Nothing /\ announced' = FALSE
       ELSE pc' = "send" /\ UNCHANGED <<request>>
    /\ UNCHANGED <<setting, history, rx_ring, tx_ready, sio, full, reader>>

Busy_NotCleared(flag) == flag
Busy(flag) == 0

Programmed_NoRegister5(c, s) == OutReg(s, 1, 27)
Programmed(c, s) == OutReg(OutReg(s, 5, wr5[c] + WR5_DTR_RTS_TX), 1, 27)

\* A byte written to the transmitter clears its interrupt.
SendByte ==
    LET c == call.to
    IN  /\ pc = "send"
        /\ tx_ready' = [tx_ready EXCEPT ![c] = Busy(@)]
        /\ sio' = [sio EXCEPT ![c] =
                      [Programmed(c, sio[c]) EXCEPT !.ip = @ \ {"tx"}]]
        /\ full' = full \cup {c} /\ late' = LateNow
        /\ forced' = (forced \/ (c = "A" /\ ringbuf_has_data(rx_ring)))
        /\ pc' = "idle" /\ call' = Nothing /\ announced' = FALSE
        /\ UNCHANGED <<setting, history, rx_ring, ch, next, got, lost>>

(***************************************************************************)
(* The interrupt handlers.                                                 *)
(***************************************************************************)
\* serial_a_check_rts
DropRts_AtFull(rb, s) ==
    IF ringbuf_full(rb) THEN OutReg(s, 5, wr5["A"] + WR5_DTR_TX) ELSE s

DropRts(rb, s) ==
    IF ringbuf_count(rb) >= SIO_A_HIGHWATER
    THEN OutReg(s, 5, wr5["A"] + WR5_DTR_TX) ELSE s

\* A byte arrives and is stored.  The device stops at most Lag bytes after
\* RTS went off.  At 38400 baud far fewer bytes than the high-water mark
\* arrive between two instructions of READER.
InTime ==
    pc \in {"select", "set"} => ringbuf_count(rx_ring) < SIO_A_HIGHWATER - 1

isr_sio_a_rx(b) ==
    /\ session \in {"in", "duplex"} /\ InTime
    /\ Receives(sio["A"])
    /\ Vector(sio["B"], <<"A", "rx">>) = VectorEntry(<<"A", "rx">>)
    /\ Rts(sio["A"]) \/ late < Lag
    /\ late' = IF Rts(sio["A"]) THEN 0 ELSE late + 1
    /\ rx_ring' = ringbuf_put(rx_ring, b)
    /\ lost' = (lost \/ rx_ring' = rx_ring)
    /\ sio' = [sio EXCEPT !["A"] = DropRts(rx_ring', @)]
    /\ UNCHANGED <<setting, history, pc, tx_ready, full, request, ch, next,
                   got, forced>>

isr_sio_tx(c) ==
    /\ sio' = [sio EXCEPT ![c] = Out(@, 40)]
    /\ tx_ready' = [tx_ready EXCEPT ![c] = 255]

isr_sio_ext_Busy(c) ==
    /\ sio' = [sio EXCEPT ![c] = Out(InPort(@), 16)]
    /\ tx_ready' = [tx_ready EXCEPT ![c] = 0]

isr_sio_ext(c) ==
    /\ sio' = [sio EXCEPT ![c] = Out(InPort(@), 16)]
    /\ tx_ready' = tx_ready

ErrorRead_Skipped(s) == s
ErrorRead(s) == InPort(s)

\* That of channel B also flushes the receive ring of channel B.
isr_sio_spec(c) ==
    /\ sio' = [sio EXCEPT ![c] = Out(ErrorRead(Out(@, 1)), 48)]
    /\ tx_ready' = tx_ready

\* The byte goes to the ring of channel B; reading it ends the interrupt.
isr_sio_b_rx ==
    /\ sio' = [sio EXCEPT !["B"].ip = @ \ {"rx"}]
    /\ tx_ready' = tx_ready

Handler(h) ==
    \/ h[2] = "tx" /\ isr_sio_tx(h[1])
    \/ h[2] = "ext" /\ isr_sio_ext(h[1])
    \/ h[2] = "special" /\ isr_sio_spec(h[1])
    \/ h = <<"B", "rx">> /\ isr_sio_b_rx

Serve(i) ==
    /\ i[2] \in sio[i[1]].ip
    /\ \E h \in Interrupt :
          /\ VectorEntry(h) = Vector(sio["B"], i)
          /\ Handler(h)
          /\ struck' = (struck \/ (pc = "set" /\ h[1] = "A"))
          /\ misled' = (misled \/ h # i)
    /\ UNCHANGED <<setting, pc, rx_ring, full, request, reader>>

(***************************************************************************)
(* The chip and the lines.                                                 *)
(***************************************************************************)
Transmit(c) ==
    /\ c \in full /\ TxEnabled(sio[c])
    /\ full' = full \ {c}
    /\ sio' = [sio EXCEPT ![c].ip = @ \cup
                   IF Interrupts(sio[c], "tx") THEN {"tx"} ELSE {}]
    /\ UNCHANGED <<setting, history, pc, rx_ring, tx_ready, request, reader>>

\* A modem line changes, a byte is received with an error, or channel B
\* receives a byte.
LineEvent(i) ==
    /\ i[1] \in Followed /\ i[2] # "tx" /\ i # <<"A", "rx">>
    /\ Interrupts(sio[i[1]], i[2])
    /\ sio' = [sio EXCEPT ![i[1]].ip = @ \cup {i[2]}]
    /\ UNCHANGED <<setting, history, pc, rx_ring, tx_ready, full, request,
                   reader>>

Next ==
    \/ \E value \in Iobyte : bios_set_iobyte(value)
    \/ bios_reader \/ Reader
    \/ bios_punch \/ bios_list
    \/ AskStatus \/ PollTx \/ SendByte
    \/ \E b \in Bytes : isr_sio_a_rx(b)
    \/ \E i \in Interrupt : Serve(i) \/ LineEvent(i)
    \/ \E c \in Channel : Transmit(c)

\* The processor runs, pending transmit interrupts are served, and a byte in
\* the transmitter leaves it; the program keeps calling READER.
Fairness ==
    /\ WF_vars(bios_reader \/ Reader)
    /\ \A c \in Channel : WF_vars(Serve(<<c, "tx">>)) /\ WF_vars(Transmit(c))

Spec == Init /\ [][Next]_vars /\ Fairness
-----------------------------------------------------------------------------
(***************************************************************************)
(* Properties.                                                             *)
(***************************************************************************)
\* READER returns the bytes received, in the order they came; a byte is
\* dropped only when it finds the ring full.
Convert(taker, b) == b

Taken == pc \in {"check", "select", "set"}
Received == INSTANCE ByteQueue WITH
            Capacity <- SIO_MASK, May <- {"drop"}, Taker <- {"READER"},
            Conv <- Convert, queue <- Contents(rx_ring),
            got <- IF Taken THEN <<"READER", ch>> ELSE got
BytesInOrder == Received!Spec

\* RTS stops the device before the ring is full, whenever READER is called
\* and wherever it is interrupted: a byte is lost only after PUNCH or LIST
\* has raised RTS while bytes were waiting.
LossOnlyByOutput == [][lost' /\ ~lost => forced]_vars

\* A byte is never written over one still in the transmitter: the ready flag
\* is about the last byte sent, until an interrupt has run the handler of
\* another.
TransmitterFree == pc = "send" /\ ~misled => call.to \notin full

\* Every byte written to a control port reaches the register it is meant
\* for, whatever handlers run in between, as long as none that writes to
\* control port A strikes between the two writes of serial_a_reassert_rts:
\* that is the only place where the driver can be struck.
RegistersIntact ==
    ~struck =>
    \A c \in Channel :
        /\ sio[c].ptr = IF c = "A" /\ pc = "set" THEN 5 ELSE 0
        /\ sio[c].wr[5] - wr5[c] \in {0, WR5_DTR_RTS_TX, WR5_DTR_TX}
        /\ sio[c].wr[1] \in {Started[c].wr[1], 27}
        /\ \A r \in Registers(c) \ {1, 5} : sio[c].wr[r] = Started[c].wr[r]

\* Once RTS has been raised, a READER that has drained the ring leaves RTS
\* on, so that it does not wait for a device that waits for RTS; again as
\* long as it has not been struck.
NoStall ==
    /\ pc \in {"idle", "poll"}
    /\ ~ringbuf_has_data(rx_ring)
    /\ sio["A"].wr[5] # wr5["A"]
    => Rts(sio["A"]) \/ struck

\* What LISTST promises: if it said ready and nothing was sent since, LIST
\* does not give up.
ListstPromise ==
    pc = "ready" /\ call.list /\ announced => tx_ready[call.to] = 255

\* As long as nothing is sent on channel B, every interrupt of the SIO runs
\* the handler of its own channel and cause.
OwnHandler ==
    Sends \subseteq {"A"} =>
        \A i \in Interrupt : Vector(sio["B"], i) = VectorEntry(i)

\* A device stopped by RTS is let go again, as long as READER is called and
\* has not been struck.
StallEnds ==
    session = "in" /\ ringbuf_has_data(rx_ring) /\ ~Rts(sio["A"])
        ~> Rts(sio["A"]) \/ struck

\* A byte accepted leaves the transmitter, and the transmitter becomes ready
\* again, unless READER has been struck or an interrupt misled.
ReadyReturns ==
    \A c \in Channel :
        c \in full ~> (c \notin full /\ tx_ready[c] = 255) \/ struck \/ misled

\* What the specification says of LIST and PUNCH: before the byte they write
\* to WR5 the value with DTR, RTS and the transmitter on.  After READER's own
\* write of WR5 has gone elsewhere, so do theirs.
SendTakesEffect ==
    [][SendByte => sio'[call.to].wr[5] = wr5[call.to] + WR5_DTR_RTS_TX]_vars

\* What the specification says of output on channel B: WR1 keeps "status
\* affects vector", to match the interrupt configuration of the channel, so
\* that every interrupt finds its own handler.
VectorsKept ==
    \A c \in Channel : \A cause \in sio[c].ip :
        Vector(sio["B"], <<c, cause>>) = VectorEntry(<<c, cause>>)
=============================================================================
