------------------------------- MODULE DmaPort -------------------------------
(***************************************************************************)
(* The two users of the DMA controller: dma_setup (floppy.c), which the    *)
(* main line calls before every transfer, and the display handler's        *)
(* isr_reprogram_display_dma (interrupt.c; _isr_crt_fast in crt0.asm       *)
(* writes the same bytes).                                                 *)
(*                                                                         *)
(* An address or a count is sent as two bytes to one port, and one byte    *)
(* pointer flip-flop, shared by all channels, tells the controller which   *)
(* half comes next.  A port write is therefore one step.  The handler runs *)
(* with interrupts disabled, to its end.                                   *)
(***************************************************************************)
EXTENDS Integers, Sequences

CONSTANTS
    Address, Count,              \* what dma_setup is asked for
    DisplayAddr, DisplayCount    \* the display transfer, fixed since boot

Word == 0 .. 65535
Byte == 0 .. 255

ASSUME DmaAssumption ==
    /\ Address \subseteq Word /\ Address # {} /\ Count \subseteq Word /\ Count # {}
    /\ DisplayAddr \in Word /\ DisplayCount \in Word

Low_NotCast(w) == w
Low(w)  == w % 256
High(w) == w \div 256
Half == Byte \X Byte
Halves(w) == <<Low(w), High(w)>>

Request == [addr : Address, count : Count, mode : {"read", "write"}]
Channel == {1, 2, 3}

VARIABLES
    pc,     \* the main line: 0 elsewhere, 1 .. 8 the next write, 9 hal_ei
    req,    \* what dma_setup was asked for
    hpc,    \* the handler: 0 not running, 1 .. 8 the next write, 9 its return
    iff,    \* interrupts are enabled
    vrtc,   \* the interrupt request of the display controller
    dma     \* the DMA controller

vars == <<pc, req, hpc, iff, vrtc, dma>>

Controller ==
    [next : {"low", "high"},     \* the flip-flop: the byte that comes next
     masked : SUBSET Channel, mode : {"read", "write"},
     addr : [Channel -> Half], count : [Channel -> Half]]

TypeOK ==
    /\ pc \in 0 .. 9 /\ hpc \in 0 .. 9
    /\ req \in Request
    /\ iff \in BOOLEAN /\ vrtc \in BOOLEAN
    /\ dma \in Controller

(***************************************************************************)
(* What the controller does with a write; the mode register written here   *)
(* is always that of channel 1.                                            *)
(***************************************************************************)
Mask(c)     == [reg |-> "mask", ch |-> c, val |-> 0]
Unmask(c)   == [reg |-> "unmask", ch |-> c, val |-> 0]
SetMode(m)  == [reg |-> "mode", ch |-> 1, val |-> m]
Clear       == [reg |-> "clear", ch |-> 1, val |-> 0]
Addr(c, b)  == [reg |-> "addr", ch |-> c, val |-> b]
Cnt(c, b)   == [reg |-> "count", ch |-> c, val |-> b]

Put(half, next, b) == IF next = "low" THEN <<b, half[2]>> ELSE <<half[1], b>>
Flip(next) == IF next = "low" THEN "high" ELSE "low"

Out(d, w) ==
    CASE w.reg = "mask"   -> [d EXCEPT !.masked = @ \cup {w.ch}]
      [] w.reg = "unmask" -> [d EXCEPT !.masked = @ \ {w.ch}]
      [] w.reg = "mode"   -> [d EXCEPT !.mode = w.val]
      [] w.reg = "clear"  -> [d EXCEPT !.next = "low"]
      [] w.reg = "addr"   -> [d EXCEPT !.addr[w.ch] = Put(@, d.next, w.val),
                                       !.next = Flip(@)]
      [] OTHER            -> [d EXCEPT !.count[w.ch] = Put(@, d.next, w.val),
                                       !.next = Flip(@)]

(***************************************************************************)
(* The two programs.                                                       *)
(***************************************************************************)
dma_setup(r) ==
    <<Mask(1), SetMode(r.mode), Clear,
      Addr(1, Low(r.addr)), Addr(1, High(r.addr)),
      Cnt(1, Low(r.count)), Cnt(1, High(r.count)), Unmask(1)>>

isr_reprogram_display_dma ==
    <<Mask(2), Mask(3), Clear,
      Addr(2, Low(DisplayAddr)), Addr(2, High(DisplayAddr)),
      Cnt(2, Low(DisplayCount)), Cnt(2, High(DisplayCount)), Unmask(2)>>

\* The boot PROM leaves the controller set up for its own transfers.
Init ==
    /\ pc = 0 /\ hpc = 0 /\ iff = TRUE /\ vrtc = FALSE
    /\ req \in Request
    /\ \E next \in {"low", "high"}, masked \in SUBSET Channel :
          dma = [next |-> next, masked |-> masked, mode |-> "read",
                 addr |-> [c \in Channel |-> <<0, 0>>],
                 count |-> [c \in Channel |-> <<0, 0>>]]

hal_di_Missing(enabled) == enabled
hal_di(enabled) == FALSE

Enter(r) ==
    /\ pc = 0 /\ hpc = 0
    /\ pc' = 1 /\ req' = r /\ iff' = hal_di(iff)
    /\ UNCHANGED <<hpc, vrtc, dma>>

Write ==
    /\ pc \in 1 .. 8 /\ hpc = 0
    /\ dma' = Out(dma, dma_setup(req)[pc])
    /\ pc' = pc + 1
    /\ UNCHANGED <<req, hpc, iff, vrtc>>

Leave ==
    /\ pc = 9 /\ hpc = 0
    /\ pc' = 0 /\ iff' = TRUE
    /\ UNCHANGED <<req, hpc, vrtc, dma>>

\* The display handler: accepted, its writes, and EI with RETI.
Accept ==
    /\ vrtc /\ iff
    /\ hpc' = 1 /\ iff' = FALSE /\ vrtc' = FALSE
    /\ UNCHANGED <<pc, req, dma>>

Refresh ==
    /\ hpc \in 1 .. 8
    /\ dma' = Out(dma, isr_reprogram_display_dma[hpc])
    /\ hpc' = hpc + 1
    /\ UNCHANGED <<pc, req, iff, vrtc>>

Return ==
    /\ hpc = 9
    /\ hpc' = 0 /\ iff' = TRUE
    /\ UNCHANGED <<pc, req, vrtc, dma>>

\* The display controller interrupts once a frame; a transfer that reaches
\* its terminal count masks its channel, one that is cut short does not.
Retrace == vrtc' = TRUE /\ UNCHANGED <<pc, req, hpc, iff, dma>>

TerminalCount(c) ==
    /\ c \notin dma.masked
    /\ dma' = [dma EXCEPT !.masked = @ \cup {c}]
    /\ UNCHANGED <<pc, req, hpc, iff, vrtc>>

Next ==
    \/ \E r \in Request : Enter(r)
    \/ Write \/ Leave
    \/ Accept \/ Refresh \/ Return
    \/ Retrace
    \/ \E c \in {1, 2} : TerminalCount(c)

Spec == Init /\ [][Next]_vars
-----------------------------------------------------------------------------
(***************************************************************************)
(* Properties.                                                             *)
(***************************************************************************)
FloppyWhole(d) ==
    d.addr[1] = Halves(req.addr) /\ d.count[1] = Halves(req.count) /\ d.mode = req.mode

DisplayWhole(d) ==
    d.addr[2] = Halves(DisplayAddr) /\ d.count[2] = Halves(DisplayCount)

\* A channel is released with both halves of its address and count, and its
\* mode, as its user asked, although the other user may have written to the
\* controller in between; and the registers of a channel that is released
\* are never written.
ReleaseStep ==
    /\ 1 \in dma.masked /\ 1 \notin dma'.masked => FloppyWhole(dma')
    /\ 2 \in dma.masked /\ 2 \notin dma'.masked => DisplayWhole(dma')
    /\ \A c \in {1, 2} : c \notin dma.masked /\ c \notin dma'.masked =>
          dma'.addr[c] = dma.addr[c] /\ dma'.count[c] = dma.count[c]

ReleasedWhole == [][ReleaseStep]_vars

\* How far each program has come, as far as the controller can tell.
FloppyProgress ==
    pc # 0 =>
        /\ ~iff /\ hpc = 0
        /\ pc \in 2 .. 8 => 1 \in dma.masked
        /\ pc >= 3 => dma.mode = req.mode
        /\ pc \in {4, 6} => dma.next = "low"
        /\ pc \in {5, 7} => dma.next = "high"
        /\ pc >= 5 => dma.addr[1][1] = Low(req.addr)
        /\ pc >= 6 => dma.addr[1][2] = High(req.addr)
        /\ pc >= 7 => dma.count[1][1] = Low(req.count)
        /\ pc >= 8 => dma.count[1][2] = High(req.count)

DisplayProgress ==
    hpc # 0 =>
        /\ ~iff /\ pc = 0
        /\ hpc \in 2 .. 8 => 2 \in dma.masked
        /\ hpc \in {4, 6} => dma.next = "low"
        /\ hpc \in {5, 7} => dma.next = "high"
        /\ hpc >= 5 => dma.addr[2][1] = Low(DisplayAddr)
        /\ hpc >= 6 => dma.addr[2][2] = High(DisplayAddr)
        /\ hpc >= 7 => dma.count[2][1] = Low(DisplayCount)
        /\ hpc >= 8 => dma.count[2][2] = High(DisplayCount)

IInv == TypeOK /\ FloppyProgress /\ DisplayProgress
=============================================================================
