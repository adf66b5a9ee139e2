------------------------------- MODULE Config -------------------------------
(***************************************************************************)
(* The configuration block with its defaults (config.c), the values        *)
(* jtvars_init takes from it (jtvars.c), and the baud rates.               *)
(***************************************************************************)
EXTENDS Integers, Sequences

confi_sio_a == <<24, 4, 68, 3, 225, 5, 96, 1, 27>>
confi_sio_b_AsA == <<24, 2, 16, 4, 68, 3, 225, 5, 96, 1, 27>>
confi_sio_b == <<24, 2, 16, 4, 68, 3, 225, 5, 96, 1, 31>>

\* The CTC part, the SIO parts, and the rest up to the drive table.
confi_defaults ==
    <<71, 1, 71, 1, 215, 1, 215, 1>> \o confi_sio_a \o confi_sio_b \o
    <<72, 73, 74, 75>> \o <<79, 152, 122, 109>> \o <<3, 3, 223, 40>> \o
    <<0, 0, 6, 6, 0, 250, 0>> \o
    <<8, 8, 32>> \o [i \in 1 .. 14 |-> 255]

CONFI_CTC_CH0_COUNT  == 1
CONFI_SIO_A_START    == 8
CONFI_SIO_B_START    == 17
CONFI_DRIVE_TABLE    == 47

At(confi, offset) == confi[offset + 1]
Part(confi, start, size) == SubSeq(confi, start + 1, start + size)

(***************************************************************************)
(* jtvars_init.  "& 0x60" keeps the bits per character.                    *)
(***************************************************************************)
BitsPerChar(v) == 32 * ((v \div 32) % 4)

wr5_base(confi) == [A |-> BitsPerChar(At(confi, CONFI_SIO_A_START + 6)),
                    B |-> BitsPerChar(At(confi, CONFI_SIO_B_START + 8))]

fd0(confi) == [drive \in 0 .. 15 |-> At(confi, CONFI_DRIVE_TABLE + drive)]

(***************************************************************************)
(* Baud rates.                                                             *)
(***************************************************************************)
CTC_INPUT_CLOCK == 614400

baud_table == <<
    [rate |-> 38400, count |->   1, wr4 |->  68], [rate |-> 19200, count |->   2, wr4 |->  68],
    [rate |->  9600, count |->   4, wr4 |->  68], [rate |->  4800, count |->   8, wr4 |->  68],
    [rate |->  2400, count |->  16, wr4 |->  68], [rate |->  1200, count |->  32, wr4 |->  68],
    [rate |->   600, count |->  64, wr4 |->  68], [rate |->   300, count |->  32, wr4 |-> 196],
    [rate |->   150, count |->  64, wr4 |-> 196], [rate |->   110, count |->  87, wr4 |-> 196],
    [rate |->    75, count |-> 128, wr4 |-> 196], [rate |->    50, count |-> 192, wr4 |-> 196]>>

\* The clock mode of WR4; a count of 0 means 256.
baud_rate_calc(count, wr4) ==
    LET divisor == CASE wr4 \div 64 = 1 -> 16 [] wr4 \div 64 = 3 -> 64
                     [] OTHER -> 0
        steps == IF count = 0 THEN 256 ELSE count
    IN  IF divisor = 0 THEN 0 ELSE CTC_INPUT_CLOCK \div (steps * divisor)
-----------------------------------------------------------------------------
\* The rates the table names are those its entries give.
BaudRates ==
    \A i \in 1 .. Len(baud_table) :
        baud_rate_calc(baud_table[i].count, baud_table[i].wr4) = baud_table[i].rate

\* The defaults give both channels the rate and the characters the
\* specification says: 38400 baud, 8 bits, RTS and the transmitter off.
DefaultLine ==
    /\ baud_rate_calc(At(confi_defaults, CONFI_CTC_CH0_COUNT), confi_sio_a[3]) = 38400
    /\ wr5_base(confi_defaults) = [A |-> 96, B |-> 96]
=============================================================================
