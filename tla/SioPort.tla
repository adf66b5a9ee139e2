------------------------------- MODULE SioPort -------------------------------
(***************************************************************************)
(* One channel of the Z80-SIO as its control port shows it: the register   *)
(* pointer, the write registers and the pending interrupts.  A write goes  *)
(* to WR0 unless an earlier one to WR0 selected another register; WR0      *)
(* takes a command and the next selection.                                 *)
(***************************************************************************)
EXTENDS Integers, Sequences

Cause == {"tx", "rx", "ext", "special"}

\* WR2, the vector, exists on channel B only.
Registers(c) == IF c = "A" THEN 0 .. 7 \ {2} ELSE 0 .. 7
PortType(c) ==
    [ptr : 0 .. 7, wr : [Registers(c) -> 0 .. 255], ip : SUBSET Cause]

ChannelReset(registers) ==
    [ptr |-> 0, wr |-> [r \in registers |-> 0], ip |-> {}]

\* What the commands of WR0 the driver uses acknowledge.
ResetsOf(command) ==
    CASE command = 2 -> {"ext"} [] command = 5 -> {"tx"}
      [] command = 6 -> {"special"} [] OTHER -> {}

Out(s, v) ==
    LET command == (v \div 8) % 8
    IN  CASE s.ptr # 0 ->
               [s EXCEPT !.ptr = 0,
                   !.wr = [r \in DOMAIN @ |-> IF r = s.ptr THEN v ELSE @[r]]]
          [] s.ptr = 0 /\ command = 3 -> ChannelReset(DOMAIN s.wr)
          [] OTHER -> [s EXCEPT !.ptr = v % 8, !.ip = @ \ ResetsOf(command)]

\* A read of the port reads the register pointed to.
InPort(s) == [s EXCEPT !.ptr = 0]

OutReg(s, reg, v) == Out(Out(s, reg), v)

Bit(register, weight) == (register \div weight) % 2 = 1
Rts(s)            == Bit(s.wr[5], 2)
TxEnabled(s)      == Bit(s.wr[5], 8)
Receives(s)       == Bit(s.wr[3], 1) /\ (s.wr[1] \div 8) % 4 # 0
Interrupts(s, cause) ==
    CASE cause = "tx"  -> Bit(s.wr[1], 2)
      [] cause = "ext" -> Bit(s.wr[1], 1)
      [] cause \in {"rx", "special"} -> Receives(s)
StatusInVector(b) == Bit(b.wr[1], 4)

(***************************************************************************)
(* The interrupts of the SIO and the slots of the vector table.  The       *)
(* vector is that of WR2 of channel B; with "status affects vector" set in *)
(* WR1 of channel B its bits 3 to 1 name the channel and the cause,        *)
(* otherwise every interrupt of the SIO has the same vector.               *)
(***************************************************************************)
Interrupt == {"A", "B"} \X Cause

Status(i) ==
    (IF i[1] = "A" THEN 4 ELSE 0) +
    (CASE i[2] = "tx" -> 0 [] i[2] = "ext" -> 1 [] i[2] = "rx" -> 2
       [] i[2] = "special" -> 3)

Vector(b, i) ==
    LET base == b.wr[2]
    IN  IF StatusInVector(b)
        THEN base - (base % 16) + 2 * Status(i) + (base % 2)
        ELSE base

\* The slot the vector table has for interrupt i.
VectorEntry(i) == 16 + 2 * Status(i)

(***************************************************************************)
(* hw_init_sio sends each channel its part of the configuration block,     *)
(* then reads RR0 and RR1.                                                 *)
(***************************************************************************)
Sent(c, bytes) ==
    LET after[n \in 0 .. Len(bytes)] ==
            IF n = 0 THEN ChannelReset(Registers(c))
                     ELSE Out(after[n - 1], bytes[n])
    IN  after[Len(bytes)]

hw_init_sio(c, bytes) == InPort(Out(InPort(Sent(c, bytes)), 1))
=============================================================================
