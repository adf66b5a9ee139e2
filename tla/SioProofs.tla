------------------------------ MODULE SioProofs ------------------------------
(***************************************************************************)
(* Theorems about Sio, for any bytes, IOBYTE values, size of the receive   *)
(* ring, high-water mark and lag that SioAssumption allows, and for every  *)
(* session.                                                                *)
(***************************************************************************)
EXTENDS Sio, RingBufProofs, WellFoundedInduction

(***************************************************************************)
(* A control port: what a write does.                                      *)
(***************************************************************************)
WrType(c) == [Registers(c) -> 0 .. 255]

LEMMA RegistersAre ==
    /\ Registers("A") \subseteq 0 .. 7 /\ 2 \notin Registers("A")
    /\ {1, 3, 4, 5} \subseteq Registers("A")
    /\ Registers("B") = 0 .. 7
  BY DEF Registers

\* The registers with v sent to register r.
Written(wr, r, v) == [q \in DOMAIN wr |-> IF q = r THEN v ELSE wr[q]]

LEMMA WrittenIs ==
    ASSUME NEW c \in Channel, NEW wr \in WrType(c), NEW r, NEW v \in 0 .. 255
    PROVE  /\ Written(wr, r, v) \in WrType(c)
           /\ \A q \in Registers(c) :
                 Written(wr, r, v)[q] = IF q = r THEN v ELSE wr[q]
  BY DEF Written, WrType

LEMMA PortFields ==
    ASSUME NEW c \in Channel, NEW s \in PortType(c)
    PROVE  /\ s.ptr \in 0 .. 7 /\ s.wr \in WrType(c) /\ s.ip \in SUBSET Cause
           /\ s = [ptr |-> s.ptr, wr |-> s.wr, ip |-> s.ip]
           /\ DOMAIN s.wr = Registers(c)
  BY DEF PortType, WrType

LEMMA PortOf ==
    ASSUME NEW c \in Channel, NEW ptr \in 0 .. 7, NEW wr \in WrType(c),
           NEW ip \in SUBSET Cause
    PROVE  [ptr |-> ptr, wr |-> wr, ip |-> ip] \in PortType(c)
  BY DEF PortType, WrType

\* With a register selected, the byte goes there.
LEMMA OutPointed ==
    ASSUME NEW c \in Channel, NEW s \in PortType(c), NEW v \in 0 .. 255, s.ptr # 0
    PROVE  Out(s, v) = [ptr |-> 0, wr |-> Written(s.wr, s.ptr, v), ip |-> s.ip]
  <1> DEFINE wr == Written(s.wr, s.ptr, v)
             first == [s EXCEPT !.ptr = 0]
  <1>1. Out(s, v) = [s EXCEPT !.ptr = 0, !.wr = wr]
    BY DEF Out, Written
  <1> HIDE DEF wr
  <1>2. first = [ptr |-> 0, wr |-> s.wr, ip |-> s.ip]
    BY PortFields
  <1>3. Out(s, v) = [first EXCEPT !.wr = wr]
    BY <1>1
  <1> HIDE DEF first
  <1>4. Out(s, v) = [ptr |-> 0, wr |-> wr, ip |-> s.ip]
    BY <1>2, <1>3
  <1> QED
    BY <1>4 DEF wr

\* With none selected, it is a command and selects the next.
CommandOf(v) == (v \div 8) % 8
SelectOf(v)  == v % 8

LEMMA OutCommand ==
    ASSUME NEW c \in Channel, NEW s \in PortType(c), NEW v \in 0 .. 255, s.ptr = 0,
           CommandOf(v) # 3
    PROVE  Out(s, v) = [ptr |-> SelectOf(v), wr |-> s.wr,
                        ip |-> s.ip \ ResetsOf(CommandOf(v))]
  <1> DEFINE command == CommandOf(v)
             select == SelectOf(v)
             first == [s EXCEPT !.ptr = select]
  <1>1. Out(s, v) = [s EXCEPT !.ptr = select, !.ip = @ \ ResetsOf(command)]
    BY DEF Out, CommandOf, SelectOf
  <1>2. first = [ptr |-> select, wr |-> s.wr, ip |-> s.ip]
    BY PortFields
  <1>3. Out(s, v) = [first EXCEPT !.ip = @ \ ResetsOf(command)]
    BY <1>1
  <1> HIDE DEF first, command, select
  <1>4. Out(s, v) = [ptr |-> select, wr |-> s.wr, ip |-> s.ip \ ResetsOf(command)]
    BY <1>2, <1>3
  <1> QED
    BY <1>4 DEF command, select

LEMMA OutReset ==
    ASSUME NEW c \in Channel, NEW s \in PortType(c), NEW v \in 0 .. 255, s.ptr = 0,
           CommandOf(v) = 3
    PROVE  Out(s, v) = ChannelReset(Registers(c))
  <1>1. DOMAIN s.wr = Registers(c)
    BY PortFields
  <1>2. Out(s, v) = ChannelReset(DOMAIN s.wr)
    BY DEF Out, CommandOf
  <1> QED
    BY <1>1, <1>2

LEMMA ResetType == \A c \in Channel : ChannelReset(Registers(c)) \in PortType(c)
  BY DEF ChannelReset, PortType

LEMMA OutType ==
    ASSUME NEW c \in Channel, NEW s \in PortType(c), NEW v \in 0 .. 255
    PROVE  Out(s, v) \in PortType(c)
  <1>1. CASE s.ptr # 0
    <2>1. Written(s.wr, s.ptr, v) \in WrType(c)
      BY PortFields, WrittenIs
    <2>2. Out(s, v) = [ptr |-> 0, wr |-> Written(s.wr, s.ptr, v), ip |-> s.ip]
      BY <1>1, OutPointed
    <2> QED
      BY <2>1, <2>2, PortFields, PortOf
  <1>2. CASE s.ptr = 0 /\ CommandOf(v) = 3
    BY <1>2, OutReset, ResetType
  <1>3. CASE s.ptr = 0 /\ CommandOf(v) # 3
    <2> DEFINE ip == s.ip \ ResetsOf(CommandOf(v))
    <2>1. SelectOf(v) \in 0 .. 7 /\ ip \in SUBSET Cause
      BY PortFields DEF SelectOf
    <2>2. Out(s, v) = [ptr |-> SelectOf(v), wr |-> s.wr, ip |-> ip]
      BY <1>3, OutCommand
    <2> HIDE DEF ip
    <2> QED
      BY <2>1, <2>2, PortFields, PortOf
  <1> QED
    BY <1>1, <1>2, <1>3

LEMMA InPortIs ==
    ASSUME NEW c \in Channel, NEW s \in PortType(c)
    PROVE  /\ InPort(s) = [ptr |-> 0, wr |-> s.wr, ip |-> s.ip]
           /\ InPort(s) \in PortType(c)
  <1>1. InPort(s) = [ptr |-> 0, wr |-> s.wr, ip |-> s.ip]
    BY PortFields DEF InPort
  <1> QED
    BY <1>1, PortFields, PortOf

\* The commands and selections of the driver.
LEMMA OutValues ==
    ASSUME NEW c \in Channel, NEW s \in PortType(c), s.ptr = 0
    PROVE  /\ \A r \in 1 .. 7 : Out(s, r) = [ptr |-> r, wr |-> s.wr, ip |-> s.ip]
           /\ Out(s, 16) = [ptr |-> 0, wr |-> s.wr, ip |-> s.ip \ {"ext"}]
           /\ Out(s, 24) = ChannelReset(Registers(c))
           /\ Out(s, 27) = ChannelReset(Registers(c))
           /\ Out(s, 40) = [ptr |-> 0, wr |-> s.wr, ip |-> s.ip \ {"tx"}]
           /\ Out(s, 48) = [ptr |-> 0, wr |-> s.wr, ip |-> s.ip \ {"special"}]
           /\ Out(s, 232) = [ptr |-> 0, wr |-> s.wr, ip |-> s.ip \ {"tx"}]
           /\ Out(s, 234) = [ptr |-> 2, wr |-> s.wr, ip |-> s.ip \ {"tx"}]
  <1>1. ASSUME NEW r \in 1 .. 7
        PROVE  Out(s, r) = [ptr |-> r, wr |-> s.wr, ip |-> s.ip]
    <2>1. CommandOf(r) = 0 /\ SelectOf(r) = r /\ r \in 0 .. 255
      BY DEF CommandOf, SelectOf
    <2>2. Out(s, r) = [ptr |-> r, wr |-> s.wr, ip |-> s.ip \ ResetsOf(0)]
      BY <2>1, OutCommand
    <2>3. ResetsOf(0) = {}
      BY DEF ResetsOf
    <2> QED
      BY <2>2, <2>3
  <1>2. /\ CommandOf(16) = 2 /\ SelectOf(16) = 0 /\ CommandOf(24) = 3 /\ CommandOf(27) = 3
        /\ CommandOf(40) = 5 /\ SelectOf(40) = 0 /\ CommandOf(48) = 6 /\ SelectOf(48) = 0
        /\ CommandOf(232) = 5 /\ SelectOf(232) = 0
        /\ CommandOf(234) = 5 /\ SelectOf(234) = 2
    BY DEF CommandOf, SelectOf
  <1>3. /\ ResetsOf(2) = {"ext"} /\ ResetsOf(5) = {"tx"} /\ ResetsOf(6) = {"special"}
    BY DEF ResetsOf
  <1>4. Out(s, 16) = [ptr |-> 0, wr |-> s.wr, ip |-> s.ip \ {"ext"}]
    BY <1>2, <1>3, OutCommand
  <1>5. /\ Out(s, 24) = ChannelReset(Registers(c))
        /\ Out(s, 27) = ChannelReset(Registers(c))
    BY <1>2, OutReset
  <1>6. Out(s, 40) = [ptr |-> 0, wr |-> s.wr, ip |-> s.ip \ {"tx"}]
    BY <1>2, <1>3, OutCommand
  <1>7. Out(s, 48) = [ptr |-> 0, wr |-> s.wr, ip |-> s.ip \ {"special"}]
    BY <1>2, <1>3, OutCommand
  <1>8. Out(s, 232) = [ptr |-> 0, wr |-> s.wr, ip |-> s.ip \ {"tx"}]
    BY <1>2, <1>3, OutCommand
  <1>9. Out(s, 234) = [ptr |-> 2, wr |-> s.wr, ip |-> s.ip \ {"tx"}]
    BY <1>2, <1>3, OutCommand
  <1> QED
    BY <1>1, <1>4, <1>5, <1>6, <1>7, <1>8, <1>9

\* A register written with the pointer at WR0.
LEMMA OutRegIs ==
    ASSUME NEW c \in Channel, NEW s \in PortType(c), s.ptr = 0, NEW r \in 1 .. 7,
           NEW v \in 0 .. 255
    PROVE  OutReg(s, r, v) = [ptr |-> 0, wr |-> Written(s.wr, r, v), ip |-> s.ip]
  <1> DEFINE mid == [ptr |-> r, wr |-> s.wr, ip |-> s.ip]
  <1>1. Out(s, r) = mid
    BY OutValues
  <1>2. mid \in PortType(c) /\ mid.ptr = r /\ mid.ptr # 0 /\ mid.wr = s.wr /\ mid.ip = s.ip
    BY PortFields, PortOf
  <1> HIDE DEF mid
  <1>3. Out(mid, v) = [ptr |-> 0, wr |-> Written(mid.wr, mid.ptr, v), ip |-> mid.ip]
    BY <1>2, OutPointed
  <1> QED
    BY <1>1, <1>2, <1>3 DEF OutReg

LEMMA OutRegType ==
    ASSUME NEW c \in Channel, NEW s \in PortType(c), NEW r \in 0 .. 255,
           NEW v \in 0 .. 255
    PROVE  OutReg(s, r, v) \in PortType(c)
  BY OutType DEF OutReg

-----------------------------------------------------------------------------
(***************************************************************************)
(* What hw_init_sio leaves in the chip: the recursive Sent, followed byte  *)
(* by byte over the default block.                                         *)
(***************************************************************************)
LEMMA LeastNumber ==
    ASSUME NEW T \in SUBSET Nat, T # {}
    PROVE  \E x \in T : \A y \in T : x <= y
  <1>1. IsWellFoundedOn(OpToRel(<, Nat), Nat)
    BY NatLessThanWellFounded
  <1>2. PICK x \in T : \A y \in T : ~(<<y, x>> \in OpToRel(<, Nat))
    BY <1>1, WFMin
  <1>3. \A y \in T : <<y, x>> \in OpToRel(<, Nat) <=> y < x
    BY DEF OpToRel
  <1>4. \A y \in T : ~(y < x)
    BY <1>2, <1>3
  <1> QED
    BY <1>4

LEMMA SetInduction ==
    ASSUME NEW T \in SUBSET Nat, 0 \in T, \A n \in T : n + 1 \in T
    PROVE  T = Nat
  <1> SUFFICES ASSUME Nat \ T # {}
               PROVE  FALSE
    OBVIOUS
  <1>1. PICK x \in Nat \ T : \A y \in Nat \ T : x <= y
    BY LeastNumber
  <1>2. x # 0 /\ x - 1 \in Nat /\ x - 1 \in T
    BY <1>1
  <1> QED
    BY <1>1, <1>2

\* The states of a channel while a sequence of bytes is sent to it.
Sending(first, bytes, n, g) ==
    g = [k \in 0 .. n |-> IF k = 0 THEN first ELSE Out(g[k - 1], bytes[k])]

LEMMA SendingExists ==
    ASSUME NEW first, NEW bytes, NEW n \in Nat
    PROVE  \E g : Sending(first, bytes, n, g)
  <1> DEFINE T == {m \in Nat : \E g : Sending(first, bytes, m, g)}
  <1>1. 0 \in T
    <2> DEFINE g == [k \in 0 .. 0 |-> first]
    <2>1. Sending(first, bytes, 0, g)
      BY DEF Sending
    <2> QED
      BY <2>1
  <1>2. ASSUME NEW m \in T
        PROVE  m + 1 \in T
    <2>1. PICK g : Sending(first, bytes, m, g)
      OBVIOUS
    <2> DEFINE h == [k \in 0 .. m + 1 |-> IF k = m + 1 THEN Out(g[m], bytes[m + 1]) ELSE g[k]]
    <2>2. \A k \in 0 .. m : g[k] = IF k = 0 THEN first ELSE Out(g[k - 1], bytes[k])
      <3>1. g = [k \in 0 .. m |-> IF k = 0 THEN first ELSE Out(g[k - 1], bytes[k])]
        BY <2>1 DEF Sending
      <3> QED
        BY <3>1
    <2>3. \A k \in 0 .. m : h[k] = g[k]
      OBVIOUS
    <2>4. \A k \in 0 .. m + 1 :
             h[k] = IF k = 0 THEN first ELSE Out(h[k - 1], bytes[k])
      <3> SUFFICES ASSUME NEW k \in 0 .. m + 1
                   PROVE  h[k] = IF k = 0 THEN first ELSE Out(h[k - 1], bytes[k])
        OBVIOUS
      <3>1. CASE k = m + 1
        <4>1. k # 0 /\ k - 1 = m /\ m \in 0 .. m
          BY <3>1
        <4>2. h[k - 1] = g[m]
          BY <2>3, <4>1
        <4> QED
          BY <3>1, <4>1, <4>2
      <3>2. CASE k = 0
        BY <2>2, <2>3, <3>2
      <3>3. CASE k # m + 1 /\ k # 0
        <4>1. k \in 0 .. m /\ k - 1 \in 0 .. m
          BY <3>3
        <4>2. h[k] = g[k] /\ h[k - 1] = g[k - 1]
          BY <2>3, <4>1
        <4> QED
          BY <2>2, <3>3, <4>1, <4>2
      <3> QED
        BY <3>1, <3>2, <3>3
    <2>5. h = [k \in 0 .. m + 1 |-> h[k]]
      OBVIOUS
    <2> HIDE DEF h
    <2>6. Sending(first, bytes, m + 1, h)
      BY <2>4, <2>5 DEF Sending
    <2> QED
      BY <2>6
  <1>3. T = Nat
    <2>1. T \in SUBSET Nat
      OBVIOUS
    <2> HIDE DEF T
    <2> QED
      BY <1>1, <1>2, <2>1, SetInduction
  <1> QED
    BY <1>3

\* Sent is the last of those states.
LEMMA SentIs ==
    ASSUME NEW c \in Channel, NEW bytes \in Seq(0 .. 255)
    PROVE  \E g : /\ g[0] = ChannelReset(Registers(c))
                  /\ \A k \in 1 .. Len(bytes) : g[k] = Out(g[k - 1], bytes[k])
                  /\ Sent(c, bytes) = g[Len(bytes)]
  <1> DEFINE n == Len(bytes)
             first == ChannelReset(Registers(c))
             after[k \in 0 .. n] ==
                 IF k = 0 THEN first ELSE Out(after[k - 1], bytes[k])
  <1>1. n \in Nat
    OBVIOUS
  <1>2. PICK g : Sending(first, bytes, n, g)
    BY <1>1, SendingExists
  <1>3. after = [k \in 0 .. n |-> IF k = 0 THEN first ELSE Out(after[k - 1], bytes[k])]
    <2>1. \E f : f = [k \in 0 .. n |-> IF k = 0 THEN first
                                       ELSE Out(f[k - 1], bytes[k])]
      BY <1>2 DEF Sending
    <2> QED
      BY <2>1
  <1>4. Sent(c, bytes) = after[n]
    BY DEF Sent
  <1> HIDE DEF after
  <1>5. after[0] = first
    BY <1>1, <1>3
  <1>6. \A k \in 1 .. n : after[k] = Out(after[k - 1], bytes[k])
    BY <1>1, <1>3
  <1> QED
    BY <1>4, <1>5, <1>6

\* The two parts of the default block that are for the SIO.
LEMMA Joined ==
    ASSUME NEW s \in Seq(Nat), NEW t \in Seq(Nat)
    PROVE  /\ s \o t \in Seq(Nat) /\ Len(s \o t) = Len(s) + Len(t)
           /\ \A i \in 1 .. Len(s) : (s \o t)[i] = s[i]
           /\ \A i \in 1 .. Len(t) : (s \o t)[Len(s) + i] = t[i]
  BY ConcatProperties

\* What follows the first 28 bytes does not matter.
LEMMA Longer ==
    ASSUME NEW s \in Seq(Nat), NEW t \in Seq(Nat), Len(s) >= 28
    PROVE  /\ s \o t \in Seq(Nat) /\ Len(s \o t) >= 28
           /\ \A i \in 1 .. 28 : (s \o t)[i] = s[i]
  <1>1. /\ s \o t \in Seq(Nat) /\ Len(s \o t) = Len(s) + Len(t)
        /\ \A i \in 1 .. Len(s) : (s \o t)[i] = s[i]
    BY Joined
  <1>2. Len(s) + Len(t) >= 28 /\ \A i \in 1 .. 28 : i \in 1 .. Len(s)
    OBVIOUS
  <1> QED
    BY <1>1, <1>2

\* The two parts follow the eight bytes of the CTC.
LEMMA Defaults ==
    /\ \A i \in 1 .. 9 : confi_defaults[8 + i] = confi_sio_a[i]
    /\ \A i \in 1 .. 11 : confi_defaults[17 + i] = confi_sio_b[i]
  <1> DEFINE ctc == <<71, 1, 71, 1, 215, 1, 215, 1>>
             pio == <<72, 73, 74, 75>>
             mode == <<79, 152, 122, 109>>
             fdc == <<3, 3, 223, 40>>
             rest == <<0, 0, 6, 6, 0, 250, 0>>
             disks == <<8, 8, 32>>
             drives == [i \in 1 .. 14 |-> 255]
             p1 == ctc \o confi_sio_a
             p2 == p1 \o confi_sio_b
             p3 == p2 \o pio
             p4 == p3 \o mode
             p5 == p4 \o fdc
             p6 == p5 \o rest
             p7 == p6 \o disks
             p8 == p7 \o drives
  <1>1. /\ ctc \in Seq(Nat) /\ Len(ctc) = 8
        /\ confi_sio_a \in Seq(Nat) /\ Len(confi_sio_a) = 9
        /\ confi_sio_b \in Seq(Nat) /\ Len(confi_sio_b) = 11
    BY DEF confi_sio_a, confi_sio_b
  <1>2. /\ pio \in Seq(Nat) /\ mode \in Seq(Nat) /\ fdc \in Seq(Nat)
        /\ rest \in Seq(Nat) /\ disks \in Seq(Nat) /\ drives \in Seq(Nat)
    OBVIOUS
  <1>3. confi_defaults = p8
    BY DEF confi_defaults
  <1> HIDE DEF ctc, pio, mode, fdc, rest, disks, drives
  <1>4. /\ p1 \in Seq(Nat) /\ Len(p1) = 17
        /\ \A i \in 1 .. 9 : p1[8 + i] = confi_sio_a[i]
    <2>1. /\ p1 \in Seq(Nat) /\ Len(p1) = Len(ctc) + Len(confi_sio_a)
          /\ \A i \in 1 .. Len(confi_sio_a) : p1[Len(ctc) + i] = confi_sio_a[i]
      BY <1>1, Joined
    <2> HIDE DEF p1
    <2> QED
      BY <1>1, <2>1
  <1> HIDE DEF p1
  <1>5. /\ p2 \in Seq(Nat) /\ Len(p2) >= 28
        /\ \A i \in 1 .. 17 : p2[i] = p1[i]
        /\ \A i \in 1 .. 11 : p2[17 + i] = confi_sio_b[i]
    <2>1. /\ p2 \in Seq(Nat) /\ Len(p2) = Len(p1) + Len(confi_sio_b)
          /\ \A i \in 1 .. Len(p1) : p2[i] = p1[i]
          /\ \A i \in 1 .. Len(confi_sio_b) : p2[Len(p1) + i] = confi_sio_b[i]
      BY <1>1, <1>4, Joined
    <2> HIDE DEF p2
    <2> QED
      BY <1>1, <1>4, <2>1
  <1> HIDE DEF p2
  <1>6. p3 \in Seq(Nat) /\ Len(p3) >= 28 /\ \A i \in 1 .. 28 : p3[i] = p2[i]
    BY <1>2, <1>5, Longer
  <1> HIDE DEF p3
  <1>7. p4 \in Seq(Nat) /\ Len(p4) >= 28 /\ \A i \in 1 .. 28 : p4[i] = p3[i]
    BY <1>2, <1>6, Longer
  <1> HIDE DEF p4
  <1>8. p5 \in Seq(Nat) /\ Len(p5) >= 28 /\ \A i \in 1 .. 28 : p5[i] = p4[i]
    BY <1>2, <1>7, Longer
  <1> HIDE DEF p5
  <1>9. p6 \in Seq(Nat) /\ Len(p6) >= 28 /\ \A i \in 1 .. 28 : p6[i] = p5[i]
    BY <1>2, <1>8, Longer
  <1> HIDE DEF p6
  <1>10. p7 \in Seq(Nat) /\ Len(p7) >= 28 /\ \A i \in 1 .. 28 : p7[i] = p6[i]
    BY <1>2, <1>9, Longer
  <1> HIDE DEF p7
  <1>11. \A i \in 1 .. 28 : p8[i] = p7[i]
    BY <1>2, <1>10, Longer
  <1> HIDE DEF p8
  <1>12. \A i \in 1 .. 28 : p8[i] = p2[i]
    BY <1>6, <1>7, <1>8, <1>9, <1>10, <1>11
  <1>13. ASSUME NEW i \in 1 .. 9
         PROVE  p8[8 + i] = confi_sio_a[i]
    <2>1. 8 + i \in 1 .. 17 /\ 8 + i \in 1 .. 28
      OBVIOUS
    <2>2. p8[8 + i] = p2[8 + i] /\ p2[8 + i] = p1[8 + i]
      BY <1>5, <1>12, <2>1
    <2> QED
      BY <1>4, <2>2
  <1>14. ASSUME NEW i \in 1 .. 11
         PROVE  p8[17 + i] = confi_sio_b[i]
    <2>1. 17 + i \in 1 .. 28
      OBVIOUS
    <2>2. p8[17 + i] = p2[17 + i]
      BY <1>12, <2>1
    <2> QED
      BY <1>5, <2>2
  <1> QED
    BY <1>3, <1>13, <1>14

LEMMA PartIs ==
    ASSUME NEW start \in Nat, NEW size \in Nat \ {0}, NEW bytes \in Seq(Nat),
           Len(bytes) = size, \A i \in 1 .. size : confi_defaults[start + i] = bytes[i]
    PROVE  Part(confi_defaults, start, size) = bytes
  <1> DEFINE first == start + 1
             last == start + size
             part == SubSeq(confi_defaults, first, last)
  <1>1. \A i \in first .. last : confi_defaults[i] \in Nat
    <2> SUFFICES ASSUME NEW i \in first .. last
                 PROVE  confi_defaults[i] \in Nat
      OBVIOUS
    <2>1. i - start \in 1 .. size /\ start + (i - start) = i
      OBVIOUS
    <2>2. confi_defaults[i] = bytes[i - start]
      BY <2>1
    <2>3. bytes[i - start] \in Nat
      BY <2>1, ElementOfSeq
    <2> QED
      BY <2>2, <2>3
  <1>2. first \in Int /\ last \in Int /\ first <= last /\ last - first + 1 = size
    OBVIOUS
  <1> HIDE DEF first, last
  <1>3. /\ part \in Seq(Nat) /\ Len(part) = last - first + 1
        /\ \A i \in 1 .. last - first + 1 : part[i] = confi_defaults[first + i - 1]
    BY <1>1, <1>2, SubSeqProperties
  <1> HIDE DEF part
  <1>4. part \in Seq(Nat) /\ Len(part) = size
        /\ \A i \in 1 .. size : part[i] = confi_defaults[first + i - 1]
    BY <1>2, <1>3
  <1>5. \A i \in 1 .. size : first + i - 1 = start + i
    BY DEF first
  <1>6. \A i \in 1 .. size : part[i] = bytes[i]
    BY <1>4, <1>5
  <1>7. part = bytes
    BY <1>4, <1>6, SeqEqual
  <1> QED
    BY <1>7 DEF part, first, last, Part

LEMMA Parts ==
    /\ Part(confi_defaults, CONFI_SIO_A_START, 9) = confi_sio_a
    /\ Part(confi_defaults, CONFI_SIO_B_START, 11) = confi_sio_b
  <1>1. /\ confi_sio_a \in Seq(Nat) /\ Len(confi_sio_a) = 9
        /\ confi_sio_b \in Seq(Nat) /\ Len(confi_sio_b) = 11
    BY DEF confi_sio_a, confi_sio_b
  <1>2. 8 \in Nat /\ 17 \in Nat /\ 9 \in Nat \ {0} /\ 11 \in Nat \ {0}
    OBVIOUS
  <1>3. Part(confi_defaults, 8, 9) = confi_sio_a
    BY <1>1, <1>2, Defaults, PartIs
  <1>4. Part(confi_defaults, 17, 11) = confi_sio_b
    BY <1>1, <1>2, Defaults, PartIs
  <1> QED
    BY <1>3, <1>4 DEF CONFI_SIO_A_START, CONFI_SIO_B_START

\* Eight bits a character on both channels.
LEMMA Wr5Is == wr5["A"] = 96 /\ wr5["B"] = 96
  <1>1. confi_defaults[15] = 96 /\ confi_defaults[26] = 96
    <2>1. confi_defaults[8 + 7] = confi_sio_a[7] /\ confi_defaults[17 + 9] = confi_sio_b[9]
      BY Defaults
    <2>2. confi_sio_a[7] = 96 /\ confi_sio_b[9] = 96
      BY DEF confi_sio_a, confi_sio_b
    <2> QED
      BY <2>1, <2>2
  <1>2. At(confi_defaults, CONFI_SIO_A_START + 6) = 96
        /\ At(confi_defaults, CONFI_SIO_B_START + 8) = 96
    BY <1>1 DEF At, CONFI_SIO_A_START, CONFI_SIO_B_START
  <1>3. BitsPerChar(96) = 96
    BY DEF BitsPerChar
  <1> QED
    BY <1>2, <1>3 DEF wr5, wr5_base
\* The registers after a channel reset, with some of them written.
Zero(c) == [r \in Registers(c) |-> 0]
Quiet(wr) == [ptr |-> 0, wr |-> wr, ip |-> {}]

LEMMA QuietIs ==
    ASSUME NEW c \in Channel, NEW wr \in WrType(c)
    PROVE  /\ Quiet(wr) \in PortType(c)
           /\ Quiet(wr).ptr = 0 /\ Quiet(wr).wr = wr /\ Quiet(wr).ip = {}
  BY PortOf DEF Quiet

\* Two bytes sent write one register.
LEMMA TwoBytes ==
    ASSUME NEW c \in Channel, NEW wr \in WrType(c), NEW r \in 1 .. 7,
           NEW v \in 0 .. 255
    PROVE  /\ Out(Out(Quiet(wr), r), v) = Quiet(Written(wr, r, v))
           /\ Written(wr, r, v) \in WrType(c)
  <1> DEFINE q == Quiet(wr)
  <1>1. q \in PortType(c) /\ q.ptr = 0 /\ q.wr = wr /\ q.ip = {}
    BY QuietIs
  <1> HIDE DEF q
  <1>2. OutReg(q, r, v) = [ptr |-> 0, wr |-> Written(q.wr, r, v), ip |-> q.ip]
    BY <1>1, OutRegIs
  <1>3. OutReg(q, r, v) = [ptr |-> 0, wr |-> Written(wr, r, v), ip |-> {}]
    BY <1>1, <1>2, Zenon
  <1> QED
    BY <1>3, WrittenIs DEF OutReg, Quiet, q

\* The reads of RR0 and RR1 that end hw_init_sio leave the registers alone.
LEMMA ReadsAfter ==
    ASSUME NEW c \in Channel, NEW wr \in WrType(c)
    PROVE  InPort(Out(InPort(Quiet(wr)), 1)) = Quiet(wr)
  <1> DEFINE p == [ptr |-> 1, wr |-> wr, ip |-> {}]
  <1>1. InPort(Quiet(wr)) = Quiet(wr)
    BY QuietIs, InPortIs DEF Quiet
  <1>2. Out(Quiet(wr), 1) = p
    BY QuietIs, OutValues
  <1>3. p \in PortType(c) /\ p.wr = wr /\ p.ip = {}
    BY PortOf
  <1> HIDE DEF p
  <1>4. InPort(p) = Quiet(wr)
    BY <1>3, InPortIs DEF Quiet
  <1> QED
    BY <1>1, <1>2, <1>4

WrA ==
    Written(Written(Written(Written(Zero("A"), 4, 68), 3, 225), 5, 96), 1, 27)

LEMMA SentA == Sent("A", confi_sio_a) = Quiet(WrA) /\ WrA \in WrType("A")
  <1> DEFINE w0 == Zero("A")
             w1 == Written(w0, 4, 68)
             w2 == Written(w1, 3, 225)
             w3 == Written(w2, 5, 96)
             w4 == Written(w3, 1, 27)
  <1>0. "A" \in Channel
    BY DEF Channel
  <1>1. confi_sio_a \in Seq(0 .. 255) /\ Len(confi_sio_a) = 9
    BY DEF confi_sio_a
  <1>2. PICK g : /\ g[0] = ChannelReset(Registers("A"))
                 /\ \A k \in 1 .. 9 : g[k] = Out(g[k - 1], confi_sio_a[k])
                 /\ Sent("A", confi_sio_a) = g[9]
    BY <1>0, <1>1, SentIs
  <1>3. w0 \in WrType("A") /\ g[0] = Quiet(w0)
    BY <1>2 DEF Zero, Quiet, ChannelReset, WrType
  <1>4. /\ g[1] = Out(g[0], 24) /\ g[2] = Out(g[1], 4) /\ g[3] = Out(g[2], 68)
        /\ g[4] = Out(g[3], 3) /\ g[5] = Out(g[4], 225) /\ g[6] = Out(g[5], 5)
        /\ g[7] = Out(g[6], 96) /\ g[8] = Out(g[7], 1) /\ g[9] = Out(g[8], 27)
    BY <1>2 DEF confi_sio_a
  <1> HIDE DEF w0
  <1>5. g[1] = Quiet(w0)
    BY <1>0, <1>2, <1>3, <1>4, QuietIs, OutValues
  <1> HIDE DEF w1
  <1>6. g[3] = Quiet(w1) /\ w1 \in WrType("A")
    <2>1. 4 \in 1 .. 7 /\ 68 \in 0 .. 255
      OBVIOUS
    <2>2. Out(Out(Quiet(w0), 4), 68) = Quiet(w1) /\ w1 \in WrType("A")
      BY <1>0, <1>3, <2>1, TwoBytes DEF w1
    <2> QED
      BY <1>4, <1>3, <1>5, <2>2
  <1> HIDE DEF w2
  <1>7. g[5] = Quiet(w2) /\ w2 \in WrType("A")
    <2>1. 3 \in 1 .. 7 /\ 225 \in 0 .. 255
      OBVIOUS
    <2>2. Out(Out(Quiet(w1), 3), 225) = Quiet(w2) /\ w2 \in WrType("A")
      BY <1>0, <1>6, <2>1, TwoBytes DEF w2
    <2> QED
      BY <1>4, <1>6, <2>2
  <1> HIDE DEF w3
  <1>8. g[7] = Quiet(w3) /\ w3 \in WrType("A")
    <2>1. 5 \in 1 .. 7 /\ 96 \in 0 .. 255
      OBVIOUS
    <2>2. Out(Out(Quiet(w2), 5), 96) = Quiet(w3) /\ w3 \in WrType("A")
      BY <1>0, <1>7, <2>1, TwoBytes DEF w3
    <2> QED
      BY <1>4, <1>7, <2>2
  <1> HIDE DEF w4
  <1>9. g[9] = Quiet(w4) /\ w4 \in WrType("A")
    <2>1. 1 \in 1 .. 7 /\ 27 \in 0 .. 255
      OBVIOUS
    <2>2. Out(Out(Quiet(w3), 1), 27) = Quiet(w4) /\ w4 \in WrType("A")
      BY <1>0, <1>8, <2>1, TwoBytes DEF w4
    <2> QED
      BY <1>4, <1>8, <2>2
  <1>10. w4 = WrA
    BY DEF w0, w1, w2, w3, w4, WrA
  <1> QED
    BY <1>2, <1>9, <1>10

WrB ==
    Written(Written(Written(Written(Written(Zero("B"), 2, 16), 4, 68), 3, 225), 5, 96), 1, 31)

LEMMA SentB == Sent("B", confi_sio_b) = Quiet(WrB) /\ WrB \in WrType("B")
  <1> DEFINE w0 == Zero("B")
             w1 == Written(w0, 2, 16)
             w2 == Written(w1, 4, 68)
             w3 == Written(w2, 3, 225)
             w4 == Written(w3, 5, 96)
             w5 == Written(w4, 1, 31)
  <1>0. "B" \in Channel
    BY DEF Channel
  <1>1. confi_sio_b \in Seq(0 .. 255) /\ Len(confi_sio_b) = 11
    BY DEF confi_sio_b
  <1>2. PICK g : /\ g[0] = ChannelReset(Registers("B"))
                 /\ \A k \in 1 .. 11 : g[k] = Out(g[k - 1], confi_sio_b[k])
                 /\ Sent("B", confi_sio_b) = g[11]
    BY <1>0, <1>1, SentIs
  <1>3. w0 \in WrType("B") /\ g[0] = Quiet(w0)
    BY <1>2 DEF Zero, Quiet, ChannelReset, WrType
  <1>4. /\ g[1] = Out(g[0], 24) /\ g[2] = Out(g[1], 2) /\ g[3] = Out(g[2], 16)
        /\ g[4] = Out(g[3], 4) /\ g[5] = Out(g[4], 68) /\ g[6] = Out(g[5], 3)
        /\ g[7] = Out(g[6], 225) /\ g[8] = Out(g[7], 5) /\ g[9] = Out(g[8], 96)
        /\ g[10] = Out(g[9], 1) /\ g[11] = Out(g[10], 31)
    BY <1>2 DEF confi_sio_b
  <1> HIDE DEF w0
  <1>5. g[1] = Quiet(w0)
    BY <1>0, <1>2, <1>3, <1>4, QuietIs, OutValues
  <1> HIDE DEF w1
  <1>6. g[3] = Quiet(w1) /\ w1 \in WrType("B")
    <2>1. 2 \in 1 .. 7 /\ 16 \in 0 .. 255
      OBVIOUS
    <2>2. Out(Out(Quiet(w0), 2), 16) = Quiet(w1) /\ w1 \in WrType("B")
      BY <1>0, <1>3, <2>1, TwoBytes DEF w1
    <2> QED
      BY <1>4, <1>3, <1>5, <2>2
  <1> HIDE DEF w2
  <1>7. g[5] = Quiet(w2) /\ w2 \in WrType("B")
    <2>1. 4 \in 1 .. 7 /\ 68 \in 0 .. 255
      OBVIOUS
    <2>2. Out(Out(Quiet(w1), 4), 68) = Quiet(w2) /\ w2 \in WrType("B")
      BY <1>0, <1>6, <2>1, TwoBytes DEF w2
    <2> QED
      BY <1>4, <1>6, <2>2
  <1> HIDE DEF w3
  <1>8. g[7] = Quiet(w3) /\ w3 \in WrType("B")
    <2>1. 3 \in 1 .. 7 /\ 225 \in 0 .. 255
      OBVIOUS
    <2>2. Out(Out(Quiet(w2), 3), 225) = Quiet(w3) /\ w3 \in WrType("B")
      BY <1>0, <1>7, <2>1, TwoBytes DEF w3
    <2> QED
      BY <1>4, <1>7, <2>2
  <1> HIDE DEF w4
  <1>9. g[9] = Quiet(w4) /\ w4 \in WrType("B")
    <2>1. 5 \in 1 .. 7 /\ 96 \in 0 .. 255
      OBVIOUS
    <2>2. Out(Out(Quiet(w3), 5), 96) = Quiet(w4) /\ w4 \in WrType("B")
      BY <1>0, <1>8, <2>1, TwoBytes DEF w4
    <2> QED
      BY <1>4, <1>8, <2>2
  <1> HIDE DEF w5
  <1>10. g[11] = Quiet(w5) /\ w5 \in WrType("B")
    <2>1. 1 \in 1 .. 7 /\ 31 \in 0 .. 255
      OBVIOUS
    <2>2. Out(Out(Quiet(w4), 1), 31) = Quiet(w5) /\ w5 \in WrType("B")
      BY <1>0, <1>9, <2>1, TwoBytes DEF w5
    <2> QED
      BY <1>4, <1>9, <2>2
  <1>11. w5 = WrB
    BY DEF w0, w1, w2, w3, w4, w5, WrB
  <1> QED
    BY <1>2, <1>10, <1>11

\* Both channels start with RTS and the transmitter off, the pointer at WR0
\* and their interrupts enabled; channel B has its vector, and status in it.
THEOREM StartedIs ==
    /\ \A c \in Channel :
          /\ Started[c] \in PortType(c) /\ Started[c].ptr = 0 /\ Started[c].ip = {}
          /\ Started[c].wr[5] = 96 /\ Started[c].wr[3] = 225
    /\ Started["A"].wr[1] = 27
    /\ Started["B"].wr[1] = 31 /\ Started["B"].wr[2] = 16
  <1>0. "A" \in Channel /\ "B" \in Channel
    BY DEF Channel
  <1>1. Started["A"] = Quiet(WrA) /\ Started["B"] = Quiet(WrB)
    BY <1>0, Parts, SentA, SentB, ReadsAfter DEF Started, hw_init_sio
  <1>2. /\ WrA[5] = 96 /\ WrA[3] = 225 /\ WrA[1] = 27
        /\ WrB[5] = 96 /\ WrB[3] = 225 /\ WrB[1] = 31 /\ WrB[2] = 16
    BY RegistersAre DEF WrA, WrB, Zero, Written
  <1>3. /\ Quiet(WrA) \in PortType("A") /\ Quiet(WrB) \in PortType("B")
        /\ Quiet(WrA).ptr = 0 /\ Quiet(WrA).wr = WrA /\ Quiet(WrA).ip = {}
        /\ Quiet(WrB).ptr = 0 /\ Quiet(WrB).wr = WrB /\ Quiet(WrB).ip = {}
    BY <1>0, SentA, SentB, QuietIs
  <1> QED
    BY <1>1, <1>2, <1>3 DEF Channel
-----------------------------------------------------------------------------
(***************************************************************************)
(* What the driver's sequences of port writes do to a channel.  With the   *)
(* pointer at WR0 they do what is meant; otherwise, at least, none of them *)
(* turns RTS on.                                                           *)
(***************************************************************************)
RtsBit(w) == (w \div 2) % 2 = 1

LEMMA Values ==
    /\ 1 \in 1 .. 7 /\ 5 \in 1 .. 7
    /\ 1 \in 0 .. 255 /\ 5 \in 0 .. 255 /\ 16 \in 0 .. 255 /\ 27 \in 0 .. 255
    /\ 40 \in 0 .. 255 /\ 48 \in 0 .. 255 /\ 232 \in 0 .. 255 /\ 234 \in 0 .. 255
  OBVIOUS

LEMMA RtsIs ==
    /\ \A s : Rts(s) <=> RtsBit(s.wr[5])
    /\ RtsBit(234) /\ ~RtsBit(232) /\ ~RtsBit(96) /\ ~RtsBit(40) /\ ~RtsBit(5)
    /\ ~RtsBit(1) /\ ~RtsBit(0)
  BY DEF Rts, Bit, RtsBit

\* A byte for a register leaves the pointer at WR0; one with bit 1 clear, or
\* for another register than WR5, does not turn RTS on.
LEMMA PointedIs ==
    ASSUME NEW c \in Channel, NEW s \in PortType(c), NEW v \in 0 .. 255, s.ptr # 0
    PROVE  /\ Out(s, v) \in PortType(c) /\ Out(s, v).ptr = 0 /\ Out(s, v).ip = s.ip
           /\ Out(s, v).wr = Written(s.wr, s.ptr, v)
           /\ s.ptr # 5 \/ ~RtsBit(v) => (Rts(Out(s, v)) => Rts(s))
  <1> DEFINE e == Out(s, v)
  <1>1. e = [ptr |-> 0, wr |-> Written(s.wr, s.ptr, v), ip |-> s.ip]
    BY OutPointed
  <1>2. e \in PortType(c)
    BY OutType
  <1> HIDE DEF e
  <1>3. e.ptr = 0 /\ e.ip = s.ip /\ e.wr = Written(s.wr, s.ptr, v)
    BY <1>1
  <1>4. 5 \in Registers(c) /\ s.wr \in WrType(c)
    BY RegistersAre, PortFields DEF Channel
  <1>5. e.wr[5] = IF s.ptr = 5 THEN v ELSE s.wr[5]
    BY <1>3, <1>4 DEF Written, WrType
  <1>6. s.ptr # 5 \/ ~RtsBit(v) => (Rts(e) => Rts(s))
    BY <1>5, RtsIs
  <1> QED
    BY <1>2, <1>3, <1>6 DEF e

LEMMA RegIs ==
    ASSUME NEW c \in Channel, NEW s \in PortType(c), s.ptr = 0, NEW r \in 1 .. 7,
           NEW v \in 0 .. 255
    PROVE  /\ OutReg(s, r, v) \in PortType(c)
           /\ OutReg(s, r, v).ptr = 0 /\ OutReg(s, r, v).ip = s.ip
           /\ OutReg(s, r, v).wr = Written(s.wr, r, v)
  <1> DEFINE e == OutReg(s, r, v)
  <1>1. e = [ptr |-> 0, wr |-> Written(s.wr, r, v), ip |-> s.ip]
    BY OutRegIs
  <1>2. e \in PortType(c)
    <2>1. r \in 0 .. 255
      OBVIOUS
    <2> QED
      BY <2>1, OutRegType
  <1> HIDE DEF e
  <1>3. e.ptr = 0 /\ e.ip = s.ip /\ e.wr = Written(s.wr, r, v)
    BY <1>1
  <1> QED
    BY <1>2, <1>3 DEF e

\* What each handler leaves of the channel it is for.
After(c, s, e) == /\ e \in PortType(c) /\ e.ptr = 0 /\ e.ip \subseteq s.ip
                  /\ s.ptr = 0 => e.wr = s.wr
                  /\ Rts(e) => Rts(s)

LEMMA TxHandled ==
    ASSUME NEW c \in Channel, NEW s \in PortType(c)
    PROVE  After(c, s, Out(s, 40))
  <1>1. CASE s.ptr = 0
    <2> DEFINE e == Out(s, 40)
    <2>1. e = [ptr |-> 0, wr |-> s.wr, ip |-> s.ip \ {"tx"}] /\ e \in PortType(c)
      BY <1>1, OutValues, OutType, Values
    <2> HIDE DEF e
    <2>2. After(c, s, e)
      BY <2>1, RtsIs DEF After
    <2> QED
      BY <2>2 DEF e
  <1>2. CASE s.ptr # 0
    BY <1>2, PointedIs, Values, RtsIs DEF After
  <1> QED
    BY <1>1, <1>2

LEMMA ExtHandled ==
    ASSUME NEW c \in Channel, NEW s \in PortType(c)
    PROVE  After(c, s, Out(InPort(s), 16))
  <1> DEFINE t == InPort(s)
             e == Out(t, 16)
  <1>1. t \in PortType(c) /\ t.ptr = 0 /\ t.wr = s.wr /\ t.ip = s.ip
    BY InPortIs
  <1> HIDE DEF t
  <1>2. e = [ptr |-> 0, wr |-> t.wr, ip |-> t.ip \ {"ext"}] /\ e \in PortType(c)
    BY <1>1, OutValues, OutType, Values
  <1> HIDE DEF e
  <1>3. After(c, s, e)
    BY <1>1, <1>2, RtsIs DEF After
  <1> QED
    BY <1>3 DEF e, t

LEMMA SpecHandled ==
    ASSUME NEW c \in Channel, NEW s \in PortType(c)
    PROVE  After(c, s, Out(ErrorRead(Out(s, 1)), 48))
  <1> DEFINE t == Out(s, 1)
             u == InPort(t)
             e == Out(u, 48)
  <1>1. /\ t \in PortType(c) /\ t.ip = s.ip /\ (Rts(t) => Rts(s))
        /\ s.ptr = 0 => t.wr = s.wr
    <2>1. t \in PortType(c)
      BY OutType, Values
    <2>2. CASE s.ptr = 0
      <3>1. t = [ptr |-> 1, wr |-> s.wr, ip |-> s.ip]
        BY <2>2, OutValues, Values
      <3> HIDE DEF t
      <3> QED
        BY <2>1, <3>1, RtsIs
    <2>3. CASE s.ptr # 0
      BY <2>1, <2>3, PointedIs, Values, RtsIs
    <2> QED
      BY <2>2, <2>3
  <1> HIDE DEF t
  <1>2. u \in PortType(c) /\ u.ptr = 0 /\ u.wr = t.wr /\ u.ip = t.ip
    BY <1>1, InPortIs
  <1> HIDE DEF u
  <1>3. e = [ptr |-> 0, wr |-> u.wr, ip |-> u.ip \ {"special"}] /\ e \in PortType(c)
    BY <1>2, OutValues, OutType, Values
  <1> HIDE DEF e
  <1>4. After(c, s, e)
    BY <1>1, <1>2, <1>3, RtsIs DEF After
  <1> QED
    BY <1>4 DEF ErrorRead, t, u, e

\* SelectWR5, then RaiseRts.
LEMMA Selected ==
    ASSUME NEW c \in Channel, NEW s \in PortType(c)
    PROVE  LET e == Out(s, 5)
           IN  /\ e \in PortType(c) /\ e.ip = s.ip /\ (Rts(e) => Rts(s))
               /\ s.ptr = 0 => e.ptr = 5 /\ e.wr = s.wr
               /\ s.ptr # 0 => e.ptr = 0
  <1> DEFINE e == Out(s, 5)
  <1>1. CASE s.ptr = 0
    <2>1. e = [ptr |-> 5, wr |-> s.wr, ip |-> s.ip] /\ e \in PortType(c)
      BY <1>1, OutValues, OutType, Values
    <2> HIDE DEF e
    <2> QED
      BY <1>1, <2>1, RtsIs DEF e
  <1>2. CASE s.ptr # 0
    BY <1>2, PointedIs, Values, RtsIs
  <1> QED
    BY <1>1, <1>2

LEMMA Raised ==
    ASSUME NEW c \in Channel, NEW s \in PortType(c), s.ptr \in {0, 5}
    PROVE  LET e == Out(s, 234)
           IN  /\ e \in PortType(c) /\ e.ip \subseteq s.ip
               /\ e.ptr = IF s.ptr = 5 THEN 0 ELSE 2
               /\ s.ptr = 5 => e.wr = Written(s.wr, 5, 234)
  <1> DEFINE e == Out(s, 234)
  <1>1. CASE s.ptr = 0
    <2>1. e = [ptr |-> 2, wr |-> s.wr, ip |-> s.ip \ {"tx"}] /\ e \in PortType(c)
      BY <1>1, OutValues, OutType, Values
    <2> HIDE DEF e
    <2> QED
      BY <1>1, <2>1 DEF e
  <1>2. CASE s.ptr = 5
    BY <1>2, PointedIs, Values
  <1> QED
    BY <1>1, <1>2

\* serial_a_check_rts, when it drops RTS: without effect if a register is
\* selected.
LEMMA Dropped ==
    ASSUME NEW c \in Channel, NEW s \in PortType(c)
    PROVE  LET e == OutReg(s, 5, 232)
           IN  /\ e \in PortType(c) /\ e.ptr = 0 /\ e.ip \subseteq s.ip
               /\ s.ptr = 0 => e.wr = Written(s.wr, 5, 232) /\ ~Rts(e)
               /\ Rts(e) => Rts(s)
  <1> DEFINE e == OutReg(s, 5, 232)
  <1>1. CASE s.ptr = 0
    <2>0. 5 \in 1 .. 7 /\ 232 \in 0 .. 255
      OBVIOUS
    <2>1. /\ e \in PortType(c) /\ e.ptr = 0 /\ e.ip = s.ip
          /\ e.wr = Written(s.wr, 5, 232)
      BY <1>1, <2>0, RegIs, SMTT(60)
    <2> HIDE DEF e
    <2>2. 5 \in Registers(c) /\ s.wr \in WrType(c)
      BY RegistersAre, PortFields DEF Channel
    <2>3. e.wr[5] = 232
      BY <2>1, <2>2 DEF Written, WrType
    <2> QED
      BY <1>1, <2>1, <2>3, RtsIs DEF e
  <1>2. CASE s.ptr # 0
    <2> DEFINE t == Out(s, 5)
    <2>1. t \in PortType(c) /\ t.ptr = 0 /\ t.ip = s.ip /\ (Rts(t) => Rts(s))
      BY <1>2, PointedIs, Values, RtsIs
    <2>2. e = Out(t, 232)
      BY DEF OutReg
    <2> HIDE DEF t, e
    <2>3. e = [ptr |-> 0, wr |-> t.wr, ip |-> t.ip \ {"tx"}] /\ e \in PortType(c)
      BY <2>1, <2>2, OutValues, OutType, Values
    <2> QED
      BY <1>2, <2>1, <2>3, RtsIs DEF e
  <1> QED
    BY <1>1, <1>2

\* The registers serial_send writes.  With WR2 of channel A selected, the two
\* selections and two values end in a reset of the channel.
LEMMA ProgrammedIs ==
    ASSUME NEW c \in Channel, NEW s \in PortType(c)
    PROVE  LET e == Programmed(c, s)
           IN  /\ e \in PortType(c) /\ e.ptr = 0 /\ e.ip \subseteq s.ip
               /\ s.ptr = 0 => e.wr = Written(Written(s.wr, 5, 234), 1, 27)
  <1> DEFINE t == OutReg(s, 5, 234)
             e == OutReg(t, 1, 27)
  <1>1. Programmed(c, s) = e
    <2>1. wr5[c] + WR5_DTR_RTS_TX = 234
      BY Wr5Is DEF Channel, WR5_DTR_RTS_TX
    <2> QED
      BY <2>1 DEF Programmed
  <1>2. CASE s.ptr = 0
    <2>0. 5 \in 1 .. 7 /\ 234 \in 0 .. 255 /\ 1 \in 1 .. 7 /\ 27 \in 0 .. 255
      OBVIOUS
    <2>1. t \in PortType(c) /\ t.ptr = 0 /\ t.wr = Written(s.wr, 5, 234) /\ t.ip = s.ip
      BY <1>2, <2>0, RegIs, SMTT(60)
    <2> HIDE DEF t
    <2>2. e \in PortType(c) /\ e.ptr = 0 /\ e.ip = t.ip /\ e.wr = Written(t.wr, 1, 27)
      BY <2>0, <2>1, RegIs, SMTT(60)
    <2> HIDE DEF e
    <2>3. e.wr = Written(Written(s.wr, 5, 234), 1, 27)
      BY <2>1, <2>2, Zenon
    <2> QED
      BY <1>1, <1>2, <2>1, <2>2, <2>3
  <1>3. CASE s.ptr # 0
    <2> DEFINE a == Out(s, 5)
               b == Out(a, 234)
               d == Out(b, 1)
    <2>1. a \in PortType(c) /\ a.ptr = 0
      BY <1>3, PointedIs, Values
    <2> HIDE DEF a
    <2>2. b \in PortType(c) /\ b.ptr = 2
      BY <2>1, OutType, Values, OutValues
    <2> HIDE DEF b
    <2>3. d \in PortType(c) /\ d.ptr = 0
      BY <2>2, PointedIs, Values
    <2> HIDE DEF d
    <2>4. Out(d, 27) = ChannelReset(Registers(c))
      BY <2>3, OutValues
    <2>5. e = ChannelReset(Registers(c))
      BY <2>4 DEF OutReg, a, b, d
    <2>6. e \in PortType(c) /\ e.ptr = 0 /\ e.ip = {}
      BY <2>5, ResetType DEF ChannelReset
    <2> QED
      BY <1>1, <1>3, <2>6
  <1> QED
    BY <1>2, <1>3

-----------------------------------------------------------------------------
(***************************************************************************)
(* The inductive invariant.                                                *)
(***************************************************************************)
\* The call in progress is to a channel the session sends on.
Shapes ==
    /\ pc \in {"ready", "send"} => call \in [to : Sends, list : BOOLEAN]
    /\ pc \notin {"ready", "send"} => call = Nothing

\* The port of channel A.  Between READER's two writes a handler can put the
\* pointer back to WR0; the second write then leaves it at WR2.  Until that
\* has happened the registers are what the driver wrote.
PortA ==
    /\ sio["A"].ptr \in IF pc = "set" THEN {0, 5} ELSE {0, 2}
    /\ ~struck => /\ sio["A"].ptr = IF pc = "set" THEN 5 ELSE 0
                  /\ sio["A"].wr[5] \in {96, 232, 234} /\ sio["A"].wr[1] = 27
                  /\ \A r \in Registers("A") \ {1, 5} :
                        sio["A"].wr[r] = Started["A"].wr[r]

\* The port of channel B is written to with interrupts disabled only.
PortB ==
    /\ sio["B"].ptr = 0
    /\ sio["B"].wr[5] \in {96, 234}
    /\ sio["B"].wr[1] \in {31, 27} /\ ("B" \notin Sends => sio["B"].wr[1] = 31)
    /\ \A r \in Registers("B") \ {1, 5} : sio["B"].wr[r] = Started["B"].wr[r]

\* The fill of the ring, by the state of RTS.  If the pointer is wrong at the
\* high-water mark, RTS goes off one byte later.
Slack == IF struck THEN 1 ELSE 0

Flow ==
    /\ pc \in {"select", "set"} => ringbuf_count(rx_ring) < SIO_A_HIGHWATER
    /\ ~forced =>
          IF Rts(sio["A"])
          THEN \/ ringbuf_count(rx_ring) < SIO_A_HIGHWATER
               \/ /\ struck /\ sio["A"].ptr = 0
                  /\ ringbuf_count(rx_ring) = SIO_A_HIGHWATER
          ELSE ringbuf_count(rx_ring) <= SIO_A_HIGHWATER + Slack + late

\* READER is on its way to raise an RTS that is off over an empty ring.
Rescue ==
    ~struck /\ sio["A"].wr[5] = 232 /\ ~ringbuf_has_data(rx_ring)
        => pc \in {"check", "select", "set"}

\* What READER has read of the ring is still so.
Holding ==
    /\ pc \in {"take", "load", "store"} => ringbuf_has_data(rx_ring)
    /\ pc \in {"load", "store"} => ch = ringbuf_peek(rx_ring)
    /\ pc = "store" => next = NextTail(rx_ring)

\* A transmitter that is ready, or says so, is empty, as long as every
\* interrupt has found its own handler.
TxEmpty ==
    /\ pc = "send" => tx_ready[call.to] = 255
    /\ ~misled => \A c \in Channel :
          tx_ready[c] = 255 \/ "tx" \in sio[c].ip => c \notin full

\* What LISTST said still holds.
Announced ==
    announced => IF pc \in {"ready", "send"}
                 THEN call.list => tx_ready[call.to] = 255
                 ELSE bios_listst = 255

IInv == /\ TypeOK /\ Shapes /\ PortA /\ PortB /\ Flow /\ Rescue /\ Holding
        /\ TxEmpty /\ Announced

LEMMA Sizes ==
    /\ SIO_MASK \in Nat \ {0} /\ SIO_A_HIGHWATER \in Nat /\ Lag \in Nat
    /\ 1 < SIO_A_HIGHWATER /\ SIO_A_HIGHWATER + Lag + 1 <= SIO_MASK
    /\ Bytes \subseteq Byte /\ 0 \in Byte /\ Byte \subseteq 0 .. 255
    /\ Iobyte \subseteq 0 .. 255
  BY SioAssumption DEF SIO_MASK, Bytes

LEMMA SendsIs ==
    ASSUME TypeOK
    PROVE  Sends \subseteq Channel
  BY SioAssumption DEF TypeOK, Sends, Channel

LEMMA ListToIs ==
    ASSUME TypeOK
    PROVE  ListTo \in {"A", "B", "crt", "none"}
  <1>1. iobyte_lst_mode \in 0 .. 3
    BY DEF TypeOK, iobyte_lst_mode
  <1> QED
    BY <1>1 DEF ListTo

LEMMA ListstIs ==
    /\ ListTo \in Channel => bios_listst = tx_ready[ListTo]
    /\ ListTo = "crt" => bios_listst = 255
    /\ ListTo = "none" => bios_listst = 0
  BY DEF bios_listst, Channel

\* What the operators of a ring give, for the ring of channel A.
LEMMA RxRing ==
    ASSUME rx_ring \in Ring(Byte, SIO_MASK)
    PROVE  /\ rx_ring.mask = SIO_MASK /\ ringbuf_peek(rx_ring) \in Byte
           /\ NextTail(rx_ring) \in 0 .. SIO_MASK
           /\ ringbuf_count(rx_ring) \in 0 .. SIO_MASK
           /\ ringbuf_has_data(rx_ring) <=> ringbuf_count(rx_ring) # 0
           /\ \A t \in 0 .. SIO_MASK : SetTail(rx_ring, t) \in Ring(Byte, SIO_MASK)
           /\ \A b \in Byte : /\ ringbuf_put(rx_ring, b) \in Ring(Byte, SIO_MASK)
                              /\ NextTail(ringbuf_put(rx_ring, b)) = NextTail(rx_ring)
                              /\ ringbuf_has_data(ringbuf_put(rx_ring, b))
                              /\ ringbuf_has_data(rx_ring) =>
                                   ringbuf_peek(ringbuf_put(rx_ring, b)) = ringbuf_peek(rx_ring)
  BY Sizes, RingTypes, PutLeavesOldest, CountIs

LEMMA RxPut ==
    ASSUME rx_ring \in Ring(Byte, SIO_MASK), NEW b \in Byte
    PROVE  /\ ringbuf_count(ringbuf_put(rx_ring, b)) \in
                {ringbuf_count(rx_ring), ringbuf_count(rx_ring) + 1}
           /\ ringbuf_put(rx_ring, b) = rx_ring => ringbuf_count(rx_ring) = SIO_MASK
  <1>1. CASE ringbuf_full(rx_ring)
    BY <1>1, PutDiscards, FullIs, Sizes
  <1>2. CASE ~ringbuf_full(rx_ring)
    BY <1>2, PutAppends, Sizes
  <1> QED
    BY <1>1, <1>2

LEMMA Taking ==
    ASSUME rx_ring \in Ring(Byte, SIO_MASK), ringbuf_has_data(rx_ring)
    PROVE  /\ SetTail(rx_ring, NextTail(rx_ring)) \in Ring(Byte, SIO_MASK)
           /\ ringbuf_count(SetTail(rx_ring, NextTail(rx_ring))) = ringbuf_count(rx_ring) - 1
  BY Sizes, SetTailTakes

\* The vector with "status affects vector" set in WR1 of channel B, and clear.
LEMMA VectorIs ==
    ASSUME NEW b, NEW i \in Interrupt, b.wr[2] = 16
    PROVE  /\ b.wr[1] = 31 => Vector(b, i) = VectorEntry(i)
           /\ b.wr[1] = 27 => Vector(b, i) = 16
  <1>1. 16 - (16 % 16) = 16 /\ 16 % 2 = 0 /\ (31 \div 4) % 2 = 1 /\ (27 \div 4) % 2 = 0
    OBVIOUS
  <1>2. CASE b.wr[1] = 31
    <2>1. StatusInVector(b)
      BY <1>1, <1>2 DEF StatusInVector, Bit
    <2>2. Status(i) \in 0 .. 7
      BY DEF Status, Interrupt, Cause
    <2> HIDE DEF Status
    <2> QED
      BY <1>1, <1>2, <2>1, <2>2 DEF Vector, VectorEntry
  <1>3. CASE b.wr[1] = 27
    <2>1. ~StatusInVector(b)
      BY <1>1, <1>3 DEF StatusInVector, Bit
    <2> QED
      BY <1>1, <1>3, <2>1 DEF Vector
  <1> QED
    BY <1>2, <1>3

-----------------------------------------------------------------------------
(***************************************************************************)
(* What each action that writes to a port, and the chip itself, does to    *)
(* the channels.                                                           *)
(***************************************************************************)
Chip(f) == DOMAIN f = Channel /\ \A c \in Channel : f[c] \in PortType(c)

LEMMA Ports ==
    ASSUME TypeOK
    PROVE  /\ "A" \in Channel /\ "B" \in Channel /\ Chip(sio)
           /\ \A c \in Channel : /\ sio[c] \in PortType(c) /\ sio[c].ptr \in 0 .. 7
                                 /\ sio[c].wr \in WrType(c) /\ sio[c].ip \subseteq Cause
  BY PortFields DEF TypeOK, Channel, Chip

\* Channel c becomes e, the other stays.
LEMMA Replaced ==
    ASSUME TypeOK, NEW c \in Channel, NEW e \in PortType(c),
           sio' = [sio EXCEPT ![c] = e]
    PROVE  /\ Chip(sio') /\ sio'[c] = e
           /\ \A d \in Channel \ {c} : sio'[d] = sio[d]
  BY DEF TypeOK, Chip

Same(c) == sio'[c].ptr = sio[c].ptr /\ sio'[c].wr = sio[c].wr

\* Only the pending interrupts of a channel change.
LEMMA Pending ==
    ASSUME TypeOK, NEW c \in Channel, NEW ip \in SUBSET Cause,
           sio' = [sio EXCEPT ![c].ip = ip]
    PROVE  /\ Chip(sio') /\ sio'[c].ip = ip
           /\ \A d \in Channel \ {c} : sio'[d] = sio[d]
           /\ \A d \in Channel : Same(d)
  <1> DEFINE s == sio[c]
             e == [s EXCEPT !.ip = ip]
  <1>1. sio' = [sio EXCEPT ![c] = e]
    OBVIOUS
  <1>2. s \in PortType(c)
    BY Ports
  <1>3. e = [ptr |-> s.ptr, wr |-> s.wr, ip |-> ip]
    BY <1>2, PortFields
  <1>4. e \in PortType(c)
    BY <1>2, <1>3, PortFields, PortOf
  <1>5. e.ptr = s.ptr /\ e.wr = s.wr /\ e.ip = ip
    BY <1>3
  <1> HIDE DEF e
  <1>6. Chip(sio') /\ sio'[c] = e /\ \A d \in Channel \ {c} : sio'[d] = sio[d]
    BY <1>1, <1>4, Replaced
  <1> QED
    BY <1>5, <1>6 DEF Same

LEMMA SelectEffect ==
    ASSUME TypeOK, SelectWR5
    PROVE  /\ Chip(sio') /\ sio'["B"] = sio["B"] /\ sio'["A"].ip = sio["A"].ip
           /\ Rts(sio'["A"]) => Rts(sio["A"])
           /\ sio["A"].ptr = 0 => sio'["A"].ptr = 5 /\ sio'["A"].wr = sio["A"].wr
           /\ sio["A"].ptr # 0 => sio'["A"].ptr = 0
  <1> DEFINE e == Out(sio["A"], 5)
  <1>1. /\ e \in PortType("A") /\ e.ip = sio["A"].ip /\ (Rts(e) => Rts(sio["A"]))
        /\ sio["A"].ptr = 0 => e.ptr = 5 /\ e.wr = sio["A"].wr
        /\ sio["A"].ptr # 0 => e.ptr = 0
    BY Ports, Selected
  <1>2. sio' = [sio EXCEPT !["A"] = e]
    BY DEF SelectWR5
  <1> HIDE DEF e
  <1>3. Chip(sio') /\ sio'["A"] = e /\ sio'["B"] = sio["B"]
    BY <1>1, <1>2, Ports, Replaced DEF Channel
  <1> QED
    BY <1>1, <1>3

LEMMA RaiseEffect ==
    ASSUME TypeOK, PortA, RaiseRts
    PROVE  /\ Chip(sio') /\ sio'["B"] = sio["B"] /\ sio'["A"].ip \subseteq sio["A"].ip
           /\ sio'["A"].ptr = IF sio["A"].ptr = 5 THEN 0 ELSE 2
           /\ sio["A"].ptr = 5 => sio'["A"].wr = Written(sio["A"].wr, 5, 234)
  <1> DEFINE e == Out(sio["A"], 234)
  <1>0. sio["A"].ptr \in {0, 5}
    BY DEF PortA, RaiseRts
  <1>1. /\ e \in PortType("A") /\ e.ip \subseteq sio["A"].ip
        /\ e.ptr = IF sio["A"].ptr = 5 THEN 0 ELSE 2
        /\ sio["A"].ptr = 5 => e.wr = Written(sio["A"].wr, 5, 234)
    BY <1>0, Ports, Raised
  <1>2. sio' = [sio EXCEPT !["A"] = e]
    <2>1. wr5["A"] + WR5_DTR_RTS_TX = 234
      BY Wr5Is DEF WR5_DTR_RTS_TX
    <2> QED
      BY <2>1 DEF RaiseRts
  <1> HIDE DEF e
  <1>3. Chip(sio') /\ sio'["A"] = e /\ sio'["B"] = sio["B"]
    BY <1>1, <1>2, Ports, Replaced DEF Channel
  <1> QED
    BY <1>1, <1>3

LEMMA SendEffect ==
    ASSUME TypeOK, Shapes, SendByte
    PROVE  /\ Chip(sio') /\ call.to \in Sends /\ call.to \in Channel
           /\ \A d \in Channel \ {call.to} : sio'[d] = sio[d]
           /\ sio'[call.to].ptr = 0 /\ sio'[call.to].ip \subseteq sio[call.to].ip \ {"tx"}
           /\ sio[call.to].ptr = 0 =>
                sio'[call.to].wr = Written(Written(sio[call.to].wr, 5, 234), 1, 27)
  <1>1. call.to \in Sends /\ call.to \in Channel
    BY SendsIs DEF Shapes, SendByte
  <1> DEFINE c == call.to
             s == sio[c]
             p == Programmed(c, s)
             ip == p.ip \ {"tx"}
             e == [p EXCEPT !.ip = ip]
  <1>2. sio' = [sio EXCEPT ![c] = e]
    BY DEF SendByte
  <1>3. s \in PortType(c)
    BY <1>1, Ports
  <1> HIDE DEF s
  <1>4. /\ p \in PortType(c) /\ p.ptr = 0 /\ p.ip \subseteq s.ip
        /\ s.ptr = 0 => p.wr = Written(Written(s.wr, 5, 234), 1, 27)
    BY <1>1, <1>3, ProgrammedIs
  <1>5. e = [ptr |-> p.ptr, wr |-> p.wr, ip |-> ip] /\ ip \subseteq Cause
    BY <1>1, <1>4, PortFields
  <1> HIDE DEF p
  <1>6. ip \subseteq s.ip \ {"tx"}
    BY <1>4
  <1> HIDE DEF ip
  <1>7. e \in PortType(c)
    BY <1>1, <1>4, <1>5, PortFields, PortOf
  <1>8. e.ptr = p.ptr /\ e.wr = p.wr /\ e.ip = ip
    BY <1>5
  <1> HIDE DEF e
  <1>9. Chip(sio') /\ sio'[c] = e /\ \A d \in Channel \ {c} : sio'[d] = sio[d]
    BY <1>1, <1>2, <1>7, Replaced
  <1> QED
    BY <1>1, <1>4, <1>6, <1>8, <1>9 DEF s

LEMMA RxEffect ==
    ASSUME TypeOK, NEW b \in Bytes, isr_sio_a_rx(b)
    PROVE  /\ Chip(sio') /\ sio'["B"] = sio["B"] /\ sio'["A"].ip \subseteq sio["A"].ip
           /\ \/ /\ ringbuf_count(rx_ring') < SIO_A_HIGHWATER
                 /\ sio'["A"] = sio["A"]
              \/ /\ ~(ringbuf_count(rx_ring') < SIO_A_HIGHWATER)
                 /\ sio'["A"].ptr = 0 /\ (Rts(sio'["A"]) => Rts(sio["A"]))
                 /\ sio["A"].ptr = 0 => /\ sio'["A"].wr = Written(sio["A"].wr, 5, 232)
                                        /\ ~Rts(sio'["A"])
  <1> DEFINE e == OutReg(sio["A"], 5, 232)
  <1>1. /\ e \in PortType("A") /\ e.ptr = 0 /\ e.ip \subseteq sio["A"].ip
        /\ sio["A"].ptr = 0 => e.wr = Written(sio["A"].wr, 5, 232) /\ ~Rts(e)
        /\ Rts(e) => Rts(sio["A"])
    BY Ports, Dropped
  <1>2. sio' = [sio EXCEPT !["A"] = DropRts(rx_ring', sio["A"])]
    BY DEF isr_sio_a_rx
  <1>3. wr5["A"] + WR5_DTR_TX = 232
    BY Wr5Is DEF WR5_DTR_TX
  <1>4. ringbuf_count(rx_ring') \in Nat
    <2>1. rx_ring' = ringbuf_put(rx_ring, b) /\ b \in Byte /\ rx_ring \in Ring(Byte, SIO_MASK)
      BY Sizes DEF isr_sio_a_rx, TypeOK
    <2>2. ringbuf_count(rx_ring) \in Nat
      BY <2>1, RxRing
    <2> QED
      BY <2>1, <2>2, RxPut
  <1>5. CASE ringbuf_count(rx_ring') < SIO_A_HIGHWATER
    <2>1. ~(ringbuf_count(rx_ring') >= SIO_A_HIGHWATER)
      BY <1>4, <1>5, Sizes
    <2>2. sio' = [sio EXCEPT !["A"] = sio["A"]]
      BY <1>2, <2>1 DEF DropRts
    <2>3. Chip(sio') /\ sio'["A"] = sio["A"] /\ sio'["B"] = sio["B"]
      BY <2>2, Ports, Replaced DEF Channel
    <2> QED
      BY <1>5, <2>3
  <1>6. CASE ~(ringbuf_count(rx_ring') < SIO_A_HIGHWATER)
    <2>1. ringbuf_count(rx_ring') >= SIO_A_HIGHWATER
      BY <1>4, <1>6, Sizes
    <2>2. sio' = [sio EXCEPT !["A"] = e]
      BY <1>2, <1>3, <2>1 DEF DropRts
    <2> HIDE DEF e
    <2>3. Chip(sio') /\ sio'["A"] = e /\ sio'["B"] = sio["B"]
      BY <1>1, <2>2, Ports, Replaced DEF Channel
    <2> QED
      BY <1>1, <1>6, <2>3
  <1> QED
    BY <1>5, <1>6

LEMMA TransmitEffect ==
    ASSUME TypeOK, NEW c \in Channel, Transmit(c)
    PROVE  /\ Chip(sio') /\ \A d \in Channel : Same(d)
           /\ \A d \in Channel \ {c} : sio'[d] = sio[d]
  <1> DEFINE ip == sio[c].ip \cup IF Interrupts(sio[c], "tx") THEN {"tx"} ELSE {}
  <1>1. sio' = [sio EXCEPT ![c].ip = ip]
    BY DEF Transmit
  <1>2. ip \in SUBSET Cause
    BY Ports DEF Cause
  <1> HIDE DEF ip
  <1> QED
    BY <1>1, <1>2, Pending

LEMMA LineEffect ==
    ASSUME TypeOK, NEW i \in Interrupt, LineEvent(i)
    PROVE  /\ Chip(sio') /\ \A d \in Channel : Same(d)
           /\ \A d \in Channel : "tx" \in sio'[d].ip => "tx" \in sio[d].ip
  <1> DEFINE c == i[1]
             ip == sio[c].ip \cup {i[2]}
  <1>1. c \in Channel /\ i[2] \in Cause
    BY DEF Interrupt, Channel
  <1>2. sio' = [sio EXCEPT ![c].ip = ip] /\ i[2] # "tx"
    BY DEF LineEvent
  <1>3. ip \in SUBSET Cause /\ ("tx" \in ip => "tx" \in sio[c].ip)
    BY <1>1, <1>2, Ports
  <1> HIDE DEF ip, c
  <1>4. /\ Chip(sio') /\ sio'[c].ip = ip /\ \A d \in Channel \ {c} : sio'[d] = sio[d]
        /\ \A d \in Channel : Same(d)
    BY <1>1, <1>2, <1>3, Pending
  <1> QED
    BY <1>1, <1>3, <1>4

\* A handler, whichever it is, on the channel it is for.
Served(h) ==
    LET c == h[1]
    IN  /\ Chip(sio') /\ c \in Channel /\ After(c, sio[c], sio'[c])
        /\ \A d \in Channel \ {c} : sio'[d] = sio[d] /\ tx_ready'[d] = tx_ready[d]
        /\ tx_ready' \in [Channel -> {0, 255}]
        /\ tx_ready'[c] \in {tx_ready[c], 255}
        /\ tx_ready'[c] = tx_ready[c] \/ h[2] = "tx"

LEMMA Handled ==
    ASSUME TypeOK, PortB, NEW h \in Interrupt, Handler(h)
    PROVE  Served(h)
  <1> DEFINE c == h[1]
             s == sio[c]
  <1>1. c \in Channel /\ s \in PortType(c) /\ tx_ready \in [Channel -> {0, 255}]
    BY Ports DEF Interrupt, Channel, TypeOK
  <1>2. CASE h[2] = "tx" /\ isr_sio_tx(c)
    <2> DEFINE e == Out(s, 40)
    <2>1. sio' = [sio EXCEPT ![c] = e] /\ tx_ready' = [tx_ready EXCEPT ![c] = 255]
      BY <1>2 DEF isr_sio_tx
    <2>2. After(c, s, e) /\ e \in PortType(c)
      BY <1>1, TxHandled DEF After
    <2> HIDE DEF e
    <2>3. Chip(sio') /\ sio'[c] = e /\ \A d \in Channel \ {c} : sio'[d] = sio[d]
      BY <1>1, <2>1, <2>2, Replaced
    <2>4. /\ tx_ready' \in [Channel -> {0, 255}] /\ tx_ready'[c] = 255
          /\ \A d \in Channel \ {c} : tx_ready'[d] = tx_ready[d]
      BY <1>1, <2>1
    <2> QED
      BY <1>1, <1>2, <2>2, <2>3, <2>4 DEF Served
  <1>3. CASE h[2] = "ext" /\ isr_sio_ext(c)
    <2> DEFINE e == Out(InPort(s), 16)
    <2>1. sio' = [sio EXCEPT ![c] = e] /\ tx_ready' = tx_ready
      BY <1>3 DEF isr_sio_ext
    <2>2. After(c, s, e) /\ e \in PortType(c)
      BY <1>1, ExtHandled DEF After
    <2> HIDE DEF e
    <2>3. Chip(sio') /\ sio'[c] = e /\ \A d \in Channel \ {c} : sio'[d] = sio[d]
      BY <1>1, <2>1, <2>2, Replaced
    <2> QED
      BY <1>1, <2>1, <2>2, <2>3 DEF Served
  <1>4. CASE h[2] = "special" /\ isr_sio_spec(c)
    <2> DEFINE e == Out(ErrorRead(Out(s, 1)), 48)
    <2>1. sio' = [sio EXCEPT ![c] = e] /\ tx_ready' = tx_ready
      BY <1>4 DEF isr_sio_spec
    <2>2. After(c, s, e) /\ e \in PortType(c)
      BY <1>1, SpecHandled DEF After
    <2> HIDE DEF e
    <2>3. Chip(sio') /\ sio'[c] = e /\ \A d \in Channel \ {c} : sio'[d] = sio[d]
      BY <1>1, <2>1, <2>2, Replaced
    <2> QED
      BY <1>1, <2>1, <2>2, <2>3 DEF Served
  <1>5. CASE h = <<"B", "rx">> /\ isr_sio_b_rx
    <2> DEFINE ip == s.ip \ {"rx"}
    <2>1. c = "B" /\ sio' = [sio EXCEPT ![c].ip = ip] /\ tx_ready' = tx_ready
      BY <1>5 DEF isr_sio_b_rx
    <2>2. ip \in SUBSET Cause /\ ip \subseteq s.ip /\ s.ptr = 0
      BY <1>1, <2>1, PortFields DEF PortB
    <2> HIDE DEF ip
    <2>3. /\ Chip(sio') /\ sio'[c].ip = ip /\ \A d \in Channel \ {c} : sio'[d] = sio[d]
          /\ Same(c)
      BY <1>1, <2>1, <2>2, Pending
    <2>4. After(c, s, sio'[c])
      BY <1>1, <2>2, <2>3, RtsIs DEF After, Same, Chip
    <2> QED
      BY <1>1, <2>1, <2>3, <2>4 DEF Served
  <1> QED
    BY <1>2, <1>3, <1>4, <1>5 DEF Handler

\* The handler of one of channel A leaves the pointer at WR0, and the
\* registers alone unless it strikes READER; no handler turns RTS on.
LEMMA ServeEffect ==
    ASSUME TypeOK, PortA, PortB, NEW i \in Interrupt, Serve(i)
    PROVE  /\ Chip(sio') /\ Same("B") /\ (Same("A") \/ sio'["A"].ptr = 0)
           /\ \A c \in Channel : sio'[c].ip \subseteq sio[c].ip
           /\ Rts(sio'["A"]) => Rts(sio["A"])
           /\ ~struck' => ~struck /\ Same("A")
           /\ struck' \in BOOLEAN /\ misled' \in BOOLEAN
           /\ tx_ready' \in [Channel -> {0, 255}]
           /\ \A c \in Channel : tx_ready'[c] \in {tx_ready[c], 255}
           /\ ~misled' => /\ ~misled
                          /\ \A c \in Channel :
                                tx_ready'[c] = tx_ready[c] \/ "tx" \in sio[c].ip
  <1>1. PICK h \in Interrupt :
           /\ Handler(h) /\ struck' = (struck \/ (pc = "set" /\ h[1] = "A"))
           /\ misled' = (misled \/ h # i)
    BY DEF Serve
  <1>2. i[2] \in sio[i[1]].ip
    BY DEF Serve
  <1> DEFINE c == h[1]
  <1>3. Served(h) /\ "A" \in Channel /\ "B" \in Channel /\ Channel = {"A", "B"}
    BY <1>1, Handled DEF Channel
  <1>4. /\ Chip(sio') /\ c \in Channel
        /\ sio'[c].ptr = 0 /\ sio'[c].ip \subseteq sio[c].ip
        /\ sio[c].ptr = 0 => sio'[c].wr = sio[c].wr
        /\ Rts(sio'[c]) => Rts(sio[c])
        /\ \A d \in Channel \ {c} : sio'[d] = sio[d] /\ tx_ready'[d] = tx_ready[d]
        /\ tx_ready' \in [Channel -> {0, 255}] /\ tx_ready'[c] \in {tx_ready[c], 255}
        /\ tx_ready'[c] = tx_ready[c] \/ h[2] = "tx"
    BY <1>3 DEF Served, After
  <1>5. Same("B") /\ (Same("A") \/ sio'["A"].ptr = 0)
    <2>1. CASE c = "A"
      BY <1>3, <1>4, <2>1 DEF Same
    <2>2. CASE c = "B"
      BY <1>3, <1>4, <2>2 DEF Same, PortB
    <2> QED
      BY <1>3, <1>4, <2>1, <2>2
  <1>6. ~struck' => ~struck /\ Same("A")
    <2> SUFFICES ASSUME ~struck'
                 PROVE  ~struck /\ Same("A")
      OBVIOUS
    <2>1. ~struck /\ ~(pc = "set" /\ c = "A")
      BY <1>1
    <2>2. CASE c = "A"
      <3>1. sio["A"].ptr = 0
        BY <2>1, <2>2 DEF PortA
      <3> QED
        BY <1>4, <2>1, <2>2, <3>1 DEF Same
    <2>3. CASE c = "B"
      BY <1>3, <1>4, <2>1, <2>3 DEF Same
    <2> QED
      BY <1>3, <1>4, <2>2, <2>3
  <1>7. ~misled' => /\ ~misled
                    /\ \A d \in Channel : tx_ready'[d] = tx_ready[d] \/ "tx" \in sio[d].ip
    <2> SUFFICES ASSUME ~misled'
                 PROVE  /\ ~misled
                        /\ \A d \in Channel :
                              tx_ready'[d] = tx_ready[d] \/ "tx" \in sio[d].ip
      OBVIOUS
    <2>1. ~misled /\ h = i
      BY <1>1
    <2> QED
      BY <1>2, <1>4, <2>1
  <1>8. struck' \in BOOLEAN /\ misled' \in BOOLEAN
    BY <1>1 DEF TypeOK
  <1> HIDE DEF c
  <1>9. /\ \A d \in Channel : sio'[d].ip \subseteq sio[d].ip
        /\ \A d \in Channel : tx_ready'[d] \in {tx_ready[d], 255}
        /\ Rts(sio'["A"]) => Rts(sio["A"])
    BY <1>3, <1>4
  <1> QED
    BY <1>4, <1>5, <1>6, <1>7, <1>8, <1>9

\* The byte that fills the ring up to the mark does not come while READER is
\* about to raise RTS.
LEMMA DropsNotAtSet ==
    ASSUME TypeOK, NEW b \in Bytes, isr_sio_a_rx(b),
           ~(ringbuf_count(rx_ring') < SIO_A_HIGHWATER)
    PROVE  pc \notin {"select", "set"}
  <1>1. rx_ring' = ringbuf_put(rx_ring, b) /\ b \in Byte /\ rx_ring \in Ring(Byte, SIO_MASK)
    BY Sizes DEF isr_sio_a_rx, TypeOK
  <1>2. ringbuf_count(rx_ring) \in Nat
    BY <1>1, RxRing
  <1>3. ringbuf_count(rx_ring') \in {ringbuf_count(rx_ring), ringbuf_count(rx_ring) + 1}
    BY <1>1, RxPut
  <1>4. pc \in {"select", "set"} => ringbuf_count(rx_ring) < SIO_A_HIGHWATER - 1
    BY DEF isr_sio_a_rx, InTime
  <1> HIDE DEF isr_sio_a_rx
  <1> QED
    BY <1>2, <1>3, <1>4, Sizes

\* Reading a register after WR5, or WR5 and WR1, have been written.
LEMMA Wrote ==
    ASSUME NEW c \in Channel, NEW wr \in WrType(c), NEW v
    PROVE  /\ Written(wr, 5, v)[5] = v
           /\ \A r \in Registers(c) \ {5} : Written(wr, 5, v)[r] = wr[r]
           /\ Written(wr, 5, v)[1] = wr[1]
  BY RegistersAre DEF Written, WrType, Channel

LEMMA Programs ==
    ASSUME NEW c \in Channel, NEW wr \in WrType(c)
    PROVE  LET w == Written(Written(wr, 5, 234), 1, 27)
           IN  /\ w[5] = 234 /\ w[1] = 27
               /\ \A r \in Registers(c) \ {1, 5} : w[r] = wr[r]
  BY RegistersAre DEF Written, WrType, Channel

-----------------------------------------------------------------------------
(***************************************************************************)
(* The inductive invariant holds initially, and every action keeps each of *)
(* its parts.                                                              *)
(***************************************************************************)
\* Types.
LEMMA TypeStep == TypeOK /\ Shapes /\ PortA /\ PortB /\ Next => TypeOK'
  <1> SUFFICES ASSUME TypeOK, Shapes, PortA, PortB, Next
               PROVE  TypeOK'
    OBVIOUS
  <1> USE DEF setting, request, received, reader, history
  <1>1. ASSUME NEW value \in Iobyte, bios_set_iobyte(value)
        PROVE  TypeOK'
    BY <1>1, Sizes DEF TypeOK, bios_set_iobyte
  <1>2. CASE bios_reader
    BY <1>2 DEF TypeOK, bios_reader
  <1>3. CASE Poll
    BY <1>3 DEF TypeOK, Poll
  <1>4. CASE TakeByte
    BY <1>4, RxRing DEF TypeOK, TakeByte
  <1>5. CASE LoadTail
    BY <1>5, RxRing DEF TypeOK, LoadTail
  <1>6. CASE StoreTail
    <2>1. rx_ring' \in Ring(Byte, SIO_MASK)
      BY <1>6, RxRing DEF TypeOK, StoreTail
    <2>2. forced' \in BOOLEAN
      BY <1>6 DEF TypeOK, StoreTail
    <2> QED
      BY <1>6, <2>1, <2>2 DEF TypeOK, StoreTail
  <1>7. CASE CheckDrained
    BY <1>7 DEF TypeOK, CheckDrained
  <1>8. CASE SelectWR5
    BY <1>8, SelectEffect DEF TypeOK, SelectWR5, Chip
  <1>9. CASE RaiseRts
    <2>1. late' \in 0 .. Lag
      BY <1>9, Sizes DEF TypeOK, RaiseRts, LateNow
    <2> QED
      BY <1>9, <2>1, RaiseEffect DEF TypeOK, RaiseRts, Chip
  <1>10. ASSUME NEW to, NEW list \in BOOLEAN, Output(to, list), list => to = ListTo
        PROVE  TypeOK'
    <2>1. to \in Channel
      BY <1>10, SendsIs DEF Output
    <2> QED
      BY <1>10, <2>1 DEF TypeOK, Output
  <1>11. CASE AskStatus
    <2>1. announced' \in BOOLEAN
      BY <1>11 DEF AskStatus
    <2> QED
      BY <1>11, <2>1 DEF TypeOK, AskStatus
  <1>12. CASE PollTx
    <2>1. announced' \in BOOLEAN /\ call' \in {call, Nothing}
      BY <1>12 DEF TypeOK, PollTx
    <2>2. pc' \in {"idle", "send"}
      BY <1>12 DEF PollTx
    <2> QED
      BY <1>12, <2>1, <2>2 DEF TypeOK, PollTx
  <1>13. CASE SendByte
    <2>1. Chip(sio') /\ call.to \in Channel
      BY <1>13, SendEffect
    <2>2. tx_ready' \in [Channel -> {0, 255}]
      BY <1>13, <2>1 DEF TypeOK, SendByte, Busy
    <2>3. forced' \in BOOLEAN
      BY <1>13 DEF TypeOK, SendByte
    <2>4. full' \subseteq Channel
      BY <1>13, <2>1 DEF TypeOK, SendByte
    <2>5. late' \in 0 .. Lag
      BY <1>13, Sizes DEF TypeOK, SendByte, LateNow
    <2> QED
      BY <1>13, <2>1, <2>2, <2>3, <2>4, <2>5 DEF TypeOK, SendByte, Chip
  <1>14. ASSUME NEW b \in Bytes, isr_sio_a_rx(b)
        PROVE  TypeOK'
    <2>1. Chip(sio')
      BY <1>14, RxEffect
    <2>2. rx_ring' \in Ring(Byte, SIO_MASK)
      BY <1>14, RxRing, Sizes DEF TypeOK, isr_sio_a_rx
    <2>3. lost' \in BOOLEAN
      BY <1>14 DEF TypeOK, isr_sio_a_rx
    <2>4. late' \in 0 .. Lag
      BY <1>14, Sizes DEF TypeOK, isr_sio_a_rx
    <2> QED
      BY <1>14, <2>1, <2>2, <2>3, <2>4 DEF TypeOK, isr_sio_a_rx, Chip
  <1>15. ASSUME NEW i \in Interrupt, Serve(i)
        PROVE  TypeOK'
    BY <1>15, ServeEffect DEF TypeOK, Serve, Chip
  <1>16. ASSUME NEW i \in Interrupt, LineEvent(i)
        PROVE  TypeOK'
    BY <1>16, LineEffect DEF TypeOK, LineEvent, Chip
  <1>17. ASSUME NEW c \in Channel, Transmit(c)
        PROVE  TypeOK'
    <2>1. Chip(sio') /\ full' \subseteq Channel
      BY <1>17, TransmitEffect DEF Transmit, TypeOK
    <2> QED
      BY <1>17, <2>1 DEF TypeOK, Transmit, Chip
  <1> QED
    BY <1>1, <1>2, <1>3, <1>4, <1>5, <1>6, <1>7, <1>8, <1>9, <1>10, <1>11, <1>12,
       <1>13, <1>14, <1>15, <1>16, <1>17, Sizes
       DEF Next, Reader, bios_punch, bios_list

\* The call in progress.
LEMMA ShapesStep == TypeOK /\ Shapes /\ Next => Shapes'
  <1> SUFFICES ASSUME TypeOK, Shapes, Next
               PROVE  Shapes'
    OBVIOUS
  <1> USE DEF setting, request, received, reader, history
  <1>1. ASSUME NEW value \in Iobyte, bios_set_iobyte(value)
        PROVE  Shapes'
    BY <1>1 DEF Shapes, Sends, bios_set_iobyte
  <1>2. CASE bios_reader
    BY <1>2 DEF Shapes, Sends, bios_reader
  <1>3. CASE Poll
    BY <1>3 DEF Shapes, Sends, Poll
  <1>4. CASE TakeByte
    BY <1>4 DEF Shapes, Sends, TakeByte
  <1>5. CASE LoadTail
    BY <1>5 DEF Shapes, Sends, LoadTail
  <1>6. CASE StoreTail
    BY <1>6 DEF Shapes, Sends, StoreTail
  <1>7. CASE CheckDrained
    BY <1>7 DEF Shapes, Sends, CheckDrained
  <1>8. CASE SelectWR5
    BY <1>8 DEF Shapes, Sends, SelectWR5
  <1>9. CASE RaiseRts
    BY <1>9 DEF Shapes, Sends, RaiseRts
  <1>10. ASSUME NEW to, NEW list \in BOOLEAN, Output(to, list), list => to = ListTo
        PROVE  Shapes'
    BY <1>10 DEF Shapes, Sends, Output
  <1>11. CASE AskStatus
    BY <1>11 DEF Shapes, Sends, AskStatus
  <1>12. CASE PollTx
    BY <1>12 DEF Shapes, Sends, PollTx
  <1>13. CASE SendByte
    BY <1>13 DEF Shapes, Sends, SendByte
  <1>14. ASSUME NEW b \in Bytes, isr_sio_a_rx(b)
        PROVE  Shapes'
    BY <1>14 DEF Shapes, Sends, isr_sio_a_rx
  <1>15. ASSUME NEW i \in Interrupt, Serve(i)
        PROVE  Shapes'
    BY <1>15 DEF Shapes, Sends, Serve
  <1>16. ASSUME NEW i \in Interrupt, LineEvent(i)
        PROVE  Shapes'
    BY <1>16 DEF Shapes, Sends, LineEvent
  <1>17. ASSUME NEW c \in Channel, Transmit(c)
        PROVE  Shapes'
    BY <1>17 DEF Shapes, Sends, Transmit
  <1> QED
    BY <1>1, <1>2, <1>3, <1>4, <1>5, <1>6, <1>7, <1>8, <1>9, <1>10, <1>11, <1>12,
       <1>13, <1>14, <1>15, <1>16, <1>17, Sizes
       DEF Next, Reader, bios_punch, bios_list

\* What READER has read.
LEMMA HoldingStep == TypeOK /\ Holding /\ Next => Holding'
  <1> SUFFICES ASSUME TypeOK, Holding, Next
               PROVE  Holding'
    OBVIOUS
  <1> USE DEF setting, request, received, reader, history
  <1>1. ASSUME NEW value \in Iobyte, bios_set_iobyte(value)
        PROVE  Holding'
    BY <1>1 DEF TypeOK, Holding, bios_set_iobyte
  <1>2. CASE bios_reader
    BY <1>2 DEF TypeOK, Holding, bios_reader
  <1>3. CASE Poll
    BY <1>3 DEF TypeOK, Holding, Poll
  <1>4. CASE TakeByte
    BY <1>4 DEF TypeOK, Holding, TakeByte
  <1>5. CASE LoadTail
    BY <1>5 DEF TypeOK, Holding, LoadTail
  <1>6. CASE StoreTail
    BY <1>6 DEF TypeOK, Holding, StoreTail
  <1>7. CASE CheckDrained
    BY <1>7 DEF TypeOK, Holding, CheckDrained
  <1>8. CASE SelectWR5
    BY <1>8 DEF TypeOK, Holding, SelectWR5
  <1>9. CASE RaiseRts
    BY <1>9 DEF TypeOK, Holding, RaiseRts
  <1>10. ASSUME NEW to, NEW list \in BOOLEAN, Output(to, list), list => to = ListTo
        PROVE  Holding'
    BY <1>10 DEF TypeOK, Holding, Output
  <1>11. CASE AskStatus
    BY <1>11 DEF TypeOK, Holding, AskStatus
  <1>12. CASE PollTx
    BY <1>12 DEF TypeOK, Holding, PollTx
  <1>13. CASE SendByte
    BY <1>13 DEF TypeOK, Holding, SendByte
  <1>14. ASSUME NEW b \in Bytes, isr_sio_a_rx(b)
        PROVE  Holding'
    BY <1>14, RxRing, Sizes DEF TypeOK, Holding, isr_sio_a_rx
  <1>15. ASSUME NEW i \in Interrupt, Serve(i)
        PROVE  Holding'
    BY <1>15 DEF TypeOK, Holding, Serve
  <1>16. ASSUME NEW i \in Interrupt, LineEvent(i)
        PROVE  Holding'
    BY <1>16 DEF TypeOK, Holding, LineEvent
  <1>17. ASSUME NEW c \in Channel, Transmit(c)
        PROVE  Holding'
    BY <1>17 DEF TypeOK, Holding, Transmit
  <1> QED
    BY <1>1, <1>2, <1>3, <1>4, <1>5, <1>6, <1>7, <1>8, <1>9, <1>10, <1>11, <1>12,
       <1>13, <1>14, <1>15, <1>16, <1>17, Sizes
       DEF Next, Reader, bios_punch, bios_list

\* What LISTST has said.
LEMMA AnnouncedStep == TypeOK /\ Shapes /\ PortA /\ PortB /\ Announced /\ Next => Announced'
  <1> SUFFICES ASSUME TypeOK, Shapes, PortA, PortB, Announced, Next
               PROVE  Announced'
    OBVIOUS
  <1> USE DEF setting, request, received, reader, history
  <1>1. ASSUME NEW value \in Iobyte, bios_set_iobyte(value)
        PROVE  Announced'
    BY <1>1 DEF Announced, bios_listst, ListTo, iobyte_lst_mode, bios_set_iobyte
  <1>2. CASE bios_reader
    BY <1>2 DEF Announced, bios_listst, ListTo, iobyte_lst_mode, bios_reader
  <1>3. CASE Poll
    BY <1>3 DEF Announced, bios_listst, ListTo, iobyte_lst_mode, Poll
  <1>4. CASE TakeByte
    BY <1>4 DEF Announced, bios_listst, ListTo, iobyte_lst_mode, TakeByte
  <1>5. CASE LoadTail
    BY <1>5 DEF Announced, bios_listst, ListTo, iobyte_lst_mode, LoadTail
  <1>6. CASE StoreTail
    BY <1>6 DEF Announced, bios_listst, ListTo, iobyte_lst_mode, StoreTail
  <1>7. CASE CheckDrained
    BY <1>7 DEF Announced, bios_listst, ListTo, iobyte_lst_mode, CheckDrained
  <1>8. CASE SelectWR5
    BY <1>8 DEF Announced, bios_listst, ListTo, iobyte_lst_mode, SelectWR5
  <1>9. CASE RaiseRts
    BY <1>9 DEF Announced, bios_listst, ListTo, iobyte_lst_mode, RaiseRts
  <1>10. ASSUME NEW to, NEW list \in BOOLEAN, Output(to, list), list => to = ListTo
        PROVE  Announced'
    <2>1. /\ pc' = "ready" /\ call'.list = list /\ call'.to = to /\ to \in Channel
          /\ UNCHANGED <<tx_ready, announced>> /\ pc \notin {"ready", "send"}
      BY <1>10, SendsIs DEF Output
    <2>2. announced /\ list => tx_ready[to] = 255
      BY <1>10, <2>1, ListstIs DEF Announced
    <2> QED
      BY <2>1, <2>2 DEF Announced
  <1>11. CASE AskStatus
    BY <1>11 DEF Announced, bios_listst, ListTo, iobyte_lst_mode, AskStatus
  <1>12. CASE PollTx
    BY <1>12 DEF Announced, bios_listst, ListTo, iobyte_lst_mode, PollTx, Shapes
  <1>13. CASE SendByte
    BY <1>13 DEF Announced, bios_listst, ListTo, iobyte_lst_mode, SendByte
  <1>14. ASSUME NEW b \in Bytes, isr_sio_a_rx(b)
        PROVE  Announced'
    BY <1>14 DEF Announced, bios_listst, ListTo, iobyte_lst_mode, isr_sio_a_rx
  <1>15. ASSUME NEW i \in Interrupt, Serve(i)
        PROVE  Announced'
    <2>1. \A c \in Channel : tx_ready'[c] \in {tx_ready[c], 255}
      BY <1>15, ServeEffect
    <2>2. UNCHANGED <<iobyte_val, pc, call, announced>> /\ ListTo' = ListTo
      BY <1>15 DEF Serve, ListTo, iobyte_lst_mode
    <2>3. bios_listst = 255 => bios_listst' = 255
      <3>1. CASE ListTo \in Channel
        <4>1. bios_listst = tx_ready[ListTo]
          BY <3>1, ListstIs
        <4>2. bios_listst' = tx_ready'[ListTo]
          BY <2>2, <3>1 DEF bios_listst, Channel
        <4> QED
          BY <2>1, <3>1, <4>1, <4>2
      <3>2. CASE ListTo \in {"crt", "none"}
        BY <2>2, <3>2 DEF bios_listst, Channel
      <3> QED
        BY <3>1, <3>2, ListToIs DEF Channel
    <2>4. pc \in {"ready", "send"} => call.to \in Channel
      BY SendsIs DEF Shapes
    <2> QED
      BY <2>1, <2>2, <2>3, <2>4 DEF Announced
  <1>16. ASSUME NEW i \in Interrupt, LineEvent(i)
        PROVE  Announced'
    BY <1>16 DEF Announced, bios_listst, ListTo, iobyte_lst_mode, LineEvent
  <1>17. ASSUME NEW c \in Channel, Transmit(c)
        PROVE  Announced'
    BY <1>17 DEF Announced, bios_listst, ListTo, iobyte_lst_mode, Transmit
  <1> QED
    BY <1>1, <1>2, <1>3, <1>4, <1>5, <1>6, <1>7, <1>8, <1>9, <1>10, <1>11, <1>12,
       <1>13, <1>14, <1>15, <1>16, <1>17, Sizes
       DEF Next, Reader, bios_punch, bios_list

\* The port of channel A.
LEMMA PortAStep == TypeOK /\ Shapes /\ PortA /\ PortB /\ Next => PortA'
  <1> SUFFICES ASSUME TypeOK, Shapes, PortA, PortB, Next
               PROVE  PortA'
    OBVIOUS
  <1> USE DEF setting, request, received, reader, history
  <1>1. ASSUME NEW value \in Iobyte, bios_set_iobyte(value)
        PROVE  PortA'
    BY <1>1 DEF PortA, bios_set_iobyte
  <1>2. CASE bios_reader
    BY <1>2 DEF PortA, bios_reader
  <1>3. CASE Poll
    BY <1>3 DEF PortA, Poll
  <1>4. CASE TakeByte
    BY <1>4 DEF PortA, TakeByte
  <1>5. CASE LoadTail
    BY <1>5 DEF PortA, LoadTail
  <1>6. CASE StoreTail
    BY <1>6 DEF PortA, StoreTail
  <1>7. CASE CheckDrained
    BY <1>7 DEF PortA, CheckDrained
  <1>8. CASE SelectWR5
    <2>1. pc = "select" /\ pc' = "set" /\ struck' = struck
      BY <1>8 DEF SelectWR5
    <2> QED
      BY <1>8, <2>1, SelectEffect DEF PortA
  <1>9. CASE RaiseRts
    <2>1. pc = "set" /\ pc' = "idle" /\ struck' = struck
      BY <1>9 DEF RaiseRts
    <2>2. sio'["A"].ptr \in {0, 2}
      BY <1>9, RaiseEffect
    <2>3. CASE struck
      BY <2>1, <2>2, <2>3 DEF PortA
    <2>4. CASE ~struck
      <3>1. sio["A"].ptr = 5
        BY <2>1, <2>4 DEF PortA
      <3>2. sio'["A"].ptr = 0 /\ sio'["A"].wr = Written(sio["A"].wr, 5, 234)
        BY <1>9, <3>1, RaiseEffect
      <3>3. /\ Written(sio["A"].wr, 5, 234)[5] = 234
            /\ \A r \in Registers("A") \ {5} :
                  Written(sio["A"].wr, 5, 234)[r] = sio["A"].wr[r]
            /\ Written(sio["A"].wr, 5, 234)[1] = sio["A"].wr[1]
        BY Ports, Wrote
      <3> QED
        BY <2>1, <2>4, <3>2, <3>3 DEF PortA
    <2> QED
      BY <2>3, <2>4
  <1>10. ASSUME NEW to, NEW list \in BOOLEAN, Output(to, list), list => to = ListTo
        PROVE  PortA'
    BY <1>10 DEF PortA, Output
  <1>11. CASE AskStatus
    BY <1>11 DEF PortA, AskStatus
  <1>12. CASE PollTx
    BY <1>12 DEF PortA, PollTx
  <1>13. CASE SendByte
    <2>1. pc = "send" /\ pc' = "idle" /\ struck' = struck
      BY <1>13 DEF SendByte
    <2>2. CASE call.to # "A"
      <3>1. sio'["A"] = sio["A"]
        BY <1>13, <2>2, SendEffect, Ports
      <3> QED
        BY <2>1, <3>1 DEF PortA
    <2>3. CASE call.to = "A"
      <3>1. sio'["A"].ptr = 0
        BY <1>13, <2>3, SendEffect
      <3>2. CASE struck
        BY <2>1, <3>1, <3>2 DEF PortA
      <3>3. CASE ~struck
        <4>1. sio["A"].ptr = 0
          BY <2>1, <3>3 DEF PortA
        <4> DEFINE w == Written(Written(sio["A"].wr, 5, 234), 1, 27)
        <4>2. sio'["A"].wr = w
          BY <1>13, <2>3, <4>1, SendEffect
        <4>3. /\ w[5] = 234 /\ w[1] = 27
              /\ \A r \in Registers("A") \ {1, 5} : w[r] = sio["A"].wr[r]
          BY Ports, Programs
        <4> HIDE DEF w
        <4> QED
          BY <2>1, <3>1, <3>3, <4>2, <4>3 DEF PortA
      <3> QED
        BY <3>2, <3>3
    <2> QED
      BY <2>2, <2>3
  <1>14. ASSUME NEW b \in Bytes, isr_sio_a_rx(b)
        PROVE  PortA'
    <2>1. pc' = pc /\ struck' = struck
      BY <1>14 DEF isr_sio_a_rx
    <2>2. CASE ringbuf_count(rx_ring') < SIO_A_HIGHWATER
      <3>1. sio'["A"] = sio["A"]
        BY <1>14, <2>2, RxEffect
      <3> QED
        BY <2>1, <3>1 DEF PortA
    <2>3. CASE ~(ringbuf_count(rx_ring') < SIO_A_HIGHWATER)
      <3>1. pc # "set" /\ sio'["A"].ptr = 0
        BY <1>14, <2>3, RxEffect, DropsNotAtSet
      <3>2. CASE struck
        BY <2>1, <3>1, <3>2 DEF PortA
      <3>3. CASE ~struck
        <4>1. sio["A"].ptr = 0
          BY <3>1, <3>3 DEF PortA
        <4>2. sio'["A"].wr = Written(sio["A"].wr, 5, 232)
          BY <1>14, <2>3, <4>1, RxEffect
        <4>3. /\ Written(sio["A"].wr, 5, 232)[5] = 232
              /\ \A r \in Registers("A") \ {5} :
                    Written(sio["A"].wr, 5, 232)[r] = sio["A"].wr[r]
              /\ Written(sio["A"].wr, 5, 232)[1] = sio["A"].wr[1]
          BY Ports, Wrote
        <4> QED
          BY <2>1, <3>1, <3>3, <4>2, <4>3 DEF PortA
      <3> QED
        BY <3>2, <3>3
    <2> QED
      BY <2>2, <2>3
  <1>15. ASSUME NEW i \in Interrupt, Serve(i)
        PROVE  PortA'
    <2>1. pc' = pc
      BY <1>15 DEF Serve
    <2>2. /\ Same("A") \/ sio'["A"].ptr = 0
          /\ ~struck' => ~struck /\ Same("A")
      BY <1>15, ServeEffect
    <2> QED
      BY <2>1, <2>2 DEF PortA, Same
  <1>16. ASSUME NEW i \in Interrupt, LineEvent(i)
        PROVE  PortA'
    <2>1. pc' = pc /\ struck' = struck
      BY <1>16 DEF LineEvent
    <2>2. Same("A")
      BY <1>16, LineEffect, Ports
    <2> QED
      BY <2>1, <2>2 DEF PortA, Same
  <1>17. ASSUME NEW c \in Channel, Transmit(c)
        PROVE  PortA'
    <2>1. pc' = pc /\ struck' = struck
      BY <1>17 DEF Transmit
    <2>2. Same("A")
      BY <1>17, TransmitEffect, Ports
    <2> QED
      BY <2>1, <2>2 DEF PortA, Same
  <1> QED
    BY <1>1, <1>2, <1>3, <1>4, <1>5, <1>6, <1>7, <1>8, <1>9, <1>10, <1>11, <1>12,
       <1>13, <1>14, <1>15, <1>16, <1>17, Sizes
       DEF Next, Reader, bios_punch, bios_list

\* The port of channel B.
LEMMA PortBStep == TypeOK /\ Shapes /\ PortA /\ PortB /\ Next => PortB'
  <1> SUFFICES ASSUME TypeOK, Shapes, PortA, PortB, Next
               PROVE  PortB'
    OBVIOUS
  <1> USE DEF setting, request, received, reader, history
  <1>1. ASSUME NEW value \in Iobyte, bios_set_iobyte(value)
        PROVE  PortB'
    BY <1>1 DEF PortB, Sends, bios_set_iobyte
  <1>2. CASE bios_reader
    BY <1>2 DEF PortB, Sends, bios_reader
  <1>3. CASE Poll
    BY <1>3 DEF PortB, Sends, Poll
  <1>4. CASE TakeByte
    BY <1>4 DEF PortB, Sends, TakeByte
  <1>5. CASE LoadTail
    BY <1>5 DEF PortB, Sends, LoadTail
  <1>6. CASE StoreTail
    BY <1>6 DEF PortB, Sends, StoreTail
  <1>7. CASE CheckDrained
    BY <1>7 DEF PortB, Sends, CheckDrained
  <1>8. CASE SelectWR5
    <2>1. sio'["B"] = sio["B"] /\ Sends' = Sends
      BY <1>8, SelectEffect DEF SelectWR5, Sends
    <2> QED
      BY <2>1 DEF PortB
  <1>9. CASE RaiseRts
    <2>1. sio'["B"] = sio["B"] /\ Sends' = Sends
      BY <1>9, RaiseEffect DEF RaiseRts, Sends
    <2> QED
      BY <2>1 DEF PortB
  <1>10. ASSUME NEW to, NEW list \in BOOLEAN, Output(to, list), list => to = ListTo
        PROVE  PortB'
    BY <1>10 DEF PortB, Sends, Output
  <1>11. CASE AskStatus
    BY <1>11 DEF PortB, Sends, AskStatus
  <1>12. CASE PollTx
    BY <1>12 DEF PortB, Sends, PollTx
  <1>13. CASE SendByte
    <2>1. Sends' = Sends
      BY <1>13 DEF SendByte, Sends
    <2>2. CASE call.to # "B"
      <3>1. sio'["B"] = sio["B"]
        BY <1>13, <2>2, SendEffect, Ports
      <3> QED
        BY <2>1, <3>1 DEF PortB
    <2>3. CASE call.to = "B"
      <3>1. sio'["B"].ptr = 0 /\ "B" \in Sends
        BY <1>13, <2>3, SendEffect
      <3> DEFINE w == Written(Written(sio["B"].wr, 5, 234), 1, 27)
      <3>2. sio'["B"].wr = w
        BY <1>13, <2>3, SendEffect DEF PortB
      <3>3. /\ w[5] = 234 /\ w[1] = 27
            /\ \A r \in Registers("B") \ {1, 5} : w[r] = sio["B"].wr[r]
        BY Ports, Programs
      <3> HIDE DEF w
      <3> QED
        BY <2>1, <3>1, <3>2, <3>3 DEF PortB
    <2> QED
      BY <2>2, <2>3
  <1>14. ASSUME NEW b \in Bytes, isr_sio_a_rx(b)
        PROVE  PortB'
    <2>1. sio'["B"] = sio["B"] /\ Sends' = Sends
      BY <1>14, RxEffect DEF isr_sio_a_rx, Sends
    <2> QED
      BY <2>1 DEF PortB
  <1>15. ASSUME NEW i \in Interrupt, Serve(i)
        PROVE  PortB'
    <2>1. Same("B") /\ Sends' = Sends
      BY <1>15, ServeEffect DEF Serve, Sends
    <2> QED
      BY <2>1 DEF PortB, Same
  <1>16. ASSUME NEW i \in Interrupt, LineEvent(i)
        PROVE  PortB'
    <2>1. Same("B") /\ Sends' = Sends
      BY <1>16, LineEffect, Ports DEF LineEvent, Sends
    <2> QED
      BY <2>1 DEF PortB, Same
  <1>17. ASSUME NEW c \in Channel, Transmit(c)
        PROVE  PortB'
    <2>1. Same("B") /\ Sends' = Sends
      BY <1>17, TransmitEffect, Ports DEF Transmit, Sends
    <2> QED
      BY <2>1 DEF PortB, Same
  <1> QED
    BY <1>1, <1>2, <1>3, <1>4, <1>5, <1>6, <1>7, <1>8, <1>9, <1>10, <1>11, <1>12,
       <1>13, <1>14, <1>15, <1>16, <1>17, Sizes
       DEF Next, Reader, bios_punch, bios_list

\* RTS is not left off over an empty ring.
LEMMA RescueStep == TypeOK /\ Shapes /\ PortA /\ PortB /\ Rescue /\ Next => Rescue'
  <1> SUFFICES ASSUME TypeOK, Shapes, PortA, PortB, Rescue, Next
               PROVE  Rescue'
    OBVIOUS
  <1> USE DEF setting, request, received, reader, history
  <1>1. ASSUME NEW value \in Iobyte, bios_set_iobyte(value)
        PROVE  Rescue'
    BY <1>1 DEF Rescue, bios_set_iobyte
  <1>2. CASE bios_reader
    BY <1>2 DEF Rescue, bios_reader
  <1>3. CASE Poll
    BY <1>3 DEF Rescue, Poll
  <1>4. CASE TakeByte
    BY <1>4 DEF Rescue, TakeByte
  <1>5. CASE LoadTail
    BY <1>5 DEF Rescue, LoadTail
  <1>6. CASE StoreTail
    BY <1>6 DEF Rescue, StoreTail
  <1>7. CASE CheckDrained
    BY <1>7 DEF Rescue, CheckDrained, Drained
  <1>8. CASE SelectWR5
    BY <1>8 DEF Rescue, SelectWR5
  <1>9. CASE RaiseRts
    <2>1. pc = "set" /\ struck' = struck
      BY <1>9 DEF RaiseRts
    <2> SUFFICES ASSUME ~struck
                 PROVE  sio'["A"].wr[5] # 232
      BY <2>1 DEF Rescue
    <2>2. sio["A"].ptr = 5
      BY <2>1 DEF PortA
    <2>3. sio'["A"].wr = Written(sio["A"].wr, 5, 234)
      BY <1>9, <2>2, RaiseEffect
    <2>4. Written(sio["A"].wr, 5, 234)[5] = 234
      BY Ports, Wrote
    <2> QED
      BY <2>3, <2>4
  <1>10. ASSUME NEW to, NEW list \in BOOLEAN, Output(to, list), list => to = ListTo
        PROVE  Rescue'
    BY <1>10 DEF Rescue, Output
  <1>11. CASE AskStatus
    BY <1>11 DEF Rescue, AskStatus
  <1>12. CASE PollTx
    BY <1>12 DEF Rescue, PollTx
  <1>13. CASE SendByte
    <2>1. pc = "send" /\ rx_ring' = rx_ring /\ struck' = struck
      BY <1>13 DEF SendByte
    <2> SUFFICES ASSUME ~struck
                 PROVE  Rescue'
      BY <2>1 DEF Rescue
    <2>2. CASE call.to = "A"
      <3>1. sio["A"].ptr = 0
        BY <2>1 DEF PortA
      <3> DEFINE w == Written(Written(sio["A"].wr, 5, 234), 1, 27)
      <3>2. sio'["A"].wr = w
        BY <1>13, <2>2, <3>1, SendEffect
      <3>3. w[5] = 234
        BY Ports, Programs
      <3> HIDE DEF w
      <3> QED
        BY <3>2, <3>3 DEF Rescue
    <2>3. CASE call.to # "A"
      BY <1>13, <2>1, <2>3, SendEffect, Ports DEF Rescue
    <2> QED
      BY <2>2, <2>3
  <1>14. ASSUME NEW b \in Bytes, isr_sio_a_rx(b)
        PROVE  Rescue'
    <2>1. ringbuf_has_data(rx_ring')
      BY <1>14, RxRing, Sizes DEF isr_sio_a_rx, TypeOK
    <2> QED
      BY <2>1 DEF Rescue
  <1>15. ASSUME NEW i \in Interrupt, Serve(i)
        PROVE  Rescue'
    <2>1. pc' = pc /\ rx_ring' = rx_ring
      BY <1>15 DEF Serve
    <2>2. ~struck' => ~struck /\ Same("A")
      BY <1>15, ServeEffect
    <2> QED
      BY <2>1, <2>2 DEF Rescue, Same
  <1>16. ASSUME NEW i \in Interrupt, LineEvent(i)
        PROVE  Rescue'
    <2>1. pc' = pc /\ rx_ring' = rx_ring /\ struck' = struck
      BY <1>16 DEF LineEvent
    <2>2. Same("A")
      BY <1>16, LineEffect, Ports
    <2> QED
      BY <2>1, <2>2 DEF Rescue, Same
  <1>17. ASSUME NEW c \in Channel, Transmit(c)
        PROVE  Rescue'
    <2>1. pc' = pc /\ rx_ring' = rx_ring /\ struck' = struck
      BY <1>17 DEF Transmit
    <2>2. Same("A")
      BY <1>17, TransmitEffect, Ports
    <2> QED
      BY <2>1, <2>2 DEF Rescue, Same
  <1> QED
    BY <1>1, <1>2, <1>3, <1>4, <1>5, <1>6, <1>7, <1>8, <1>9, <1>10, <1>11, <1>12,
       <1>13, <1>14, <1>15, <1>16, <1>17, Sizes
       DEF Next, Reader, bios_punch, bios_list

\* The fill of the ring: near the end of READER the ring is below the mark
\* whatever RTS is, and RTS going off leaves it no further above.
LEMMA LowFlow ==
    ASSUME TypeOK, Flow, pc \in {"select", "set"}, UNCHANGED <<struck, rx_ring>>,
           late' \in Nat
    PROVE  Flow'
  <1>1. /\ ringbuf_count(rx_ring) \in Nat /\ ringbuf_count(rx_ring) < SIO_A_HIGHWATER
        /\ rx_ring' = rx_ring /\ Slack' \in Nat
    BY RxRing, Sizes DEF TypeOK, Flow, Slack
  <1>2. ringbuf_count(rx_ring) <= SIO_A_HIGHWATER + Slack' + late'
    BY <1>1, Sizes
  <1> QED
    BY <1>1, <1>2 DEF Flow

LEMMA OffLater ==
    ASSUME TypeOK, Flow, UNCHANGED <<pc, late, forced, rx_ring>>,
           Rts(sio'["A"]) => Rts(sio["A"]) /\ (sio["A"].ptr = 0 => sio'["A"].ptr = 0),
           struck => struck'
    PROVE  Flow'
  <1>1. ringbuf_count(rx_ring) \in Nat /\ late \in Nat /\ SIO_A_HIGHWATER \in Nat
    BY RxRing, Sizes DEF TypeOK
  <1>2. Slack \in Nat /\ Slack' \in Nat /\ Slack <= Slack' /\ (struck => Slack = 1)
    BY DEF Slack
  <1>3. ~forced => ringbuf_count(rx_ring) <= SIO_A_HIGHWATER + Slack + late
    BY <1>1, <1>2 DEF Flow
  <1>4. ~forced => ringbuf_count(rx_ring) <= SIO_A_HIGHWATER + Slack' + late
    BY <1>1, <1>2, <1>3
  <1> QED
    BY <1>4 DEF Flow

\* The fill of the ring.
LEMMA FlowStep == TypeOK /\ Shapes /\ PortA /\ PortB /\ Flow /\ Holding /\ Next => Flow'
  <1> SUFFICES ASSUME TypeOK, Shapes, PortA, PortB, Flow, Holding, Next
               PROVE  Flow'
    OBVIOUS
  <1> USE DEF setting, request, received, reader, history
  <1>1. ASSUME NEW value \in Iobyte, bios_set_iobyte(value)
        PROVE  Flow'
    BY <1>1 DEF Flow, Slack, bios_set_iobyte
  <1>2. CASE bios_reader
    BY <1>2 DEF Flow, Slack, bios_reader
  <1>3. CASE Poll
    BY <1>3 DEF Flow, Slack, Poll
  <1>4. CASE TakeByte
    BY <1>4 DEF Flow, Slack, TakeByte
  <1>5. CASE LoadTail
    BY <1>5 DEF Flow, Slack, LoadTail
  <1>6. CASE StoreTail
    <2>1. /\ pc = "store" /\ pc' = "check" /\ UNCHANGED <<sio, late, struck>>
          /\ rx_ring' = SetTail(rx_ring, next) /\ Slack' = Slack
      BY <1>6 DEF StoreTail, Slack
    <2>2. /\ ringbuf_has_data(rx_ring) /\ next = NextTail(rx_ring)
          /\ rx_ring \in Ring(Byte, SIO_MASK)
      BY <2>1 DEF Holding, TypeOK
    <2>3. /\ rx_ring' \in Ring(Byte, SIO_MASK)
          /\ ringbuf_count(rx_ring') = ringbuf_count(rx_ring) - 1
      BY <2>1, <2>2, Taking
    <2>4. ringbuf_has_data(rx_ring') <=> ringbuf_count(rx_ring') # 0
      BY <2>3, CountIs, Sizes
    <2>5. ~forced' => ~forced \/ ringbuf_count(rx_ring') = 0
      BY <1>6, <2>4 DEF StoreTail
    <2>6. ringbuf_count(rx_ring) \in Nat /\ late \in Nat /\ Slack \in Nat
      BY <2>2, RxRing, Sizes DEF TypeOK, Slack
    <2> DEFINE n == ringbuf_count(rx_ring)
               on == Rts(sio["A"])
    <2>7. ringbuf_count(rx_ring') = n - 1 /\ n \in Nat
      BY <2>3, <2>6
    <2>8. ~forced => IF on THEN n <= SIO_A_HIGHWATER
                           ELSE n <= SIO_A_HIGHWATER + Slack + late
      BY <2>6, Sizes DEF Flow
    <2> HIDE DEF n, on
    <2>9. ~forced' => IF on THEN n - 1 < SIO_A_HIGHWATER
                            ELSE n - 1 <= SIO_A_HIGHWATER + Slack + late
      <3>1. CASE ~forced
        BY <2>6, <2>7, <2>8, <3>1, Sizes
      <3>2. CASE n - 1 = 0
        BY <2>6, <3>2, Sizes
      <3> QED
        BY <2>5, <2>7, <3>1, <3>2
    <2> QED
      BY <2>1, <2>7, <2>9 DEF Flow, on
  <1>7. CASE CheckDrained
    <2>1. /\ UNCHANGED <<sio, late, forced, rx_ring, struck>>
          /\ pc' \in {"select", "set"} => ~ringbuf_has_data(rx_ring)
      BY <1>7 DEF CheckDrained, Drained
    <2>2. ~ringbuf_has_data(rx_ring) => ringbuf_count(rx_ring) = 0
      BY RxRing DEF TypeOK
    <2> QED
      BY <2>1, <2>2, Sizes DEF Flow, Slack
  <1>8. CASE SelectWR5
    <2>1. pc = "select" /\ UNCHANGED <<late, struck, rx_ring>>
      BY <1>8 DEF SelectWR5
    <2> QED
      BY <2>1, LowFlow DEF TypeOK
  <1>9. CASE RaiseRts
    <2>1. pc = "set" /\ UNCHANGED <<struck, rx_ring>> /\ late' \in Nat
      BY <1>9 DEF RaiseRts, LateNow, TypeOK
    <2> QED
      BY <2>1, LowFlow
  <1>10. ASSUME NEW to, NEW list \in BOOLEAN, Output(to, list), list => to = ListTo
        PROVE  Flow'
    BY <1>10 DEF Flow, Slack, Output
  <1>11. CASE AskStatus
    BY <1>11 DEF Flow, Slack, AskStatus
  <1>12. CASE PollTx
    BY <1>12 DEF Flow, Slack, PollTx
  <1>13. CASE SendByte
    <2>1. /\ pc' = "idle" /\ UNCHANGED <<struck, rx_ring>> /\ late' = LateNow
          /\ ~forced' => ~forced /\ (call.to # "A" \/ ~ringbuf_has_data(rx_ring))
          /\ Slack' = Slack /\ Slack \in Nat
      BY <1>13 DEF SendByte, Slack
    <2>2. late' \in Nat /\ (~Rts(sio'["A"]) => late' = late)
      BY <2>1 DEF LateNow, TypeOK
    <2>3. CASE ~ringbuf_has_data(rx_ring)
      <3>1. ringbuf_count(rx_ring) = 0
        BY <2>3, RxRing DEF TypeOK
      <3>2. 0 < SIO_A_HIGHWATER /\ 0 <= SIO_A_HIGHWATER + Slack + late'
        BY <2>1, <2>2, Sizes
      <3> QED
        BY <2>1, <3>1, <3>2 DEF Flow
    <2>4. CASE call.to # "A"
      <3>1. sio'["A"] = sio["A"]
        BY <1>13, <2>4, SendEffect, Ports
      <3> QED
        BY <2>1, <2>2, <3>1 DEF Flow
    <2>5. CASE forced'
      BY <2>1, <2>5 DEF Flow
    <2> QED
      BY <2>1, <2>3, <2>4, <2>5
  <1>14. ASSUME NEW b \in Bytes, isr_sio_a_rx(b)
        PROVE  Flow'
    <2> DEFINE n == ringbuf_count(rx_ring)
               m == ringbuf_count(rx_ring')
    <2>1. /\ pc' = pc /\ forced' = forced /\ struck' = struck /\ Slack' = Slack
          /\ Rts(sio["A"]) => late' = 0
          /\ ~Rts(sio["A"]) => late' = late + 1
          /\ pc \in {"select", "set"} => n < SIO_A_HIGHWATER - 1
      BY <1>14 DEF isr_sio_a_rx, InTime, Slack
    <2>2. n \in Nat /\ late \in Nat /\ m \in {n, n + 1}
      <3>1. rx_ring' = ringbuf_put(rx_ring, b) /\ b \in Byte /\ rx_ring \in Ring(Byte, SIO_MASK)
        BY <1>14, Sizes DEF isr_sio_a_rx, TypeOK
      <3> QED
        BY <3>1, RxPut, RxRing, Sizes DEF TypeOK
    <2>3. Slack \in Nat /\ (struck => Slack = 1)
      BY DEF Slack
    <2>4. pc \in {"select", "set"} => m < SIO_A_HIGHWATER
      BY <1>14, DropsNotAtSet
    <2>5. ~(m < SIO_A_HIGHWATER) =>
             /\ sio'["A"].ptr = 0 /\ (Rts(sio'["A"]) => Rts(sio["A"]))
             /\ sio["A"].ptr = 0 => ~Rts(sio'["A"])
             /\ ~struck => sio["A"].ptr = 0
      <3>1. ~(m < SIO_A_HIGHWATER) /\ ~struck => sio["A"].ptr = 0
        BY <2>4 DEF PortA
      <3> QED
        BY <1>14, <3>1, RxEffect
    <2>6. m < SIO_A_HIGHWATER => sio'["A"] = sio["A"]
      BY <1>14, RxEffect
    <2>7. ~forced =>
             IF Rts(sio["A"])
             THEN n < SIO_A_HIGHWATER \/ (struck /\ sio["A"].ptr = 0 /\ n = SIO_A_HIGHWATER)
             ELSE n <= SIO_A_HIGHWATER + Slack + late
      BY DEF Flow
    <2> HIDE DEF n, m
    <2>8. ASSUME ~forced, Rts(sio'["A"])
          PROVE  m < SIO_A_HIGHWATER \/ (struck /\ sio'["A"].ptr = 0 /\ m = SIO_A_HIGHWATER)
      <3> SUFFICES ASSUME ~(m < SIO_A_HIGHWATER)
                   PROVE  struck /\ sio'["A"].ptr = 0 /\ m = SIO_A_HIGHWATER
        OBVIOUS
      <3>1. Rts(sio["A"]) /\ sio["A"].ptr # 0 /\ struck /\ sio'["A"].ptr = 0
        BY <2>5, <2>8
      <3>2. n < SIO_A_HIGHWATER
        BY <2>7, <2>8, <3>1
      <3> QED
        BY <2>2, <3>1, <3>2, Sizes
    <2>9. ASSUME ~forced
          PROVE  m <= SIO_A_HIGHWATER + Slack + late'
      <3>1. CASE Rts(sio["A"])
        <4>1. n < SIO_A_HIGHWATER \/ (Slack = 1 /\ n = SIO_A_HIGHWATER)
          BY <2>3, <2>7, <2>9, <3>1
        <4> QED
          BY <2>1, <2>2, <2>3, <3>1, <4>1, Sizes
      <3>2. CASE ~Rts(sio["A"])
        <4>1. n <= SIO_A_HIGHWATER + Slack + late
          BY <2>7, <2>9, <3>2
        <4> QED
          BY <2>1, <2>2, <2>3, <3>2, <4>1, Sizes
      <3> QED
        BY <3>1, <3>2
    <2> QED
      BY <2>1, <2>4, <2>8, <2>9 DEF Flow, m
  <1>15. ASSUME NEW i \in Interrupt, Serve(i)
        PROVE  Flow'
    <2>1. UNCHANGED <<pc, late, forced, rx_ring>> /\ (struck => struck')
      BY <1>15 DEF Serve
    <2>2. /\ Rts(sio'["A"]) => Rts(sio["A"])
          /\ sio["A"].ptr = 0 => sio'["A"].ptr = 0
      BY <1>15, ServeEffect DEF Same
    <2> QED
      BY <2>1, <2>2, OffLater
  <1>16. ASSUME NEW i \in Interrupt, LineEvent(i)
        PROVE  Flow'
    <2>1. UNCHANGED <<pc, late, forced, rx_ring, struck>>
      BY <1>16 DEF LineEvent
    <2>2. Same("A")
      BY <1>16, LineEffect, Ports
    <2> QED
      BY <2>1, <2>2, OffLater, RtsIs DEF Same
  <1>17. ASSUME NEW c \in Channel, Transmit(c)
        PROVE  Flow'
    <2>1. UNCHANGED <<pc, late, forced, rx_ring, struck>>
      BY <1>17 DEF Transmit
    <2>2. Same("A")
      BY <1>17, TransmitEffect, Ports
    <2> QED
      BY <2>1, <2>2, OffLater, RtsIs DEF Same
  <1> QED
    BY <1>1, <1>2, <1>3, <1>4, <1>5, <1>6, <1>7, <1>8, <1>9, <1>10, <1>11, <1>12,
       <1>13, <1>14, <1>15, <1>16, <1>17, Sizes
       DEF Next, Reader, bios_punch, bios_list

\* When a transmitter is empty.
LEMMA TxEmptyStep == TypeOK /\ Shapes /\ PortA /\ PortB /\ TxEmpty /\ Next => TxEmpty'
  <1> SUFFICES ASSUME TypeOK, Shapes, PortA, PortB, TxEmpty, Next
               PROVE  TxEmpty'
    OBVIOUS
  <1> USE DEF setting, request, received, reader, history
  <1>1. ASSUME NEW value \in Iobyte, bios_set_iobyte(value)
        PROVE  TxEmpty'
    BY <1>1 DEF TxEmpty, bios_set_iobyte
  <1>2. CASE bios_reader
    BY <1>2 DEF TxEmpty, bios_reader
  <1>3. CASE Poll
    BY <1>3 DEF TxEmpty, Poll
  <1>4. CASE TakeByte
    BY <1>4 DEF TxEmpty, TakeByte
  <1>5. CASE LoadTail
    BY <1>5 DEF TxEmpty, LoadTail
  <1>6. CASE StoreTail
    BY <1>6 DEF TxEmpty, StoreTail
  <1>7. CASE CheckDrained
    BY <1>7 DEF TxEmpty, CheckDrained
  <1>8. CASE SelectWR5
    BY <1>8, SelectEffect DEF TxEmpty, SelectWR5, Channel
  <1>9. CASE RaiseRts
    BY <1>9, RaiseEffect DEF TxEmpty, RaiseRts, Channel
  <1>10. ASSUME NEW to, NEW list \in BOOLEAN, Output(to, list), list => to = ListTo
        PROVE  TxEmpty'
    BY <1>10 DEF TxEmpty, Output
  <1>11. CASE AskStatus
    BY <1>11 DEF TxEmpty, AskStatus
  <1>12. CASE PollTx
    BY <1>12, SendsIs DEF TxEmpty, PollTx, TypeOK, Shapes
  <1>13. CASE SendByte
    <2> DEFINE c == call.to
    <2>1. pc' = "idle" /\ misled' = misled /\ full' = full \cup {c}
      BY <1>13 DEF SendByte
    <2>2. c \in Channel /\ \A d \in Channel \ {c} : sio'[d] = sio[d]
      BY <1>13, SendEffect
    <2>3. "tx" \notin sio'[c].ip
      BY <1>13, SendEffect
    <2>4. tx_ready'[c] = 0 /\ \A d \in Channel \ {c} : tx_ready'[d] = tx_ready[d]
      BY <1>13, <2>2 DEF SendByte, Busy, TypeOK
    <2> HIDE DEF c
    <2> QED
      BY <2>1, <2>2, <2>3, <2>4 DEF TxEmpty
  <1>14. ASSUME NEW b \in Bytes, isr_sio_a_rx(b)
        PROVE  TxEmpty'
    BY <1>14, RxEffect DEF TxEmpty, isr_sio_a_rx, Channel
  <1>15. ASSUME NEW i \in Interrupt, Serve(i)
        PROVE  TxEmpty'
    <2>1. UNCHANGED <<pc, full, call>>
      BY <1>15 DEF Serve
    <2>2. pc = "send" => call.to \in Channel
      BY SendsIs DEF Shapes
    <2>3. \A c \in Channel : tx_ready'[c] \in {tx_ready[c], 255} /\ sio'[c].ip \subseteq sio[c].ip
      BY <1>15, ServeEffect
    <2>4. ~misled' => /\ ~misled
                      /\ \A c \in Channel : tx_ready'[c] = tx_ready[c] \/ "tx" \in sio[c].ip
      BY <1>15, ServeEffect
    <2> QED
      BY <2>1, <2>2, <2>3, <2>4 DEF TxEmpty
  <1>16. ASSUME NEW i \in Interrupt, LineEvent(i)
        PROVE  TxEmpty'
    BY <1>16, LineEffect DEF TxEmpty, LineEvent
  <1>17. ASSUME NEW c \in Channel, Transmit(c)
        PROVE  TxEmpty'
    <2>1. UNCHANGED <<pc, tx_ready, call, misled>> /\ full' = full \ {c}
      BY <1>17 DEF Transmit
    <2>2. \A d \in Channel \ {c} : sio'[d] = sio[d]
      BY <1>17, TransmitEffect
    <2> QED
      BY <2>1, <2>2 DEF TxEmpty
  <1> QED
    BY <1>1, <1>2, <1>3, <1>4, <1>5, <1>6, <1>7, <1>8, <1>9, <1>10, <1>11, <1>12,
       <1>13, <1>14, <1>15, <1>16, <1>17, Sizes
       DEF Next, Reader, bios_punch, bios_list

-----------------------------------------------------------------------------
LEMMA StartedPort ==
    ASSUME Init
    PROVE  /\ Chip(sio)
           /\ \A c \in Channel : /\ sio[c].ptr = 0 /\ sio[c].wr = Started[c].wr
                                 /\ Rts(sio[c]) <=> Rts(Started[c])
  <1>1. PICK idle \in SUBSET Followed :
          sio = [c \in Channel |-> [Started[c] EXCEPT !.ip = IF c \in idle THEN {"tx"} ELSE {}]]
    BY DEF Init
  <1>2. ASSUME NEW c \in Channel
        PROVE  /\ sio[c] \in PortType(c) /\ sio[c].ptr = 0 /\ sio[c].wr = Started[c].wr
               /\ Rts(sio[c]) <=> Rts(Started[c])
    <2> DEFINE s == Started[c]
               ip == IF c \in idle THEN {"tx"} ELSE {}
               e == [s EXCEPT !.ip = ip]
    <2>1. s \in PortType(c) /\ s.ptr = 0
      BY StartedIs
    <2>2. sio[c] = e
      BY <1>1
    <2>3. ip \subseteq Cause
      BY DEF Cause
    <2> HIDE DEF s, ip
    <2>4. e = [ptr |-> s.ptr, wr |-> s.wr, ip |-> ip]
      BY <2>1, PortFields
    <2>5. e \in PortType(c) /\ e.ptr = s.ptr /\ e.wr = s.wr
      BY <2>1, <2>3, <2>4, PortFields, PortOf
    <2> HIDE DEF e
    <2> QED
      BY <2>1, <2>2, <2>5, RtsIs DEF s
  <1>3. DOMAIN sio = Channel
    BY <1>1
  <1> QED
    BY <1>2, <1>3 DEF Chip

LEMMA InitIInv == Init => IInv
  <1> SUFFICES ASSUME Init
               PROVE  IInv
    OBVIOUS
  <1>1. /\ rx_ring \in Ring(Byte, SIO_MASK) /\ ringbuf_count(rx_ring) = 0
        /\ ~ringbuf_has_data(rx_ring)
    <2>1. [i \in 0 .. SIO_MASK |-> 0] \in [0 .. SIO_MASK -> Byte] /\ SIO_MASK \in Nat
      BY Sizes
    <2>2. rx_ring \in Ring(Byte, SIO_MASK) /\ Contents(rx_ring) = << >>
      BY <2>1, Initial DEF Init
    <2> QED
      BY <2>1, <2>2, EmptyRing, RxRing
  <1>2. /\ pc = "idle" /\ late = 0 /\ call = Nothing /\ announced = FALSE
        /\ full = {} /\ tx_ready = [c \in Channel |-> 0]
        /\ lost = FALSE /\ forced = FALSE /\ struck = FALSE /\ misled = FALSE
    BY DEF Init
  <1>3. TypeOK
    <2>1. tx_ready \in [Channel -> {0, 255}] /\ full \subseteq Channel
      BY <1>2
    <2>2. 149 \in 0 .. 255 /\ 0 \in 0 .. Lag /\ 0 \in 0 .. SIO_MASK
      BY Sizes
    <2>3. session \in Session /\ iobyte_val = 149 /\ ch = 0 /\ next = 0
      BY DEF Init
    <2>4. Chip(sio) /\ 0 \in Byte
      BY StartedPort, Sizes
    <2> QED
      BY <1>1, <1>2, <2>1, <2>2, <2>3, <2>4 DEF TypeOK, Chip
  <1>4. Shapes
    BY <1>2 DEF Shapes
  <1>5. \A c \in Channel : /\ sio[c].ptr = 0 /\ sio[c].wr = Started[c].wr
                           /\ sio[c].wr[5] = 96 /\ ~Rts(sio[c])
    BY StartedPort, StartedIs, RtsIs
  <1>6. PortA
    BY <1>2, <1>5, StartedIs DEF PortA, Channel
  <1>7. PortB
    BY <1>5, StartedIs DEF PortB, Channel
  <1>8. Rescue
    BY <1>5 DEF Rescue, Channel
  <1>9. Flow
    <2>1. 0 <= SIO_A_HIGHWATER + Slack + 0
      BY Sizes DEF Slack
    <2> QED
      BY <1>1, <1>2, <1>5, <2>1 DEF Flow, Channel
  <1>10. Holding /\ TxEmpty /\ Announced
    BY <1>2 DEF Holding, TxEmpty, Announced
  <1> QED
    BY <1>3, <1>4, <1>6, <1>7, <1>8, <1>9, <1>10 DEF IInv

\* What the taker of a byte from the ring got last.
ByteGot == IF Taken THEN <<"READER", ch>> ELSE got
LineQueue == <<Contents(rx_ring), ByteGot, lost>>

\* The ring of channel A is a queue.
LEMMA ReceivedNext == TypeOK /\ Holding /\ Next => Received!Next \/ UNCHANGED LineQueue
  <1> SUFFICES ASSUME TypeOK, Holding, Next
               PROVE  Received!Next \/ UNCHANGED LineQueue
    OBVIOUS
  <1> USE DEF setting, request, received, reader, history
  <1>1. ASSUME NEW value \in Iobyte, bios_set_iobyte(value)
        PROVE  Received!Next \/ UNCHANGED LineQueue
    BY <1>1 DEF LineQueue, ByteGot, Taken, bios_set_iobyte
  <1>2. CASE bios_reader
    BY <1>2 DEF LineQueue, ByteGot, Taken, bios_reader
  <1>3. CASE Poll
    BY <1>3 DEF LineQueue, ByteGot, Taken, Poll
  <1>4. CASE TakeByte
    BY <1>4 DEF LineQueue, ByteGot, Taken, TakeByte
  <1>5. CASE LoadTail
    BY <1>5 DEF LineQueue, ByteGot, Taken, LoadTail
  <1>6. CASE StoreTail
    <2>1. /\ pc = "store" /\ pc' = "check" /\ rx_ring' = SetTail(rx_ring, next)
          /\ lost' = FALSE /\ ch' = ch /\ got' = got
      BY <1>6 DEF StoreTail
    <2>2. /\ ringbuf_has_data(rx_ring) /\ ch = ringbuf_peek(rx_ring)
          /\ next = NextTail(rx_ring) /\ rx_ring \in Ring(Byte, SIO_MASK)
      BY <2>1 DEF Holding, TypeOK
    <2>3. Contents(rx_ring) # << >> /\ ch = Head(Contents(rx_ring))
      BY <2>2, Sizes, EmptyRing, PeekIsHead
    <2>4. Contents(rx_ring)' = Tail(Contents(rx_ring))
      BY <2>1, <2>2, Sizes, SetTailTakes
    <2>5. ByteGot' = <<"READER", Convert("READER", ch)>>
      BY <2>1 DEF ByteGot, Taken, Convert
    <2>6. Received!Take("READER")
      BY <2>1, <2>3, <2>4, <2>5 DEF Received!Take, ByteGot
    <2> QED
      BY <2>6 DEF Received!Next
  <1>7. CASE CheckDrained
    BY <1>7 DEF LineQueue, ByteGot, Taken, CheckDrained
  <1>8. CASE SelectWR5
    BY <1>8 DEF LineQueue, ByteGot, Taken, SelectWR5
  <1>9. CASE RaiseRts
    BY <1>9 DEF LineQueue, ByteGot, Taken, RaiseRts
  <1>10. ASSUME NEW to, NEW list \in BOOLEAN, Output(to, list), list => to = ListTo
        PROVE  Received!Next \/ UNCHANGED LineQueue
    BY <1>10 DEF LineQueue, ByteGot, Taken, Output
  <1>11. CASE AskStatus
    BY <1>11 DEF LineQueue, ByteGot, Taken, AskStatus
  <1>12. CASE PollTx
    BY <1>12 DEF LineQueue, ByteGot, Taken, PollTx
  <1>13. CASE SendByte
    BY <1>13 DEF LineQueue, ByteGot, Taken, SendByte
  <1>14. ASSUME NEW b \in Bytes, isr_sio_a_rx(b)
        PROVE  Received!Next \/ UNCHANGED LineQueue
    <2>1. UNCHANGED ByteGot /\ b \in Byte
      BY <1>14, Sizes DEF ByteGot, Taken, isr_sio_a_rx
    <2>2. rx_ring' = ringbuf_put(rx_ring, b) /\ lost' = (lost \/ rx_ring' =
       rx_ring)
      BY <1>14 DEF isr_sio_a_rx
    <2>3. CASE rx_ring' # rx_ring
      <3>1. /\ Len(Contents(rx_ring)) < SIO_MASK
            /\ Contents(rx_ring)' = Append(Contents(rx_ring), b)
        BY <2>1, <2>2, <2>3, Sizes, QueueSteps DEF TypeOK
      <3>2. lost' = lost
        BY <2>2, <2>3 DEF TypeOK
      <3>3. Received!Arrive(b)
        BY <2>1, <3>1, <3>2 DEF Received!Arrive, ByteGot
      <3> QED
        BY <2>1, <3>3 DEF Received!Next
    <2>4. CASE rx_ring' = rx_ring
      <3>1. ringbuf_put(rx_ring, b) = rx_ring /\ rx_ring \in Ring(Byte, SIO_MASK)
        BY <2>2, <2>4 DEF TypeOK
      <3>2. Len(Contents(rx_ring)) = SIO_MASK
        BY <2>1, <3>1, Sizes, QueueSteps
      <3>3. lost' = TRUE /\ Contents(rx_ring)' = Contents(rx_ring)
        BY <2>2, <2>4
      <3>4. Received!Drop
        BY <2>1, <3>2, <3>3 DEF Received!Drop, ByteGot
      <3> QED
        BY <3>4 DEF Received!Next
    <2> QED
      BY <2>3, <2>4
  <1>15. ASSUME NEW i \in Interrupt, Serve(i)
        PROVE  Received!Next \/ UNCHANGED LineQueue
    BY <1>15 DEF LineQueue, ByteGot, Taken, Serve
  <1>16. ASSUME NEW i \in Interrupt, LineEvent(i)
        PROVE  Received!Next \/ UNCHANGED LineQueue
    BY <1>16 DEF LineQueue, ByteGot, Taken, LineEvent
  <1>17. ASSUME NEW c \in Channel, Transmit(c)
        PROVE  Received!Next \/ UNCHANGED LineQueue
    BY <1>17 DEF LineQueue, ByteGot, Taken, Transmit
  <1> QED
    BY <1>1, <1>2, <1>3, <1>4, <1>5, <1>6, <1>7, <1>8, <1>9, <1>10, <1>11, <1>12,
       <1>13, <1>14, <1>15, <1>16, <1>17, Sizes
       DEF Next, Reader, bios_punch, bios_list

-----------------------------------------------------------------------------
(***************************************************************************)
(* The theorems.                                                           *)
(***************************************************************************)
LEMMA Stuttering == IInv /\ UNCHANGED vars => IInv'
  <1> SUFFICES ASSUME IInv, UNCHANGED vars
               PROVE  IInv'
    OBVIOUS
  <1> USE DEF IInv, vars, setting, request, received, reader, history
  <1>1. TypeOK' /\ Shapes'
    BY DEF TypeOK, Shapes, Sends
  <1>2. PortA' /\ PortB'
    <2>1. sio' = sio /\ pc' = pc /\ struck' = struck /\ Sends' = Sends
      BY DEF Sends
    <2> QED
      BY <2>1 DEF PortA, PortB
  <1>3. Flow' /\ Rescue' /\ Holding'
    BY DEF Flow, Slack, Rescue, Holding
  <1>4. TxEmpty' /\ Announced'
    BY DEF TxEmpty, Announced, bios_listst, ListTo, iobyte_lst_mode
  <1> QED
    BY <1>1, <1>2, <1>3, <1>4

\* The inductive invariant holds, in every session.
THEOREM Invariance == Spec => []IInv
  <1>1. Init => IInv
    BY InitIInv
  <1>2. IInv /\ [Next]_vars => IInv'
    <2>1. IInv /\ Next => IInv'
      BY TypeStep, ShapesStep, PortAStep, PortBStep, FlowStep, RescueStep,
         HoldingStep, TxEmptyStep, AnnouncedStep DEF IInv
    <2> QED
      BY <2>1, Stuttering
  <1> QED
    BY <1>1, <1>2, PTL DEF Spec

\* The driver, the chip and the lines stay what they are.
THEOREM TypeCorrect == Spec => []TypeOK
  <1>1. IInv => TypeOK
    BY DEF IInv
  <1> QED
    BY <1>1, Invariance, PTL

\* Until a handler of channel A has struck between the two port writes of
\* serial_a_reassert_rts, the register pointer of each control port is where
\* the driver takes it to be, and each register holds what the configuration
\* block or the driver put there, whatever other handlers have run and
\* wherever they have.
THEOREM RegistersCorrect == Spec => []RegistersIntact
  <1>1. IInv => RegistersIntact
    <2> SUFFICES ASSUME IInv, ~struck, NEW c \in Channel
                 PROVE  /\ sio[c].ptr = IF c = "A" /\ pc = "set" THEN 5 ELSE 0
                        /\ sio[c].wr[5] - wr5[c] \in {0, WR5_DTR_RTS_TX, WR5_DTR_TX}
                        /\ sio[c].wr[1] \in {Started[c].wr[1], 27}
                        /\ \A r \in Registers(c) \ {1, 5} : sio[c].wr[r] = Started[c].wr[r]
      BY DEF RegistersIntact
    <2>1. /\ sio[c].ptr = IF c = "A" /\ pc = "set" THEN 5 ELSE 0
          /\ sio[c].wr[5] \in {96, 232, 234}
          /\ sio[c].wr[1] \in {Started[c].wr[1], 27}
          /\ \A r \in Registers(c) \ {1, 5} : sio[c].wr[r] = Started[c].wr[r]
      BY StartedIs DEF IInv, PortA, PortB, Channel
    <2>2. wr5[c] = 96 /\ WR5_DTR_RTS_TX = 138 /\ WR5_DTR_TX = 136
      BY Wr5Is DEF Channel, WR5_DTR_RTS_TX, WR5_DTR_TX
    <2>3. sio[c].wr[5] - wr5[c] \in {0, WR5_DTR_RTS_TX, WR5_DTR_TX}
      BY <2>1, <2>2
    <2> QED
      BY <2>1, <2>3
  <1> QED
    BY <1>1, Invariance, PTL

\* Once RTS has been raised, a READER that has drained the ring and has not
\* been struck between its port writes leaves RTS on: it does not wait for a
\* device that waits.
THEOREM NoStallCorrect == Spec => []NoStall
  <1>1. IInv => NoStall
    <2> SUFFICES ASSUME IInv, ~struck, pc \in {"idle", "poll"},
                        ~ringbuf_has_data(rx_ring), sio["A"].wr[5] # wr5["A"]
                 PROVE  Rts(sio["A"])
      BY DEF NoStall
    <2>1. sio["A"].wr[5] \in {96, 232, 234}
      BY DEF IInv, PortA
    <2>2. sio["A"].wr[5] = 234
      BY <2>1, Wr5Is DEF IInv, Rescue
    <2> QED
      BY <2>2, RtsIs
  <1> QED
    BY <1>1, Invariance, PTL

\* When LISTST has said ready and nothing was sent since, LIST does not give
\* up: a handler can make a transmitter ready, and only an output busy.
THEOREM ListstCorrect == Spec => []ListstPromise
  <1>1. IInv => ListstPromise
    BY DEF IInv, Announced, ListstPromise
  <1> QED
    BY <1>1, Invariance, PTL

\* As long as programs send nothing on channel B, the chip gives every
\* interrupt the slot of its own handler, whatever happens to the port of
\* channel A.
THEOREM VectorsCorrect == Spec => []OwnHandler
  <1>1. IInv => OwnHandler
    <2> SUFFICES ASSUME IInv, Sends \subseteq {"A"}, NEW i \in Interrupt
                 PROVE  Vector(sio["B"], i) = VectorEntry(i)
      BY DEF OwnHandler
    <2>1. "B" \notin Sends /\ 2 \in Registers("B") \ {1, 5}
      BY RegistersAre
    <2>2. sio["B"].wr[1] = 31 /\ sio["B"].wr[2] = 16
      BY <2>1, StartedIs DEF IInv, PortB
    <2> QED
      BY <2>2, VectorIs
  <1> QED
    BY <1>1, Invariance, PTL

\* A byte is never written over one still in the transmitter, as long as
\* every interrupt has run its own handler; READER being struck does not
\* matter.
THEOREM TransmitterCorrect == Spec => []TransmitterFree
  <1>1. IInv => TransmitterFree
    <2> SUFFICES ASSUME IInv, pc = "send", ~misled
                 PROVE  call.to \notin full
      BY DEF TransmitterFree
    <2>1. TypeOK /\ Shapes /\ TxEmpty
      BY DEF IInv
    <2>2. call.to \in Channel
      BY <2>1, SendsIs DEF Shapes
    <2> QED
      BY <2>1, <2>2 DEF TxEmpty
  <1> QED
    BY <1>1, Invariance, PTL

\* RTS stops the device in time, for any ring and mark that leave room for
\* the lag and one byte more, even if READER has been struck: a byte is
\* discarded only after PUNCH or LIST has raised RTS over a ring that was not
\* empty.
THEOREM LossCorrect == Spec => LossOnlyByOutput
  <1>1. IInv /\ [Next]_vars => [lost' /\ ~lost => forced]_vars
    <2> SUFFICES ASSUME IInv, Next, lost', ~lost, ~forced
                 PROVE  FALSE
      OBVIOUS
    <2> USE DEF setting, request, received, reader, history
    <2>1. PICK b \in Bytes : isr_sio_a_rx(b)
      BY DEF Next, Reader, bios_set_iobyte, bios_reader, Poll, TakeByte,
         LoadTail, StoreTail, CheckDrained, SelectWR5, RaiseRts, bios_punch,
         bios_list, Output, AskStatus, PollTx, SendByte, Serve, LineEvent, Transmit
    <2>2. rx_ring \in Ring(Byte, SIO_MASK) /\ b \in Byte
      BY Sizes DEF IInv, TypeOK
    <2>3. ringbuf_put(rx_ring, b) = rx_ring /\ (Rts(sio["A"]) \/ late < Lag)
      BY <2>1 DEF isr_sio_a_rx
    <2>4. ringbuf_count(rx_ring) = SIO_MASK /\ late \in Nat
      BY <2>2, <2>3, RxPut, Sizes DEF IInv, TypeOK
    <2>5. \/ SIO_MASK <= SIO_A_HIGHWATER
          \/ late < Lag /\ SIO_MASK <= SIO_A_HIGHWATER + 1 + late
      <3>1. Slack = 0 \/ Slack = 1
        BY DEF Slack
      <3>2. CASE Rts(sio["A"])
        BY <2>4, <3>2, Sizes DEF IInv, Flow
      <3>3. CASE ~Rts(sio["A"])
        <4>1. SIO_MASK <= SIO_A_HIGHWATER + Slack + late /\ late < Lag
          BY <2>3, <2>4, <3>3 DEF IInv, Flow
        <4> QED
          BY <2>4, <3>1, <4>1, Sizes
      <3> QED
        BY <3>2, <3>3
    <2> QED
      BY <2>4, <2>5, Sizes
  <1> QED
    BY <1>1, Invariance, PTL DEF Spec, LossOnlyByOutput

\* The ring of channel A, with the handler that fills it and READER that
\* empties it an access at a time, is the queue ByteQueue promises.
THEOREM BytesRefinement == Spec => BytesInOrder
  <1>1. Init => Received!Init
    <2> SUFFICES ASSUME Init
                 PROVE  Received!Init
      OBVIOUS
    <2>1. Contents(rx_ring) = << >>
      <3>1. [i \in 0 .. SIO_MASK |-> 0] \in [0 .. SIO_MASK -> Byte]
        BY Sizes
      <3> QED
        BY <3>1, Sizes, Initial DEF Init
    <2>2. ~Taken /\ got = <<"nobody", 0>> /\ lost = FALSE
      BY DEF Init, Taken
    <2> QED
      BY <2>1, <2>2 DEF Received!Init, Received!Nobody
  <1>2. IInv /\ [Next]_vars => [Received!Next]_LineQueue
    <2>1. IInv /\ Next => Received!Next \/ UNCHANGED LineQueue
      BY ReceivedNext DEF IInv
    <2>2. UNCHANGED vars => UNCHANGED LineQueue
      BY DEF vars, reader, received, LineQueue, ByteGot, Taken
    <2> QED
      BY <2>1, <2>2
  <1>3. [Received!Next]_LineQueue
          => [Received!Next]_<<Contents(rx_ring),
                               IF Taken THEN <<"READER", ch>> ELSE got, lost>>
    BY DEF LineQueue, ByteGot
  <1> QED
    BY <1>1, <1>2, <1>3, Invariance, PTL DEF Spec, BytesInOrder, Received!Spec
=============================================================================
