---------------------------- MODULE DmaPortProofs ----------------------------
(***************************************************************************)
(* For every buffer address and count: a DMA channel is released only with *)
(* what its user asked for.  The inductive invariant says how far each of  *)
(* the two programs has come, and that while one of them is under way      *)
(* interrupts are off and the other is not running.                        *)
(***************************************************************************)
EXTENDS DmaPort, TLAPS

\* The two halves of a word are bytes: what the casts of dma_setup yield.
LEMMA HalvesAreBytes ==
    ASSUME NEW w \in Word
    PROVE  Low(w) \in Byte /\ High(w) \in Byte
  <1>1. w \in Int /\ 0 <= w /\ w <= 65535
    BY DEF Word
  <1>2. 0 <= w % 256 /\ w % 256 <= 255 /\ w % 256 \in Int
    BY <1>1
  <1>3. 0 <= w \div 256 /\ w \div 256 <= 255 /\ w \div 256 \in Int
    BY <1>1
  <1>4. QED
    BY <1>2, <1>3 DEF Byte, Low, High

\* A write of one of the two programs keeps the controller's type.
LEMMA OutType ==
    ASSUME NEW d \in Controller, NEW c \in Channel, NEW b \in Byte,
           NEW m \in {"read", "write"}
    PROVE  /\ Out(d, Mask(c)) \in Controller
           /\ Out(d, Unmask(c)) \in Controller
           /\ Out(d, SetMode(m)) \in Controller
           /\ Out(d, Clear) \in Controller
           /\ Out(d, Addr(c, b)) \in Controller
           /\ Out(d, Cnt(c, b)) \in Controller
  <1>1. Put(d.addr[c], d.next, b) \in Half /\ Put(d.count[c], d.next, b) \in Half
    BY DEF Put, Half, Controller
  <1>2. Out(d, Mask(c)) = [d EXCEPT !.masked = @ \cup {c}]
    BY DEF Out, Mask
  <1>3. Out(d, Unmask(c)) = [d EXCEPT !.masked = @ \ {c}]
    BY DEF Out, Unmask
  <1>4. Out(d, SetMode(m)) = [d EXCEPT !.mode = m]
    BY DEF Out, SetMode
  <1>5. Out(d, Clear) = [d EXCEPT !.next = "low"]
    BY DEF Out, Clear
  <1>6. Out(d, Addr(c, b)) =
          [d EXCEPT !.addr = [d.addr EXCEPT ![c] = Put(d.addr[c], d.next, b)],
                    !.next = Flip(d.next)]
    BY DEF Out, Addr, Controller
  <1>7. Out(d, Cnt(c, b)) =
          [d EXCEPT !.count = [d.count EXCEPT ![c] = Put(d.count[c], d.next, b)],
                    !.next = Flip(d.next)]
    BY DEF Out, Cnt, Controller
  <1>8. Out(d, Mask(c)) \in Controller /\ Out(d, Unmask(c)) \in Controller
    BY <1>2, <1>3 DEF Controller
  <1>9. Out(d, SetMode(m)) \in Controller /\ Out(d, Clear) \in Controller
    BY <1>4, <1>5 DEF Controller
  <1>10. Flip(d.next) \in {"low", "high"}
    BY DEF Flip
  <1>11. Out(d, Addr(c, b)) \in Controller
    <2>1. [d.addr EXCEPT ![c] = Put(d.addr[c], d.next, b)] \in [Channel -> Half]
      BY <1>1 DEF Controller
    <2>2. QED
      BY <2>1, <1>6, <1>10 DEF Controller
  <1>12. Out(d, Cnt(c, b)) \in Controller
    <2>1. [d.count EXCEPT ![c] = Put(d.count[c], d.next, b)] \in [Channel -> Half]
      BY <1>1 DEF Controller
    <2>2. QED
      BY <2>1, <1>7, <1>10 DEF Controller
  <1>13. QED
    BY <1>8, <1>9, <1>11, <1>12

\* The writes of the two programs, in order.
LEMMA SetupWrites ==
    ASSUME NEW r
    PROVE  /\ dma_setup(r)[1] = Mask(1) /\ dma_setup(r)[2] = SetMode(r.mode)
           /\ dma_setup(r)[3] = Clear
           /\ dma_setup(r)[4] = Addr(1, Low(r.addr))
           /\ dma_setup(r)[5] = Addr(1, High(r.addr))
           /\ dma_setup(r)[6] = Cnt(1, Low(r.count))
           /\ dma_setup(r)[7] = Cnt(1, High(r.count))
           /\ dma_setup(r)[8] = Unmask(1)
  BY DEF dma_setup

LEMMA RefreshWrites ==
    LET p == isr_reprogram_display_dma
    IN  /\ p[1] = Mask(2) /\ p[2] = Mask(3) /\ p[3] = Clear
        /\ p[4] = Addr(2, Low(DisplayAddr)) /\ p[5] = Addr(2, High(DisplayAddr))
        /\ p[6] = Cnt(2, Low(DisplayCount)) /\ p[7] = Cnt(2, High(DisplayCount))
        /\ p[8] = Unmask(2)
  BY DEF isr_reprogram_display_dma

\* What each write does to the parts of the controller.
LEMMA MaskEffect ==
    ASSUME NEW d \in Controller, NEW c \in Channel
    PROVE  LET e == Out(d, Mask(c)) IN
           /\ e.masked = d.masked \cup {c}
           /\ e.next = d.next /\ e.mode = d.mode
           /\ e.addr = d.addr /\ e.count = d.count
  <1>1. Out(d, Mask(c)) = [d EXCEPT !.masked = d.masked \cup {c}]
    BY DEF Out, Mask
  <1>2. QED
    BY <1>1 DEF Controller

LEMMA UnmaskEffect ==
    ASSUME NEW d \in Controller, NEW c \in Channel
    PROVE  LET e == Out(d, Unmask(c)) IN
           /\ e.masked = d.masked \ {c}
           /\ e.next = d.next /\ e.mode = d.mode
           /\ e.addr = d.addr /\ e.count = d.count
  <1>1. Out(d, Unmask(c)) = [d EXCEPT !.masked = d.masked \ {c}]
    BY DEF Out, Unmask
  <1>2. QED
    BY <1>1 DEF Controller

LEMMA ModeEffect ==
    ASSUME NEW d \in Controller, NEW m \in {"read", "write"}
    PROVE  LET e == Out(d, SetMode(m)) IN
           /\ e.mode = m
           /\ e.masked = d.masked /\ e.next = d.next
           /\ e.addr = d.addr /\ e.count = d.count
  <1>1. Out(d, SetMode(m)) = [d EXCEPT !.mode = m]
    BY DEF Out, SetMode
  <1>2. QED
    BY <1>1 DEF Controller

LEMMA ClearEffect ==
    ASSUME NEW d \in Controller
    PROVE  LET e == Out(d, Clear) IN
           /\ e.next = "low"
           /\ e.masked = d.masked /\ e.mode = d.mode
           /\ e.addr = d.addr /\ e.count = d.count
  <1>1. Out(d, Clear) = [d EXCEPT !.next = "low"]
    BY DEF Out, Clear
  <1>2. QED
    BY <1>1 DEF Controller

LEMMA AddrEffect ==
    ASSUME NEW d \in Controller, NEW c \in Channel, NEW b \in Byte
    PROVE  LET e == Out(d, Addr(c, b)) IN
           /\ e.masked = d.masked /\ e.mode = d.mode /\ e.count = d.count
           /\ \A x \in Channel \ {c} : e.addr[x] = d.addr[x]
           /\ d.next = "low" => /\ e.next = "high"
                                /\ e.addr[c][1] = b
           /\ d.next = "high" => /\ e.next = "low"
                                 /\ e.addr[c][1] = d.addr[c][1]
                                 /\ e.addr[c][2] = b
  <1>1. Out(d, Addr(c, b)) =
          [d EXCEPT !.addr = [d.addr EXCEPT ![c] = Put(d.addr[c], d.next, b)],
                    !.next = Flip(d.next)]
    BY DEF Out, Addr, Controller
  <1>2. /\ d.next = "low" => Put(d.addr[c], d.next, b) = <<b, d.addr[c][2]>>
        /\ d.next = "high" => Put(d.addr[c], d.next, b) = <<d.addr[c][1], b>>
    BY DEF Put
  <1>3. QED
    BY <1>1, <1>2 DEF Controller, Flip

LEMMA CountEffect ==
    ASSUME NEW d \in Controller, NEW c \in Channel, NEW b \in Byte
    PROVE  LET e == Out(d, Cnt(c, b)) IN
           /\ e.masked = d.masked /\ e.mode = d.mode /\ e.addr = d.addr
           /\ \A x \in Channel \ {c} : e.count[x] = d.count[x]
           /\ d.next = "low" => /\ e.next = "high"
                                /\ e.count[c][1] = b
           /\ d.next = "high" => /\ e.next = "low"
                                 /\ e.count[c][1] = d.count[c][1]
                                 /\ e.count[c][2] = b
  <1>1. Out(d, Cnt(c, b)) =
          [d EXCEPT !.count = [d.count EXCEPT ![c] = Put(d.count[c], d.next, b)],
                    !.next = Flip(d.next)]
    BY DEF Out, Cnt, Controller
  <1>2. /\ d.next = "low" => Put(d.count[c], d.next, b) = <<b, d.count[c][2]>>
        /\ d.next = "high" => Put(d.count[c], d.next, b) = <<d.count[c][1], b>>
    BY DEF Put
  <1>3. QED
    BY <1>1, <1>2 DEF Controller, Flip
-----------------------------------------------------------------------------
LEMMA RequestBytes ==
    ASSUME NEW r \in Request
    PROVE  /\ Low(r.addr) \in Byte /\ High(r.addr) \in Byte
           /\ Low(r.count) \in Byte /\ High(r.count) \in Byte
           /\ r.mode \in {"read", "write"}
  <1>1. r.addr \in Word /\ r.count \in Word /\ r.mode \in {"read", "write"}
    BY DmaAssumption DEF Request
  <1>2. QED
    BY <1>1, HalvesAreBytes

\* Every write of dma_setup, from its place in the program.
LEMMA WriteInv ==
    ASSUME IInv, Write
    PROVE  IInv'
  <1> USE DEF Channel
  <1>t. /\ req \in Request /\ dma \in Controller /\ pc \in 1 .. 8 /\ hpc = 0 /\ ~iff
        /\ iff \in BOOLEAN /\ vrtc \in BOOLEAN
    BY DEF IInv, TypeOK, FloppyProgress, Write
  <1>u. UNCHANGED <<req, hpc, iff, vrtc>> /\ pc' = pc + 1
    BY DEF Write
  <1>b. /\ Low(req.addr) \in Byte /\ High(req.addr) \in Byte
        /\ Low(req.count) \in Byte /\ High(req.count) \in Byte
        /\ req.mode \in {"read", "write"}
    BY <1>t, RequestBytes
  <1>1. CASE pc = 1
    <2>1. dma' = Out(dma, Mask(1))
      BY <1>1, SetupWrites DEF Write
    <2>2. dma' \in Controller
      BY <2>1, <1>t, <1>b, OutType
    <2>3. FloppyProgress'
      BY <2>1, <1>t, <1>u, <1>b, <1>1, MaskEffect DEF FloppyProgress, IInv
    <2>4. QED
      BY <2>2, <2>3, <1>t, <1>u, <1>1 DEF IInv, TypeOK, DisplayProgress
  <1>2. CASE pc = 2
    <2>1. dma' = Out(dma, SetMode(req.mode))
      BY <1>2, SetupWrites DEF Write
    <2>2. dma' \in Controller
      BY <2>1, <1>t, <1>b, OutType
    <2>3. FloppyProgress'
      BY <2>1, <1>t, <1>u, <1>b, <1>2, ModeEffect DEF FloppyProgress, IInv
    <2>4. QED
      BY <2>2, <2>3, <1>t, <1>u, <1>2 DEF IInv, TypeOK, DisplayProgress
  <1>3. CASE pc = 3
    <2>1. dma' = Out(dma, Clear)
      BY <1>3, SetupWrites DEF Write
    <2>2. dma' \in Controller
      BY <2>1, <1>t, <1>b, OutType
    <2>3. FloppyProgress'
      BY <2>1, <1>t, <1>u, <1>b, <1>3, ClearEffect DEF FloppyProgress, IInv
    <2>4. QED
      BY <2>2, <2>3, <1>t, <1>u, <1>3 DEF IInv, TypeOK, DisplayProgress
  <1>4. CASE pc = 4
    <2>1. dma' = Out(dma, Addr(1, Low(req.addr)))
      BY <1>4, SetupWrites DEF Write
    <2>2. dma' \in Controller
      BY <2>1, <1>t, <1>b, OutType
    <2>3. FloppyProgress'
      BY <2>1, <1>t, <1>u, <1>b, <1>4, AddrEffect DEF FloppyProgress, IInv
    <2>4. QED
      BY <2>2, <2>3, <1>t, <1>u, <1>4 DEF IInv, TypeOK, DisplayProgress
  <1>5. CASE pc = 5
    <2>1. dma' = Out(dma, Addr(1, High(req.addr)))
      BY <1>5, SetupWrites DEF Write
    <2>2. dma' \in Controller
      BY <2>1, <1>t, <1>b, OutType
    <2>3. FloppyProgress'
      BY <2>1, <1>t, <1>u, <1>b, <1>5, AddrEffect DEF FloppyProgress, IInv
    <2>4. QED
      BY <2>2, <2>3, <1>t, <1>u, <1>5 DEF IInv, TypeOK, DisplayProgress
  <1>6. CASE pc = 6
    <2>1. dma' = Out(dma, Cnt(1, Low(req.count)))
      BY <1>6, SetupWrites DEF Write
    <2>2. dma' \in Controller
      BY <2>1, <1>t, <1>b, OutType
    <2>3. FloppyProgress'
      BY <2>1, <1>t, <1>u, <1>b, <1>6, CountEffect DEF FloppyProgress, IInv
    <2>4. QED
      BY <2>2, <2>3, <1>t, <1>u, <1>6 DEF IInv, TypeOK, DisplayProgress
  <1>7. CASE pc = 7
    <2>1. dma' = Out(dma, Cnt(1, High(req.count)))
      BY <1>7, SetupWrites DEF Write
    <2>2. dma' \in Controller
      BY <2>1, <1>t, <1>b, OutType
    <2>3. FloppyProgress'
      BY <2>1, <1>t, <1>u, <1>b, <1>7, CountEffect DEF FloppyProgress, IInv
    <2>4. QED
      BY <2>2, <2>3, <1>t, <1>u, <1>7 DEF IInv, TypeOK, DisplayProgress
  <1>8. CASE pc = 8
    <2>1. dma' = Out(dma, Unmask(1))
      BY <1>8, SetupWrites DEF Write
    <2>2. dma' \in Controller
      BY <2>1, <1>t, <1>b, OutType
    <2>3. FloppyProgress'
      BY <2>1, <1>t, <1>u, <1>b, <1>8, UnmaskEffect DEF FloppyProgress, IInv
    <2>4. QED
      BY <2>2, <2>3, <1>t, <1>u, <1>8 DEF IInv, TypeOK, DisplayProgress
  <1>9. QED
    BY <1>t, <1>1, <1>2, <1>3, <1>4, <1>5, <1>6, <1>7, <1>8

\* Every write of the display handler.
LEMMA RefreshInv ==
    ASSUME IInv, Refresh
    PROVE  IInv'
  <1> USE DEF Channel
  <1>t. /\ req \in Request /\ dma \in Controller /\ hpc \in 1 .. 8 /\ pc = 0 /\ ~iff
        /\ iff \in BOOLEAN /\ vrtc \in BOOLEAN
    BY DEF IInv, TypeOK, DisplayProgress, Refresh
  <1>u. UNCHANGED <<pc, req, iff, vrtc>> /\ hpc' = hpc + 1
    BY DEF Refresh
  <1>b. /\ Low(DisplayAddr) \in Byte /\ High(DisplayAddr) \in Byte
        /\ Low(DisplayCount) \in Byte /\ High(DisplayCount) \in Byte
    BY DmaAssumption, HalvesAreBytes
  <1>1. CASE hpc = 1
    <2>1. dma' = Out(dma, Mask(2))
      BY <1>1, RefreshWrites DEF Refresh
    <2>2. dma' \in Controller
      BY <2>1, <1>t, <1>b, OutType
    <2>3. DisplayProgress'
      BY <2>1, <1>t, <1>u, <1>b, <1>1, MaskEffect DEF DisplayProgress, IInv
    <2>4. QED
      BY <2>2, <2>3, <1>t, <1>u, <1>1 DEF IInv, TypeOK, FloppyProgress
  <1>2. CASE hpc = 2
    <2>1. dma' = Out(dma, Mask(3))
      BY <1>2, RefreshWrites DEF Refresh
    <2>2. dma' \in Controller
      BY <2>1, <1>t, <1>b, OutType
    <2>3. DisplayProgress'
      BY <2>1, <1>t, <1>u, <1>b, <1>2, MaskEffect DEF DisplayProgress, IInv
    <2>4. QED
      BY <2>2, <2>3, <1>t, <1>u, <1>2 DEF IInv, TypeOK, FloppyProgress
  <1>3. CASE hpc = 3
    <2>1. dma' = Out(dma, Clear)
      BY <1>3, RefreshWrites DEF Refresh
    <2>2. dma' \in Controller
      BY <2>1, <1>t, <1>b, OutType
    <2>3. DisplayProgress'
      BY <2>1, <1>t, <1>u, <1>b, <1>3, ClearEffect DEF DisplayProgress, IInv
    <2>4. QED
      BY <2>2, <2>3, <1>t, <1>u, <1>3 DEF IInv, TypeOK, FloppyProgress
  <1>4. CASE hpc = 4
    <2>1. dma' = Out(dma, Addr(2, Low(DisplayAddr)))
      BY <1>4, RefreshWrites DEF Refresh
    <2>2. dma' \in Controller
      BY <2>1, <1>t, <1>b, OutType
    <2>3. DisplayProgress'
      BY <2>1, <1>t, <1>u, <1>b, <1>4, AddrEffect DEF DisplayProgress, IInv
    <2>4. QED
      BY <2>2, <2>3, <1>t, <1>u, <1>4 DEF IInv, TypeOK, FloppyProgress
  <1>5. CASE hpc = 5
    <2>1. dma' = Out(dma, Addr(2, High(DisplayAddr)))
      BY <1>5, RefreshWrites DEF Refresh
    <2>2. dma' \in Controller
      BY <2>1, <1>t, <1>b, OutType
    <2>3. DisplayProgress'
      BY <2>1, <1>t, <1>u, <1>b, <1>5, AddrEffect DEF DisplayProgress, IInv
    <2>4. QED
      BY <2>2, <2>3, <1>t, <1>u, <1>5 DEF IInv, TypeOK, FloppyProgress
  <1>6. CASE hpc = 6
    <2>1. dma' = Out(dma, Cnt(2, Low(DisplayCount)))
      BY <1>6, RefreshWrites DEF Refresh
    <2>2. dma' \in Controller
      BY <2>1, <1>t, <1>b, OutType
    <2>3. DisplayProgress'
      BY <2>1, <1>t, <1>u, <1>b, <1>6, CountEffect DEF DisplayProgress, IInv
    <2>4. QED
      BY <2>2, <2>3, <1>t, <1>u, <1>6 DEF IInv, TypeOK, FloppyProgress
  <1>7. CASE hpc = 7
    <2>1. dma' = Out(dma, Cnt(2, High(DisplayCount)))
      BY <1>7, RefreshWrites DEF Refresh
    <2>2. dma' \in Controller
      BY <2>1, <1>t, <1>b, OutType
    <2>3. DisplayProgress'
      BY <2>1, <1>t, <1>u, <1>b, <1>7, CountEffect DEF DisplayProgress, IInv
    <2>4. QED
      BY <2>2, <2>3, <1>t, <1>u, <1>7 DEF IInv, TypeOK, FloppyProgress
  <1>8. CASE hpc = 8
    <2>1. dma' = Out(dma, Unmask(2))
      BY <1>8, RefreshWrites DEF Refresh
    <2>2. dma' \in Controller
      BY <2>1, <1>t, <1>b, OutType
    <2>3. DisplayProgress'
      BY <2>1, <1>t, <1>u, <1>b, <1>8, UnmaskEffect DEF DisplayProgress, IInv
    <2>4. QED
      BY <2>2, <2>3, <1>t, <1>u, <1>8 DEF IInv, TypeOK, FloppyProgress
  <1>9. QED
    BY <1>t, <1>1, <1>2, <1>3, <1>4, <1>5, <1>6, <1>7, <1>8

LEMMA TerminalCountInv ==
    ASSUME IInv, NEW c \in {1, 2}, TerminalCount(c)
    PROVE  IInv'
  <1>1. dma' = [dma EXCEPT !.masked = dma.masked \cup {c}] /\ dma \in Controller
    BY DEF TerminalCount, IInv, TypeOK
  <1>2. /\ dma' \in Controller
        /\ dma'.masked = dma.masked \cup {c}
        /\ dma'.next = dma.next /\ dma'.mode = dma.mode
        /\ dma'.addr = dma.addr /\ dma'.count = dma.count
    BY <1>1 DEF Controller, Channel
  <1>3. UNCHANGED <<pc, req, hpc, iff, vrtc>>
    BY DEF TerminalCount
  <1>4. TypeOK'
    BY <1>2, <1>3 DEF IInv, TypeOK
  <1>5. FloppyProgress' /\ DisplayProgress'
    BY <1>2, <1>3 DEF IInv, FloppyProgress, DisplayProgress
  <1>6. QED
    BY <1>4, <1>5 DEF IInv

LEMMA InitInv ==
    ASSUME Init
    PROVE  IInv
  <1>1. <<0, 0>> \in Half
    BY DEF Half, Byte
  <1>2. dma \in Controller
    BY <1>1 DEF Init, Controller
  <1>3. iff \in BOOLEAN /\ vrtc \in BOOLEAN
    BY DEF Init
  <1>4. pc = 0 /\ hpc = 0 /\ req \in Request
    BY DEF Init
  <1>5. TypeOK
    BY <1>2, <1>3, <1>4 DEF TypeOK
  <1>6. QED
    BY <1>4, <1>5 DEF IInv, FloppyProgress, DisplayProgress

LEMMA StepInv ==
    ASSUME IInv, [Next]_vars
    PROVE  IInv'
  <1> USE DEF IInv, TypeOK, FloppyProgress, DisplayProgress
  <1>1. CASE \E r \in Request : Enter(r)
    <2>1. PICK r \in Request : Enter(r)
      BY <1>1
    <2>2. iff' \in BOOLEAN /\ ~iff' /\ vrtc' \in BOOLEAN
      BY <2>1 DEF Enter, hal_di
    <2>3. /\ pc = 0 /\ hpc = 0 /\ pc' = 1 /\ hpc' = 0 /\ req' = r
          /\ dma' = dma
      BY <2>1 DEF Enter
    <2>4. TypeOK'
      BY <2>2, <2>3
    <2>5. QED
      BY <2>2, <2>3, <2>4
  <1>2. CASE Write
    BY <1>2, WriteInv
  <1>3. CASE Leave
    BY <1>3 DEF Leave
  <1>4. CASE Accept
    <2>1. iff' \in BOOLEAN /\ ~iff' /\ vrtc' \in BOOLEAN
      BY <1>4 DEF Accept
    <2>2. pc = 0 /\ hpc = 0
      BY <1>4 DEF Accept
    <2>3. hpc' = 1 /\ pc' = 0 /\ req' = req /\ dma' = dma
      BY <2>2, <1>4 DEF Accept
    <2>4. TypeOK'
      BY <2>1, <2>3
    <2>5. QED
      BY <2>1, <2>3, <2>4
  <1>5. CASE Refresh
    BY <1>5, RefreshInv
  <1>6. CASE Return
    BY <1>6 DEF Return
  <1>7. CASE Retrace
    BY <1>7 DEF Retrace
  <1>8. CASE \E c \in {1, 2} : TerminalCount(c)
    BY <1>8, TerminalCountInv
  <1>9. CASE UNCHANGED vars
    BY <1>9 DEF vars
  <1>10. QED
    BY <1>1, <1>2, <1>3, <1>4, <1>5, <1>6, <1>7, <1>8, <1>9 DEF Next

\* The inductive invariant holds of every behaviour.
THEOREM Invariance == Spec => []IInv
  <1>1. Init => IInv
    BY InitInv
  <1>2. IInv /\ [Next]_vars => IInv'
    BY StepInv
  <1>3. QED
    BY <1>1, <1>2, PTL DEF Spec

\* The registers, the flip-flop and both program counters keep their types.
THEOREM TypeCorrect == Spec => []TypeOK
  <1>1. IInv => TypeOK
    BY DEF IInv
  <1>2. QED
    BY <1>1, Invariance, PTL

-----------------------------------------------------------------------------
\* Two bytes make a half.
LEMMA PairOf ==
    ASSUME NEW x \in Half
    PROVE  x = <<x[1], x[2]>>
  BY DEF Half

\* Every step keeps the registers of a released channel and releases a
\* channel only when it is programmed as its user asked.
LEMMA StepRelease ==
    ASSUME IInv, [Next]_vars
    PROVE  ReleaseStep
  <1> USE DEF Channel
  <1>t. dma \in Controller /\ req \in Request
    BY DEF IInv, TypeOK
  <1>h. \A c \in {1, 2} : dma.addr[c] \in Half /\ dma.count[c] \in Half
    BY <1>t DEF Controller
  <1>1. CASE Write
    <2> USE DEF ReleaseStep
    <2>t. /\ pc \in 1 .. 8 /\ dma' = Out(dma, dma_setup(req)[pc]) /\ req' = req
          /\ pc \in 2 .. 8 => 1 \in dma.masked
      BY <1>1 DEF Write, IInv, FloppyProgress
    <2>b. /\ Low(req.addr) \in Byte /\ High(req.addr) \in Byte
          /\ Low(req.count) \in Byte /\ High(req.count) \in Byte
          /\ req.mode \in {"read", "write"}
      BY <1>t, RequestBytes
    <2>1. CASE pc = 1
      BY <2>t, <2>1, <1>t, SetupWrites, MaskEffect
    <2>2. CASE pc = 2
      BY <2>t, <2>b, <2>2, <1>t, SetupWrites, ModeEffect
    <2>3. CASE pc = 3
      BY <2>t, <2>3, <1>t, SetupWrites, ClearEffect
    <2>4. CASE pc \in {4, 5}
      <3>1. PICK b \in Byte : dma' = Out(dma, Addr(1, b))
        BY <2>t, <2>b, <2>4, SetupWrites
      <3>2. /\ dma'.masked = dma.masked /\ dma'.count = dma.count
            /\ dma'.addr[2] = dma.addr[2]
        BY <3>1, <1>t, AddrEffect
      <3>3. QED
        BY <2>t, <2>4, <3>2
    <2>5. CASE pc \in {6, 7}
      <3>1. PICK b \in Byte : dma' = Out(dma, Cnt(1, b))
        BY <2>t, <2>b, <2>5, SetupWrites
      <3>2. /\ dma'.masked = dma.masked /\ dma'.addr = dma.addr
            /\ dma'.count[2] = dma.count[2]
        BY <3>1, <1>t, CountEffect
      <3>3. QED
        BY <2>t, <2>5, <3>2
    <2>6. CASE pc = 8
      <3>1. FloppyWhole(dma)
        BY <1>1, <1>h, <2>6, PairOf DEF IInv, FloppyProgress, FloppyWhole, Halves
      <3>2. /\ dma'.addr = dma.addr /\ dma'.count = dma.count
            /\ dma'.mode = dma.mode /\ dma'.masked = dma.masked \ {1}
        BY <2>t, <2>6, <1>t, SetupWrites, UnmaskEffect
      <3>3. QED
        BY <3>1, <3>2 DEF FloppyWhole
    <2>7. QED
      BY <2>t, <2>1, <2>2, <2>3, <2>4, <2>5, <2>6
  <1>2. CASE Refresh
    <2> USE DEF ReleaseStep
    <2>t. /\ hpc \in 1 .. 8 /\ dma' = Out(dma, isr_reprogram_display_dma[hpc])
          /\ hpc \in 2 .. 8 => 2 \in dma.masked
      BY <1>2 DEF Refresh, IInv, DisplayProgress
    <2>b. /\ Low(DisplayAddr) \in Byte /\ High(DisplayAddr) \in Byte
          /\ Low(DisplayCount) \in Byte /\ High(DisplayCount) \in Byte
      BY DmaAssumption, HalvesAreBytes
    <2>1. CASE hpc \in {1, 2}
      BY <2>t, <2>1, <1>t, RefreshWrites, MaskEffect
    <2>3. CASE hpc = 3
      BY <2>t, <2>3, <1>t, RefreshWrites, ClearEffect
    <2>4. CASE hpc \in {4, 5}
      <3>1. PICK b \in Byte : dma' = Out(dma, Addr(2, b))
        BY <2>t, <2>b, <2>4, RefreshWrites
      <3>2. /\ dma'.masked = dma.masked /\ dma'.count = dma.count
            /\ dma'.addr[1] = dma.addr[1]
        BY <3>1, <1>t, AddrEffect
      <3>3. QED
        BY <2>t, <2>4, <3>2
    <2>5. CASE hpc \in {6, 7}
      <3>1. PICK b \in Byte : dma' = Out(dma, Cnt(2, b))
        BY <2>t, <2>b, <2>5, RefreshWrites
      <3>2. /\ dma'.masked = dma.masked /\ dma'.addr = dma.addr
            /\ dma'.count[1] = dma.count[1]
        BY <3>1, <1>t, CountEffect
      <3>3. QED
        BY <2>t, <2>5, <3>2
    <2>6. CASE hpc = 8
      <3>1. DisplayWhole(dma)
        BY <1>2, <1>h, <2>6, PairOf DEF IInv, DisplayProgress, DisplayWhole, Halves
      <3>2. /\ dma'.addr = dma.addr /\ dma'.count = dma.count
            /\ dma'.masked = dma.masked \ {2}
        BY <2>t, <2>6, <1>t, RefreshWrites, UnmaskEffect
      <3>3. QED
        BY <3>1, <3>2 DEF DisplayWhole
    <2>7. QED
      BY <2>t, <2>1, <2>3, <2>4, <2>5, <2>6
  <1>3. CASE \E c \in {1, 2} : TerminalCount(c)
    <2>1. PICK c \in {1, 2} : TerminalCount(c)
      BY <1>3
    <2>2. /\ dma'.masked = dma.masked \cup {c}
          /\ dma'.addr = dma.addr /\ dma'.count = dma.count
      BY <2>1, <1>t DEF TerminalCount, Controller
    <2>3. QED
      BY <2>2 DEF ReleaseStep
  <1>4. CASE UNCHANGED dma
    BY <1>4 DEF ReleaseStep
  <1>5. QED
    BY <1>1, <1>2, <1>3, <1>4
       DEF Next, vars, Enter, Leave, Accept, Return, Retrace

\* A channel is released only as its user asked, with the interrupt handler
\* and the main line sharing the flip-flop.
THEOREM ReleaseCorrect == Spec => ReleasedWhole
  <1>1. IInv /\ [Next]_vars => [ReleaseStep]_vars
    BY StepRelease
  <1>2. QED
    BY <1>1, Invariance, PTL DEF Spec, ReleasedWhole
=============================================================================
