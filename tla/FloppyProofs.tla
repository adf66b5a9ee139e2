---------------------------- MODULE FloppyProofs ----------------------------
(***************************************************************************)
(* The diskette driver, for every set of drives, number of cylinders and   *)
(* retry limits: type correctness, completions that belong to the command  *)
(* awaited, a handler that returns, the head where it belongs after the    *)
(* recalibration, and the implementation of DiskTransfer.                  *)
(***************************************************************************)
EXTENDS Floppy, TablesProofs

Plans == {<<"recalibrate">>, <<"transfer">>, <<"seek", "transfer">>,
          <<"recalibrate", "seek", "transfer">>}

Busy == pc \in {"prepare", "issue", "args", "wait"}

(***************************************************************************)
(* The inductive invariant.                                                *)
(***************************************************************************)
\* What is left of an attempt: the commands of the boot, or the end of the
\* longest list of commands of an attempt.
Planned ==
    /\ pc # "hung"
    /\ Busy => todo \in Plans
    /\ ~Busy => todo = << >>

\* Main line, handler and controller take turns: at rest until the last
\* command byte; then the command is under way, has ended, or has been told.
Quiet == fdc.phase = "idle" /\ sense = {} /\ ~intrq

Underway ==
    /\ ~isr.complete /\ sense = {} /\ ~intrq
    /\ fdc.phase = IF fdc.cmd = "transfer" THEN "exec" ELSE "seek"

Ended ==
    /\ ~isr.complete /\ intrq
    /\ IF fdc.cmd = "transfer" THEN fdc.phase = "result" /\ sense = {}
                               ELSE fdc.phase = "idle" /\ sense = {"SE"}

Told ==
    /\ isr.complete /\ Quiet
    /\ isr.st0 = IF fdc.cmd = "transfer" THEN fdc.st0 ELSE "SE"

Handshake ==
    /\ pc = "boot" => fdc.phase \in {"idle", "result"} /\ sense = {} /\ ~intrq
    /\ pc \in {"idle", "attempt", "prepare", "issue"} => Quiet
    /\ pc = "args" => fdc.phase = "command" /\ sense = {} /\ ~intrq
    /\ pc \in {"issue", "args"} => ~isr.complete
    /\ pc = "wait" => /\ fdc.cmd = Head(todo) /\ fdc.on = Target(req)
                      /\ Underway \/ Ended \/ Told

\* The count of the attempts, and of those with the head in place.
Counted ==
    /\ retry - aimed <= FDC_RECAL_THRESHOLD /\ aimed <= retry
    /\ Busy /\ todo # <<"recalibrate">> => retry < FDC_MAX_RETRIES
    /\ pc = "attempt" \/ (Busy /\ todo # <<"recalibrate">>) =>
           req \in Ask /\ Target(req).sector # 0

\* From the recalibration on, the head is where the driver believes it is.
Aimed  == head[req.drive] = req.cyl
Zeroed == head[req.drive] = 0 /\ pcn[req.drive] = 0
Stepping == pc # "wait" \/ fdc.phase = "seek"

OnCourse ==
    /\ pc = "attempt" /\ retry > FDC_RECAL_THRESHOLD =>
           Aimed /\ fl.current_track = req.cyl
    /\ Busy /\ retry >= FDC_RECAL_THRESHOLD =>
           /\ todo = <<"transfer">> => Aimed /\ fl.current_track = req.cyl
           /\ todo = <<"seek", "transfer">> /\ Stepping => Zeroed
           /\ todo = <<"seek", "transfer">> /\ ~Stepping => Aimed
           /\ todo = <<"recalibrate", "seek", "transfer">> /\ ~Stepping => Zeroed

\* The DMA controller is programmed for the transfer, and a transfer that
\* ended well has moved what was asked for.
Asked(r) == [to |-> Target(r), bytes |-> DmaFor(r).count + 1]

Carried ==
    /\ pc \in {"issue", "args", "wait"} /\ todo = <<"transfer">> => dma = DmaFor(req)
    /\ pc = "wait" /\ todo = <<"transfer">> /\ fdc.phase # "exec" /\ fdc.st0 = "NT" =>
           moved = <<Asked(req)>>

IInv == TypeOK /\ Planned /\ Handshake /\ Counted /\ OnCourse /\ Carried

-----------------------------------------------------------------------------
(***************************************************************************)
(* Facts about the lists of commands, the formats and the places.          *)
(***************************************************************************)
LEMMA PlanFacts ==
    /\ Head(<<"recalibrate">>) = "recalibrate" /\ Tail(<<"recalibrate">>) = << >>
    /\ Head(<<"transfer">>) = "transfer"
    /\ Head(<<"seek", "transfer">>) = "seek"
    /\ Tail(<<"seek", "transfer">>) = <<"transfer">>
    /\ Head(<<"recalibrate", "seek", "transfer">>) = "recalibrate"
    /\ Tail(<<"recalibrate", "seek", "transfer">>) = <<"seek", "transfer">>
  OBVIOUS

LEMMA PlanTypes == \A p \in Plans \cup {<< >>} : p \in Seq(Command) /\ Len(p) <= 3
  <1>1. << >> \in Seq(Command) /\ Len(<< >>) = 0
    OBVIOUS
  <1>2. <<"recalibrate">> \in Seq(Command) /\ Len(<<"recalibrate">>) = 1
    BY DEF Command
  <1>3. <<"transfer">> \in Seq(Command) /\ Len(<<"transfer">>) = 1
    BY DEF Command
  <1>4. <<"seek", "transfer">> \in Seq(Command) /\ Len(<<"seek", "transfer">>) = 2
    BY DEF Command
  <1>5. /\ <<"recalibrate", "seek", "transfer">> \in Seq(Command)
        /\ Len(<<"recalibrate", "seek", "transfer">>) = 3
    BY DEF Command
  <1> SUFFICES ASSUME NEW p \in Plans \cup {<< >>}
               PROVE  p \in Seq(Command) /\ Len(p) <= 3
    OBVIOUS
  <1>6. CASE p = << >>
    BY <1>6, <1>1
  <1>7. CASE p = <<"recalibrate">>
    BY <1>7, <1>2
  <1>8. CASE p = <<"transfer">>
    BY <1>8, <1>3
  <1>9. CASE p = <<"seek", "transfer">>
    BY <1>9, <1>4
  <1>10. CASE p = <<"recalibrate", "seek", "transfer">>
    BY <1>10, <1>5
  <1> QED
    BY <1>6, <1>7, <1>8, <1>9, <1>10 DEF Plans

LEMMA PlansDiffer ==
    /\ <<"recalibrate">> # <<"transfer">>
    /\ <<"recalibrate">> # <<"seek", "transfer">>
    /\ <<"recalibrate">> # <<"recalibrate", "seek", "transfer">>
    /\ <<"seek", "transfer">> # <<"transfer">>
    /\ <<"recalibrate", "seek", "transfer">> # <<"transfer">>
    /\ <<"recalibrate", "seek", "transfer">> # <<"seek", "transfer">>
    /\ \A p \in Plans : p # << >>
  BY DEF Plans

FormatSet == {FMT_8SS_FM, FMT_8DD_MFM, FMT_5DD_MFM, FMT_8DD_256}

LEMMA FormatOfDrive == \A d \in Drive : \E idx \in Formats : FormatOf(d) = Table[idx]
  <1> SUFFICES ASSUME NEW d \in Drive
               PROVE  dpb_format_index(fd0[d]) \in Formats
    BY DEF FormatOf
  <1>1. fd0[d] \in 0 .. 31
    BY FloppyAssumption
  <1> QED
    BY <1>1 DEF dpb_format_index, Formats

LEMMA FormatIs == \A d \in Drive : FormatOf(d) \in FormatSet
  BY FormatOfDrive, TableCases DEF FormatSet

LEMMA PlaceType == \A f \in FormatSet : \A h \in 0 .. 255 :
    Place(f, h) \in [head : 0 .. 1, sector : 0 .. 26]
  <1> SUFFICES ASSUME NEW h \in 0 .. 255
               PROVE  \A f \in FormatSet : Place(f, h) \in [head : 0 .. 1, sector : 0 .. 26]
    OBVIOUS
  <1>1. Place(FMT_8DD_MFM, h) \in [head : 0 .. 1, sector : 0 .. 26]
    BY DEF Place, sector_translate, FMT_8DD_MFM, tran8
  <1>2. Place(FMT_8SS_FM, h) \in [head : 0 .. 1, sector : 0 .. 26]
    BY DEF Place, sector_translate, FMT_8SS_FM, tran0
  <1>3. Place(FMT_5DD_MFM, h) \in [head : 0 .. 1, sector : 0 .. 26]
    BY DEF Place, sector_translate, FMT_5DD_MFM, FMT_8SS_FM, tran24
  <1>4. Place(FMT_8DD_256, h) \in [head : 0 .. 1, sector : 0 .. 26]
    BY DEF Place, sector_translate, FMT_8DD_256, tran24
  <1> QED
    BY <1>1, <1>2, <1>3, <1>4 DEF FormatSet

LEMMA CountType == \A f \in FormatSet : f.dma_count \in {127, 255, 511}
  <1>1. FMT_8DD_MFM.dma_count = 511
    BY DEF FMT_8DD_MFM
  <1>2. FMT_8SS_FM.dma_count = 127
    BY DEF FMT_8SS_FM
  <1>3. FMT_5DD_MFM.dma_count = 127
    BY DEF FMT_5DD_MFM, FMT_8SS_FM
  <1>4. FMT_8DD_256.dma_count = 255
    BY DEF FMT_8DD_256
  <1> QED
    BY <1>1, <1>2, <1>3, <1>4 DEF FormatSet

LEMMA RequestsAre == Ask \subseteq Request /\ Sector0 \in Request
  BY FloppyAssumption DEF Request, Sector0, Cyl

LEMMA TargetType == \A r \in Request : Target(r) \in Address
  <1> SUFFICES ASSUME NEW r \in Request
               PROVE  Target(r) \in Address
    OBVIOUS
  <1>1. r.drive \in Drive /\ r.cyl \in Cyl /\ r.host \in 0 .. 255 /\ r.write \in BOOLEAN
    BY DEF Request
  <1>2. Place(FormatOf(r.drive), r.host) \in [head : 0 .. 1, sector : 0 .. 26]
    BY <1>1, FormatIs, PlaceType
  <1>3. Place(FormatOf(r.drive), r.host).head \in 0 .. 1
        /\ Place(FormatOf(r.drive), r.host).sector \in 0 .. 26
    BY <1>2
  <1> QED
    BY <1>1, <1>3 DEF Target, Address

LEMMA TargetFields == \A r : Target(r).drive = r.drive /\ Target(r).cyl = r.cyl
                             /\ Target(r).write = r.write
  BY DEF Target

LEMMA DmaType == \A r \in Request :
    DmaFor(r) \in [mode : {"read", "write"}, count : {127, 255, 511}]
  <1> SUFFICES ASSUME NEW r \in Request
               PROVE  DmaFor(r) \in [mode : {"read", "write"}, count : {127, 255, 511}]
    OBVIOUS
  <1>1. FormatOf(r.drive).dma_count \in {127, 255, 511}
    BY FormatIs, CountType DEF Request
  <1> QED
    BY <1>1 DEF DmaFor

\* Only the main line's wait is ever interrupted, by the end of its command.
LEMMA Interrupted ==
    ASSUME TypeOK, Planned, Handshake, intrq, fdc.phase # "exec"
    PROVE  pc = "wait" /\ Ended
  <1>1. pc = "wait"
    BY DEF TypeOK, Planned, Handshake, Quiet
  <1> QED
    BY <1>1 DEF Handshake, Underway, Ended, Told, Quiet

LEMMA RequestType == TypeOK => req \in Request
  BY RequestsAre DEF TypeOK

LEMMA SteppedType == \A from, to, at \in Cyl : Stepped(from, to - at) \in Cyl
  BY FloppyAssumption DEF Cyl, Stepped

\* With both at cylinder 0, the head goes where it is told.
LEMMA SteppedFromZero == \A to \in Cyl : Stepped(0, to - 0) = to
  BY FloppyAssumption DEF Cyl, Stepped

\* The controller executes a command only while the main line awaits it.
LEMMA Executing ==
    ASSUME TypeOK, Planned, Handshake, fdc.phase \in {"seek", "exec"}
    PROVE  pc = "wait" /\ Underway
  <1>1. pc = "wait"
    BY DEF TypeOK, Planned, Handshake, Quiet
  <1> QED
    BY <1>1 DEF Handshake, Underway, Ended, Told, Quiet

\* What is moved for a request goes the way the request asks for.
LEMMA SameWay == \A r \in Request :
    [Target(r) EXCEPT !.write = (DmaFor(r).mode = "write")] = Target(r)
  <1> SUFFICES ASSUME NEW r \in Request
               PROVE  [Target(r) EXCEPT !.write = (DmaFor(r).mode = "write")] = Target(r)
    OBVIOUS
  <1>1. r.write \in BOOLEAN
    BY DEF Request
  <1>2. DmaFor(r).mode = IF r.write THEN "write" ELSE "read"
    BY DEF DmaFor
  <1>3. (DmaFor(r).mode = "write") = r.write
    <2>1. CASE r.write = TRUE
      BY <1>2, <2>1
    <2>2. CASE r.write = FALSE
      <3>1. DmaFor(r).mode = "read"
        BY <1>2, <2>2
      <3>2. "read" # "write"
        OBVIOUS
      <3> QED
        BY <3>1, <3>2, <2>2
    <2> QED
      BY <1>1, <2>1, <2>2
  <1>4. \A t \in Address : [t EXCEPT !.write = t.write] = t
    BY DEF Address
  <1>5. Target(r) \in Address /\ Target(r).write = r.write
    BY TargetType, TargetFields
  <1>6. [Target(r) EXCEPT !.write = Target(r).write] = Target(r)
    BY <1>4, <1>5
  <1> QED
    BY <1>3, <1>5, <1>6

-----------------------------------------------------------------------------
(***************************************************************************)
(* The invariant is inductive: each of its parts is kept by each action.   *)
(***************************************************************************)
LEMMA PlannedStep == IInv /\ Next => Planned'
  <1> SUFFICES ASSUME IInv, Next
               PROVE  Planned'
    OBVIOUS
  <1> USE DEF IInv, mainVars, fdcVars
  <1>1. CASE bios_boot
    BY <1>1 DEF Planned, Busy, TypeOK, bios_boot, fdc_wait_idle, Plans
  <1>2. ASSUME NEW r \in Ask, Refuse(r)
        PROVE  Planned'
    BY <1>2 DEF Planned, Busy, TypeOK, Refuse
  <1>3. ASSUME NEW r \in Ask, Call(r)
        PROVE  Planned'
    BY <1>3 DEF Planned, Busy, TypeOK, Call
  <1>4. CASE WarmBoot
    BY <1>4 DEF Planned, Busy, TypeOK, WarmBoot, floppy_init
  <1>5. CASE Attempt
    BY <1>5 DEF Planned, Busy, TypeOK, Attempt, AttemptsLeft, Commands, Plans
  <1>6. CASE GiveUp
    BY <1>6 DEF Planned, Busy, TypeOK, GiveUp, AttemptsLeft
  <1>7. CASE Prepare
    BY <1>7 DEF Planned, Busy, TypeOK, Prepare, Cleared
  <1>8. CASE Issue
    BY <1>8 DEF Planned, Busy, TypeOK, Issue
  <1>9. CASE Args
    BY <1>9 DEF Planned, Busy, TypeOK, Args
  <1>10. CASE StepDone
    BY <1>10, PlanFacts DEF Planned, Busy, TypeOK, StepDone, Plans
  <1>11. CASE Succeed
    BY <1>11 DEF Planned, Busy, TypeOK, Succeed
  <1>12. CASE Abort
    BY <1>12 DEF Planned, Busy, TypeOK, Abort
  <1>13. CASE Retry
    BY <1>13 DEF Planned, Busy, TypeOK, Retry
  <1>14. ASSUME isr_floppy_complete, CollectResult
        PROVE  Planned'
    BY <1>14 DEF Planned, Busy, TypeOK, isr_floppy_complete, CollectResult
  <1>15. ASSUME isr_floppy_complete, CollectSense
        PROVE  Planned'
    BY <1>15
    DEF Planned, Busy, TypeOK, isr_floppy_complete, CollectSense, SenseFlag
  <1>16. CASE SeekEnd
    BY <1>16 DEF Planned, Busy, TypeOK, SeekEnd
  <1>17. CASE TransferEnd
    BY <1>17 DEF Planned, Busy, TypeOK, TransferEnd
  <1> QED
    BY <1>1, <1>2, <1>3, <1>4, <1>5, <1>6, <1>7, <1>8, <1>9, <1>10, <1>11,
       <1>12, <1>13, <1>14, <1>15, <1>16, <1>17
    DEF Next, MainLine, Return, Controller, isr_floppy_complete

LEMMA HandshakeStep == IInv /\ Next => Handshake'
  <1> SUFFICES ASSUME IInv, Next
               PROVE  Handshake'
    OBVIOUS
  <1> USE DEF IInv, mainVars, fdcVars
  <1>1. CASE bios_boot
    BY <1>1
    DEF Handshake, Planned, Busy, Quiet, Underway, Ended, Told, bios_boot,
        fdc_wait_idle
  <1>2. ASSUME NEW r \in Ask, Refuse(r)
        PROVE  Handshake'
    BY <1>2 DEF Handshake, Planned, Busy, Quiet, Underway, Ended, Told, Refuse
  <1>3. ASSUME NEW r \in Ask, Call(r)
        PROVE  Handshake'
    BY <1>3 DEF Handshake, Planned, Busy, Quiet, Underway, Ended, Told, Call
  <1>4. CASE WarmBoot
    BY <1>4
    DEF Handshake, Planned, Busy, Quiet, Underway, Ended, Told, WarmBoot,
        floppy_init
  <1>5. CASE Attempt
    BY <1>5
    DEF Handshake, Planned, Busy, Quiet, Underway, Ended, Told, Attempt,
        AttemptsLeft, Commands
  <1>6. CASE GiveUp
    BY <1>6
    DEF Handshake, Planned, Busy, Quiet, Underway, Ended, Told, GiveUp,
        AttemptsLeft
  <1>7. CASE Prepare
    BY <1>7
    DEF Handshake, Planned, Busy, Quiet, Underway, Ended, Told, Prepare,
        Cleared
  <1>8. CASE Issue
    BY <1>8 DEF Handshake, Planned, Busy, Quiet, Underway, Ended, Told, Issue
  <1>9. CASE Args
    BY <1>9, PlanFacts
    DEF Handshake, Planned, Busy, Quiet, Underway, Ended, Told, Args, Plans,
        TypeOK
  <1>10. CASE StepDone
    BY <1>10
    DEF Handshake, Planned, Busy, Quiet, Underway, Ended, Told, StepDone
  <1>11. CASE Succeed
    BY <1>11
    DEF Handshake, Planned, Busy, Quiet, Underway, Ended, Told, Succeed
  <1>12. CASE Abort
    BY <1>12 DEF Handshake, Planned, Busy, Quiet, Underway, Ended, Told, Abort
  <1>13. CASE Retry
    BY <1>13 DEF Handshake, Planned, Busy, Quiet, Underway, Ended, Told, Retry
  <1>14. ASSUME isr_floppy_complete, CollectResult
        PROVE  Handshake'
    <2>1. pc = "wait" /\ Ended
      BY <1>14, Interrupted DEF CollectResult, isr_floppy_complete
    <2>2. fdc.cmd = "transfer" /\ sense = {}
      BY <1>14, <2>1 DEF Ended, CollectResult
    <2>3. isr' = [complete |-> TRUE, st0 |-> fdc.st0] /\ ~intrq'
      BY <1>14, <2>2 DEF CollectResult
    <2>4. /\ fdc'.phase = "idle" /\ fdc'.cmd = fdc.cmd
          /\ fdc'.on = fdc.on /\ fdc'.st0 = fdc.st0
      BY <1>14 DEF CollectResult, TypeOK
    <2>5. Told'
      BY <1>14, <2>2, <2>3, <2>4 DEF Told, Quiet, CollectResult
    <2> QED
      BY <1>14, <2>1, <2>4, <2>5 DEF Handshake, isr_floppy_complete
  <1>15. ASSUME isr_floppy_complete, CollectSense
        PROVE  Handshake'
    <2>1. pc = "wait" /\ Ended
      BY <1>15, Interrupted DEF CollectSense, isr_floppy_complete
    <2>2. fdc.cmd # "transfer" /\ sense = {"SE"} /\ fdc.phase = "idle"
      BY <1>15, <2>1 DEF Ended, CollectSense
    <2>3. isr' = [complete |-> TRUE, st0 |-> "SE"] /\ sense' = {} /\ ~intrq'
      BY <1>15, <2>2 DEF CollectSense, SenseFlag
    <2>4. Told'
      BY <1>15, <2>2, <2>3 DEF Told, Quiet, CollectSense
    <2> QED
      BY <1>15, <2>1, <2>4 DEF Handshake, isr_floppy_complete, CollectSense
  <1>16. CASE SeekEnd
    BY <1>16
    DEF Handshake, Planned, Busy, Quiet, Underway, Ended, Told, SeekEnd
  <1>17. CASE TransferEnd
    BY <1>17
    DEF Handshake, Planned, Busy, Quiet, Underway, Ended, Told, TransferEnd
  <1> QED
    BY <1>1, <1>2, <1>3, <1>4, <1>5, <1>6, <1>7, <1>8, <1>9, <1>10, <1>11,
       <1>12, <1>13, <1>14, <1>15, <1>16, <1>17
    DEF Next, MainLine, Return, Controller, isr_floppy_complete

LEMMA TodoStep == IInv /\ Next => todo' \in Seq(Command) /\ Len(todo') <= 3
  BY PlannedStep, PlanTypes DEF Planned

\* What the end of a transfer leaves in the controller.
LEMMA TransferEffect ==
    ASSUME TypeOK, TransferEnd
    PROVE  \E s \in TransferStatus :
              /\ fdc' = [phase |-> "result", cmd |-> fdc.cmd, on |-> fdc.on, st0 |-> s]
              /\ s = "NT" =>
                   moved' = <<[to |-> [fdc.on EXCEPT !.write = (dma.mode = "write")],
                               bytes |-> dma.count + 1]>>
  <1>1. PICK s \in TransferStatus :
           /\ fdc' = [fdc EXCEPT !.phase = "result", !.st0 = s]
           /\ s = "NT" =>
                moved' = <<[to |-> [fdc.on EXCEPT !.write = (dma.mode = "write")],
                            bytes |-> dma.count + 1]>>
    BY DEF TransferEnd
  <1>2. fdc = [phase |-> fdc.phase, cmd |-> fdc.cmd, on |-> fdc.on, st0 |-> fdc.st0]
    BY DEF TypeOK
  <1>3. fdc' = [phase |-> "result", cmd |-> fdc.cmd, on |-> fdc.on, st0 |-> s]
    BY <1>1, <1>2
  <1> QED
    BY <1>1, <1>3

LEMMA TypeStep == IInv /\ Next => TypeOK'
  <1> SUFFICES ASSUME IInv, Next
               PROVE  TypeOK'
    OBVIOUS
  <1> USE DEF IInv, mainVars, fdcVars
  <1>1. CASE bios_boot
    BY <1>1, TodoStep DEF TypeOK, bios_boot, fdc_wait_idle
  <1>2. ASSUME NEW r \in Ask, Refuse(r)
        PROVE  TypeOK'
    BY <1>2 DEF TypeOK, Refuse
  <1>3. ASSUME NEW r \in Ask, Call(r)
        PROVE  TypeOK'
    BY <1>3, TodoStep, FloppyAssumption DEF TypeOK, Call
  <1>4. CASE WarmBoot
    <2>1. 0 \in Cyl
      BY FloppyAssumption DEF Cyl
    <2>2. fl' \in [current_track : Cyl, erflag : BOOLEAN]
      BY <1>4, <2>1 DEF WarmBoot, floppy_init
    <2> QED
      BY <1>4, <2>1, <2>2 DEF TypeOK, WarmBoot
  <1>5. CASE Attempt
    BY <1>5, TodoStep DEF TypeOK, Attempt, AttemptsLeft, Commands
  <1>6. CASE GiveUp
    <2>1. fl' \in [current_track : Cyl, erflag : BOOLEAN]
      BY <1>6 DEF GiveUp, TypeOK
    <2> QED
      BY <1>6, <2>1 DEF TypeOK, GiveUp
  <1>7. CASE Prepare
    <2>1. isr' \in [complete : BOOLEAN, st0 : Status]
      BY <1>7 DEF Prepare, Cleared, TypeOK
    <2>2. dma' \in [mode : {"read", "write"}, count : {127, 255, 511}]
      BY <1>7, DmaType, RequestType DEF Prepare, TypeOK
    <2> QED
      BY <1>7, <2>1, <2>2 DEF TypeOK, Prepare
  <1>8. CASE Issue
    BY <1>8 DEF TypeOK, Issue
  <1>9. CASE Args
    <2>1. Head(todo) \in Command
      BY <1>9, PlanFacts DEF Args, Planned, Busy, Plans, Command
    <2>2. Target(req) \in Address
      BY TargetType, RequestType
    <2>3. fdc' \in [phase : {"idle", "command", "seek", "exec", "result"},
                    cmd : Command, on : Address, st0 : TransferStatus]
      BY <1>9, <2>1, <2>2 DEF Args, TypeOK
    <2> QED
      BY <1>9, <2>1, <2>2, <2>3 DEF TypeOK, Args
  <1>10. CASE StepDone
    <2>1. 0 \in Cyl
      BY FloppyAssumption DEF Cyl
    <2>2. req.cyl \in Cyl
      BY RequestType DEF Request
    <2>3. fl' \in [current_track : Cyl, erflag : BOOLEAN]
      BY <1>10, <2>1, <2>2 DEF StepDone, TypeOK
    <2> QED
      BY <1>10, <2>1, <2>2, <2>3, TodoStep DEF TypeOK, StepDone
  <1>11. CASE Succeed
    BY <1>11, TodoStep DEF TypeOK, Succeed
  <1>12. CASE Abort
    <2>1. fl' \in [current_track : Cyl, erflag : BOOLEAN]
      BY <1>12 DEF Abort, TypeOK
    <2> QED
      BY <1>12, <2>1, TodoStep DEF TypeOK, Abort
  <1>13. CASE Retry
    <2>1. retry \in Nat /\ aimed \in Nat
      BY FloppyAssumption DEF TypeOK
    <2>2. todo = <<"transfer">>
      BY <1>13, PlanFacts DEF Retry, Planned, Busy, Plans
    <2>3. retry < FDC_MAX_RETRIES /\ aimed <= retry
      BY <1>13, <2>2, PlansDiffer DEF Retry, Counted, Busy
    <2>4. retry' \in 0 .. FDC_MAX_RETRIES /\ aimed' \in 0 .. FDC_MAX_RETRIES
      BY <1>13, <2>1, <2>3, FloppyAssumption DEF Retry
    <2> QED
      BY <1>13, <2>1, <2>2, <2>3, <2>4, TodoStep DEF TypeOK, Retry
  <1>14. ASSUME isr_floppy_complete, CollectResult
        PROVE  TypeOK'
    <2>1. isr' \in [complete : BOOLEAN, st0 : Status]
      BY <1>14 DEF CollectResult, TypeOK, Status
    <2>2. fdc' \in [phase : {"idle", "command", "seek", "exec", "result"},
                    cmd : Command, on : Address, st0 : TransferStatus]
      BY <1>14 DEF CollectResult, TypeOK
    <2>3. intrq' \in BOOLEAN /\ sense' = sense
      BY <1>14 DEF CollectResult
    <2> QED
      BY <1>14, <2>1, <2>2, <2>3 DEF TypeOK, isr_floppy_complete
  <1>15. ASSUME isr_floppy_complete, CollectSense
        PROVE  TypeOK'
    <2>1. isr' \in [complete : BOOLEAN, st0 : Status]
      BY <1>15 DEF CollectSense, SenseFlag, TypeOK, Status
    <2>2. sense' \subseteq SenseStatus
      BY <1>15 DEF CollectSense, TypeOK
    <2>3. intrq' \in BOOLEAN /\ fdc' = fdc
      BY <1>15 DEF CollectSense
    <2> QED
      BY <1>15, <2>1, <2>2, <2>3 DEF TypeOK, isr_floppy_complete
  <1>16. CASE SeekEnd
    <2>1. 0 \in Cyl
      BY FloppyAssumption DEF Cyl
    <2>2. fdc.on.drive \in Drive /\ fdc.on.cyl \in Cyl
      BY DEF TypeOK, Address
    <2>3. pcn' \in [Drive -> Cyl]
      BY <1>16, <2>1, <2>2 DEF SeekEnd, TypeOK
    <2>4. Stepped(head[fdc.on.drive],
                  (IF fdc.cmd = "recalibrate" THEN 0 ELSE fdc.on.cyl)
                      - pcn[fdc.on.drive]) \in Cyl
      BY <2>1, <2>2, SteppedType DEF TypeOK
    <2>5. head' \in [Drive -> Cyl]
      BY <1>16, <2>1, <2>2, <2>4 DEF SeekEnd, TypeOK
    <2>6. fdc' \in [phase : {"idle", "command", "seek", "exec", "result"},
                    cmd : Command, on : Address, st0 : TransferStatus]
      BY <1>16 DEF SeekEnd, TypeOK
    <2>7. sense' \subseteq SenseStatus
      BY <1>16 DEF SeekEnd, TypeOK, SenseStatus
    <2> QED
      BY <1>16, <2>1, <2>2, <2>3, <2>4, <2>5, <2>6, <2>7 DEF TypeOK, SeekEnd
  <1>17. CASE TransferEnd
    <2>1. fdc' \in [phase : {"idle", "command", "seek", "exec", "result"},
                    cmd : Command, on : Address, st0 : TransferStatus]
      BY <1>17, TransferEffect DEF TypeOK
    <2>2. [fdc.on EXCEPT !.write = (dma.mode = "write")] \in Address
      BY DEF TypeOK, Address
    <2>3. dma.count + 1 \in {128, 256, 512}
      BY DEF TypeOK
    <2>4. [to |-> [fdc.on EXCEPT !.write = (dma.mode = "write")],
           bytes |-> dma.count + 1] \in Transfer
      BY <2>2, <2>3 DEF Transfer
    <2>5. moved' # << >> => moved' = <<moved'[1]>> /\ moved'[1] \in Transfer
      BY <1>17, <2>4 DEF TransferEnd, TypeOK
    <2> QED
      BY <1>17, <2>1, <2>2, <2>3, <2>4, <2>5 DEF TypeOK, TransferEnd
  <1> QED
    BY <1>1, <1>2, <1>3, <1>4, <1>5, <1>6, <1>7, <1>8, <1>9, <1>10, <1>11,
       <1>12, <1>13, <1>14, <1>15, <1>16, <1>17
    DEF Next, MainLine, Return, Controller, isr_floppy_complete

LEMMA CountedStep == IInv /\ Next => Counted'
  <1> SUFFICES ASSUME IInv, Next
               PROVE  Counted'
    OBVIOUS
  <1> USE DEF IInv, mainVars, fdcVars
  <1>1. CASE bios_boot
    BY <1>1, PlanFacts DEF Counted, bios_boot, fdc_wait_idle, Busy
  <1>2. ASSUME NEW r \in Ask, Refuse(r)
        PROVE  Counted'
    BY <1>2 DEF Counted, Refuse, Busy
  <1>3. ASSUME NEW r \in Ask, Call(r)
        PROVE  Counted'
    BY <1>3, FloppyAssumption DEF Counted, Call, Busy
  <1>4. CASE WarmBoot
    BY <1>4 DEF Counted, WarmBoot, floppy_init, Busy
  <1>5. CASE Attempt
    BY <1>5 DEF Counted, Attempt, AttemptsLeft, Commands, Busy
  <1>6. CASE GiveUp
    BY <1>6 DEF Counted, GiveUp, AttemptsLeft, Busy
  <1>7. CASE Prepare
    BY <1>7 DEF Counted, Prepare, Cleared, Busy
  <1>8. CASE Issue
    BY <1>8 DEF Counted, Issue, Busy
  <1>9. CASE Args
    BY <1>9 DEF Counted, Args, Busy
  <1>10. CASE StepDone
    BY <1>10, PlanFacts, PlansDiffer
    DEF Counted, StepDone, Busy, Planned, Plans
  <1>11. CASE Succeed
    BY <1>11 DEF Counted, Succeed, Busy
  <1>12. CASE Abort
    BY <1>12 DEF Counted, Abort, Busy
  <1>13. CASE Retry
    <2>1. retry \in Nat /\ aimed \in Nat
      BY FloppyAssumption DEF TypeOK
    <2>2. todo = <<"transfer">>
      BY <1>13, PlanFacts DEF Retry, Planned, Busy, Plans
    <2>3. ~Aimed => retry < FDC_RECAL_THRESHOLD
      BY <1>13, <2>1, <2>2, FloppyAssumption DEF Retry, OnCourse, Busy
    <2>4. req \in Ask /\ Target(req).sector # 0
      BY <1>13, <2>2, PlansDiffer DEF Retry, Counted, Busy
    <2>5. retry' - aimed' <= FDC_RECAL_THRESHOLD /\ aimed' <= retry'
      BY <1>13, <2>1, <2>3, FloppyAssumption DEF Retry, Counted, Aimed
    <2> QED
      BY <1>13, <2>1, <2>2, <2>3, <2>4, <2>5 DEF Counted, Busy, Retry
  <1>14. ASSUME isr_floppy_complete, CollectResult
        PROVE  Counted'
    BY <1>14 DEF Counted, isr_floppy_complete, CollectResult, Busy
  <1>15. ASSUME isr_floppy_complete, CollectSense
        PROVE  Counted'
    BY <1>15 DEF Counted, isr_floppy_complete, CollectSense, SenseFlag, Busy
  <1>16. CASE SeekEnd
    BY <1>16 DEF Counted, SeekEnd, Busy
  <1>17. CASE TransferEnd
    BY <1>17 DEF Counted, TransferEnd, Busy
  <1> QED
    BY <1>1, <1>2, <1>3, <1>4, <1>5, <1>6, <1>7, <1>8, <1>9, <1>10, <1>11,
       <1>12, <1>13, <1>14, <1>15, <1>16, <1>17
    DEF Next, MainLine, Return, Controller, isr_floppy_complete

LEMMA OnCourseStep == IInv /\ Next => OnCourse'
  <1> SUFFICES ASSUME IInv, Next
               PROVE  OnCourse'
    OBVIOUS
  <1> USE DEF IInv, mainVars, fdcVars
  <1>1. CASE bios_boot
    BY <1>1, PlansDiffer
    DEF OnCourse, Aimed, Zeroed, Stepping, Busy, bios_boot, fdc_wait_idle
  <1>2. ASSUME NEW r \in Ask, Refuse(r)
        PROVE  OnCourse'
    BY <1>2 DEF OnCourse, Aimed, Zeroed, Stepping, Busy, Refuse
  <1>3. ASSUME NEW r \in Ask, Call(r)
        PROVE  OnCourse'
    BY <1>3, FloppyAssumption DEF OnCourse, Aimed, Zeroed, Stepping, Busy, Call
  <1>4. CASE WarmBoot
    BY <1>4 DEF OnCourse, Aimed, Zeroed, Stepping, Busy, WarmBoot, floppy_init
  <1>5. CASE Attempt
    BY <1>5, PlansDiffer, FloppyAssumption
    DEF OnCourse, Aimed, Zeroed, Stepping, Busy, Attempt, AttemptsLeft,
        Commands, TypeOK
  <1>6. CASE GiveUp
    BY <1>6 DEF OnCourse, Aimed, Zeroed, Stepping, Busy, GiveUp, AttemptsLeft
  <1>7. CASE Prepare
    BY <1>7 DEF OnCourse, Aimed, Zeroed, Stepping, Busy, Prepare, Cleared
  <1>8. CASE Issue
    BY <1>8 DEF OnCourse, Aimed, Zeroed, Stepping, Busy, Issue
  <1>9. CASE Args
    BY <1>9, PlanFacts
    DEF OnCourse, Aimed, Zeroed, Stepping, Busy, Args, TypeOK
  <1>10. CASE StepDone
    <2>1. ~Stepping
      BY <1>10 DEF StepDone, Handshake, Underway, Ended, Told, Quiet, Stepping
    <2>2. todo \in Plans
      BY <1>10 DEF StepDone, Planned, Busy
    <2>3. pc' = IF todo' = << >> THEN "idle" ELSE "prepare"
      BY <1>10 DEF StepDone
    <2>4. CASE todo = <<"recalibrate">>
      BY <1>10, <2>4, <2>3, PlanFacts DEF StepDone, OnCourse, Busy
    <2>5. CASE todo = <<"transfer">>
      BY <1>10, <2>5, PlanFacts DEF StepDone
    <2>6. CASE todo = <<"seek", "transfer">>
      BY <1>10, <2>6, <2>3, <2>1, PlanFacts, PlansDiffer
      DEF StepDone, OnCourse, Busy, Aimed, TypeOK
    <2>7. CASE todo = <<"recalibrate", "seek", "transfer">>
      BY <1>10, <2>7, <2>3, <2>1, PlanFacts, PlansDiffer
      DEF StepDone, OnCourse, Busy, Zeroed, Stepping
    <2> QED
      BY <1>10, <2>1, <2>2, <2>3, <2>4, <2>5, <2>6, <2>7 DEF Plans
  <1>11. CASE Succeed
    BY <1>11 DEF OnCourse, Aimed, Zeroed, Stepping, Busy, Succeed
  <1>12. CASE Abort
    BY <1>12 DEF OnCourse, Aimed, Zeroed, Stepping, Busy, Abort
  <1>13. CASE Retry
    <2>1. retry \in Nat
      BY FloppyAssumption DEF TypeOK
    <2>2. todo = <<"transfer">>
      BY <1>13, PlanFacts DEF Retry, Planned, Busy, Plans
    <2> QED
      BY <1>13, <2>1, <2>2, FloppyAssumption DEF OnCourse, Aimed, Busy, Retry
  <1>14. ASSUME isr_floppy_complete, CollectResult
        PROVE  OnCourse'
    BY <1>14
    DEF OnCourse, Aimed, Zeroed, Stepping, Busy, isr_floppy_complete,
        CollectResult, TypeOK
  <1>15. ASSUME isr_floppy_complete, CollectSense
        PROVE  OnCourse'
    BY <1>15
    DEF OnCourse, Aimed, Zeroed, Stepping, Busy, isr_floppy_complete,
        CollectSense, SenseFlag
  <1>16. CASE SeekEnd
    <2> DEFINE d == req.drive
    <2>1. pc = "wait" /\ Underway /\ Stepping
      BY <1>16, Executing DEF SeekEnd, Stepping
    <2>2. fdc.cmd = Head(todo) /\ fdc.on.drive = d /\ fdc.on.cyl = req.cyl
      BY <1>16, <2>1, TargetFields DEF Handshake
    <2>3. d \in Drive /\ req.cyl \in Cyl
      BY RequestType DEF Request
    <2>4. /\ pc' = "wait" /\ fdc'.phase = "idle" /\ todo' = todo
          /\ req' = req /\ retry' = retry /\ fl' = fl
      BY <1>16, <2>1 DEF SeekEnd, TypeOK
    <2>5. ~Stepping'
      BY <2>4 DEF Stepping
    <2>6. fdc.cmd = "recalibrate" => Zeroed'
      BY <1>16, <2>2, <2>3 DEF SeekEnd, Zeroed, TypeOK
    <2>7. fdc.cmd = "seek" /\ Zeroed => Aimed'
      BY <1>16, <2>2, <2>3, SteppedFromZero DEF SeekEnd, Zeroed, Aimed, TypeOK
    <2>8. todo # <<"transfer">>
      BY <1>16, <2>1, <2>2, PlanFacts DEF Underway, SeekEnd
    <2> QED
      BY <1>16, <2>1, <2>2, <2>3, <2>4, <2>5, <2>6, <2>7, <2>8, PlanFacts
      DEF OnCourse, Busy
  <1>17. CASE TransferEnd
    BY <1>17, Executing
    DEF OnCourse, Aimed, Zeroed, Stepping, Busy, TransferEnd, TypeOK
  <1> QED
    BY <1>1, <1>2, <1>3, <1>4, <1>5, <1>6, <1>7, <1>8, <1>9, <1>10, <1>11,
       <1>12, <1>13, <1>14, <1>15, <1>16, <1>17
    DEF Next, MainLine, Return, Controller, isr_floppy_complete

LEMMA CarriedStep == IInv /\ Next => Carried'
  <1> SUFFICES ASSUME IInv, Next
               PROVE  Carried'
    OBVIOUS
  <1> USE DEF IInv, mainVars, fdcVars
  <1>1. CASE bios_boot
    BY <1>1 DEF Carried, bios_boot, fdc_wait_idle
  <1>2. ASSUME NEW r \in Ask, Refuse(r)
        PROVE  Carried'
    BY <1>2 DEF Carried, Refuse
  <1>3. ASSUME NEW r \in Ask, Call(r)
        PROVE  Carried'
    BY <1>3 DEF Carried, Call
  <1>4. CASE WarmBoot
    BY <1>4 DEF Carried, WarmBoot, floppy_init
  <1>5. CASE Attempt
    BY <1>5 DEF Carried, Attempt, AttemptsLeft, Commands
  <1>6. CASE GiveUp
    BY <1>6 DEF Carried, GiveUp, AttemptsLeft
  <1>7. CASE Prepare
    BY <1>7, PlanFacts DEF Carried, Prepare, Cleared
  <1>8. CASE Issue
    BY <1>8 DEF Carried, Issue, TypeOK
  <1>9. CASE Args
    BY <1>9, PlanFacts DEF Carried, Args, TypeOK
  <1>10. CASE StepDone
    BY <1>10 DEF Carried, StepDone
  <1>11. CASE Succeed
    BY <1>11 DEF Carried, Succeed
  <1>12. CASE Abort
    BY <1>12 DEF Carried, Abort
  <1>13. CASE Retry
    BY <1>13 DEF Carried, Retry
  <1>14. ASSUME isr_floppy_complete, CollectResult
        PROVE  Carried'
    BY <1>14 DEF Carried, isr_floppy_complete, CollectResult, TypeOK
  <1>15. ASSUME isr_floppy_complete, CollectSense
        PROVE  Carried'
    BY <1>15 DEF Carried, isr_floppy_complete, CollectSense, SenseFlag
  <1>16. CASE SeekEnd
    <2>1. pc = "wait" /\ Underway /\ fdc.cmd = Head(todo)
      BY <1>16, Executing DEF SeekEnd, Handshake
    <2>2. todo # <<"transfer">>
      BY <1>16, <2>1, PlanFacts DEF SeekEnd, Underway
    <2> QED
      BY <1>16, <2>1, <2>2 DEF Carried, SeekEnd
  <1>17. CASE TransferEnd
    <2>1. pc = "wait" /\ Underway /\ fdc.on = Target(req)
      BY <1>17, Executing DEF TransferEnd, Handshake
    <2>2. [fdc.on EXCEPT !.write = (DmaFor(req).mode = "write")] = fdc.on
      BY <2>1, SameWay, RequestType
    <2>3. todo = <<"transfer">> /\ fdc'.st0 = "NT" => moved' = <<Asked(req)>>
      BY <1>17, <2>1, <2>2, TransferEffect DEF TransferEnd, Carried, Asked
    <2> QED
      BY <1>17, <2>1, <2>2, <2>3 DEF Carried, TransferEnd
  <1> QED
    BY <1>1, <1>2, <1>3, <1>4, <1>5, <1>6, <1>7, <1>8, <1>9, <1>10, <1>11,
       <1>12, <1>13, <1>14, <1>15, <1>16, <1>17
    DEF Next, MainLine, Return, Controller, isr_floppy_complete

LEMMA InitHolds == Init => IInv
  <1> SUFFICES ASSUME Init
               PROVE  IInv
    OBVIOUS
  <1> USE DEF Init
  <1>1. TypeOK
    <2>1. 0 \in Cyl
      BY FloppyAssumption DEF Cyl
    <2>2. Target(Sector0) \in Address
      BY TargetType, RequestsAre
    <2>3. fdc \in [phase : {"idle", "command", "seek", "exec", "result"},
                   cmd : Command, on : Address, st0 : TransferStatus]
      BY <2>2 DEF Command, TransferStatus
    <2>4. << >> \in Seq(Command) /\ Len(<< >>) <= 3
      BY PlanTypes
    <2>5. fl \in [current_track : Cyl, erflag : BOOLEAN]
      BY <2>1 DEF floppy_init
    <2>6. isr \in [complete : BOOLEAN, st0 : Status]
      BY DEF Status, TransferStatus
    <2>7. dma \in [mode : {"read", "write"}, count : {127, 255, 511}]
      OBVIOUS
    <2>8. head \in [Drive -> Cyl] /\ pcn \in [Drive -> Cyl]
      BY <2>1
    <2>9. todo \in Seq(Command) /\ Len(todo) <= 3
      BY <2>4
    <2>10. retry \in 0 .. FDC_MAX_RETRIES /\ aimed \in 0 .. FDC_MAX_RETRIES
      BY FloppyAssumption
    <2>11. sense \subseteq SenseStatus /\ intrq \in BOOLEAN /\ moved = << >>
      OBVIOUS
    <2> QED
      BY <2>3, <2>5, <2>6, <2>7, <2>8, <2>9, <2>10, <2>11 DEF TypeOK
  <1>2. Planned
    BY DEF Planned, Busy
  <1>3. Handshake
    BY DEF Handshake
  <1>4. Counted
    BY FloppyAssumption DEF Counted, Busy
  <1>5. OnCourse /\ Carried
    BY DEF OnCourse, Carried, Busy
  <1> QED
    BY <1>1, <1>2, <1>3, <1>4, <1>5 DEF IInv

LEMMA StutterKeeps == IInv /\ UNCHANGED vars => IInv'
  <1> SUFFICES ASSUME IInv, UNCHANGED vars
               PROVE  IInv'
    OBVIOUS
  <1> USE DEF IInv, vars, mainVars, fdcVars
  <1>1. TypeOK'
    BY DEF TypeOK
  <1>2. Planned'
    BY DEF Planned, Busy
  <1>3. Handshake'
    BY DEF Handshake, Quiet, Underway, Ended, Told
  <1>4. Counted'
    BY DEF Counted, Busy
  <1>5. OnCourse'
    BY DEF OnCourse, Busy, Aimed, Zeroed, Stepping
  <1>6. Carried'
    BY DEF Carried
  <1> QED
    BY <1>1, <1>2, <1>3, <1>4, <1>5, <1>6

\* The strengthening is an invariant: the plan of the attempt, the turns of
\* main line, handler and controller, the counts, the course of the head and
\* what has been moved.
THEOREM Invariance == Spec => []IInv
  <1>1. IInv /\ [Next]_vars => IInv'
    BY StutterKeeps, TypeStep, PlannedStep, HandshakeStep, CountedStep,
       OnCourseStep,
       CarriedStep DEF IInv
  <1> QED
    BY <1>1, InitHolds, PTL DEF Spec

-----------------------------------------------------------------------------
(***************************************************************************)
(* The properties of the driver.                                           *)
(***************************************************************************)
\* The variables of the driver and of the controller keep their types: no
\* head leaves the cylinders, no counter passes its limit, and at most three
\* commands are left of an attempt.
THEOREM TypeCorrect == Spec => []TypeOK
  <1>1. IInv => TypeOK
    BY DEF IInv
  <1> QED
    BY <1>1, Invariance, PTL

\* When the main line sees the completion flag, it is that of the command it
\* issued, with that command's status, and the controller is at rest.
THEOREM OwnCompletion == Spec => []CompletionIsOwn
  <1>1. IInv => CompletionIsOwn
    BY DEF IInv, CompletionIsOwn, Handshake, Underway, Ended, Told, Quiet
  <1> QED
    BY <1>1, Invariance, PTL

\* The unbounded waits of the interrupt handler end: when the interrupt is
\* requested there is a result or an interrupt status to collect.
THEOREM HandlerAlwaysReturns == Spec => []HandlerReturns
  <1>1. IInv => HandlerReturns
    BY Interrupted DEF IInv, HandlerReturns, Ended
  <1> QED
    BY <1>1, Invariance, PTL

\* However many drives and cylinders there are, and whatever the two retry
\* limits: at most FDC_RECAL_THRESHOLD of the failed attempts of a request
\* were made with the head on another cylinder.
THEOREM AimedAttempts == Spec => []MostAttemptsAimed
  <1>1. IInv => MostAttemptsAimed
    BY DEF IInv, MostAttemptsAimed, Counted
  <1> QED
    BY <1>1, Invariance, PTL

-----------------------------------------------------------------------------
(***************************************************************************)
(* The driver implements DiskTransfer.                                     *)
(***************************************************************************)
LEMMA HostSectorBound == \A f \in FormatSet : HostSectors(f) \subseteq 0 .. 255
  <1>1. HostSectors(FMT_8DD_MFM) \subseteq 0 .. 255
    BY DEF HostSectors, FMT_8DD_MFM
  <1>2. HostSectors(FMT_8SS_FM) \subseteq 0 .. 255
    BY DEF HostSectors, FMT_8SS_FM
  <1>3. HostSectors(FMT_5DD_MFM) \subseteq 0 .. 255
    BY DEF HostSectors, FMT_5DD_MFM, FMT_8SS_FM
  <1>4. HostSectors(FMT_8DD_256) \subseteq 0 .. 255
    BY DEF HostSectors, FMT_8DD_256
  <1> QED
    BY <1>1, <1>2, <1>3, <1>4 DEF FormatSet

\* The place of a host sector is that of no other.
LEMMA AloneInItsPlace ==
    ASSUME NEW d \in Drive, NEW h \in HostSectors(FormatOf(d)),
           NEW k \in HostSectors(FormatOf(d)),
           Place(FormatOf(d), k).head = Place(FormatOf(d), h).head,
           Place(FormatOf(d), k).sector = Place(FormatOf(d), h).sector
    PROVE  k = h
  <1> DEFINE f == FormatOf(d)
  <1>1. f \in FormatSet /\ OwnPlaces(f)
    BY FormatIs, FormatOfDrive, OwnPlacesEverywhere
  <1>2. Place(f, k) \in [head : 0 .. 1, sector : 0 .. 26]
    BY <1>1, HostSectorBound, PlaceType
  <1>3. Place(f, h) \in [head : 0 .. 1, sector : 0 .. 26]
    BY <1>1, HostSectorBound, PlaceType
  <1>4. Place(f, k) = Place(f, h)
    BY <1>2, <1>3
  <1> QED
    BY <1>1, <1>4 DEF OwnPlaces

\* A request is refused just when it is for no host sector of its track.
LEMMA WholeIfThere ==
    ASSUME NEW r \in Ask
    PROVE  (Whole(r) = {}) <=> (Target(r).sector = 0)
  <1> DEFINE f == FormatOf(r.drive)
  <1>1. r \in Request /\ r.drive \in Drive
    BY RequestsAre DEF Request
  <1>2. OwnPlaces(f)
    BY <1>1, FormatOfDrive, OwnPlacesEverywhere
  <1>3. r.host \in HostSectors(f) <=> Target(r).sector # 0
    <2>1. Target(r).sector = Place(f, r.host).sector
      BY DEF Target
    <2>2. f \in FormatSet
      BY <1>1, FormatIs
    <2>3. r.host \in HostSectors(f) => Place(f, r.host).sector \in 1 .. f.eot
      BY <1>2 DEF OwnPlaces
    <2>4. r.host \in HostSectors(f) => Target(r).sector # 0
      BY <2>1, <2>3
    <2> QED
      BY <2>4, RequestAssumption
  <1>4. (Whole(r) = {}) <=> (HostSectors(f) \cap {r.host} = {})
    BY DEF Whole
  <1> QED
    BY <1>3, <1>4

\* What the transfers of a list have moved.
DoneBy(list) == {[drive |-> m.to.drive, cyl |-> m.to.cyl, hosts |-> Sharing(m.to),
                  write |-> m.to.write, bytes |-> m.bytes] :
                    m \in {list[i] : i \in DOMAIN list}}

LEMMA DoneIs == Done = DoneBy(moved) /\ Done' = DoneBy(moved')
  BY DEF Done, DoneBy

\* What a well-ended transfer has moved is the whole host sector asked for.
LEMMA DoneIsWhole ==
    ASSUME NEW r \in Ask, Target(r).sector # 0
    PROVE  DoneBy(<<Asked(r)>>) = Whole(r)
  <1> DEFINE f == FormatOf(r.drive)
             t == Asked(r)
             one == [drive |-> r.drive, cyl |-> r.cyl, hosts |-> {r.host},
                     write |-> r.write, bytes |-> 128 * (f.sector_mask + 1)]
  <1>1. r.drive \in Drive /\ r.host \in HostSectors(f)
    BY RequestsAre, RequestAssumption DEF Request
  <1>2. Whole(r) = {one}
    BY <1>1 DEF Whole
  <1>3. {<<t>>[i] : i \in DOMAIN <<t>>} = {t}
    OBVIOUS
  <1>4. DoneBy(<<t>>) = {[drive |-> t.to.drive, cyl |-> t.to.cyl,
                 hosts |-> Sharing(t.to), write |-> t.to.write, bytes |-> t.bytes]}
    BY <1>3 DEF DoneBy
  <1>5. t.to = Target(r) /\ t.bytes = f.dma_count + 1
    BY DEF Asked, DmaFor
  <1>6. t.to.drive = r.drive /\ t.to.cyl = r.cyl /\ t.to.write = r.write
    BY <1>5, TargetFields
  <1>7. t.bytes = 128 * (f.sector_mask + 1)
    BY <1>1, <1>5, FormatOfDrive, OneLengthEverywhere DEF OneLength
  <1>8. Sharing(t.to) = {r.host}
    <2>1. t.to.head = Place(f, r.host).head /\ t.to.sector = Place(f, r.host).sector
      BY <1>5 DEF Target
    <2>2. ASSUME NEW k \in HostSectors(f), Place(f, k).head = t.to.head,
                 Place(f, k).sector = t.to.sector
          PROVE  k = r.host
      BY <1>1, <2>1, <2>2, AloneInItsPlace
    <2> QED
      BY <1>1, <1>6, <2>1, <2>2 DEF Sharing
  <1> QED
    BY <1>2, <1>4, <1>6, <1>7, <1>8

LEMMA InitStep == Init => Transfers!Init
  <1> SUFFICES ASSUME Init
               PROVE  InService = {} /\ Done = {} /\ rc = 0
    BY DEF Transfers!Init
  <1>1. {moved[i] : i \in DOMAIN moved} = {}
    BY DEF Init
  <1> QED
    BY <1>1 DEF Init, InService, Booting, Done

LEMMA DoneFollows == moved' = moved => Done' = Done
  BY DoneIs

\* A step of which DiskTransfer sees nothing.
LEMMA Unseen ==
    ASSUME InService' = InService, moved' = moved, rc' = rc
    PROVE  [Transfers!Next]_<<InService, Done, rc>>
  BY DoneFollows

\* From the first attempt to its return a request is in service.
LEMMA Serving ==
    ASSUME IInv, pc = "attempt" \/ (Busy /\ todo # <<"recalibrate">>)
    PROVE  InService = Whole(req) /\ Whole(req) # {} /\ req \in Ask
           /\ Target(req).sector # 0
  <1>1. todo # <<"recalibrate">> /\ pc # "idle" /\ pc # "boot"
    BY DEF IInv, Planned, Busy
  <1>2. req \in Ask /\ Target(req).sector # 0
    BY DEF IInv, Counted
  <1> QED
    BY <1>1, <1>2, WholeIfThere DEF InService, Booting

LEMMA NextStep ==
    ASSUME IInv, IInv', Next
    PROVE  [Transfers!Next]_<<InService, Done, rc>>
  <1> DEFINE Goal == [Transfers!Next]_<<InService, Done, rc>>
  <1> USE DEF mainVars, fdcVars
  <1>1. CASE bios_boot
    <2>1. InService = {} /\ InService' = {}
      BY <1>1 DEF bios_boot, InService, Booting
    <2> QED
      BY <1>1, <2>1, Unseen DEF bios_boot
  <1>2. ASSUME NEW r \in Ask, Refuse(r)
        PROVE  Goal
    <2>1. InService = {} /\ InService' = InService /\ Done' = Done
      BY <1>2, DoneFollows DEF Refuse, InService
    <2>2. Transfers!Refuse(r)
      BY <1>2, <2>1, WholeIfThere DEF Refuse, Transfers!Refuse
    <2> QED
      BY <2>2 DEF Transfers!Next
  <1>3. ASSUME NEW r \in Ask, Call(r)
        PROVE  Goal
    <2>1. InService = {}
      BY <1>3 DEF Call, InService
    <2>2. InService' = Whole(r)
      BY <1>3 DEF Call, InService, Booting, IInv, Planned, Busy
    <2>3. Done' = {}
      <3>1. {moved'[i] : i \in DOMAIN moved'} = {}
        BY <1>3 DEF Call
      <3> QED
        BY <3>1 DEF Done
    <2>4. Transfers!Accept(r)
      BY <1>3, <2>1, <2>2, <2>3, WholeIfThere DEF Call, Transfers!Accept
    <2> QED
      BY <2>4 DEF Transfers!Next
  <1>4. CASE WarmBoot
    <2>1. InService' = InService
      BY <1>4 DEF WarmBoot, InService
    <2> QED
      BY <1>4, <2>1, Unseen DEF WarmBoot
  <1>5. CASE Attempt
    <2>1. InService = Whole(req) /\ InService' = Whole(req)
      BY <1>5, Serving, PlansDiffer DEF Attempt, Commands, InService, Booting
    <2> QED
      BY <1>5, <2>1, Unseen DEF Attempt
  <1>6. CASE Prepare \/ Issue \/ Args
    <2>1. InService' = InService
      BY <1>6 DEF Prepare, Issue, Args, InService, Booting
    <2> QED
      BY <1>6, <2>1, Unseen DEF Prepare, Issue, Args
  <1>7. CASE StepDone
    <2>1. todo \in Plans /\ pc = "wait"
      BY <1>7 DEF StepDone, IInv, Planned, Busy
    <2>2. CASE todo = <<"recalibrate">>
      <3>1. InService = {} /\ InService' = {}
        BY <1>7, <2>1, <2>2, PlanFacts DEF StepDone, InService, Booting
      <3> QED
        BY <1>7, <3>1, Unseen DEF StepDone
    <2>3. CASE todo # <<"recalibrate">>
      <3>1. todo' = <<"transfer">> \/ todo' = <<"seek", "transfer">>
        BY <1>7, <2>1, <2>3, PlanFacts DEF StepDone, Plans
      <3>2. pc' = "prepare" /\ req' = req
        BY <1>7, <3>1, PlansDiffer DEF StepDone
      <3>3. InService = Whole(req) /\ InService' = Whole(req)
        BY <2>1, <2>3, <3>1, <3>2, PlansDiffer DEF InService, Booting
      <3> QED
        BY <1>7, <3>3, Unseen DEF StepDone
    <2> QED
      BY <2>2, <2>3
  <1>8. CASE Retry
    <2>1. pc = "wait" /\ todo = <<"transfer">>
      BY <1>8, PlanFacts DEF Retry, IInv, Planned, Busy, Plans
    <2>2. InService = Whole(req) /\ InService' = Whole(req)
      BY <1>8, <2>1, PlansDiffer DEF Retry, InService, Booting
    <2> QED
      BY <1>8, <2>2, Unseen DEF Retry
  <1>9. CASE Return
    <2>1. /\ pc = "attempt" \/ (Busy /\ todo # <<"recalibrate">>)
          /\ pc' = "idle" /\ moved' = moved /\ (rc' = 0 => Succeed) /\ rc' \in {0, 1}
      BY <1>9, PlanFacts DEF Return, GiveUp, Succeed, Abort, Busy
    <2>2. InService # {} /\ InService' = {} /\ Done' = Done
      BY <2>1, Serving, DoneFollows DEF InService
    <2>3. Succeed => Done = InService
      <3> SUFFICES ASSUME Succeed
                   PROVE  Done = InService
        OBVIOUS
      <3>1. pc = "wait" /\ todo = <<"transfer">> /\ isr.complete /\ isr.st0 \in {"NT", "SE"}
        BY PlanFacts DEF Succeed, Normal, IInv, Planned, Busy, Plans
      <3>2. fdc.cmd = "transfer" /\ Told
        BY <3>1, PlanFacts DEF IInv, Handshake, Underway, Ended
      <3>3. fdc.phase = "idle" /\ fdc.st0 = "NT"
        BY <3>1, <3>2 DEF Told, Quiet, IInv, TypeOK, TransferStatus
      <3>4. moved = <<Asked(req)>>
        BY <3>1, <3>3 DEF IInv, Carried
      <3> QED
        BY <3>4, <2>1, Serving, DoneIs, DoneIsWhole
    <2>4. Transfers!Return
      BY <2>1, <2>2, <2>3 DEF Transfers!Return
    <2> QED
      BY <2>4 DEF Transfers!Next
  <1>10. CASE isr_floppy_complete \/ SeekEnd
    <2>1. InService' = InService
      BY <1>10 DEF isr_floppy_complete, SeekEnd, InService, Booting
    <2> QED
      BY <1>10, <2>1, Unseen DEF isr_floppy_complete, SeekEnd
  <1>11. CASE TransferEnd
    <2>1. InService' = InService /\ rc' = rc /\ pc' = pc /\ todo' = todo /\ req' = req
      BY <1>11 DEF TransferEnd, InService, Booting
    <2>2. pc = "wait" /\ todo = <<"transfer">>
      BY <1>11, Executing, PlanFacts
      DEF TransferEnd, Underway, IInv, Handshake, Planned, Busy, Plans
    <2>3. PICK s \in TransferStatus :
             /\ fdc' = [fdc EXCEPT !.phase = "result", !.st0 = s]
             /\ s # "NT" => moved' = moved
      BY <1>11 DEF TransferEnd
    <2>4. CASE s = "NT"
      <3>1. fdc'.phase = "result" /\ fdc'.st0 = "NT"
        BY <2>3, <2>4 DEF IInv, TypeOK
      <3>2. moved' = <<Asked(req')>>
        BY <2>1, <2>2, <3>1 DEF IInv, Carried, Asked, DmaFor, Target
      <3>3. /\ req \in Ask /\ Target(req).sector # 0
            /\ InService = Whole(req) /\ InService # {}
        BY <2>2, Serving, PlansDiffer DEF Busy
      <3>4. Done' = InService
        BY <2>1, <3>2, <3>3, DoneIs, DoneIsWhole
      <3>5. Transfers!Move
        BY <2>1, <3>3, <3>4 DEF Transfers!Move
      <3> QED
        BY <3>5 DEF Transfers!Next
    <2>5. CASE s # "NT"
      BY <2>1, <2>3, <2>5, Unseen
    <2> QED
      BY <2>4, <2>5
  <1> QED
    BY <1>1, <1>2, <1>3, <1>4, <1>5, <1>6, <1>7, <1>8, <1>9, <1>10, <1>11
    DEF Next, MainLine, Return, Controller

\* A request moves the host sector it is for and no other, whole and in its
\* direction, before it returns 0; whatever the drives, their formats, the
\* requests CP/M makes, and the transfers that fail.
THEOREM Refinement == Spec => ImplementsTransfer
  <1>1. IInv /\ IInv' /\ [Next]_vars => [Transfers!Next]_<<InService, Done, rc>>
    <2>1. UNCHANGED vars => UNCHANGED <<InService, Done, rc>>
      BY DoneFollows DEF vars, mainVars, fdcVars, InService, Booting
    <2> QED
      BY <2>1, NextStep
  <1> QED
    BY <1>1, InitStep, Invariance, PTL
    DEF Spec, ImplementsTransfer, Transfers!Spec
=============================================================================
