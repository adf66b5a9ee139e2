------------------------------- MODULE Floppy -------------------------------
(***************************************************************************)
(* The diskette driver (floppy.c) and its interrupt handler                *)
(* (isr_floppy_complete in interrupt.c), with the uPD765 controller and    *)
(* the drives they steer.                                                  *)
(*                                                                         *)
(* Three actors interleave: the main line, which issues commands and waits *)
(* for the completion flag; the handler, which collects the result and     *)
(* sets the flag; and the controller.  The handler runs with interrupts    *)
(* disabled, so it is one action.  A request of the deblocking layer names *)
(* a drive, a cylinder, a host sector and a direction; the memory address  *)
(* is always that of hstbuf and is left out.  The format is that of the    *)
(* drive.                                                                  *)
(*                                                                         *)
(* The controller is modelled from how the driver and docs/upd765.txt use  *)
(* it.  Its drives step reliably; a transfer may fail at any time.         *)
(***************************************************************************)
EXTENDS Format

CONSTANTS
    Drive, MaxCyl, FDC_MAX_RETRIES, FDC_RECAL_THRESHOLD,
    fd0,      \* the format code of each drive
    Ask       \* the requests made

Cyl == 0 .. MaxCyl
Request == [drive : Drive, cyl : Cyl, host : 0 .. 255, write : BOOLEAN]
Address == [drive : Drive, cyl : Cyl, head : 0 .. 1, sector : 0 .. 26,
            write : BOOLEAN]
Transfer == [to : Address, bytes : {128, 256, 512}]

ASSUME FloppyAssumption ==
    /\ 0 \in Drive
    /\ MaxCyl \in Nat
    /\ FDC_MAX_RETRIES \in Nat /\ FDC_RECAL_THRESHOLD \in Nat
    /\ FDC_RECAL_THRESHOLD < FDC_MAX_RETRIES
    /\ fd0 \in [Drive -> 0 .. 31] /\ Ask \subseteq Request

\* What the driver tells apart of ST0: normal termination, abnormal
\* termination, the same with equipment check, the end of a seek, and (in
\* module FloppyReadyLine) a change of a drive's ready line.
TransferStatus == {"NT", "AT", "EC"}
SenseStatus == {"SE", "AI"}
Status == TransferStatus \cup SenseStatus

Command == {"recalibrate", "seek", "transfer"}

VARIABLES
    pc,      \* where the main line is
    req,     \* the request being served
    retry,   \* attempts already failed
    todo,    \* the commands this attempt has still to complete
    fl,      \* floppy_t: current_track and erflag
    isr,     \* fdc_isr_state_t: complete and st0
    dma,     \* DMA channel 1: the direction and the bytes less one
    rc,      \* what the last request returned
    fdc,     \* the controller: phase, the command it executes, its result
    sense,   \* results waiting for a SENSE INTERRUPT STATUS
    intrq,   \* the interrupt request the CTC has seen
    head,    \* where the head of each drive is
    pcn,     \* where the controller believes it is
    moved,   \* the transfer carried out for the last request, if any, with
             \* its direction on the bus
    aimed    \* failed attempts of this request with the head on its cylinder

mainVars == <<pc, req, retry, todo, fl, dma, rc>>
fdcVars  == <<fdc, sense, intrq, head, pcn, moved>>
vars == <<mainVars, isr, fdcVars, aimed>>

Sector0 == [drive |-> 0, cyl |-> 0, host |-> 0, write |-> FALSE]

FormatOf(drive) == Table[dpb_format_index(fd0[drive])]

\* The place of a request on the diskette.
Target(r) ==
    LET place == Place(FormatOf(r.drive), r.host)
    IN  [drive |-> r.drive, cyl |-> r.cyl, head |-> place.head,
         sector |-> place.sector, write |-> r.write]

TypeOK ==
    /\ pc \in {"boot", "idle", "attempt", "prepare", "issue", "args", "wait", "hung"}
    /\ req \in Ask \cup {Sector0}
    /\ retry \in 0 .. FDC_MAX_RETRIES
    /\ todo \in Seq(Command) /\ Len(todo) <= 3
    /\ fl \in [current_track : Cyl, erflag : BOOLEAN]
    /\ isr \in [complete : BOOLEAN, st0 : Status]
    /\ dma \in [mode : {"read", "write"}, count : {127, 255, 511}]
    /\ rc \in {0, 1}
    /\ fdc \in [phase : {"idle", "command", "seek", "exec", "result"},
                cmd : Command, on : Address, st0 : TransferStatus]
    /\ sense \subseteq SenseStatus
    /\ intrq \in BOOLEAN
    /\ head \in [Drive -> Cyl] /\ pcn \in [Drive -> Cyl]
    /\ moved # << >> => moved = <<moved[1]>> /\ moved[1] \in Transfer
    /\ aimed \in 0 .. FDC_MAX_RETRIES

floppy_init == [current_track |-> 0, erflag |-> FALSE]

\* bios_boot has initialised the driver; the heads are anywhere, and a result
\* nobody collected may be left in the controller.
Init ==
    /\ pc = "boot" /\ retry = 0 /\ todo = << >> /\ rc = 0 /\ aimed = 0
    /\ req = Sector0 /\ moved = << >>
    /\ fl = floppy_init
    /\ isr = [complete |-> FALSE, st0 |-> "NT"]
    /\ dma = [mode |-> "read", count |-> 127]
    /\ \E phase \in {"idle", "result"} :
          fdc = [phase |-> phase, cmd |-> "transfer", on |-> Target(Sector0),
                 st0 |-> "NT"]
    /\ sense = {} /\ intrq = FALSE
    /\ head \in [Drive -> Cyl] /\ pcn = [d \in Drive |-> 0]

\* BDOS names no record past the end of its track.  What it might name beyond
\* has no place on the diskette either, but on a format of one side.
ASSUME RequestAssumption ==
    \A r \in Ask : Target(r).sector # 0 => r.host \in HostSectors(FormatOf(r.drive))

(***************************************************************************)
(* The main line.                                                          *)
(***************************************************************************)
\* A result left over is read and thrown away.
fdc_wait_idle(f) == [f EXCEPT !.phase = "idle"]

\* SPECIFY and SENSE DRIVE STATUS do not interrupt; then drive 0 is
\* recalibrated.
bios_boot ==
    /\ pc = "boot"
    /\ fdc' = fdc_wait_idle(fdc)
    /\ pc' = "prepare" /\ todo' = <<"recalibrate">>
    /\ UNCHANGED <<req, retry, fl, isr, dma, rc, sense, intrq, head, pcn, moved,
                   aimed>>

\* host_disk_read and host_disk_write: a sector number the format does not
\* have is refused, any other goes to floppy_read_with_retry or
\* floppy_write_with_retry.
Refuse(r) ==
    /\ pc = "idle" /\ Target(r).sector = 0
    /\ rc' = 1
    /\ UNCHANGED <<pc, req, retry, todo, fl, isr, dma, fdcVars, aimed>>

Call(r) ==
    /\ pc = "idle" /\ Target(r).sector # 0
    /\ pc' = "attempt" /\ req' = r /\ retry' = 0 /\ aimed' = 0 /\ moved' = << >>
    /\ UNCHANGED <<todo, fl, isr, dma, rc, fdc, sense, intrq, head, pcn>>

\* bios_wboot initialises the driver again, between two requests.
WarmBoot ==
    /\ pc = "idle"
    /\ fl' = floppy_init
    /\ UNCHANGED <<pc, req, retry, todo, isr, dma, rc, fdcVars, aimed>>

\* The commands of one attempt.  fdc_seek leaves current_track on the
\* cylinder asked for, so floppy_read_sector never seeks after it again.
Commands_NoRecalibrate ==
    IF fl.current_track # req.cyl THEN <<"seek", "transfer">> ELSE <<"transfer">>

Commands ==
    IF retry = FDC_RECAL_THRESHOLD THEN <<"recalibrate", "seek", "transfer">>
    ELSE IF fl.current_track # req.cyl THEN <<"seek", "transfer">>
    ELSE <<"transfer">>

AttemptsLeft_OffByOne == retry <= FDC_MAX_RETRIES
AttemptsLeft == retry < FDC_MAX_RETRIES

Attempt ==
    /\ pc = "attempt"
    /\ AttemptsLeft
    /\ pc' = "prepare" /\ todo' = Commands
    /\ UNCHANGED <<req, retry, fl, isr, dma, rc, fdcVars, aimed>>

GiveUp ==
    /\ pc = "attempt"
    /\ ~AttemptsLeft
    /\ pc' = "idle" /\ rc' = 1
    /\ fl' = [fl EXCEPT !.erflag = TRUE]
    /\ UNCHANGED <<req, retry, todo, isr, dma, fdcVars, aimed>>

\* dma_setup
DmaFor(r) == [mode |-> IF r.write THEN "write" ELSE "read",
              count |-> FormatOf(r.drive).dma_count]

\* fdc_prepare, preceded by dma_setup when the command is a transfer.
Cleared_Not(complete) == complete
Cleared(complete) == FALSE

Prepare ==
    /\ pc = "prepare"
    /\ pc' = "issue"
    /\ isr' = [isr EXCEPT !.complete = Cleared(isr.complete)]
    /\ dma' = IF Head(todo) = "transfer" THEN DmaFor(req) ELSE dma
    /\ UNCHANGED <<req, retry, todo, fl, rc, fdcVars, aimed>>

\* The first command byte: wait_rqm_write passes once the controller can
\* take a command.
Issue ==
    /\ pc = "issue"
    /\ fdc.phase \in {"idle", "seek"}
    /\ pc' = "args"
    /\ fdc' = [fdc EXCEPT !.phase = "command"]
    /\ UNCHANGED <<req, retry, todo, fl, isr, dma, rc, sense, intrq, head, pcn,
                   moved, aimed>>

\* The other command bytes.
Args ==
    /\ pc = "args"
    /\ pc' = "wait"
    /\ fdc' = [fdc EXCEPT !.cmd = Head(todo), !.on = Target(req),
                          !.phase = IF Head(todo) = "transfer" THEN "exec" ELSE "seek"]
    /\ UNCHANGED <<req, retry, todo, fl, isr, dma, rc, sense, intrq, head, pcn,
                   moved, aimed>>

\* fdc_wait_complete returns in fdc_recalibrate or fdc_seek, which record the
\* track without looking at the status.
StepDone ==
    /\ pc = "wait" /\ isr.complete
    /\ Head(todo) # "transfer"
    /\ todo' = Tail(todo)
    /\ pc' = IF todo' = << >> THEN "idle" ELSE "prepare"
    /\ fl' = [fl EXCEPT !.current_track =
                           IF Head(todo) = "recalibrate" THEN 0 ELSE req.cyl]
    /\ UNCHANGED <<req, retry, isr, dma, rc, fdcVars, aimed>>

\* fdc_wait_complete returns in floppy_read_sector or floppy_write_sector,
\* whose result is that of the interrupt code of ST0.
Normal_NotEC(st0) == st0 # "EC"
Normal(st0) == st0 \in {"NT", "SE"}

Succeed ==
    /\ pc = "wait" /\ isr.complete
    /\ Head(todo) = "transfer"
    /\ Normal(isr.st0)
    /\ pc' = "idle" /\ todo' = << >> /\ rc' = 0
    /\ UNCHANGED <<req, retry, fl, isr, dma, fdcVars, aimed>>

Abort ==
    /\ pc = "wait" /\ isr.complete
    /\ Head(todo) = "transfer"
    /\ isr.st0 = "EC"
    /\ pc' = "idle" /\ todo' = << >> /\ rc' = 1
    /\ fl' = [fl EXCEPT !.erflag = TRUE]
    /\ UNCHANGED <<req, retry, isr, dma, fdcVars, aimed>>

Retry ==
    /\ pc = "wait" /\ isr.complete
    /\ Head(todo) = "transfer"
    /\ ~Normal(isr.st0) /\ isr.st0 # "EC"
    /\ pc' = "attempt" /\ todo' = << >> /\ retry' = retry + 1
    /\ aimed' = IF head[req.drive] = req.cyl THEN aimed + 1 ELSE aimed
    /\ UNCHANGED <<req, fl, isr, dma, rc, fdcVars>>

Return == GiveUp \/ Succeed \/ Abort
MainLine ==
    \/ Attempt \/ Prepare \/ Issue \/ Args \/ StepDone \/ Retry
    \/ Return

(***************************************************************************)
(* isr_floppy_complete.  With CB set it collects the seven result bytes;   *)
(* otherwise it asks for the interrupt status.                             *)
(***************************************************************************)
CollectResult ==
    /\ fdc.phase = "result"
    /\ isr' = [complete |-> TRUE, st0 |-> fdc.st0]
    /\ fdc' = [fdc EXCEPT !.phase = "idle"]
    /\ intrq' = (sense # {})
    /\ UNCHANGED sense

SenseFlag_Forgotten(complete) == complete
SenseFlag(complete) == TRUE

CollectSense ==
    /\ fdc.phase \in {"idle", "seek"}
    /\ \E s \in sense :
          /\ isr' = [complete |-> SenseFlag(isr.complete), st0 |-> s]
          /\ sense' = sense \ {s}
          /\ intrq' = (sense' # {})
    /\ UNCHANGED fdc

isr_floppy_complete ==
    /\ intrq
    /\ CollectResult \/ CollectSense
    /\ UNCHANGED <<mainVars, head, pcn, moved, aimed>>

(***************************************************************************)
(* The controller and the drives.                                          *)
(***************************************************************************)
\* Where a head comes to rest: the controller steps it by the distance from
\* where it believes the head is, and drives stop at both ends.
Stepped(from, distance) ==
    IF from + distance < 0 THEN 0
    ELSE IF from + distance > MaxCyl THEN MaxCyl
    ELSE from + distance

SeekEnd ==
    LET d == fdc.on.drive
        target == IF fdc.cmd = "recalibrate" THEN 0 ELSE fdc.on.cyl
    IN  /\ fdc.phase = "seek"
        /\ head' = [head EXCEPT ![d] = IF fdc.cmd = "recalibrate" THEN 0
                                       ELSE Stepped(@, target - pcn[d])]
        /\ pcn' = [pcn EXCEPT ![d] = target]
        /\ sense' = sense \cup {"SE"}
        /\ fdc' = [fdc EXCEPT !.phase = "idle"]
        /\ intrq' = TRUE
        /\ UNCHANGED <<mainVars, isr, moved, aimed>>

\* A transfer finds its sector only on the cylinder it names.
TransferEnd ==
    /\ fdc.phase = "exec"
    /\ \E s \in TransferStatus :
          /\ s = "NT" => head[fdc.on.drive] = fdc.on.cyl
          /\ fdc' = [fdc EXCEPT !.phase = "result", !.st0 = s]
          /\ moved' = IF s = "NT"
                      THEN <<[to |-> [fdc.on EXCEPT !.write = (dma.mode = "write")],
                              bytes |-> dma.count + 1]>>
                      ELSE moved
    /\ intrq' = TRUE
    /\ UNCHANGED <<mainVars, isr, sense, head, pcn, aimed>>

Controller == SeekEnd \/ TransferEnd

Next ==
    \/ bios_boot
    \/ \E r \in Ask : Refuse(r) \/ Call(r)
    \/ WarmBoot
    \/ MainLine
    \/ isr_floppy_complete
    \/ Controller

\* The processor runs whatever it can run next, and the controller finishes
\* what it was told to do.  Nobody has to make a request.
Fairness ==
    /\ WF_vars(bios_boot) /\ WF_vars(MainLine)
    /\ WF_vars(isr_floppy_complete)
    /\ WF_vars(Controller)

Spec == Init /\ [][Next]_vars /\ Fairness
-----------------------------------------------------------------------------
(***************************************************************************)
(* Properties.                                                             *)
(***************************************************************************)
\* The completion flag the main line waits on is that of the command it has
\* issued: when it is set, the controller is at rest, no interrupt is
\* pending, and the status is the one of that command.
CompletionIsOwn ==
    pc = "wait" /\ isr.complete =>
        /\ fdc.phase = "idle" /\ sense = {} /\ ~intrq
        /\ fdc.cmd = Head(todo) /\ fdc.on = Target(req)
        /\ isr.st0 = IF fdc.cmd = "transfer" THEN fdc.st0 ELSE "SE"

\* The waits of the handler are not bounded.  They end, because the
\* controller never interrupts while it expects the rest of a command, nor
\* without a result or an interrupt status to tell.
HandlerReturns ==
    intrq => \/ fdc.phase \in {"exec", "result"}
             \/ fdc.phase \in {"idle", "seek"} /\ sense # {}

\* One track register serves all drives and a warm boot resets it without
\* moving a head, so a transfer may be tried on the wrong cylinder.  The
\* recalibration puts an end to it: all but the first FDC_RECAL_THRESHOLD
\* attempts of a request are made with the head where it belongs, so the
\* driver gives up on a sector only when it could not be read there.
MostAttemptsAimed == pc = "attempt" => retry - aimed <= FDC_RECAL_THRESHOLD

\* The driver implements DiskTransfer: what a request moves is one whole host
\* sector, the one asked for, whose place no other host sector shares, in the
\* direction asked for; it returns 0 only after that, and nothing is moved
\* before a request or after it has returned.
Sharing(place) ==
    LET f == FormatOf(place.drive)
    IN  {h \in HostSectors(f) :
            /\ Place(f, h).head = place.head
            /\ Place(f, h).sector = place.sector}

Whole(r) ==
    LET f == FormatOf(r.drive)
    IN  {[drive |-> r.drive, cyl |-> r.cyl, hosts |-> {h}, write |-> r.write,
          bytes |-> 128 * (f.sector_mask + 1)] : h \in HostSectors(f) \cap {r.host}}

Done == {[drive |-> m.to.drive, cyl |-> m.to.cyl, hosts |-> Sharing(m.to),
          write |-> m.to.write, bytes |-> m.bytes] :
            m \in {moved[i] : i \in DOMAIN moved}}

Booting == pc = "boot" \/ (pc # "idle" /\ todo = <<"recalibrate">>)
InService == IF pc = "idle" \/ Booting THEN {} ELSE Whole(req)

Transfers == INSTANCE DiskTransfer WITH
                Request <- Ask, done <- Done, asked <- InService
ImplementsTransfer == Transfers!Spec

\* The boot and every request return.
EveryCallReturns == pc # "idle" ~> pc = "idle"
=============================================================================
