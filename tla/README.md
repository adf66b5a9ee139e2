# RC702 clean-room BIOS: TLA+ models and proofs

This directory holds TLA+ models of the CP/M BIOS in `src/` (the C files under
`src/src`), the TLC configurations that check them on small instances, and
proofs, checked by TLAPS, of the results that matter most.  Paths below are
relative to `src/src` unless they begin with `src/`.  "The specification" is
`RC702_BIOS_SPECIFICATION.md`, the document the BIOS was written from.

    tlasany BiosDisk.tla                             parse a module
    tlc -workers 2 -config BiosDisk.cfg MCBiosDisk   run TLC
    tlapm BiosDiskProofs.tla                         check the proofs

`PROJECT.json` lists the components, the runs, the mutants (one plausible bug
for each property, which TLC must find), the source lines of each definition,
the hazards, the findings and the theorems.

## 1. The system

The BIOS is one main line, called by CP/M through a jump table one entry point
at a time, and a set of interrupt handlers.  Nothing is preemptive but the
handlers; a handler runs with interrupts disabled, to its end.  What the two
sides share is shared without locks, except where the code says `hal_di`.

| Part | State | Operations | Talks to |
|---|---|---|---|
| Sector deblocking (`deblock.c`) | one host-sector buffer with its address, `hstact`, `hstwrt`; the unallocated run `una*`, `unacnt`; `erflag` | `deblock_read`, `deblock_write`, `deblock_flush` | called by the disk entry points; calls the host sector callbacks |
| Disk entry points and boot (`main.c`, `dpb.c`) | `cur_disk/track/sector`, `cur_dma`, the format in force | SELDSK, HOME, SETTRK, SETSEC, SETDMA, READ, WRITE, SECTRAN, WBOOT, BOOT | BDOS above, deblocking and diskette driver below |
| Diskette driver (`floppy.c`, `isr_floppy_complete`) | `current_track`, `erflag`, completion flag, `st0` | recalibrate, seek, read and write with retries | uPD765 by polling and interrupt, DMA |
| DMA programming (`dma_setup`, `_isr_crt_fast`) | none in RAM; the registers and the byte pointer flip-flop of the Am9517 | program and release a channel | diskette transfer, display refresh every frame |
| Serial channels (`serial.c`, `ringbuf.c`) | a 256-byte receive ring, `tx_ready`, `wr5_base` each | receive, send, status and error handlers; RTS flow control | Z80-SIO, READER, PUNCH, LIST, LISTST, CONIN |
| Keyboard and console input (`main.c`, `serial.c`) | the ring of keys, `keyboard.status` | CONST, CONIN, keyboard handler | the keyboard PIO, channel B |
| Console display (`console.c`) | display buffer, bitmap, cursor, state of a cursor address | 18 control characters, printable characters, addresses | CONOUT, LIST, sign-on |
| IOBYTE routing (`iobyte.c`) | `iobyte_val` | pure | all character entry points |
| Sector translation, formats (`sector.c`, `dpb.c`) | tables | pure | host sector callbacks |
| Configuration, JTVARS (`config.c`, `jtvars.c`) | tables copied at boot | pure | boot |
| Hardware set-up, start-up, loader, ports (`hwinit.c`, `crt0.asm`, `loader.asm`, `hal*.c`) | none | port writes, jump table | everything |

What is hard about it:

* **Deblocking.** A write is delayed until another sector is wanted, the drive
  or format changes, or a warm boot; it can then fail, with nobody to tell.  A
  run of writes to a fresh block skips the pre-read.  Correct means: READ
  returns what was last written, through every eviction, change of drive,
  failure and restart, and what may be lost is one sector.
* **Diskette driver.** Main line, handler and controller share a completion
  flag and a status byte; waits have no time limit; one track register serves
  all drives.
* **DMA.** A 16-bit register is two writes through a flip-flop that both users
  share.
* **Serial.** Two-byte register writes from main line and handlers; a sender
  that stops late; a sender and a receiver that could wait for each other; one
  vector register for both channels; a ready flag polled by LIST, reported by
  LISTST and set by a handler; bytes given up without a word.
* **Tables.** Format, translation table, DMA count and parameter block are
  written down apart and must agree, or two host sectors share a place.
* **Rings.** One side puts, the other takes, with no lock; one handler resets.
* **Console.** Row, column and row offset kept apart, 16-bit offsets that wrap,
  text and bitmap moved by separate loops, work areas on both sides of the
  display buffer.

`crt0.asm` installs, in the current build, `_isr_crt_fast` on the display vector
and a dummy handler on the keyboard and SIO vectors ("disabled for boot"),
`bios_boot` forces CRT mode, and nothing calls `hw_init_all`.  `Sio` and
`ConsoleInput` model the chips initialised by `hw_init_sio`, and the handlers
`main.c` defines, in the slots the comments of the vector table name for them:
that is the system the handlers and their tests are written for.

## 2. Modules

| Module | Models | State and actions |
|---|---|---|
| `Deblock` | `deblock.c` | operators on the state of a call, one per C function; the buffer is a record with the fields of `deblock_t` |
| `BiosDisk` | disk side of `main.c` | one action per entry point, the load loop of `bios_wboot` one record at a time, `Reset` at any moment |
| `CpmDisk` | abstract: what the BDOS may rely on | a store of records, with those not yet safe, in doubt, or fresh |
| `Format` | `dpb.c`, `sector.c`, the mapping of `host_disk_read/write` | tables and operators; what the tables promise each other |
| `Floppy` | `floppy.c`, `isr_floppy_complete`, the diskette part of `bios_boot` | main line by steps (`Attempt`, `Prepare`, `Issue`, `Args`, `StepDone`, `Retry`, returns), the handler, the controller and drives |
| `DiskTransfer` | abstract: what the driver promises to the deblocking | the transfer asked for, the transfers done, the result |
| `FloppyReadyLine` | `Floppy` | with drives whose ready line may change |
| `DmaPort` | `dma_setup` and `isr_reprogram_display_dma` | every port write is a step; `iff` is the interrupt flag |
| `RingBuf` | `ringbuf.c` | operators; `ringbuf_get` is three of them, since it is not atomic |
| `Config` | `config.c`, `jtvars.c` | the default block, what `jtvars_init` takes from it, the baud rates |
| `SioPort` | `hw_init_sio`; the Z80-SIO | a channel as its control port shows it: register pointer, write registers, pending interrupts; the vectors |
| `Sio` | both channels: driver, handlers, READER, PUNCH, LIST, LISTST, their IOBYTE fields | READER one access at a time, the part of `serial_send` under `hal_di` in one step; an interrupt runs the handler in the slot its vector leads to |
| `ConsoleInput` | CONST, CONIN, READER in mode BAT, keyboard and channel B handlers | CONIN and READER one access at a time |
| `ByteQueue` | abstract: what a buffer between two sides promises | a bounded queue; who took the last byte, in which conversion; what may be dropped or flushed |
| `Console` | `console.c` and `crt_output` | one operator per C function on the record `console_t`, one disjunct per control character |
| `Screen` | abstract: what a program that writes sees | a page of places, a cursor, marks; no offsets or loops |
| `MC*` | constants for TLC | |
| `BiosDiskProofs`, `DmaPortProofs`, `TablesProofs`, `FloppyProofs`, `RingBufProofs`, `ConsoleInputProofs`, `SioProofs`, `ConsoleProofs` | proofs | |

Composition: `BiosDisk` extends `Deblock`, `Floppy` extends `Format`; `Sio`
extends `RingBuf`, `SioPort` and `Config`, `ConsoleInput` extends `RingBuf`.
`BiosDisk` implements `CpmDisk`, `Floppy` implements `DiskTransfer`, `Console`
implements `Screen`; `Sio` implements `ByteQueue` once (the receive ring of A,
with drops), `ConsoleInput` twice (the keyboard with drops, channel B with drops
and flushes, and two takers), each by an INSTANCE with a refinement mapping.  `BiosDisk` sees the diskette driver as
an outcome per transfer (`Outcome`): it moves the sector or fails, having moved
some part; that `Floppy` implements `DiskTransfer` is what entitles it to.

The devices (uPD765, drives, Am9517, 8275, Z80-SIO) and the memory functions of
the C library are not in `src/src`; they are modelled from the way the code, and
the data sheets in `src/docs`, use them, and marked external in `PROJECT.json`.

### Abstractions

* A record of 128 bytes is one value; a 512-byte host sector is up to four.
* `secmsk`, `secshf`, `cur_fspa` and `cur_fdf` are set together and are one field.
* The number of a format is kept in `BiosDisk`, since it selects the sector mask;
  heads and physical sectors are the matter of `Floppy`.  The memory address of a
  transfer is always that of the buffer and is left out of `Floppy`.
* The calls of the BDOS are single: nothing re-enters the disk entry points.
* `Sio` follows the channels in sessions, which say what the program does: "in"
  (READER on A), "duplex" (READER and PUNCH on A), "printer" (output on A),
  "terminal" (output on B), "shared" (output on both).  A session bounds the state:
  a receive ring that fills, two transmitters, IOBYTE values and all interrupts at
  once are out of TLC's reach.  Status and error interrupts of channel A come in
  every session, between any two steps of READER, LIST and PUNCH; in the last three
  sessions all interrupts of B come too, those of bytes received included.  Left
  out: interrupts of B in "in" and "duplex", where nothing is sent on B and its
  handlers touch nothing READER and PUNCH on A use; and good bytes received on A in
  the last three, which would only fill a ring nobody takes from.
* The driver never looks at a byte.  In "in" one byte unlike the others is in the
  ring at a time, which is enough to show an order; elsewhere they are all alike
  (`Bytes`).
* `InTime` in `Sio` says that between the test and the write of
  `serial_a_reassert_rts`, two instructions apart, the line cannot bring a nearly
  full ring of bytes; at 38400 baud it brings one at most.
* `struck` and `misled` in `Sio` are history variables, read by properties only:
  READER has been interrupted between its two writes of WR5 by a handler that
  writes to the same port; an interrupt has run the handler of another.  Both
  happen, and are the subject of the runs SioRts and SioVector.
* READER in its UC1 mode and with no data on the native build returns end of file
  and takes nothing; neither is an action.
* `Console` has the background bitmap (the native and test build; the Z80 build
  script compiles it out with `CONSOLE_NO_BGMAP`).  Offsets in the bitmap count
  bits.  CONOUT sends characters to the display unconverted, so the conversion
  tables play no part there.

## 3. Runs

"Bounds" are the values in the `.cfg` and `MC` modules.

### Runs that pass

**BiosDisk** (72 thousand states).  `TypeOK`; `DirtyHasFormat`: a dirty buffer
is written back under the format it was filled with; `ImageIsOnDisk`: a warm
boot loads the diskette, never a buffer from before; `ImplementsCpmDisk`: the
promise to the BDOS.  Any transfer may fail, having moved the first record of
the sector all the same; a reset may strike between any two calls.
Bounds: two drives of different formats (sector masks 1 and 0) and a third that
SELDSK refuses; three records of track 1 on the first, in two host sectors, and
one record on the second; two record values; a boot image of two
records.  That is enough for every pair of "same sector, other record", "other
sector" and "other drive", for a run that crosses a sector boundary and for a
pre-read that matters.  Deblocking has no state that grows with the number of
records, and the theorems below lift the bounds.

**Floppy** (428 thousand states).  `CompletionIsOwn`: the flag the main line sees is that of its own
command; `HandlerReturns`: the unbounded polls of the handler end;
`MostAttemptsAimed`: all but the first attempts are made with the head on the
cylinder, although one track register serves all drives; `ImplementsTransfer`: 0
means that the whole host sector asked for, whose place no other host sector
shares, was moved in the right direction since the call, and nothing else is ever
moved; `EveryCallReturns` (liveness), the boot included, with a result left in
the controller before it.  Bounds: three drives of three cylinders (a
wrong step can be recovered from on both sides), of the three formats with
different host sectors; requests on either side of the change of side, at the end
of the track and past it; 10 attempts with the recalibration at 5, as in the code.
`FormatsSound` (an assumption TLC evaluates) looks at all formats.

**DmaPort**.  `ReleasedWhole`: a channel is unmasked only with both halves of
address and count as its user asked, and is never written while released.  Two
addresses and two counts, no two bytes of which are equal.

**Sio** (552 thousand states), all five sessions, with a ring of 8, high water at 5
and a sender that stops one byte late (256, 248 and 6 at most in the machine: the
claims need a byte to spare), and four IOBYTE values that take LIST to each of its
four devices and PUNCH to each of its three.  What holds without condition:
`BytesInOrder` (refinement of `ByteQueue`): READER returns what was received, in
order.  `LossOnlyByOutput`: flow control loses nothing, except after PUNCH or LIST
has raised RTS with bytes waiting, which `serial_send` does whatever the ring holds.
`ListstPromise`: LIST does not give up after LISTST said ready.  `OwnHandler`: in a
session where nothing is sent on channel B, every interrupt of the SIO has the
vector of its own channel and cause.

What holds until a handler of channel A has struck between the two writes of
`serial_a_reassert_rts` (`struck`; a status or error interrupt is enough, so this
includes a channel that is only read): `RegistersIntact`: each write reaches the
register it is for; `NoStall` and `StallEnds`: sender and READER do not wait for
each other.  That is to say: nowhere else can a handler do harm, and there it can,
for good (SioRts).  What holds until an interrupt has run the handler of another
(`misled`, possible only once something has been sent on B): `TransmitterFree`: a
byte is never written over one still in the transmitter.  `ReadyReturns`, that the
transmitter empties and becomes ready again, needs both, since the channel reset
of SioRts ends transmission.

Deadlock is not checked: a program may stop calling, and READER may really wait for
good after it has been struck.

**ConsoleInput** (985 thousand states): a keyboard ring of 2 and a serial ring
of 4 entries, so that both wrap and fill; three console modes, changed between
calls; CONIN and READER taking by turns.  `KeysInOrder`, `BytesInOrder`
(refinements of `ByteQueue`), `ConstPromise`: CONIN does not wait for what CONST
announced; `KeyAnswered` (liveness); `StatusMeansKey`.  Receive errors strike
anywhere but between the three accesses of `ringbuf_get`, which is the run
ConsoleLineError.

**Console** (half a million states): a page of two columns and three rows in 10
words of memory, one printable character besides space, addresses with the
coordinates 0 and 225 (a wrapped byte) and with the bell in the middle, both
addressing modes.  `RowOffset`: `cury` is the offset of row `cursy`;
`GuardUntouched`: memory around the buffers is never written;
`ImplementsScreen`.  Three rows are a first, a middle and a last one, all the
loops tell apart; two columns are a first and a last.  TAB crosses two rows.

### Runs that find a disagreement

| Run | What is said | What the code does |
|---|---|---|
| BiosDiskRun | `deblock.c:99`, `deblock.h:19`: no pre-read is needed for writes of an unallocated run | a READ of another sector in mid-run evicts the run's sector; the next write takes it again without a pre-read, and the records written before are lost |
| BiosDiskFailure | specification 10.7: on total failure clear HSTACT, set ERFLAG | `deblock_flush` sets `erflag` and leaves `hstact`: later reads are answered from a buffer that is not on the diskette |
| FloppyReadyLine | `floppy.h`: 0 on success | with a ready line that changes, a seek ends early and its own interrupt is taken for the end of the transfer: 0 is returned for a sector that was not moved |
| SioVector | specification 9.7: WR1 must be 0x1F on channel B, "status affects vector" (9.1 is at odds with it: 0x1B for LIST on A, "the same procedure" for B) | `serial_send` writes 0x1B on either channel: after a byte sent on B, with nothing sent on A, every interrupt of the SIO has the vector of `isr_sio_b_tx`; a byte typed, a status change or an error sets the ready flag over a byte still in the transmitter, and is never served as its own |
| SioRts | `serial.c:80`, specification 9.1 and 9.4: WR5 is selected, then written with DTR, RTS and transmitter on | the two writes of `serial_a_reassert_rts` are not protected.  A handler in between takes the selection: RTS goes off, in a channel only read as well, and READER waits for good.  The value then goes to WR0 and leaves register 2 selected; the writes of the next PUNCH or LIST are one off, and the last of them, 0x1B in WR0, is a channel reset: the byte never leaves, `tx_ready` never returns, nothing is received |
| ConsoleLineError | `main.c:236`, specification 4.9: a receive error flushes the buffer | inside `ringbuf_get` the flush is followed by the store of the old tail: a ring of bytes never received |

`CpmDisk` (and so `ImplementsCpmDisk`) states what the code does promise beside
the first two: an unallocated write may change other records of its own sector,
and a failed write-back leaves records in doubt.

Read, not run:

* `crt_output` takes the bell before the state machine of a cursor address, where
  specification 8.1 gives the address priority (modelled by `Bell`).
* `main.c:566` speaks of a recalibration that `bios_wboot` does not do.
* Specification 7.9 wants the tracker at 0xFF so that a first access seeks:
  `floppy_init` sets `current_drive` to 0xFF, which nothing compares, so a first
  access to another drive need not seek.  The transfer then fails and is retried;
  `MostAttemptsAimed` bounds the cost.
* Specification 9.1 has LIST and PUNCH wait for the transmitter; `serial_send`
  gives up after 255 polls.  `tx_ready` starts at 0, so the first byte after a cold
  start goes out only if the chip interrupts with an empty transmitter; `Init` of
  `Sio` lets it do so or not.
* `serial.h:44` says that `keyboard.status` is 0xFF when data is available.  CONIN
  looks at the ring and then stores the status, with interrupts enabled: a key
  between the two leaves 0x00 with a key waiting.  The model does so too;
  `StatusMeansKey` is the other half only, and no code of the BIOS reads the
  status.
* `main.c:48` calls `iobyte_val` a shadow of address 0x0003, which is read nowhere.
* `dpb.c` calls FMT_5DD_MFM "512 B/S MFM" and gives it the values of FM, 128 bytes.
* On a format of one side, a host sector past the end of the track is not
  refused but looked for on side 1; BDOS never names one.

### Fairness

`BiosDisk`, `DmaPort` and `Console` make safety claims only and assume none.  `Floppy`: weak
fairness of the main line (the processor runs), of the handler (a pending
interrupt is taken, as interrupts are enabled while the main line waits) and of
the controller (a command it has accepted ends).  Requests are not fair.
`Sio`: of READER with its callers (a program that reads), of the
transmit interrupt of each channel (once pending, it is taken, by the handler its
vector leads to) and of each transmitter (a byte in it leaves while it is
enabled), not of the sender, of status and error interrupts, nor of output.
`ConsoleInput`: of the main line only; CONIN in a mode where nothing arrives
polls for ever, as in the code.  No strong
fairness is used.

## 4. Proofs

Everything in the `*Proofs` modules is proved for all values of the constants,
under the assumptions named in the modules (`DeblockAssumption`,
`BiosAssumption`, `DmaAssumption`, `FloppyAssumption`, `RequestAssumption`,
`SioAssumption`, and a `ConsoleAssumption` in each of `ConsoleInput` and
`Console`), which TLC evaluates on the runs.  Every inductive invariant was
checked by TLC on the bounds of its run before it was proved.

**BiosDiskProofs**.  The types of the deblocking and the contracts of its
functions (`FlushContract` ... `WriteContract`: what each may do to the view a READ
has of the records) come first.  `IInv` is the conjunction of `TypeOK`,
`DirtyHasFormat`, `FormatInForce` (the geometry in force is that of the selected
drive), `LoadingClean` (during a warm boot the buffer is clean and nothing is in
doubt) and `ImageIsOnDisk`.  The last two need each other: the image is right
because what is loaded is the diskette's, which holds as long as the buffer is
clean.  `DirtyHasFormat` needs `FormatInForce`: a write fills the buffer under the
format in force, and SELDSK flushes before it changes it.  From these and the
contracts follow `TypeCorrect`, `DirtyFormat`, `ImageCorrect` and `Refinement`
(`Spec => ImplementsCpmDisk`): each entry point is one step of `CpmDisk`, or a
stutter.  The assumptions are that records are on selectable drives, that a host
sector of every selectable format fits the buffer, and that the boot records
exist.

**DmaPortProofs**.  `ReleasedWhole` is no invariant by itself: `IInv` adds how far
each program has come and what the controller then holds (`FloppyProgress`,
`DisplayProgress`), and that the two never overlap because `iff` is off inside
either.  Effects of each kind of port write are lemmas.

**TablesProofs**.  In every format each host sector has a place of its own on the
diskette; deblocking, DMA and controller agree on its length; blocks, directory
and BDOS's vectors fit.  One step per format, since the tables are data.

**FloppyProofs** (on `TablesProofs`).  None of the driver's invariants is inductive
alone; `IInv` is `TypeOK` and five parts.  `Planned`: `todo` is the end of one of
the four lists of commands the code issues.  `Handshake`: the main line, the
controller and the handler take turns, so that while the main line waits its
command is `Underway`, `Ended` with the interrupt pending, or `Told`.  `Counted`
bounds the attempts.  `OnCourse`: from the recalibration on, the head and the
controller's idea of it agree, so that the seek after it arrives and every later
attempt stays; `Counted` needs it to count a failed attempt as aimed.  `Carried`:
the DMA controller is set for the transfer at hand, and a normal end has moved what
was asked for.  `TypeCorrect`, `OwnCompletion`, `HandlerAlwaysReturns` and
`AimedAttempts` follow, for every set of drives and all retry limits.  `Refinement`
(`Spec => ImplementsTransfer`) maps the acceptance of a request, the transfer that
ends well and the return to the steps of `DiskTransfer`, all else to stutters; the
place moved is that of one host sector by `OwnPlacesEverywhere`, its length right
by `OneLengthEverywhere`.  It rests on `RequestAssumption`: a request is for a host
sector of its track, or for one the driver refuses.  BDOS makes no other; on a
format of one side the code would look for host sectors 26 to 51 on side 1.

**RingBufProofs**.  A ring as a queue, for every size: what is in it and what is
free (`PutAppends`, `SetTailTakes`), and that a handler which puts between the
three accesses of `ringbuf_get` changes neither the byte nor the tail read
(`PutLeavesOldest`).  The sums modulo the size are done once, here.

**ConsoleInputProofs** (on `RingBufProofs`).  `IInv` is `TypeOK` and five parts:
`Ranges`; `Course`, who of CONIN and READER takes from which ring at which place;
`Holding`, that what CONIN has read of the keyboard ring is still its oldest byte
and its tail; `StatusFollows`, which makes `StatusMeansKey` inductive (the status
is that of the ring except inside CONIN); `PromiseKept`, which does it for
`ConstPromise`: what CONST announced cannot be taken by anyone else.  All of these
hold with receive errors striking anywhere, and `KeysRefinement` (`KeysInOrder`)
with them.  `BytesRefinement` (`BytesInOrder`) adds that the taker's hold on the
ring of channel B is true, and needs the hypothesis `CleanTakes`, that no
receive error strikes inside `ringbuf_get`; the run ConsoleLineError shows why.

**SioProofs** (on `RingBufProofs`).  The effect of each port write is a lemma, and
`StartedIs` is an induction over the bytes `hw_init_sio` sends.  The parts of
`IInv`: `Shapes` (types, and which step can be under way in which session).
`PortA`: the register pointer of channel A is at WR5 between the two writes of
`serial_a_reassert_rts` and at WR0 elsewhere, with the registers as last written;
after a strike it may be at WR0 and at WR2 instead, and the registers anything.  `PortB`: the pointer of
B is always at WR0, and WR1 is that of the configuration where nothing is sent on
B.  `Flow`, which `LossOnlyByOutput` needs: with RTS on fewer than the high-water
count wait (or just as many, once READER has been struck), with RTS off at most
that and what a sender still sends, unless output has raised RTS over them; a
struck channel loses at most one byte of the room, which is the byte to spare in
`SioAssumption`.  `Rescue`, which `NoStall` needs: a READER on its way to the end of
an empty ring still has its write of RTS before it.  `Holding`, as above; `Announced`
(LISTST's answer stands until LIST comes); and `TxEmpty`: while no interrupt has been
misled, a transmitter that is ready, or about to say so, is empty.  Every safety
property of the run is proved, the refinement (`BytesRefinement`) included, for all
sessions together and without further hypotheses.

**ConsoleProofs**.  A fill or a copy that ends below the end of memory is what it
is without the wrap.  The two loops that move rows are recursive functions of
the rounds made; what they hold after each round is written down as a function
(`DeleteLoopIs`, `InsertLoopIs`), and two functions that start alike and go on
alike are equal (`SameRounds`, by the least number where they differ: that natural
numbers are well founded is a library theorem without operator parameters).
`IInv` is `TypeOK`, `RowOffset`, `GuardUntouched` and `PageKept`: what is on the
page is characters and marks, and no marks before background mode has been used.
The refinement needs the last: the code moves the bitmap along only once that
mode has been used, and `Screen` always moves the marks, which is the same only
because until then there are none.  Each C function gets a lemma that says which console it
`Leads` to; TAB is four times `Advances`, which counts columns and scrolled rows in
one go.  `Invariance`, `TypeCorrect`, `RowOffsetCorrect`, `GuardCorrect` and
`Refinement` (`Spec => ImplementsScreen`, one lemma per character, then the rows
moved as places moved) hold for a page of any size, in a memory whose words can
count its bytes and one row more.

Only model-checked: liveness (`EveryCallReturns`, `StallEnds`, `ReadyReturns`,
`KeyAnswered`) and anything with ENABLED, which the prover does not handle.  Every
other property of the passing runs is the conclusion of a theorem.

## 5. Not modelled

* `hwinit.c` but for `hw_init_sio`: straight port writes, which `bios_boot` does not
  call.  `config.c`: the accessors, which nothing calls, and the block behind the
  drive table, which nothing reads.
* `isr_display_refresh`'s timers and deferred cursor update: the installed handler
  `_isr_crt_fast` has neither.
* WFITR, READS, LINSEL, EXIT, CLOCK, HRDFMT: stubs.
* `crt0.asm`, `loader.asm`, `hal_z80.c`: register and memory moves.
* CP/M itself (`src/cpm`), and the host-side simulators and tools in `src/test` and
  `src/scripts`.

## 6. Plan

Done, in this order: deblocking and disk entry points with their abstract store
and proofs; diskette driver with proofs; DMA port with proofs; rings and console input;
console display; formats and translation with proofs, the driver's abstract
specification; both serial channels with the configuration they start from and
their routing.

Then proofs of the rings, console input, serial channels and console display.

Nothing that holds state in the running BIOS is left out, and every safety
property of the passing runs is proved.  What could still be proved:

1. `Config`: that `jtvars_init` and the baud rates fit the default block for every
   block a configuration utility may write, not only the default.
2. The composition of `BiosDisk` with `DiskTransfer`: that the outcomes `BiosDisk`
   allows a transfer are those `DiskTransfer` allows a request.
