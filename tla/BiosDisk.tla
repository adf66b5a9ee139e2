------------------------------ MODULE BiosDisk ------------------------------
(***************************************************************************)
(* The disk side of the BIOS (main.c): SELDSK, HOME, SETTRK, SETSEC, READ, *)
(* WRITE and WBOOT over the deblocking layer, and the reset that leads to  *)
(* bios_boot.                                                              *)
(*                                                                         *)
(* The BDOS calls the entry points one at a time and no interrupt handler  *)
(* touches this state, so every call is one action; only the load loop of  *)
(* bios_wboot is taken one record at a time.  The diskette driver is the   *)
(* choice of an Outcome for each physical transfer.                        *)
(*                                                                         *)
(* secmsk, secshf, cur_fspa and cur_fdf are assigned together in           *)
(* bios_seldsk and nowhere else after boot; db.secmsk stands for all four. *)
(* The diskettes and the caller's DMA buffer are part of the state.        *)
(***************************************************************************)
EXTENDS Deblock, Sequences

CONSTANTS
    Drive,    \* the drive numbers the caller passes to SELDSK
    fd0,      \* the format code of each drive (JTVARS fd0 table)
    NSECTS,   \* records of CCP and BDOS on track 1 of drive A
    AllocAt   \* records at which the caller may begin a fresh block

FMT_NONE == 255               \* last_format: none yet; fd0: drive not present

\* Floppy format codes are below 32; bits 3 and 4 index fspa_table.
Selectable(d) == fd0[d] < 32
sector_mask(fmt) ==
    LET idx == (fmt \div 8) % 4
    IN  CASE idx = 0 -> 0 [] idx = 1 -> 3 [] idx = 2 -> 0 [] OTHER -> 1

BootRec(i) == <<0, 1, i>>

ASSUME BiosAssumption ==
    /\ Drive \subseteq Nat
    /\ fd0 \in [Drive -> 0 .. 255]
    /\ \A r \in Rec : r[1] \in Drive /\ Selectable(r[1])
    /\ 0 \in Drive /\ Selectable(0)
    /\ \A d \in Drive : Selectable(d) => sector_mask(fd0[d]) < HSTRECS
    /\ NSECTS \in Nat
    /\ \A i \in 0 .. (NSECTS - 1) : BootRec(i) \in Rec
    /\ AllocAt \subseteq Rec

VARIABLES
    db,           \* deblock_state
    media,        \* the records on the diskettes
    cur_disk, cur_track, cur_sector,
    last_format,  \* last selected format code
    mode,         \* "boot": cold boot done, before WBOOT; "load": in its
                  \* load loop; "run": CP/M runs; "halt": boot failed
    image,        \* the records loaded so far by WBOOT
    dma,          \* the record in the caller's DMA buffer
    rc            \* what the last READ or WRITE returned

vars == <<db, media, cur_disk, cur_track, cur_sector, last_format, mode,
          image, dma, rc>>

Seek == <<cur_disk, cur_track, cur_sector>>

TypeOK ==
    /\ db \in DeblockType
    /\ media \in [Rec -> Data]
    /\ cur_disk \in Drive /\ cur_track \in Nat /\ cur_sector \in Nat
    /\ last_format \in 0 .. 255
    /\ mode \in {"boot", "load", "run", "halt"}
    /\ image \in Seq(Data)
    /\ dma \in Data
    /\ rc \in {0, 1}

\* bios_boot up to its call of bios_wboot; the diskettes hold anything.
ColdBoot ==
    /\ db = deblock_init
    /\ cur_disk = 0 /\ cur_track = 0 /\ cur_sector = 0
    /\ last_format = FMT_NONE
    /\ mode = "boot"
    /\ image = << >>

Init ==
    /\ ColdBoot
    /\ media \in [Rec -> Data]
    /\ dma = Blank
    /\ rc = 0

\* The state a deblock call starts from and the state it leaves.
Call == [db |-> db, media |-> media, rc |-> rc]
Returns(c) == db' = c.db /\ media' = c.media /\ rc' = c.rc

(***************************************************************************)
(* bios_seldsk.  The result of the write-back is ignored.                  *)
(***************************************************************************)
FlushOnSwitch_Never(c, fmt, io) == c

FlushOnSwitch(c, fmt, io) ==
    IF fmt # last_format THEN deblock_flush(c, io, "flush") ELSE c

Select(c, d, io) ==
    [FlushOnSwitch(c, fd0[d], io) EXCEPT !.db.secmsk = sector_mask(fd0[d])]

bios_seldsk(d) ==
    /\ mode = "run"
    /\ Selectable(d)
    /\ \E io \in Outcome :
          LET c == Select(Call, d, io)
          IN  db' = c.db /\ media' = c.media
    /\ last_format' = fd0[d]
    /\ cur_disk' = d
    /\ UNCHANGED <<cur_track, cur_sector, mode, image, dma, rc>>

bios_home ==
    /\ mode = "run"
    /\ cur_track' = 0
    /\ UNCHANGED <<db, media, cur_disk, cur_sector, last_format, mode, image,
                   dma, rc>>

\* The caller asks for tracks and sectors its diskettes have.
bios_settrk(t) ==
    /\ mode = "run"
    /\ cur_track' = t
    /\ UNCHANGED <<db, media, cur_disk, cur_sector, last_format, mode, image,
                   dma, rc>>

bios_setsec(s) ==
    /\ mode = "run"
    /\ cur_sector' = s
    /\ UNCHANGED <<db, media, cur_disk, cur_track, last_format, mode, image,
                   dma, rc>>

(***************************************************************************)
(* bios_read and bios_write.                                               *)
(***************************************************************************)
bios_read ==
    /\ mode = "run"
    /\ Seek \in Rec
    /\ \E io \in Outcome :
          LET c == deblock_read(Call, Seek, io)
          IN  /\ Returns(c)
              /\ dma' = IF c.rc = 0
                        THEN c.db.hstbuf[RecOffset(Seek, c.db.secmsk)]
                        ELSE dma
    /\ UNCHANGED <<cur_disk, cur_track, cur_sector, last_format, mode, image>>

bios_write(v, wrtyp) ==
    /\ mode = "run"
    /\ Seek \in Rec
    /\ wrtyp = WRTYP_UNALLOC => Seek \in AllocAt
    /\ \E io \in Outcome :
          Returns(deblock_write(Call, Seek, v, wrtyp, io))
    /\ dma' = v
    /\ UNCHANGED <<cur_disk, cur_track, cur_sector, last_format, mode, image>>

(***************************************************************************)
(* bios_wboot: select A, drop the run, flush and forget the buffer, load   *)
(* NSECTS records of track 1, and enter the CCP; halt on a read error.     *)
(***************************************************************************)
ForgetBuffer_Kept(c) == c

ForgetBuffer(c) == [c EXCEPT !.db.hstact = FALSE]

bios_wboot ==
    /\ mode \in {"boot", "run"}
    /\ \E io \in Outcome :
          LET selected == Select(Call, 0, io)
              c == ForgetBuffer(deblock_flush(
                     [selected EXCEPT !.db.unacnt = 0], io, "flush"))
          IN  db' = c.db /\ media' = c.media
    /\ cur_disk' = 0
    /\ cur_track' = 1
    /\ last_format' = fd0[0]
    /\ mode' = "load"
    /\ image' = << >>
    /\ UNCHANGED <<cur_sector, dma, rc>>

LoadRecord ==
    /\ mode = "load"
    /\ Len(image) < NSECTS
    /\ \E io \in Outcome :
          LET r == <<cur_disk, cur_track, Len(image)>>
              c == deblock_read(Call, r, io)
          IN  /\ db' = c.db /\ media' = c.media
              /\ IF c.rc = 0
                 THEN /\ image' = Append(image,
                                   c.db.hstbuf[RecOffset(r, c.db.secmsk)])
                      /\ mode' = mode
                 ELSE UNCHANGED image /\ mode' = "halt"
    /\ UNCHANGED <<cur_disk, cur_track, cur_sector, last_format, dma, rc>>

\* The jump to the CCP; its memory is the CCP's from then on.
EnterCcp ==
    /\ mode = "load"
    /\ Len(image) = NSECTS
    /\ mode' = "run"
    /\ image' = << >>
    /\ UNCHANGED <<db, media, cur_disk, cur_track, cur_sector, last_format,
                   dma, rc>>

\* Power-on or the reset button, at any moment: RAM is initialised again.
Reset ==
    /\ mode # "boot"
    /\ db' = deblock_init
    /\ cur_disk' = 0 /\ cur_track' = 0 /\ cur_sector' = 0
    /\ last_format' = FMT_NONE
    /\ mode' = "boot"
    /\ image' = << >>
    /\ UNCHANGED <<media, dma, rc>>

Next ==
    \/ \E d \in Drive : bios_seldsk(d)
    \/ bios_home
    \/ \E r \in Rec : bios_settrk(r[2]) \/ bios_setsec(r[3])
    \/ bios_read
    \/ \E v \in Data, wrtyp \in WrTypes : bios_write(v, wrtyp)
    \/ bios_wboot
    \/ LoadRecord
    \/ EnterCcp
    \/ Reset

Spec == Init /\ [][Next]_vars
-----------------------------------------------------------------------------
(***************************************************************************)
(* Properties.                                                             *)
(***************************************************************************)
MaskOf(d) == sector_mask(fd0[d])
SectorOf(r) == HostSector(r, MaskOf(r[1]))

\* A dirty buffer is written back under the format it was filled with: the
\* callback host_disk_write takes its geometry from the format in force, so
\* SELDSK must empty the buffer before the format changes.
DirtyHasFormat ==
    db.hstwrt => /\ db.hstact
                 /\ db.hst[1] \in Drive
                 /\ last_format = fd0[db.hst[1]]
                 /\ db.secmsk = MaskOf(db.hst[1])

\* WBOOT loads the CCP and BDOS that are on the diskette, never what an
\* earlier call left in the buffer.
ImageIsOnDisk ==
    mode = "load" =>
        \A i \in 1 .. Len(image) : image[i] = media[BootRec(i - 1)]

\* The geometry in force is that of the selected drive.
FormatInForce ==
    mode # "boot" => /\ Selectable(cur_disk)
                     /\ last_format = fd0[cur_disk]
                     /\ db.secmsk = MaskOf(cur_disk)

(***************************************************************************)
(* The refinement mapping to CpmDisk: what a READ of each record would     *)
(* find, in a given deblock_t and on given diskettes, and what of it is    *)
(* not on the diskette yet.                                                *)
(***************************************************************************)
InBuffer(d, r) == d.hstact /\ d.hst = SectorOf(r)
InBufferAt(d, r) == d.hstbuf[RecOffset(r, MaskOf(r[1]))]

ViewOf(d, m) == [r \in Rec |-> IF InBuffer(d, r) THEN InBufferAt(d, r) ELSE m[r]]
PendingOf(d) == {r \in Rec : d.hstwrt /\ InBuffer(d, r)}
DoubtOf(d, m) == {r \in Rec : ~d.hstwrt /\ ViewOf(d, m)[r] # m[r]}
FreshOf(d) == {r \in Rec : /\ r[1] = d.una[1] /\ r[2] = d.una[2]
                           /\ d.una[3] <= r[3] /\ r[3] < d.una[3] + d.unacnt}

View == ViewOf(db, media)
Fresh == FreshOf(db)
SectorMap == [r \in Rec |-> {q \in Rec : SectorOf(q) = SectorOf(r)}]

CD == INSTANCE CpmDisk WITH
        Sector <- SectorMap, store <- View, fresh <- Fresh, seek <- Seek,
        pending <- PendingOf(db), doubt <- DoubtOf(db, media)

\* While WBOOT loads, the buffer is clean and shows the diskette.
LoadingClean ==
    mode = "load" =>
        /\ cur_disk = 0 /\ cur_track = 1
        /\ Len(image) <= NSECTS
        /\ ~db.hstwrt
        /\ DoubtOf(db, media) = {}

\* The inductive invariant.
IInv ==
    /\ TypeOK
    /\ DirtyHasFormat
    /\ FormatInForce
    /\ LoadingClean
    /\ ImageIsOnDisk

\* READ returns the record last written, whatever was selected, flushed,
\* retried or failed in between; only an unallocated write may change other
\* records, and only of its own sector; a failure or a restart costs at most
\* the one sector that was buffered.
ImplementsCpmDisk == CD!Spec

\* What the comments of deblock.c and deblock.h say of the skipped pre-read:
\* it is for records of an unallocated block that are still to be written.
\* Short of a reset, no step changes the value of any other record than the
\* one being written.
OnlyFreshIsScrambled ==
    [][mode' # "boot" =>
          \A r \in Rec \ (Fresh \cup Fresh' \cup {Seek}) : View'[r] = View[r]]_vars

\* What the specification says of a transfer that failed for good: HSTACT is
\* clear whenever ERFLAG is set.
FailureInvalidates == db.erflag => ~db.hstact
=============================================================================
