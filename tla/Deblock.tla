------------------------------- MODULE Deblock -------------------------------
(***************************************************************************)
(* The sector deblocking layer (deblock.c, deblock.h): one host-sector     *)
(* buffer between the 128-byte records CP/M asks for and the physical      *)
(* sectors of a diskette.                                                  *)
(*                                                                         *)
(* The layer has no thread of its own: the BIOS calls it and it runs to    *)
(* the end.  It is therefore written as operators on the state of a call,  *)
(*    c = [db |-> the deblock_t, media |-> the diskettes, rc |-> the       *)
(*         value the C function returns],                                  *)
(* one operator per C function, and module BiosDisk makes them actions.    *)
(*                                                                         *)
(* A record is <<disk, track, sector>>, a host sector is the same triple   *)
(* with the host sector number.  hstdsk/hsttrk/hstsec are the triple       *)
(* db.hst, unadsk/unatrk/unasec the triple db.una.  A record's 128 bytes   *)
(* are one element of Data, so hstbuf holds HSTRECS of them.               *)
(***************************************************************************)
EXTENDS Naturals

CONSTANTS
    Rec,      \* the records of the mounted diskettes
    Data,     \* what a 128-byte record can hold
    Blank,    \* the all-zero record
    HSTRECS,  \* records that fit hstbuf (HSTBUFSZ / 128)
    Parts     \* the slots a failing transfer may have moved all the same;
              \* {} when the diskette driver never reports failure

Addr  == Nat \X Nat \X Nat
Slots == 0 .. (HSTRECS - 1)
Masks == {0, 1, 3}            \* the values of sector_mask in fspa_table

ASSUME DeblockAssumption ==
    /\ Rec \subseteq Addr
    /\ Blank \in Data
    /\ HSTRECS \in Nat \ {0}
    /\ Parts \subseteq SUBSET Slots

\* Write types
WRTYP_DEFERRED  == 0
WRTYP_DIRECTORY == 1
WRTYP_UNALLOC   == 2
WrTypes == {WRTYP_DEFERRED, WRTYP_DIRECTORY, WRTYP_UNALLOC}

(***************************************************************************)
(* Geometry.  With sector mask m a host sector holds m + 1 records.        *)
(***************************************************************************)
HostSector(r, m) == <<r[1], r[2], r[3] \div (m + 1)>>
RecOffset(r, m)  == r[3] % (m + 1)

(***************************************************************************)
(* The transfers of one call.  Its first failing transfer ends it, so an   *)
(* outcome names the transfer that gives up after its retries, if any, and *)
(* the slots it moved all the same.                                        *)
(***************************************************************************)
Steps == {"flush", "preread", "directory"}
AllWell == [fails |-> "none", part |-> {}]
Outcome == {AllWell} \cup [fails : Steps, part : Parts]

Moved(io, step) == IF io.fails = step THEN io.part ELSE Slots

DeblockType ==
    [hstbuf : [Slots -> Data], hstact : BOOLEAN, hstwrt : BOOLEAN, hst : Addr,
     unacnt : 0 .. HSTRECS, una : Addr, secmsk : Masks \cap Slots, erflag : BOOLEAN]

deblock_init ==
    [hstbuf |-> [k \in Slots |-> Blank], hstact |-> FALSE, hstwrt |-> FALSE,
     hst |-> <<0, 0, 0>>, unacnt |-> 0, una |-> <<0, 0, 0>>, secmsk |-> 0,
     erflag |-> FALSE]

\* The diskettes after write_fn moved the slots in done of the buffer.  The
\* geometry is that of the format in force, whatever diskette is buffered.
Transferred(c, done) ==
    [r \in Rec |->
        IF /\ HostSector(r, c.db.secmsk) = c.db.hst
           /\ RecOffset(r, c.db.secmsk) \in done
        THEN c.db.hstbuf[RecOffset(r, c.db.secmsk)]
        ELSE c.media[r]]

\* The record of the buffered sector that belongs in slot k.
InSlot(c, k) ==
    <<c.db.hst[1], c.db.hst[2], c.db.hst[3] * (c.db.secmsk + 1) + k>>

\* The buffer after read_fn moved the slots in done of the sector.
Fetched(c, done) ==
    [k \in Slots |->
        IF k \in done /\ k <= c.db.secmsk /\ InSlot(c, k) \in Rec
        THEN c.media[InSlot(c, k)]
        ELSE c.db.hstbuf[k]]

(***************************************************************************)
(* deblock_flush: hstwrt is cleared before the write is tried, and stays   *)
(* clear when the write fails; hstact is not touched.                      *)
(***************************************************************************)
deblock_flush(c, io, step) ==
    IF ~c.db.hstwrt
    THEN [c EXCEPT !.rc = 0]
    ELSE LET failed == io.fails = step
         IN  [db    |-> [c.db EXCEPT !.hstwrt = FALSE, !.erflag = @ \/ failed],
              media |-> Transferred(c, Moved(io, step)),
              rc    |-> IF failed THEN 1 ELSE 0]

\* The second half of ensure_host_sector, once the old sector is flushed:
\* retag the buffer and, if asked, read the new sector into it.
Retag(c, r) ==
    [c EXCEPT !.db.hst = HostSector(r, c.db.secmsk),
              !.db.hstact = TRUE, !.db.hstwrt = FALSE]

Preread(c, io) ==
    LET failed == io.fails = "preread"
    IN  [db    |-> [c.db EXCEPT !.hstbuf = Fetched(c, Moved(io, "preread")),
                                !.hstact = ~failed, !.erflag = @ \/ failed],
         media |-> c.media,
         rc    |-> IF failed THEN 1 ELSE 0]

Buffered(db, r) == db.hstact /\ db.hst = HostSector(r, db.secmsk)

ensure_host_sector_NoFlush(c, r, need_preread, io) ==
    IF Buffered(c.db, r) THEN [c EXCEPT !.rc = 0]
    ELSE LET new == Retag([c EXCEPT !.rc = 0], r)
         IN  IF need_preread THEN Preread(new, io) ELSE new

ensure_host_sector(c, r, need_preread, io) ==
    IF Buffered(c.db, r) THEN [c EXCEPT !.rc = 0]
    ELSE LET flushed == deblock_flush(c, io, "flush")
             new     == Retag(flushed, r)
         IN  IF flushed.rc # 0 THEN flushed
             ELSE IF need_preread THEN Preread(new, io)
             ELSE new

(***************************************************************************)
(* deblock_read: the unallocated-run counter is left alone.                *)
(***************************************************************************)
deblock_read(c, r, io) ==
    ensure_host_sector([c EXCEPT !.db.erflag = FALSE], r, TRUE, io)

(***************************************************************************)
(* deblock_write.  A write of type UNALLOC starts a run of secmsk + 1      *)
(* records; a write that hits the next record of the run advances it and   *)
(* needs no pre-read; any other write ends it.                             *)
(***************************************************************************)
StartRun(db, r, wrtyp) ==
    IF wrtyp = WRTYP_UNALLOC
    THEN [db EXCEPT !.unacnt = db.secmsk + 1, !.una = r]
    ELSE db

InRun_CountIgnored(db, r) == db.una = r

InRun(db, r) == db.unacnt > 0 /\ db.una = r

AdvanceRun(db, r) ==
    IF InRun(db, r)
    THEN [db EXCEPT !.unacnt = @ - 1, !.una = <<r[1], r[2], r[3] + 1>>]
    ELSE [db EXCEPT !.unacnt = 0]

\* Copy the record into the buffer, which is dirty from then on.
PutRecord(c, r, v) ==
    [c EXCEPT !.db.hstbuf[RecOffset(r, c.db.secmsk)] = v, !.db.hstwrt = TRUE]

FlushIfDirectory(c, wrtyp, io) ==
    IF wrtyp = WRTYP_DIRECTORY THEN deblock_flush(c, io, "directory") ELSE c

deblock_write(c, r, v, wrtyp, io) ==
    LET begun == StartRun([c.db EXCEPT !.erflag = FALSE], r, wrtyp)
        ready == ensure_host_sector([c EXCEPT !.db = AdvanceRun(begun, r)], r,
                                    ~InRun(begun, r), io)
        put   == PutRecord(ready, r, v)
    IN  IF ready.rc # 0 THEN ready ELSE FlushIfDirectory(put, wrtyp, io)
=============================================================================
