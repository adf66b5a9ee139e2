------------------------------- MODULE Format -------------------------------
(***************************************************************************)
(* The diskette formats (dpb.c), the translation tables (sector.c) and the *)
(* place of a host sector on a track (main.c).                             *)
(***************************************************************************)
EXTENDS Integers, Sequences

tran0 == << 1,  7, 13, 19, 25,  5, 11, 17, 23,  3,  9, 15, 21,
            2,  8, 14, 20, 26,  6, 12, 18, 24,  4, 10, 16, 22>>
tran8 == <<1, 5, 9, 13, 2, 6, 10, 14, 3, 7, 11, 15, 4, 8, 12>>
tran24 == [i \in 1 .. 26 |-> i]

\* dirblocks is the number of bits set in al0 and al1.
Formats == 0 .. 3

FMT_8SS_FM ==
    [spt |-> 26, bsh |-> 3, dsm |-> 242, drm |-> 63, dirblocks |-> 2, cks |-> 16,
     off |-> 2, sector_mask |-> 0, sector_shift |-> 1, tran_table |-> tran0,
     dma_count |-> 127, n |-> 0, phys_spt |-> 26, eot |-> 26, tracks |-> 77]
FMT_8DD_MFM ==
    [spt |-> 120, bsh |-> 4, dsm |-> 449, drm |-> 127, dirblocks |-> 2, cks |-> 32,
     off |-> 2, sector_mask |-> 3, sector_shift |-> 3, tran_table |-> tran8,
     dma_count |-> 511, n |-> 2, phys_spt |-> 30, eot |-> 15, tracks |-> 77]
FMT_5DD_MFM ==
    [FMT_8SS_FM EXCEPT !.off = 0, !.tran_table = tran24]
FMT_8DD_256 ==
    [spt |-> 104, bsh |-> 4, dsm |-> 471, drm |-> 127, dirblocks |-> 2, cks |-> 32,
     off |-> 0, sector_mask |-> 1, sector_shift |-> 2, tran_table |-> tran24,
     dma_count |-> 255, n |-> 1, phys_spt |-> 52, eot |-> 26, tracks |-> 77]

Table == [idx \in Formats |->
    CASE idx = 0 -> FMT_8SS_FM [] idx = 1 -> FMT_8DD_MFM
      [] idx = 2 -> FMT_5DD_MFM [] idx = 3 -> FMT_8DD_256]

dpb_format_index(code) == (code \div 8) % 4

\* The physical sector, or 0.
sector_translate(table, logical) ==
    IF logical >= Len(table) THEN 0 ELSE table[logical + 1]

\* Side and sector of a host sector: host_disk_read and host_disk_write.
Place(f, host) ==
    IF host < f.eot
    THEN [head |-> 0, sector |-> sector_translate(f.tran_table, host)]
    ELSE [head |-> 1, sector |-> sector_translate(f.tran_table, host - f.eot)]

\* The check and allocation vectors the BIOS gives BDOS, in bytes.
CSV_SIZE == 32
ALV_SIZE == 71

\* The host sectors of a CP/M track.
HostSectors(f) == 0 .. f.spt \div (f.sector_mask + 1) - 1
-----------------------------------------------------------------------------
(***************************************************************************)
(* What the tables promise each other.                                     *)
(***************************************************************************)
TwoTo == [i \in 0 .. 4 |-> <<1, 2, 4, 8, 16>>[i + 1]]

\* Every host sector CP/M can name is on the diskette, in a place of its own.
OwnPlaces(f) ==
    \A h \in HostSectors(f) :
        /\ Place(f, h).sector \in 1 .. f.eot /\ Place(f, h).head < f.phys_spt \div f.eot
        /\ \A k \in HostSectors(f) : Place(f, k) = Place(f, h) => k = h

\* A host sector is as long for the deblocking, the DMA and the controller.
OneLength(f) ==
    /\ 128 * (f.sector_mask + 1) = f.dma_count + 1
    /\ f.dma_count + 1 = 128 * TwoTo[f.n]
    /\ TwoTo[f.sector_shift - 1] = f.sector_mask + 1

\* The blocks and the directory BDOS is told of fit on the diskette, and its
\* vectors for them in the areas it is given.
BlocksFit(f) ==
    /\ (f.dsm + 1) * TwoTo[f.bsh] <= (f.tracks - f.off) * f.spt
    /\ (f.drm + 1) * 32 <= f.dirblocks * 128 * TwoTo[f.bsh]
    /\ 4 * f.cks = f.drm + 1 /\ f.cks <= CSV_SIZE
    /\ f.dsm \div 8 + 1 <= ALV_SIZE
=============================================================================
