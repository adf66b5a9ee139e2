---------------------------- MODULE TablesProofs ----------------------------
(***************************************************************************)
(* The tables of the BIOS agree with each other: the formats of dpb.c with *)
(* the translation tables of sector.c and the mapping of main.c.           *)
(***************************************************************************)
EXTENDS Format, TLAPS

USE DEF Formats

LEMMA TableCases == \A idx \in Formats :
    Table[idx] \in {FMT_8SS_FM, FMT_8DD_MFM, FMT_5DD_MFM, FMT_8DD_256}
  BY DEF Table

\* One DMA transfer moves what the controller takes for a sector and what the
\* deblocking takes for a host sector, in every format.
THEOREM OneLengthEverywhere == \A idx \in Formats : OneLength(Table[idx])
  <1>1. OneLength(FMT_8DD_MFM)
    BY DEF OneLength, TwoTo, FMT_8DD_MFM
  <1>2. OneLength(FMT_8SS_FM)
    BY DEF OneLength, TwoTo, FMT_8SS_FM
  <1>3. OneLength(FMT_5DD_MFM)
    BY DEF OneLength, TwoTo, FMT_5DD_MFM, FMT_8SS_FM
  <1>4. OneLength(FMT_8DD_256)
    BY DEF OneLength, TwoTo, FMT_8DD_256
  <1> QED
    BY <1>1, <1>2, <1>3, <1>4, TableCases

\* The file system BDOS is told of fits on the diskette and in the vectors
\* the BIOS keeps for it, in every format.
THEOREM BlocksFitEverywhere == \A idx \in Formats : BlocksFit(Table[idx])
  <1>1. BlocksFit(FMT_8DD_MFM)
    BY DEF BlocksFit, TwoTo, CSV_SIZE, ALV_SIZE, FMT_8DD_MFM
  <1>2. BlocksFit(FMT_8SS_FM)
    BY DEF BlocksFit, TwoTo, CSV_SIZE, ALV_SIZE, FMT_8SS_FM
  <1>3. BlocksFit(FMT_5DD_MFM)
    BY DEF BlocksFit, TwoTo, CSV_SIZE, ALV_SIZE, FMT_5DD_MFM, FMT_8SS_FM
  <1>4. BlocksFit(FMT_8DD_256)
    BY DEF BlocksFit, TwoTo, CSV_SIZE, ALV_SIZE, FMT_8DD_256
  <1> QED
    BY <1>1, <1>2, <1>3, <1>4, TableCases

\* No two host sectors share a place, and each is on the diskette.
THEOREM OwnPlacesEverywhere == \A idx \in Formats : OwnPlaces(Table[idx])
  <1>1. OwnPlaces(FMT_8DD_MFM)
    BY SMTT(60) DEF OwnPlaces, FMT_8DD_MFM, tran8, HostSectors, Place, sector_translate
  <1>2. OwnPlaces(FMT_8SS_FM)
    BY SMTT(60) DEF OwnPlaces, FMT_8SS_FM, tran0, HostSectors, Place, sector_translate
  <1>3. OwnPlaces(FMT_5DD_MFM)
    BY SMTT(60) DEF OwnPlaces, FMT_5DD_MFM, FMT_8SS_FM, tran24, HostSectors, Place, sector_translate
  <1>4. OwnPlaces(FMT_8DD_256)
    BY SMTT(60) DEF OwnPlaces, FMT_8DD_256, tran24, HostSectors, Place, sector_translate
  <1> QED
    BY <1>1, <1>2, <1>3, <1>4, TableCases
=============================================================================
