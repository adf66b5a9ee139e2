----------------------------- MODULE MCBiosDisk -----------------------------
(***************************************************************************)
(* Two diskettes of different formats: drive 0 has 256-byte sectors (code  *)
(* 24, two records a sector), drive 1 has 128-byte sectors (code 0), drive *)
(* 2 is a hard disk partition SELDSK refuses.  Followed are a sector of    *)
(* track 1 of drive 0, half of the next one, and a sector of drive 1.      *)
(***************************************************************************)
EXTENDS BiosDisk

MCDrive == 0 .. 2
MCfd0 == [d \in MCDrive |-> CASE d = 0 -> 24 [] d = 1 -> 0 [] OTHER -> 32]
MCRec == {<<0, 1, s>> : s \in 0 .. 2} \cup {<<1, 1, 0>>}

\* Records that begin a CP/M block: always the first of a sector.
MCBlockStart == {<<0, 1, 0>>, <<1, 1, 0>>}
=============================================================================
