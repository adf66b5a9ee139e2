------------------------------ MODULE MCDmaPort ------------------------------
(***************************************************************************)
(* Two buffer addresses and two counts (a 512-byte sector, a 128-byte      *)
(* sector), chosen so that no two bytes sent to one register are equal.    *)
(***************************************************************************)
EXTENDS DmaPort

MCAddress == {43 * 256 + 17, 200 * 256 + 99}
MCCount == {511, 127}
=============================================================================
