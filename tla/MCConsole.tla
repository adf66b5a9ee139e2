------------------------------ MODULE MCConsole ------------------------------
(***************************************************************************)
(* A page of two columns and three rows in a memory of ten words: a       *)
(* first, a middle and a last row.  The byte 1 is the coordinate 225, which *)
(* wraps to column 1 or row 0; 32 is the coordinate 0; 7 is the bell.      *)
(***************************************************************************)
EXTENDS Console

MCXyByte == {1, BELL, 32}
==============================================================================
