------------------------------ MODULE MCFloppy ------------------------------
(***************************************************************************)
(* Three drives of three cylinders with different formats, and the retry   *)
(* limits of the code.  The requests are for the sectors where the side    *)
(* changes and where the track ends, and for one past the end.             *)
(***************************************************************************)
EXTENDS FloppyReadyLine

MCDrive == 0 .. 2
MCfd0 == [drive \in MCDrive |-> <<8, 24, 0>>[drive + 1]]

MCAsk ==
    LET R(d, c, h, w) == [drive |-> d, cyl |-> c, host |-> h, write |-> w]
    IN  {R(0, 0, 14, FALSE), R(0, 1, 15, TRUE), R(0, 2, 29, FALSE),
         R(0, 0, 0, TRUE), R(0, 1, 30, FALSE),
         R(1, 0, 26, TRUE), R(1, 1, 25, FALSE), R(1, 2, 51, TRUE),
         R(1, 2, 0, FALSE), R(1, 0, 52, TRUE),
         R(2, 1, 25, TRUE), R(2, 0, 0, FALSE)}

\* The formats no drive has here are looked at too.
ASSUME FormatsSound ==
    \A idx \in Formats : /\ OwnPlaces(Table[idx]) /\ OneLength(Table[idx])
                         /\ BlocksFit(Table[idx])
=============================================================================
