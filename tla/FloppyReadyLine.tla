--------------------------- MODULE FloppyReadyLine ---------------------------
(***************************************************************************)
(* The driver of module Floppy with drives whose ready line may change at  *)
(* any time: the controller then interrupts with a status of its own.  The *)
(* handler never returns if it is entered while the controller expects the *)
(* rest of a command.                                                      *)
(***************************************************************************)
EXTENDS Floppy

ReadyChange ==
    /\ fdc.phase \in {"idle", "seek"}
    /\ sense' = sense \cup {"AI"}
    /\ intrq' = TRUE
    /\ UNCHANGED <<mainVars, isr, fdc, head, pcn, moved, aimed>>

Spin ==
    /\ intrq
    /\ fdc.phase = "command" \/ (fdc.phase \in {"idle", "seek"} /\ sense = {})
    /\ pc' = "hung" /\ intrq' = FALSE
    /\ UNCHANGED <<req, retry, todo, fl, dma, rc, isr, fdc, sense, head, pcn,
                   moved, aimed>>

ReadyLineSpec == Init /\ [][Next \/ ReadyChange \/ Spin]_vars
-----------------------------------------------------------------------------
\* What floppy.h says of a read or a write: it returns 0 on success, that is
\* when the sector asked for has been moved.
ZeroMeansSuccess == ImplementsTransfer
=============================================================================
