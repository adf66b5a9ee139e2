--------------------------- MODULE MCConsoleInput ---------------------------
(***************************************************************************)
(* Channel B: bytes with and without bit 7, a ring of four entries.  The   *)
(* keyboard, whose ring is the same code: one key, a ring of two.  Both    *)
(* rings wrap and fill.  The conversion table is not the identity.         *)
(***************************************************************************)
EXTENDS ConsoleInput

MCinconv == [b \in 0 .. 255 |-> (b + 2) % 256]

\* Everywhere but while a byte is being taken.
MCBetween == PC \ {"take", "load", "store"}
=============================================================================
