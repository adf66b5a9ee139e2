------------------------------- MODULE CpmDisk -------------------------------
(***************************************************************************)
(* What the disk entry points of the BIOS promise to CP/M, with no buffer  *)
(* in sight: a store of records, and an account of which of them may still *)
(* be lost.                                                                *)
(*                                                                         *)
(*   store    what a READ of each record returns                           *)
(*   pending  records whose value is not yet safe on the diskette          *)
(*   doubt    records whose write-back failed: the value may revert        *)
(*   fresh    records the caller declared unallocated and did not write    *)
(*   seek     the record the next READ or WRITE is for                     *)
(*   dma      the record in the caller's DMA buffer                        *)
(*   rc       what the last READ or WRITE returned                         *)
(***************************************************************************)
CONSTANTS Rec, Data, Sector  \* Sector[r]: the records that share r's sector

VARIABLES store, pending, doubt, fresh, seek, dma, rc

vars == <<store, pending, doubt, fresh, seek, dma, rc>>

Init ==
    /\ store \in [Rec -> Data]
    /\ pending = {} /\ doubt = {} /\ fresh = {}
    /\ dma \in Data
    /\ rc = 0

\* The store may differ from what it was on the records of S only.
ChangesWithin(S) ==
    /\ \A r \in Rec \ S : store'[r] = store[r]
    /\ store' \in [Rec -> Data]

(***************************************************************************)
(* What happens to the value last buffered: it stays, it reaches the       *)
(* diskette, or its write-back fails.  Letting it go settles what was in   *)
(* doubt, one way or the other.                                            *)
(***************************************************************************)
Kept    == UNCHANGED <<store, pending, doubt>>
Settled == ChangesWithin(doubt) /\ pending' = {} /\ doubt' = {}
Dropped == UNCHANGED store /\ pending' = {} /\ doubt' \subseteq pending

\* READ returns the stored value, or an error.
Read ==
    /\ seek \in Rec
    /\ UNCHANGED seek
    /\ \/ /\ rc' = 0
          /\ dma' = store[seek]
          /\ store'[seek] = store[seek]
          /\ Kept \/ Settled
       \/ /\ rc' = 1
          /\ dma' = dma
          /\ Settled \/ Dropped
    /\ UNCHANGED fresh

\* The record a WRITE is for takes the value v.  What else may change: its
\* sector, when the caller declared the record unallocated; and what was in
\* doubt.
Stored(v, unalloc) ==
    /\ store'[seek] = v
    /\ ChangesWithin({seek} \cup doubt \cup
           (IF unalloc \/ seek \in fresh THEN Sector[seek] ELSE {}))

\* WRITE of v stores v, at once on the diskette if it is a directory write.
Write(v, unalloc, directory) ==
    /\ seek \in Rec
    /\ UNCHANGED seek
    /\ dma' = v
    /\ \/ /\ rc' = 0
          /\ pending' = IF directory THEN {} ELSE Sector[seek]
          /\ doubt' = {}
          /\ Stored(v, unalloc)
       \/ /\ rc' = 1
          /\ \/ Settled
             \/ Dropped
             \/ /\ directory
                /\ pending' = {}
                /\ doubt' \subseteq Sector[seek]
                /\ Stored(v, unalloc)
    /\ fresh' \subseteq (IF unalloc THEN Rec ELSE fresh \ {seek})

\* SELDSK may write back what is pending.  It has no way to report failure:
\* what was pending is in doubt if the write-back fails.
Select ==
    /\ UNCHANGED <<rc, dma, fresh, store>>
    /\ \/ UNCHANGED <<pending, doubt>>
       \/ pending' = {} /\ doubt' = doubt
       \/ pending' = {} /\ doubt' \subseteq pending

\* HOME, SETTRK, SETSEC.
Position == UNCHANGED <<rc, dma, fresh, pending, doubt, store>>

\* A warm boot or a reset forgets the buffer: only what was pending or in
\* doubt can revert.
Restart ==
    /\ UNCHANGED <<rc, dma>>
    /\ pending' = {} /\ doubt' = {} /\ fresh' = {}
    /\ ChangesWithin(pending \cup doubt)

Next ==
    \/ Position
    \/ Read
    \/ \E v \in Data, unalloc, directory \in BOOLEAN : Write(v, unalloc, directory)
    \/ Select
    \/ Restart

Spec == Init /\ [][Next]_vars
=============================================================================
