---------------------------- MODULE DiskTransfer ----------------------------
(***************************************************************************)
(* What the diskette driver promises to the deblocking layer: a request    *)
(* moves the host sector it is for and no other, as a whole and in its     *)
(* direction, before it returns 0; it may also fail.                       *)
(***************************************************************************)
CONSTANTS
    Request,
    Whole(_)   \* the transfer that serves a request: a set of one, or none

VARIABLES
    asked,   \* the transfer asked for, if a request is in progress
    done,    \* the transfers carried out for the last request
    rc       \* what the last request returned

Init == asked = {} /\ done = {} /\ rc = 0

Accept(r) ==
    /\ asked = {} /\ Whole(r) # {}
    /\ asked' = Whole(r) /\ done' = {}
    /\ UNCHANGED rc

Refuse(r) ==
    /\ asked = {} /\ Whole(r) = {}
    /\ rc' = 1
    /\ UNCHANGED <<asked, done>>

Move ==
    /\ asked # {}
    /\ done' = asked
    /\ UNCHANGED <<asked, rc>>

Return ==
    /\ asked # {}
    /\ asked' = {}
    /\ (rc' = 0 /\ done = asked) \/ rc' = 1
    /\ UNCHANGED done

Next ==
    \/ \E r \in Request : Accept(r) \/ Refuse(r)
    \/ Move
    \/ Return

Spec == Init /\ [][Next]_<<asked, done, rc>>
=============================================================================
