-------------------------------- MODULE Screen -------------------------------
(***************************************************************************)
(* What the console promises a program that writes to it: a page of        *)
(* ROWS lines of COLS characters, a cursor inside it, and a mark on every  *)
(* place written in background mode.  There are no offsets here, no loops  *)
(* and no memory around the page.                                          *)
(***************************************************************************)
EXTENDS Integers, Sequences

CONSTANTS COLS, ROWS, Blank, Char, Coord  \* Coord: the coordinates sent

VARIABLES
    text,     \* the characters, a function of <<column, row>>
    marked,   \* the places written in background mode
    at,       \* the cursor, <<column, row>>
    mode,     \* "off", "foreground" or "background"
    owed,     \* None, or the coordinates received of an address that began
    rowFirst  \* whether an address names the row before the column

vars == <<text, marked, at, mode, owed, rowFirst>>

Place == (0 .. COLS - 1) \X (0 .. ROWS - 1)

None == <<-1>>   \* no address has begun

Init ==
    /\ text = [p \in Place |-> Blank]
    /\ marked = {}
    /\ at = <<0, 0>>
    /\ mode = "off"
    /\ owed = None
    /\ rowFirst \in BOOLEAN

(***************************************************************************)
(* Move the lines from..ROWS-1 of the page by k: up (k > 0) or down        *)
(* (k < 0).  What leaves the page is lost, what enters it is blank and     *)
(* bears no mark.                                                          *)
(***************************************************************************)
MoveLines(t, mk, from, k) ==
    LET was(p)  == <<p[1], p[2] + k>>
        stays(p) == p[2] < from
        comes(p) == was(p) \in Place /\ was(p)[2] >= from
    IN  /\ text' = [p \in Place |-> IF stays(p) THEN t[p]
                                    ELSE IF comes(p) THEN t[was(p)] ELSE Blank]
        /\ marked' = {p \in Place : IF stays(p) THEN p \in mk
                                    ELSE comes(p) /\ was(p) \in mk}

\* Put the cursor at column x, row y of an endless page; scroll it into view.
GoTo(t, mk, x, y) ==
    LET over == IF y < ROWS THEN 0 ELSE y - (ROWS - 1)
    IN  /\ at' = <<x, y - over>>
        /\ MoveLines(t, mk, 0, over)

Forward(t, mk, n) ==
    GoTo(t, mk, (at[1] + n) % COLS, at[2] + (at[1] + n) \div COLS)

Idle == owed = None /\ UNCHANGED owed

Show(c) ==
    /\ Idle /\ UNCHANGED mode
    /\ Forward([text EXCEPT ![at] = c],
               IF mode = "background" THEN marked \cup {at} ELSE marked, 1)

Right == Idle /\ UNCHANGED mode /\ Forward(text, marked, 1)

Tab == Idle /\ UNCHANGED mode /\ Forward(text, marked, 4)

LineFeed == Idle /\ UNCHANGED mode /\ GoTo(text, marked, at[1], at[2] + 1)

Move(p) == Idle /\ at' = p /\ UNCHANGED <<marked, mode, text>>

\* Left and up leave the page on one side and come back on the other.
Left ==
    LET n == (at[2] * COLS + at[1] - 1) % (COLS * ROWS)
    IN  Move(<<n % COLS, n \div COLS>>)

Up == Move(<<at[1], (at[2] - 1) % ROWS>>)

Home == Move(<<0, 0>>)

CarriageReturn == Move(<<0, at[2]>>)

InsertLine ==
    Idle /\ UNCHANGED <<at, mode>> /\ MoveLines(text, marked, at[2], -1)

DeleteLine ==
    Idle /\ UNCHANGED <<at, mode>> /\ MoveLines(text, marked, at[2], 1)

Erase(S) ==
    /\ UNCHANGED <<at, mode, marked>>
    /\ LET t == text
       IN  text' = [p \in Place |-> IF p \in S THEN Blank ELSE t[p]]

EraseToEol == Idle /\ Erase({p \in Place : p[2] = at[2] /\ p[1] >= at[1]})

EraseToEos ==
    Idle /\ Erase({p \in Place : \/ p[2] > at[2]
                                 \/ p[2] = at[2] /\ p[1] >= at[1]})

\* Only what was not written in background mode goes.
ClearForeground == Idle /\ Erase(Place \ marked)

ClearScreen ==
    /\ Idle /\ UNCHANGED mode
    /\ at' = <<0, 0>> /\ marked' = {} /\ text' = [p \in Place |-> Blank]

Background ==
    Idle /\ mode' = "background" /\ marked' = {} /\ UNCHANGED <<at, text>>

Foreground ==
    Idle /\ mode' = "foreground" /\ UNCHANGED <<at, marked, text>>

\* An address begins, and its two coordinates arrive: any two, taken modulo
\* the size of the page.
Begin == owed = None /\ owed' = << >> /\ UNCHANGED <<at, mode, marked, text>>

Coordinate ==
    /\ owed # None
    /\ \E n \in Coord :
          IF owed = << >>
          THEN owed' = <<n>> /\ UNCHANGED at
          ELSE /\ owed' = None
               /\ at' = IF rowFirst THEN <<n % COLS, owed[1] % ROWS>>
                         ELSE <<owed[1] % COLS, n % ROWS>>
    /\ UNCHANGED <<mode, marked, text>>

Next ==
    \/ \E c \in Char : Show(c)
    \/ Right \/ Left \/ Up \/ Home \/ CarriageReturn \/ LineFeed \/ Tab
    \/ InsertLine \/ DeleteLine
    \/ EraseToEol \/ EraseToEos \/ ClearForeground \/ ClearScreen
    \/ Background \/ Foreground
    \/ Begin \/ Coordinate

\* The order of the coordinates is settled once.
Spec == Init /\ [][Next /\ UNCHANGED rowFirst]_vars
==============================================================================
