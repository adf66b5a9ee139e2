------------------------------- MODULE Console -------------------------------
(***************************************************************************)
(* The console driver, console.c, behind crt_output of main.c: a display   *)
(* buffer of SCREEN_SIZE bytes addressed by 16-bit offsets, in memory that *)
(* other parts of the BIOS use on both sides of it; a bitmap of the places *)
(* written in background mode; the cursor, kept as column, row and the     *)
(* offset of the row; and the state machine of a cursor address.           *)
(*                                                                         *)
(* Offsets are words: they wrap at Words.  An offset of the bitmap is      *)
(* counted in bits, so BGMAP_BYTES_PER_ROW is COLS of them.                *)
(***************************************************************************)
EXTENDS Integers

CONSTANTS
    SCREEN_COLS, SCREEN_ROWS,
    Words,     \* the number of values of a word: 2^16 in the machine
    Blank,     \* 0x20
    Char,      \* the printable characters
    Other,     \* what memory outside the buffers holds
    XyByte,    \* the bytes sent as coordinates
    Adrmod     \* the addressing modes CONFI may select

SCREEN_SIZE == SCREEN_COLS * SCREEN_ROWS

ASSUME ConsoleAssumption ==
    /\ SCREEN_COLS \in Nat \ {0} /\ SCREEN_ROWS \in Nat \ {0, 1}
    /\ Words \in Nat /\ Words > SCREEN_SIZE + SCREEN_COLS
    /\ Blank \in Char /\ Other \notin Char \cup {0, 1}
    /\ XyByte \subseteq 0 .. 255 /\ Adrmod \subseteq {0, 1}

VARIABLE con   \* console_state

Word == 0 .. Words - 1

\* memset and memmove, of n places, at word offsets.
fill(mem, at, byte, n) ==
    [i \in Word |-> IF (i - at) % Words < n THEN byte ELSE mem[i]]

copy(mem, dst, src, n) ==
    [i \in Word |-> IF (i - dst) % Words < n
                    THEN mem[(src + ((i - dst) % Words)) % Words] ELSE mem[i]]

memory(byte) == [i \in Word |-> IF i < SCREEN_SIZE THEN byte ELSE Other]

console_init ==
    [display |-> memory(Blank), bgmap |-> memory(0), bg_flag |-> "off",
     curx |-> 0, cursy |-> 0, cury |-> 0,
     xflg |-> "normal", adr0 |-> 0, adrmod |-> 0]

Init == \E m \in Adrmod : con = [console_init EXCEPT !.adrmod = m]

set_cursor(c, col, row) ==
    [c EXCEPT !.curx = col, !.cursy = row, !.cury = row * SCREEN_COLS]

(***************************************************************************)
(* Scrolling, and the two loops that move whole rows.  A loop is a         *)
(* function of the number of rounds it has made; SCREEN_ROWS rounds are    *)
(* more than either makes.                                                 *)
(***************************************************************************)
LastRow == (SCREEN_ROWS - 1) * SCREEN_COLS

rows_up(mem, byte) ==
    fill(copy(mem, 0, SCREEN_COLS, LastRow), LastRow, byte, SCREEN_COLS)

\* A mutant: the rows copied from the cursor's down, each over the next.
InsertLoop_Forward(mem, row) ==
    LET round[k \in 0 .. SCREEN_ROWS] ==
            IF k = 0 THEN [s |-> row, m |-> mem]
            ELSE LET r == round[k - 1]
                 IN  IF r.s < LastRow
                     THEN [s |-> r.s + SCREEN_COLS,
                           m |-> copy(r.m, r.s + SCREEN_COLS, r.s, SCREEN_COLS)]
                     ELSE r
    IN  round[SCREEN_ROWS].m

InsertLoop(mem, row) ==
    LET src == LastRow - SCREEN_COLS
        round[k \in 0 .. SCREEN_ROWS] ==
            IF k = 0 THEN [s |-> src, m |-> mem]
            ELSE LET r == round[k - 1]
                 IN  IF r.s >= row /\ r.s <= src
                     THEN [s |-> (r.s - SCREEN_COLS) % Words,
                           m |-> copy(r.m, (r.s + SCREEN_COLS) % Words, r.s,
                                      SCREEN_COLS)]
                     ELSE r
    IN  round[SCREEN_ROWS].m

DeleteLoop(mem, row) ==
    LET round[k \in 0 .. SCREEN_ROWS] ==
            IF k = 0 THEN [d |-> row, m |-> mem]
            ELSE LET r == round[k - 1]
                 IN  IF r.d < LastRow
                     THEN [d |-> (r.d + SCREEN_COLS) % Words,
                           m |-> copy(r.m, r.d, (r.d + SCREEN_COLS) % Words,
                                      SCREEN_COLS)]
                     ELSE r
    IN  round[SCREEN_ROWS].m

\* The bitmap follows the text only once background mode has been used.
with_bgmap(c, bits) == IF c.bg_flag = "off" THEN c.bgmap ELSE bits

scroll_up(c) ==
    [c EXCEPT !.display = rows_up(@, Blank),
              !.bgmap = with_bgmap(c, rows_up(@, 0))]

console_insert_line(c) ==
    LET bg_cursor == c.cursy * SCREEN_COLS
    IN  [c EXCEPT
           !.display = fill(InsertLoop(@, c.cury), c.cury, Blank, SCREEN_COLS),
           !.bgmap = with_bgmap(c,
               fill(InsertLoop(@, bg_cursor), bg_cursor, 0, SCREEN_COLS))]

console_delete_line(c) ==
    [c EXCEPT
       !.display = fill(DeleteLoop(@, c.cury), LastRow, Blank, SCREEN_COLS),
       !.bgmap = with_bgmap(c,
           fill(DeleteLoop(@, c.cursy * SCREEN_COLS), LastRow, 0, SCREEN_COLS))]

----------------------------------------------------------------------------
(* Moving the cursor.                                                      *)

console_home(c) == set_cursor(c, 0, 0)

console_cursor_left(c) ==
    IF c.curx > 0
    THEN [c EXCEPT !.curx = @ - 1, !.cury = c.cursy * SCREEN_COLS]
    ELSE set_cursor(c, SCREEN_COLS - 1,
                    IF c.cursy > 0 THEN c.cursy - 1 ELSE SCREEN_ROWS - 1)

\* A mutant: the new row without its offset.
console_cursor_right_NoCury(c) ==
    LET wraps == c.curx + 1 >= SCREEN_COLS
        down  == wraps /\ c.cursy < SCREEN_ROWS - 1
    IN  [(IF wraps /\ ~down THEN scroll_up(c) ELSE c) EXCEPT
           !.curx = IF wraps THEN 0 ELSE @ + 1,
           !.cursy = IF down THEN @ + 1 ELSE @]

console_cursor_right(c) ==
    LET wraps == c.curx + 1 >= SCREEN_COLS
        down  == wraps /\ c.cursy < SCREEN_ROWS - 1
        row   == IF down THEN c.cursy + 1 ELSE c.cursy
    IN  set_cursor(IF wraps /\ ~down THEN scroll_up(c) ELSE c,
                   IF wraps THEN 0 ELSE c.curx + 1, row)

console_cursor_up(c) ==
    set_cursor(c, c.curx, IF c.cursy > 0 THEN c.cursy - 1 ELSE SCREEN_ROWS - 1)

console_linefeed(c) ==
    IF c.cursy < SCREEN_ROWS - 1 THEN set_cursor(c, c.curx, c.cursy + 1)
    ELSE scroll_up(c)

console_carriage_return(c) == set_cursor(c, 0, c.cursy)

console_tab(c) ==
    console_cursor_right(console_cursor_right(
        console_cursor_right(console_cursor_right(c))))

----------------------------------------------------------------------------
(* Erasing, and background mode.                                           *)

console_clear_screen(c) ==
    set_cursor([c EXCEPT !.display = fill(@, 0, Blank, SCREEN_SIZE),
                         !.bgmap = fill(@, 0, 0, SCREEN_SIZE)], 0, 0)

console_erase_to_eol(c) ==
    LET pos == c.cury + c.curx
        end == c.cury + SCREEN_COLS
    IN  [c EXCEPT !.display = fill(@, pos, Blank, end - pos)]

\* A mutant: a whole page erased, from the cursor on.
console_erase_to_eos_Page(c) ==
    [c EXCEPT !.display = fill(@, c.cury + c.curx, Blank, SCREEN_SIZE)]

console_erase_to_eos(c) ==
    LET pos == c.cury + c.curx
    IN  [c EXCEPT !.display = fill(@, pos, Blank, SCREEN_SIZE - pos)]

console_enter_background(c) ==
    [c EXCEPT !.bg_flag = "background", !.bgmap = fill(@, 0, 0, SCREEN_SIZE)]

console_enter_foreground(c) == [c EXCEPT !.bg_flag = "foreground"]

console_clear_foreground(c) ==
    [c EXCEPT !.display = [i \in Word |-> IF i < SCREEN_SIZE /\ c.bgmap[i] = 0
                                          THEN Blank ELSE @[i]]]

set_bgmap_bit(c) ==
    [c EXCEPT !.bgmap[c.cursy * SCREEN_COLS + c.curx] = 1]

put_printable(c, ch) ==
    LET d == [c EXCEPT !.display[c.cury + c.curx] = ch]
    IN  console_cursor_right(IF c.bg_flag = "background"
                             THEN set_bgmap_bit(d) ELSE d)

(***************************************************************************)
(* The two bytes of a cursor address.  A byte below 32 wraps to a large    *)
(* coordinate; the loops that take the excess off leave the remainder.     *)
(***************************************************************************)
coord(ch) == ((ch % 128) - 32) % 256

\* A mutant: the excess taken off the column only.
process_xy_RowAsIs(c, ch) ==
    IF c.xflg = "byte1"
    THEN [c EXCEPT !.adr0 = coord(ch), !.xflg = "byte2"]
    ELSE LET col == IF c.adrmod = 0 THEN c.adr0 ELSE coord(ch)
             row == IF c.adrmod = 0 THEN coord(ch) ELSE c.adr0
         IN  [set_cursor(c, col % SCREEN_COLS, row) EXCEPT !.xflg = "normal"]

process_xy(c, ch) ==
    IF c.xflg = "byte1"
    THEN [c EXCEPT !.adr0 = coord(ch), !.xflg = "byte2"]
    ELSE LET col == IF c.adrmod = 0 THEN c.adr0 ELSE coord(ch)
             row == IF c.adrmod = 0 THEN coord(ch) ELSE c.adr0
         IN  [set_cursor(c, col % SCREEN_COLS, row % SCREEN_ROWS)
                EXCEPT !.xflg = "normal"]

----------------------------------------------------------------------------
(* The control characters, each with what console_putchar does for it.     *)

Does(c) == con.xflg = "normal" /\ con' = c

Control ==
    \/ Does(console_insert_line(con))               \* 0x01
    \/ Does(console_delete_line(con))               \* 0x02
    \/ Does(console_cursor_left(con))               \* 0x05, 0x08
    \/ Does([con EXCEPT !.xflg = "byte1"])          \* 0x06
    \/ Does(console_tab(con))                       \* 0x09
    \/ Does(console_linefeed(con))                  \* 0x0A
    \/ Does(console_clear_screen(con))              \* 0x0C
    \/ Does(console_carriage_return(con))           \* 0x0D
    \/ Does(console_enter_background(con))          \* 0x13
    \/ Does(console_enter_foreground(con))          \* 0x14
    \/ Does(console_clear_foreground(con))          \* 0x15
    \/ Does(console_cursor_right(con))              \* 0x18
    \/ Does(console_cursor_up(con))                 \* 0x1A
    \/ Does(console_home(con))                      \* 0x1D
    \/ Does(console_erase_to_eol(con))              \* 0x1E
    \/ Does(console_erase_to_eos(con))              \* 0x1F
    \/ Does(con)                                    \* any other

\* crt_output keeps the bell to itself, in the middle of an address too.
BELL == 7

Bell == UNCHANGED con

Printable == \E ch \in Char : Does(put_printable(con, ch))

Coordinate ==
    /\ con.xflg # "normal"
    /\ \E ch \in XyByte \ {BELL} : con' = process_xy(con, ch)

Next == Bell \/ Control \/ Printable \/ Coordinate

Spec == Init /\ [][Next]_con

----------------------------------------------------------------------------
(* The state has its type, and the cursor is on the page: set_cursor is    *)
(* given a column and a row of the page by every caller, an address of any *)
(* two bytes included (console.c:232-236).                                 *)
TypeOK ==
    con \in [display : [Word -> Char \cup {Other}],
             bgmap : [Word -> {0, 1, Other}],
             bg_flag : {"off", "foreground", "background"},
             curx : 0 .. SCREEN_COLS - 1, cursy : 0 .. SCREEN_ROWS - 1,
             cury : Word, xflg : {"normal", "byte1", "byte2"},
             adr0 : 0 .. 255, adrmod : {0, 1}]

(* cury is the offset of the cursor's row: the text uses cury and the      *)
(* bitmap uses cursy, and they mean the same place (console.h:47).         *)
RowOffset == con.cury = con.cursy * SCREEN_COLS

(* No loop, block move or erasure of the driver writes outside the page:   *)
(* the memory before the display buffer and after it (the BIOS work area   *)
(* at 0xFFD0) and around the bitmap is as it was (console.c:132, 159).     *)
GuardUntouched ==
    \A i \in Word \ (0 .. SCREEN_SIZE - 1) :
        con.display[i] = Other /\ con.bgmap[i] = Other

(* The page a reader sees, places being <<column, row>>.                   *)
offset(p) == p[2] * SCREEN_COLS + p[1]

Page == (0 .. SCREEN_COLS - 1) \X (0 .. SCREEN_ROWS - 1)

S == INSTANCE Screen WITH
       COLS <- SCREEN_COLS, ROWS <- SCREEN_ROWS,
       Coord <- {coord(ch) : ch \in XyByte},
       text <- [p \in Page |-> con.display[offset(p)]],
       marked <- {p \in Page : con.bgmap[offset(p)] = 1},
       at <- <<con.curx, con.cursy>>,
       mode <- con.bg_flag,
       owed <- CASE con.xflg = "normal" -> <<-1>>
                 [] con.xflg = "byte1"  -> << >>
                 [] con.xflg = "byte2"  -> <<con.adr0>>,
       rowFirst <- con.adrmod = 1

(* Every control character, printable character and address does to the    *)
(* page what its line of the dispatch table promises, to the text and to   *)
(* the marks alike, at every edge of the page.                             *)
ImplementsScreen == S!Spec
==============================================================================
