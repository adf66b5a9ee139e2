---------------------------- MODULE ConsoleProofs ----------------------------
(***************************************************************************)
(* Proofs about Console, for a page of any size: the cursor and its row    *)
(* offset agree and stay on the page, no byte around the page is written,  *)
(* and every character does to the page what Screen says.                  *)
(***************************************************************************)
EXTENDS Console, TLAPS, WellFoundedInduction

-----------------------------------------------------------------------------
(***************************************************************************)
(* Induction, and the recursive functions that stand for loops.            *)
(***************************************************************************)
LEMMA LeastNumber ==
    ASSUME NEW T \in SUBSET Nat, T # {}
    PROVE  \E x \in T : \A y \in T : x <= y
  <1>1. IsWellFoundedOn(OpToRel(<, Nat), Nat)
    BY NatLessThanWellFounded
  <1>2. PICK x \in T : \A y \in T : ~(<<y, x>> \in OpToRel(<, Nat))
    BY <1>1, WFMin
  <1>3. \A y \in T : <<y, x>> \in OpToRel(<, Nat) <=> y < x
    BY DEF OpToRel
  <1>4. \A y \in T : ~(y < x)
    BY <1>2, <1>3
  <1> QED
    BY <1>4

\* Two sequences of rounds that start alike and go on alike are the same.
LEMMA SameRounds ==
    ASSUME NEW n \in Nat, NEW f, NEW g, f[0] = g[0],
           \A k \in 1 .. n : f[k - 1] = g[k - 1] => f[k] = g[k]
    PROVE  \A k \in 0 .. n : f[k] = g[k]
  <1> SUFFICES ASSUME \E k \in 0 .. n : f[k] # g[k]
               PROVE  FALSE
    OBVIOUS
  <1> DEFINE T == {k \in 0 .. n : f[k] # g[k]}
  <1>1. T \in SUBSET Nat /\ T # {}
    OBVIOUS
  <1>2. PICK x \in T : \A y \in T : x <= y
    BY <1>1, LeastNumber
  <1>3. x \in 1 .. n /\ x - 1 \in 0 .. n /\ x - 1 \notin T
    BY <1>2
  <1> QED
    BY <1>2, <1>3

-----------------------------------------------------------------------------
(***************************************************************************)
(* Rows.  Row(y) is the offset of row y.                                   *)
(***************************************************************************)
Row(y) == y * SCREEN_COLS

LEMMA Values ==
    /\ SCREEN_COLS \in Int /\ SCREEN_COLS > 0 /\ SCREEN_ROWS \in Int /\ SCREEN_ROWS > 1
    /\ SCREEN_SIZE \in Int /\ LastRow \in Int /\ Words \in Int
    /\ LastRow + SCREEN_COLS = SCREEN_SIZE /\ LastRow >= SCREEN_COLS
    /\ Words > SCREEN_SIZE + SCREEN_COLS
    /\ Row(SCREEN_ROWS - 1) = LastRow /\ Row(SCREEN_ROWS) = SCREEN_SIZE /\ Row(0) = 0
    /\ Word = 0 .. Words - 1
  <1> DEFINE r == SCREEN_ROWS - 1
  <1>1. /\ SCREEN_COLS \in Int /\ SCREEN_COLS > 0 /\ SCREEN_ROWS \in Int /\ SCREEN_ROWS > 1
        /\ Words \in Int
    BY ConsoleAssumption
  <1>2. r \in Int /\ r >= 1 /\ SCREEN_ROWS = r + 1
    BY <1>1
  <1> HIDE DEF r
  <1>3. /\ r * SCREEN_COLS \in Int /\ SCREEN_COLS * (r + 1) = r * SCREEN_COLS + SCREEN_COLS
        /\ (r + 1) * SCREEN_COLS = r * SCREEN_COLS + SCREEN_COLS
        /\ r * SCREEN_COLS >= SCREEN_COLS /\ 0 * SCREEN_COLS = 0
    BY <1>1, <1>2
  <1>4. LastRow = r * SCREEN_COLS /\ SCREEN_SIZE = SCREEN_COLS * (r + 1)
    BY <1>2 DEF LastRow, SCREEN_SIZE, r
  <1>5. Words > SCREEN_SIZE + SCREEN_COLS
    BY ConsoleAssumption
  <1> QED
    BY <1>1, <1>2, <1>3, <1>4, <1>5 DEF Row, Word, r

LEMMA NextRow ==
    ASSUME NEW y \in Int
    PROVE  /\ Row(y) \in Int /\ Row(y + 1) = Row(y) + SCREEN_COLS
           /\ Row(y - 1) = Row(y) - SCREEN_COLS
  BY Values DEF Row

LEMMA RowsAscend ==
    ASSUME NEW j \in Int, NEW k \in Int, j < k
    PROVE  Row(j) + SCREEN_COLS <= Row(k)
  <1> DEFINE d == k - j - 1
  <1>1. d \in Nat /\ k = j + 1 + d
    OBVIOUS
  <1>2. d * SCREEN_COLS >= 0 /\ d * SCREEN_COLS \in Int
    BY <1>1, Values
  <1>3. k * SCREEN_COLS = j * SCREEN_COLS + SCREEN_COLS + d * SCREEN_COLS
    BY <1>1, Values
  <1>4. j * SCREEN_COLS \in Int
    BY Values
  <1> QED
    BY <1>2, <1>3, <1>4, Values DEF Row

\* The rows of the page.
LEMMA RowOnPage ==
    ASSUME NEW y \in 0 .. SCREEN_ROWS - 1
    PROVE  /\ Row(y) \in Word /\ Row(y) + SCREEN_COLS <= SCREEN_SIZE
           /\ (y = 0 => Row(y) = 0) /\ (y > 0 => Row(y) >= SCREEN_COLS)
           /\ (y < SCREEN_ROWS - 1 => Row(y) + SCREEN_COLS <= LastRow)
           /\ (y = SCREEN_ROWS - 1 => Row(y) = LastRow)
  <1>1. y \in Int /\ 0 <= y /\ y < SCREEN_ROWS /\ Row(y) \in Int
    BY Values, NextRow
  <1>2. y > 0 => Row(0) + SCREEN_COLS <= Row(y)
    BY <1>1, RowsAscend
  <1>3. y < SCREEN_ROWS - 1 => Row(y) + SCREEN_COLS <= Row(SCREEN_ROWS - 1)
    BY <1>1, RowsAscend, Values
  <1> QED
    BY <1>1, <1>2, <1>3, Values

LEMMA Divided ==
    ASSUME NEW m \in Int, m > 0, NEW q \in Int, NEW r \in 0 .. m - 1
    PROVE  (q * m + r) % m = r /\ (q * m + r) \div m = q
  <1> DEFINE a == q * m + r
  <1>1. a \in Int /\ a = q * m + r
    OBVIOUS
  <1> HIDE DEF a
  <1>2. a % m = r /\ a \div m = q
    BY <1>1
  <1> QED
    BY <1>2 DEF a

LEMMA Split ==
    ASSUME NEW m \in Int, m > 0, NEW a \in Int
    PROVE  \E q \in Int, r \in 0 .. m - 1 : a \div m = q /\ a % m = r /\ a = q * m + r
  <1> DEFINE q == a \div m
             r == a % m
  <1>1. q \in Int /\ r \in 0 .. m - 1 /\ q = a \div m /\ r = a % m
    OBVIOUS
  <1> HIDE DEF q, r
  <1>2. a = q * m + r
    BY <1>1
  <1> QED
    BY <1>1, <1>2

LEMMA WrapIs ==
    ASSUME NEW i \in -Words .. Words - 1
    PROVE  i % Words = IF i < 0 THEN i + Words ELSE i
  BY Values

-----------------------------------------------------------------------------
(***************************************************************************)
(* What fill and copy do when they stay below the end of memory, and what  *)
(* the loops and scrolls made of them do to the page.                      *)
(***************************************************************************)
Erased(mem, a, b, byte) ==
    [i \in Word |-> IF a <= i /\ i < b THEN byte ELSE mem[i]]

Shifted(mem, a, b, by) ==
    [i \in Word |-> IF a <= i /\ i < b THEN mem[i + by] ELSE mem[i]]

\* The page from offset a on, a row higher or a row lower.
Raised(mem, a, byte) ==
    [i \in Word |-> IF i < a \/ i >= SCREEN_SIZE THEN mem[i]
                    ELSE IF i < LastRow THEN mem[i + SCREEN_COLS] ELSE byte]

Lowered(mem, a, byte) ==
    [i \in Word |-> IF i < a \/ i >= SCREEN_SIZE THEN mem[i]
                    ELSE IF i >= a + SCREEN_COLS THEN mem[i - SCREEN_COLS] ELSE byte]

LEMMA FillIs ==
    ASSUME NEW mem, NEW byte, NEW a \in Nat, NEW n \in Nat, a + n <= Words
    PROVE  fill(mem, a, byte, n) = Erased(mem, a, a + n, byte)
  <1>1. ASSUME NEW i \in Word
        PROVE  (i - a) % Words < n <=> a <= i /\ i < a + n
    <2> DEFINE j == i - a
    <2>1. j \in -Words .. Words - 1 /\ i \in Int /\ 0 <= i /\ i < Words
      BY Values
    <2>2. j % Words = IF j < 0 THEN j + Words ELSE j
      BY <2>1, WrapIs
    <2>3. i - a = j
      OBVIOUS
    <2>4. (j % Words < n) <=> (IF j < 0 THEN i - a + Words < n ELSE i - a < n)
      BY <2>2, <2>3
    <2>5. j < 0 <=> i < a
      BY <2>1
    <2> HIDE DEF j
    <2> QED
      BY <2>1, <2>3, <2>4, <2>5, Values
  <1> QED
    BY <1>1 DEF fill, Erased

LEMMA CopyIs ==
    ASSUME NEW mem, NEW dst \in Nat, NEW src \in Nat, NEW n \in Nat,
           dst + n <= Words, src + n <= Words
    PROVE  copy(mem, dst, src, n) = Shifted(mem, dst, dst + n, src - dst)
  <1>1. ASSUME NEW i \in Word
        PROVE  /\ (i - dst) % Words < n <=> dst <= i /\ i < dst + n
               /\ dst <= i /\ i < dst + n
                    => (src + ((i - dst) % Words)) % Words = i + (src - dst)
    <2> DEFINE j == i - dst
    <2>1. j \in -Words .. Words - 1 /\ i \in Int /\ 0 <= i /\ i < Words
      BY Values
    <2>2. j % Words = IF j < 0 THEN j + Words ELSE j
      BY <2>1, WrapIs
    <2>3. i - dst = j
      OBVIOUS
    <2>4. (j % Words < n) <=> (IF j < 0 THEN i - dst + Words < n ELSE i - dst < n)
      BY <2>2, <2>3
    <2>5. j < 0 <=> i < dst
      BY <2>1
    <2>6. (i - dst) % Words < n <=> dst <= i /\ i < dst + n
      <3> HIDE DEF j
      <3> QED
        BY <2>1, <2>3, <2>4, <2>5, Values
    <2>7. ASSUME dst <= i, i < dst + n
          PROVE  (src + (j % Words)) % Words = i + (src - dst)
      <3>1. j % Words = j
        BY <2>2, <2>5, <2>7, <2>1
      <3> DEFINE k == src + j
      <3>2. k \in -Words .. Words - 1 /\ k >= 0 /\ k = i + (src - dst)
        BY <2>1, <2>7, Values
      <3>3. k % Words = k
        <4> HIDE DEF k
        <4> QED
          BY <3>2, WrapIs
      <3> HIDE DEF j
      <3>4. (src + (j % Words)) % Words = k
        BY <3>1, <3>3
      <3> QED
        BY <3>2, <3>4
    <2> QED
      BY <2>6, <2>7
  <1> HIDE DEF Word
  <1> QED
    BY <1>1 DEF copy, Shifted

LEMMA RowsUpIs ==
    ASSUME NEW mem, NEW byte
    PROVE  rows_up(mem, byte) = Raised(mem, 0, byte)
  <1> DEFINE m == copy(mem, 0, SCREEN_COLS, LastRow)
  <1>1. m = Shifted(mem, 0, LastRow, SCREEN_COLS)
    <2>1. /\ 0 \in Nat /\ SCREEN_COLS \in Nat /\ LastRow \in Nat
          /\ 0 + LastRow <= Words /\ SCREEN_COLS + LastRow <= Words
          /\ 0 + LastRow = LastRow /\ SCREEN_COLS - 0 = SCREEN_COLS
      BY Values
    <2> QED
      BY <2>1, CopyIs
  <1>2. rows_up(mem, byte) = Erased(m, LastRow, SCREEN_SIZE, byte)
    <2>1. /\ LastRow \in Nat /\ SCREEN_COLS \in Nat /\ LastRow + SCREEN_COLS <= Words
      BY Values
    <2> HIDE DEF m
    <2>2. fill(m, LastRow, byte, SCREEN_COLS)
             = Erased(m, LastRow, LastRow + SCREEN_COLS, byte)
      BY <2>1, FillIs
    <2> QED
      BY <2>2, Values DEF rows_up, m
  <1> HIDE DEF m
  <1>3. ASSUME NEW i \in Word
        PROVE  Erased(m, LastRow, SCREEN_SIZE, byte)[i] = Raised(mem, 0, byte)[i]
    <2>1. i \in Int /\ 0 <= i
      BY Values
    <2>2. m[i] = IF i < LastRow THEN mem[i + SCREEN_COLS] ELSE mem[i]
      BY <1>1, <2>1 DEF Shifted
    <2> QED
      BY <2>1, <2>2, Values DEF Erased, Raised
  <1> QED
    BY <1>2, <1>3 DEF Erased, Raised

-----------------------------------------------------------------------------
(***************************************************************************)
(* The loop of console_delete_line.  After some rounds the rows from y to  *)
(* j - 1 have the text of the rows below them.                             *)
(***************************************************************************)
DeleteRound(r) ==
    IF r.d < LastRow
    THEN [d |-> (r.d + SCREEN_COLS) % Words,
          m |-> copy(r.m, r.d, (r.d + SCREEN_COLS) % Words, SCREEN_COLS)]
    ELSE r

Deleting(mem, y, j) ==
    [d |-> Row(j), m |-> Shifted(mem, Row(y), Row(j), SCREEN_COLS)]

LEMMA DeleteRoundIs ==
    ASSUME NEW mem, NEW y \in 0 .. SCREEN_ROWS - 1, NEW j \in y .. SCREEN_ROWS - 1
    PROVE  DeleteRound(Deleting(mem, y, j))
             = Deleting(mem, y, IF j < SCREEN_ROWS - 1 THEN j + 1 ELSE j)
  <1> DEFINE r == Deleting(mem, y, j)
             d == Row(j)
  <1>1. /\ j \in Int /\ y \in Int /\ j \in 0 .. SCREEN_ROWS - 1 /\ y <= j
        /\ d \in Int /\ 0 <= d /\ d < Words
    BY Values, RowOnPage
  <1>2. r.d = d /\ r.m = Shifted(mem, Row(y), d, SCREEN_COLS)
    BY DEF Deleting
  <1>3. Row(y) \in Int /\ Row(y) <= d
    <2>1. y < j => Row(y) + SCREEN_COLS <= d
      BY <1>1, RowsAscend
    <2>2. y = j => Row(y) = d
      OBVIOUS
    <2>3. Row(y) \in Int
      BY <1>1, NextRow
    <2> HIDE DEF d
    <2> QED
      BY <1>1, <2>1, <2>2, <2>3, Values
  <1>4. CASE j = SCREEN_ROWS - 1
    <2>1. d = LastRow
      BY <1>1, <1>4, RowOnPage
    <2> QED
      BY <1>2, <1>4, <2>1, Values DEF DeleteRound
  <1>5. CASE j < SCREEN_ROWS - 1
    <2>1. d + SCREEN_COLS <= LastRow /\ d < LastRow
      BY <1>1, <1>5, RowOnPage, Values
    <2>2. Row(j + 1) = d + SCREEN_COLS
      BY <1>1, NextRow
    <2>3. (d + SCREEN_COLS) % Words = d + SCREEN_COLS
      <3> DEFINE k == d + SCREEN_COLS
      <3>1. k \in -Words .. Words - 1 /\ k >= 0
        BY <1>1, <2>1, Values
      <3> HIDE DEF k
      <3>2. k % Words = k
        BY <3>1, WrapIs
      <3> QED
        BY <3>2 DEF k
    <2>4. copy(r.m, d, d + SCREEN_COLS, SCREEN_COLS)
            = Shifted(r.m, d, d + SCREEN_COLS, SCREEN_COLS)
      <3> DEFINE e == d + SCREEN_COLS
      <3>1. /\ d \in Nat /\ e \in Nat /\ SCREEN_COLS \in Nat
            /\ d + SCREEN_COLS <= Words /\ e + SCREEN_COLS <= Words
            /\ e - d = SCREEN_COLS
        BY <1>1, <2>1, Values
      <3> HIDE DEF d, e, r
      <3>2. copy(r.m, d, e, SCREEN_COLS) = Shifted(r.m, d, d + SCREEN_COLS, e - d)
        BY <3>1, CopyIs
      <3> QED
        BY <3>1, <3>2 DEF e
    <2>5. Shifted(r.m, d, d + SCREEN_COLS, SCREEN_COLS)
            = Shifted(mem, Row(y), d + SCREEN_COLS, SCREEN_COLS)
      <3> HIDE DEF d, r
      <3>1. ASSUME NEW i \in Word
            PROVE  (IF d <= i /\ i < d + SCREEN_COLS THEN r.m[i + SCREEN_COLS] ELSE r.m[i])
                     = IF Row(y) <= i /\ i < d + SCREEN_COLS THEN mem[i + SCREEN_COLS]
                       ELSE mem[i]
        <4>1. i \in Int
          BY Values
        <4>2. r.m[i] = IF Row(y) <= i /\ i < d THEN mem[i + SCREEN_COLS] ELSE mem[i]
          BY <1>2 DEF Shifted
        <4>3. CASE d <= i /\ i < d + SCREEN_COLS
          <5>1. i + SCREEN_COLS \in Word /\ ~(i + SCREEN_COLS < d)
            BY <1>1, <2>1, <4>1, <4>3, Values
          <5>2. r.m[i + SCREEN_COLS] = mem[i + SCREEN_COLS]
            BY <1>2, <5>1 DEF Shifted
          <5> QED
            BY <1>1, <1>3, <4>1, <4>3, <5>2, Values
        <4>4. CASE ~(d <= i /\ i < d + SCREEN_COLS)
          BY <1>1, <1>3, <4>1, <4>2, <4>4, Values
        <4> QED
          BY <4>3, <4>4
      <3> QED
        BY <3>1 DEF Shifted
    <2>6. DeleteRound(r) = [d |-> d + SCREEN_COLS,
                            m |-> Shifted(mem, Row(y), d + SCREEN_COLS, SCREEN_COLS)]
      <3> HIDE DEF d, r
      <3> QED
        BY <1>2, <2>1, <2>3, <2>4, <2>5 DEF DeleteRound
    <2> QED
      BY <1>5, <2>2, <2>6 DEF Deleting
  <1> QED
    BY <1>1, <1>4, <1>5, Values

LEMMA DeleteLoopIs ==
    ASSUME NEW V, NEW mem \in [Word -> V], NEW y \in 0 .. SCREEN_ROWS - 1
    PROVE  DeleteLoop(mem, Row(y)) = Shifted(mem, Row(y), LastRow, SCREEN_COLS)
  <1> DEFINE first == [d |-> Row(y), m |-> mem]
             round[k \in 0 .. SCREEN_ROWS] ==
                 IF k = 0 THEN first ELSE DeleteRound(round[k - 1])
             at(k) == IF y + k < SCREEN_ROWS - 1 THEN y + k ELSE SCREEN_ROWS - 1
             seen == [k \in 0 .. SCREEN_ROWS |-> Deleting(mem, y, at(k))]
  <1>1. DeleteLoop(mem, Row(y)) = round[SCREEN_ROWS].m
    BY DEF DeleteLoop, DeleteRound
  <1>2. y \in Int /\ 0 <= y /\ y <= SCREEN_ROWS - 1 /\ SCREEN_ROWS \in Nat
    BY Values
  <1>3. seen[0] = first
    <2>1. at(0) = y
      BY <1>2
    <2>2. Shifted(mem, Row(y), Row(y), SCREEN_COLS) = mem
      <3>1. ASSUME NEW i \in Word
            PROVE  ~(Row(y) <= i /\ i < Row(y))
        <4>1. i \in Int /\ Row(y) \in Int
          BY <1>2, NextRow, Values
        <4> QED
          BY <4>1
      <3> QED
        BY <3>1 DEF Shifted
    <2>3. seen[0] = Deleting(mem, y, at(0))
      BY <1>2
    <2> HIDE DEF at, seen
    <2> QED
      BY <2>1, <2>2, <2>3 DEF Deleting
  <1>4. ASSUME NEW k \in 1 .. SCREEN_ROWS
        PROVE  seen[k] = DeleteRound(seen[k - 1])
    <2>1. at(k - 1) \in y .. SCREEN_ROWS - 1
      BY <1>2
    <2>2. at(k) = IF at(k - 1) < SCREEN_ROWS - 1 THEN at(k - 1) + 1 ELSE at(k - 1)
      BY <1>2
    <2>3. k - 1 \in 0 .. SCREEN_ROWS /\ k \in 0 .. SCREEN_ROWS
      BY <1>2
    <2> HIDE DEF at
    <2> QED
      BY <2>1, <2>2, <2>3, DeleteRoundIs
  <1>5. round = [k \in 0 .. SCREEN_ROWS |->
                    IF k = 0 THEN first ELSE DeleteRound(round[k - 1])]
    <2>1. seen = [k \in 0 .. SCREEN_ROWS |->
                     IF k = 0 THEN first ELSE DeleteRound(seen[k - 1])]
      <3>1. ASSUME NEW k \in 0 .. SCREEN_ROWS
            PROVE  seen[k] = IF k = 0 THEN first ELSE DeleteRound(seen[k - 1])
        <4>1. k # 0 => k \in 1 .. SCREEN_ROWS
          BY <1>2
        <4> HIDE DEF seen
        <4> QED
          BY <1>3, <1>4, <4>1
      <3>2. seen = [k \in 0 .. SCREEN_ROWS |-> seen[k]]
        OBVIOUS
      <3> HIDE DEF seen
      <3> QED
        BY <3>1, <3>2
    <2>2. \E f : f = [k \in 0 .. SCREEN_ROWS |->
                         IF k = 0 THEN first ELSE DeleteRound(f[k - 1])]
      BY <2>1
    <2> QED
      BY <2>2
  <1> HIDE DEF round, seen, first
  <1>6. \A k \in 0 .. SCREEN_ROWS : round[k] = seen[k]
    <2>1. round[0] = seen[0]
      BY <1>2, <1>3, <1>5
    <2>2. \A k \in 1 .. SCREEN_ROWS :
             round[k - 1] = seen[k - 1] => round[k] = seen[k]
      BY <1>2, <1>4, <1>5
    <2> HIDE DEF at
    <2> DEFINE n == SCREEN_ROWS
    <2>3. /\ n \in Nat /\ round[0] = seen[0]
          /\ \A k \in 1 .. n : round[k - 1] = seen[k - 1] => round[k] = seen[k]
      BY <1>2, <2>1, <2>2
    <2>4. PICK f, g : f = round /\ g = seen
      OBVIOUS
    <2>5. /\ n \in Nat /\ f[0] = g[0]
          /\ \A k \in 1 .. n : f[k - 1] = g[k - 1] => f[k] = g[k]
      BY <2>3, <2>4
    <2> HIDE DEF n
    <2>6. \A k \in 0 .. n : f[k] = g[k]
      BY ONLY <2>5, SameRounds
    <2> QED
      BY <2>4, <2>6 DEF n
  <1>7. seen[SCREEN_ROWS] = Deleting(mem, y, SCREEN_ROWS - 1)
    BY <1>2 DEF seen
  <1> QED
    BY <1>1, <1>2, <1>6, <1>7, Values DEF Deleting

-----------------------------------------------------------------------------
(***************************************************************************)
(* The loop of console_insert_line, which counts rows down and may leave   *)
(* the page at its top: s then wraps.  After some rounds the rows from     *)
(* j + 2 down have the text of the rows above them.                        *)
(***************************************************************************)
InsertRound(r, row) ==
    IF r.s >= row /\ r.s <= LastRow - SCREEN_COLS
    THEN [s |-> (r.s - SCREEN_COLS) % Words,
          m |-> copy(r.m, (r.s + SCREEN_COLS) % Words, r.s, SCREEN_COLS)]
    ELSE r

Sunk(mem, j) == Shifted(mem, Row(j + 2), SCREEN_SIZE, -SCREEN_COLS)

Inserting(mem, j) ==
    [s |-> IF j < 0 THEN Words - SCREEN_COLS ELSE Row(j), m |-> Sunk(mem, j)]

LEMMA InsertRoundIs ==
    ASSUME NEW mem, NEW y \in 0 .. SCREEN_ROWS - 1, NEW j \in y - 1 .. SCREEN_ROWS - 2
    PROVE  InsertRound(Inserting(mem, j), Row(y))
             = Inserting(mem, IF j >= y THEN j - 1 ELSE j)
  <1> DEFINE r == Inserting(mem, j)
             s == Row(j)
  <1>1. j \in Int /\ y \in Int /\ y >= 0 /\ s \in Int /\ Row(y) \in Int /\ Row(y) >= 0
    <2>1. j \in Int /\ y \in Int /\ y >= 0 /\ Row(y) \in Word
      BY Values, RowOnPage
    <2> QED
      BY <2>1, NextRow, Values
  <1>2. Row(j + 1) = s + SCREEN_COLS /\ Row(j + 2) = s + SCREEN_COLS + SCREEN_COLS
        /\ Row(j - 1) = s - SCREEN_COLS
    <2>1. Row((j + 1) + 1) = Row(j + 1) + SCREEN_COLS /\ (j + 1) + 1 = j + 2
      BY <1>1, NextRow
    <2>2. Row(j + 1) = Row(j) + SCREEN_COLS /\ Row(j - 1) = Row(j) - SCREEN_COLS
      BY <1>1, NextRow
    <2> QED
      BY <2>1, <2>2
  <1>3. r.s = (IF j < 0 THEN Words - SCREEN_COLS ELSE s) /\ r.m = Sunk(mem, j)
    BY DEF Inserting
  <1>4. CASE j < y
    <2>1. j = y - 1
      BY <1>1, <1>4
    <2>2. CASE j < 0
      BY <1>1, <1>3, <1>4, <2>2, Values DEF InsertRound
    <2>3. CASE j >= 0
      <3>1. s + SCREEN_COLS = Row(y)
        BY <1>1, <1>2, <2>1
      <3>2. ~(r.s >= Row(y))
        <4> HIDE DEF r, s
        <4> QED
          BY <1>1, <1>3, <2>3, <3>1, Values
      <3> QED
        BY <1>1, <1>4, <3>2 DEF InsertRound
    <2> QED
      BY <1>1, <2>2, <2>3
  <1>5. CASE j >= y
    <2>1. j \in 0 .. SCREEN_ROWS - 1 /\ j < SCREEN_ROWS - 1
      BY <1>1, <1>5, Values
    <2>2. s >= 0 /\ s + SCREEN_COLS <= LastRow
      BY <1>1, <2>1, RowOnPage, Values
    <2>3. Row(y) <= s
      <3>1. y < j => Row(y) + SCREEN_COLS <= s
        BY <1>1, RowsAscend
      <3>2. y = j => Row(y) = s
        OBVIOUS
      <3> HIDE DEF s
      <3> QED
        BY <1>1, <1>5, <3>1, <3>2, Values
    <2>4. (s + SCREEN_COLS) % Words = s + SCREEN_COLS
          /\ (s - SCREEN_COLS) % Words = IF j = 0 THEN Words - SCREEN_COLS
                                         ELSE s - SCREEN_COLS
      <3> DEFINE k == s + SCREEN_COLS
                 l == s - SCREEN_COLS
      <3>1. k \in -Words .. Words - 1 /\ k >= 0 /\ l \in -Words .. Words - 1
        BY <1>1, <2>2, Values
      <3>2. /\ (j = 0 => s = 0) /\ (j > 0 => s >= SCREEN_COLS)
        BY <2>1, RowOnPage
      <3>3. (j = 0 => l + Words = Words - SCREEN_COLS /\ l < 0) /\ (j # 0 => l >= 0)
        BY <1>1, <2>1, <3>2, Values
      <3> HIDE DEF k, l, s
      <3>4. k % Words = k /\ l % Words = IF j = 0 THEN Words - SCREEN_COLS ELSE l
        <4>1. k % Words = k
          BY <3>1, WrapIs
        <4>2. l % Words = IF l < 0 THEN l + Words ELSE l
          BY <3>1, WrapIs
        <4>3. l \in Int /\ j \in Int
          BY <1>1, <3>1, Values
        <4>4. CASE j = 0
          BY <3>3, <4>1, <4>2, <4>4
        <4>5. CASE j # 0
          <5>1. ~(l < 0)
            BY <3>3, <4>3, <4>5
          <5> QED
            BY <4>1, <4>2, <4>5, <5>1
        <4> QED
          BY <4>4, <4>5
      <3> QED
        BY <3>4 DEF k, l
    <2>5. copy(r.m, s + SCREEN_COLS, s, SCREEN_COLS)
            = Shifted(r.m, s + SCREEN_COLS, s + SCREEN_COLS + SCREEN_COLS, -SCREEN_COLS)
      <3> DEFINE e == s + SCREEN_COLS
      <3>1. /\ s \in Nat /\ e \in Nat /\ SCREEN_COLS \in Nat
            /\ s + SCREEN_COLS <= Words /\ e + SCREEN_COLS <= Words
            /\ s - e = -SCREEN_COLS
        BY <1>1, <2>2, Values
      <3> HIDE DEF s, e, r
      <3>2. copy(r.m, e, s, SCREEN_COLS) = Shifted(r.m, e, e + SCREEN_COLS, s - e)
        BY <3>1, CopyIs
      <3> QED
        BY <3>1, <3>2 DEF e
    <2>6. Shifted(r.m, s + SCREEN_COLS, s + SCREEN_COLS + SCREEN_COLS, -SCREEN_COLS)
            = Sunk(mem, j - 1)
      <3> DEFINE e == s + SCREEN_COLS
                 f == s + SCREEN_COLS + SCREEN_COLS
      <3>1. r.m = Shifted(mem, f, SCREEN_SIZE, -SCREEN_COLS)
        BY <1>2, <1>3 DEF Sunk
      <3>2. Sunk(mem, j - 1) = Shifted(mem, e, SCREEN_SIZE, -SCREEN_COLS)
        <4>1. (j - 1) + 2 = j + 1
          BY <1>1
        <4> QED
          BY <1>2, <4>1 DEF Sunk
      <3>3. e \in Int /\ f \in Int /\ f = e + SCREEN_COLS /\ e >= SCREEN_COLS
            /\ f <= SCREEN_SIZE
        BY <1>1, <2>2, Values
      <3> HIDE DEF s, e, f, r
      <3>4. ASSUME NEW i \in Word
            PROVE  (IF e <= i /\ i < f THEN r.m[i + (-SCREEN_COLS)] ELSE r.m[i])
                     = IF e <= i /\ i < SCREEN_SIZE THEN mem[i + (-SCREEN_COLS)] ELSE mem[i]
        <4>1. i \in Int
          BY Values
        <4>2. r.m[i] = IF f <= i /\ i < SCREEN_SIZE THEN mem[i + (-SCREEN_COLS)] ELSE mem[i]
          BY <3>1 DEF Shifted
        <4>3. CASE e <= i /\ i < f
          <5>1. i + (-SCREEN_COLS) \in Word /\ ~(f <= i + (-SCREEN_COLS))
            BY <3>3, <4>1, <4>3, Values
          <5>2. r.m[i + (-SCREEN_COLS)] = mem[i + (-SCREEN_COLS)]
            BY <3>1, <5>1 DEF Shifted
          <5> QED
            BY <3>3, <4>1, <4>3, <5>2, Values
        <4>4. CASE ~(e <= i /\ i < f)
          BY <3>3, <4>1, <4>2, <4>4, Values
        <4> QED
          BY <4>3, <4>4
      <3>5. Shifted(r.m, e, f, -SCREEN_COLS) = Shifted(mem, e, SCREEN_SIZE, -SCREEN_COLS)
        BY <3>4 DEF Shifted
      <3> QED
        BY <3>2, <3>5 DEF e, f
    <2>7. InsertRound(r, Row(y))
            = [s |-> (s - SCREEN_COLS) % Words, m |-> Sunk(mem, j - 1)]
      <3>1. r.s = s /\ s >= Row(y) /\ s <= LastRow - SCREEN_COLS
        BY <1>1, <1>3, <2>1, <2>2, <2>3, Values
      <3> HIDE DEF r, s
      <3> QED
        BY <3>1, <2>4, <2>5, <2>6 DEF InsertRound
    <2>8. Inserting(mem, j - 1) = [s |-> (s - SCREEN_COLS) % Words, m |-> Sunk(mem, j - 1)]
      <3>1. j - 1 < 0 <=> j = 0
        BY <2>1
      <3> HIDE DEF s
      <3> QED
        BY <1>2, <2>4, <3>1 DEF Inserting
    <2> QED
      BY <1>5, <2>7, <2>8
  <1> QED
    BY <1>1, <1>4, <1>5

LEMMA InsertLoopIs ==
    ASSUME NEW V, NEW mem \in [Word -> V], NEW y \in 0 .. SCREEN_ROWS - 1
    PROVE  InsertLoop(mem, Row(y))
             = Shifted(mem, Row(y) + SCREEN_COLS, SCREEN_SIZE, -SCREEN_COLS)
  <1> DEFINE first == [s |-> LastRow - SCREEN_COLS, m |-> mem]
             round[k \in 0 .. SCREEN_ROWS] ==
                 IF k = 0 THEN first ELSE InsertRound(round[k - 1], Row(y))
             at(k) == IF SCREEN_ROWS - 2 - k >= y THEN SCREEN_ROWS - 2 - k ELSE y - 1
             seen == [k \in 0 .. SCREEN_ROWS |-> Inserting(mem, at(k))]
  <1>1. InsertLoop(mem, Row(y)) = round[SCREEN_ROWS].m
    BY DEF InsertLoop, InsertRound
  <1>2. y \in Int /\ 0 <= y /\ y <= SCREEN_ROWS - 1 /\ SCREEN_ROWS \in Nat /\ SCREEN_ROWS >= 2
    BY Values
  <1>3. seen[0] = first
    <2>1. at(0) = SCREEN_ROWS - 2
      BY <1>2
    <2>2. Row(SCREEN_ROWS - 2) = LastRow - SCREEN_COLS /\ ~(SCREEN_ROWS - 2 < 0)
      <3>1. SCREEN_ROWS - 2 \in Int /\ (SCREEN_ROWS - 2) + 1 = SCREEN_ROWS - 1
        BY <1>2
      <3>2. Row((SCREEN_ROWS - 2) + 1) = Row(SCREEN_ROWS - 2) + SCREEN_COLS
            /\ Row(SCREEN_ROWS - 2) \in Int
        BY <3>1, NextRow
      <3> QED
        BY <1>2, <3>1, <3>2, Values
    <2>3. Sunk(mem, SCREEN_ROWS - 2) = mem
      <3>1. (SCREEN_ROWS - 2) + 2 = SCREEN_ROWS
        BY <1>2
      <3>2. ASSUME NEW i \in Word
            PROVE  ~(Row(SCREEN_ROWS) <= i /\ i < SCREEN_SIZE)
        BY Values
      <3> QED
        BY <3>1, <3>2 DEF Sunk, Shifted
    <2>4. seen[0] = Inserting(mem, at(0))
      BY <1>2
    <2> HIDE DEF at, seen
    <2> QED
      BY <2>1, <2>2, <2>3, <2>4 DEF Inserting
  <1>4. ASSUME NEW k \in 1 .. SCREEN_ROWS
        PROVE  seen[k] = InsertRound(seen[k - 1], Row(y))
    <2>1. at(k - 1) \in y - 1 .. SCREEN_ROWS - 2
      BY <1>2
    <2>2. at(k) = IF at(k - 1) >= y THEN at(k - 1) - 1 ELSE at(k - 1)
      BY <1>2
    <2>3. k - 1 \in 0 .. SCREEN_ROWS /\ k \in 0 .. SCREEN_ROWS
      BY <1>2
    <2> HIDE DEF at
    <2> QED
      BY <2>1, <2>2, <2>3, InsertRoundIs
  <1>5. round = [k \in 0 .. SCREEN_ROWS |->
                    IF k = 0 THEN first ELSE InsertRound(round[k - 1], Row(y))]
    <2>1. seen = [k \in 0 .. SCREEN_ROWS |->
                     IF k = 0 THEN first ELSE InsertRound(seen[k - 1], Row(y))]
      <3>1. ASSUME NEW k \in 0 .. SCREEN_ROWS
            PROVE  seen[k] = IF k = 0 THEN first ELSE InsertRound(seen[k - 1], Row(y))
        <4>1. k # 0 => k \in 1 .. SCREEN_ROWS
          BY <1>2
        <4> HIDE DEF seen
        <4> QED
          BY <1>3, <1>4, <4>1
      <3>2. seen = [k \in 0 .. SCREEN_ROWS |-> seen[k]]
        OBVIOUS
      <3> HIDE DEF seen
      <3> QED
        BY <3>1, <3>2
    <2>2. \E f : f = [k \in 0 .. SCREEN_ROWS |->
                         IF k = 0 THEN first ELSE InsertRound(f[k - 1], Row(y))]
      BY <2>1
    <2> QED
      BY <2>2
  <1> HIDE DEF round, seen, first
  <1>6. \A k \in 0 .. SCREEN_ROWS : round[k] = seen[k]
    <2>1. round[0] = seen[0]
      BY <1>2, <1>3, <1>5
    <2>2. \A k \in 1 .. SCREEN_ROWS :
             round[k - 1] = seen[k - 1] => round[k] = seen[k]
      BY <1>2, <1>4, <1>5
    <2> HIDE DEF at
    <2> DEFINE n == SCREEN_ROWS
    <2>3. PICK f, g : f = round /\ g = seen
      OBVIOUS
    <2>4. /\ n \in Nat /\ f[0] = g[0]
          /\ \A k \in 1 .. n : f[k - 1] = g[k - 1] => f[k] = g[k]
      BY <1>2, <2>1, <2>2, <2>3
    <2> HIDE DEF n
    <2>5. \A k \in 0 .. n : f[k] = g[k]
      BY ONLY <2>4, SameRounds
    <2> QED
      BY <2>3, <2>5 DEF n
  <1>7. seen[SCREEN_ROWS] = Inserting(mem, y - 1)
    BY <1>2 DEF seen
  <1>8. Row((y - 1) + 2) = Row(y) + SCREEN_COLS
    <2>1. (y - 1) + 2 = y + 1
      BY <1>2
    <2> QED
      BY <1>2, <2>1, NextRow
  <1> QED
    BY <1>1, <1>2, <1>6, <1>7, <1>8 DEF Inserting, Sunk

\* The whole of a line inserted or deleted, the row cleared included.
LEMMA InsertedIs ==
    ASSUME NEW V, NEW mem \in [Word -> V], NEW byte, NEW y \in 0 .. SCREEN_ROWS - 1
    PROVE  fill(InsertLoop(mem, Row(y)), Row(y), byte, SCREEN_COLS)
             = Lowered(mem, Row(y), byte)
  <1> DEFINE m == InsertLoop(mem, Row(y))
             a == Row(y)
  <1>1. a \in Nat /\ SCREEN_COLS \in Nat /\ a + SCREEN_COLS <= Words
        /\ a + SCREEN_COLS <= SCREEN_SIZE
    BY RowOnPage, Values
  <1>2. m = Shifted(mem, a + SCREEN_COLS, SCREEN_SIZE, -SCREEN_COLS)
    BY InsertLoopIs
  <1> HIDE DEF m, a
  <1>3. fill(m, a, byte, SCREEN_COLS) = Erased(m, a, a + SCREEN_COLS, byte)
    BY <1>1, FillIs
  <1>4. ASSUME NEW i \in Word
        PROVE  Erased(m, a, a + SCREEN_COLS, byte)[i] = Lowered(mem, a, byte)[i]
    <2>1. i \in Int /\ 0 <= i /\ i + (-SCREEN_COLS) = i - SCREEN_COLS
      BY Values
    <2>2. m[i] = IF a + SCREEN_COLS <= i /\ i < SCREEN_SIZE THEN mem[i - SCREEN_COLS]
                 ELSE mem[i]
      BY <1>2, <2>1 DEF Shifted
    <2> QED
      BY <1>1, <2>1, <2>2, Values DEF Erased, Lowered
  <1> QED
    BY <1>3, <1>4 DEF Erased, Lowered, m, a

LEMMA DeletedIs ==
    ASSUME NEW V, NEW mem \in [Word -> V], NEW byte, NEW y \in 0 .. SCREEN_ROWS - 1
    PROVE  fill(DeleteLoop(mem, Row(y)), LastRow, byte, SCREEN_COLS)
             = Raised(mem, Row(y), byte)
  <1> DEFINE m == DeleteLoop(mem, Row(y))
             a == Row(y)
  <1>1. a \in Nat /\ SCREEN_COLS \in Nat /\ LastRow \in Nat
        /\ LastRow + SCREEN_COLS <= Words /\ a <= LastRow
    BY RowOnPage, Values
  <1>2. m = Shifted(mem, a, LastRow, SCREEN_COLS)
    BY DeleteLoopIs
  <1> HIDE DEF m, a
  <1>3. fill(m, LastRow, byte, SCREEN_COLS) = Erased(m, LastRow, LastRow + SCREEN_COLS, byte)
    BY <1>1, FillIs
  <1>4. ASSUME NEW i \in Word
        PROVE  Erased(m, LastRow, LastRow + SCREEN_COLS, byte)[i] = Raised(mem, a, byte)[i]
    <2>1. i \in Int /\ 0 <= i
      BY Values
    <2>2. m[i] = IF a <= i /\ i < LastRow THEN mem[i + SCREEN_COLS] ELSE mem[i]
      BY <1>2, <2>1 DEF Shifted
    <2> QED
      BY <1>1, <2>1, <2>2, Values DEF Erased, Raised
  <1> QED
    BY <1>3, <1>4 DEF Erased, Raised, m, a

-----------------------------------------------------------------------------
(***************************************************************************)
(* Memory with a page in it, and the states the driver is in.              *)
(***************************************************************************)
Memory(V) ==
    {mem \in [Word -> V \cup {Other}] :
        \A i \in Word : IF i < SCREEN_SIZE THEN mem[i] \in V ELSE mem[i] = Other}

\* What the bitmap may hold: nothing before background mode is first used.
Bits(flag) == IF flag = "off" THEN {0} ELSE {0, 1}

\* The page has characters on it, and marks once there may be any.
PageKept ==
    \A i \in 0 .. SCREEN_SIZE - 1 :
        con.display[i] \in Char /\ con.bgmap[i] \in Bits(con.bg_flag)

IInv == TypeOK /\ RowOffset /\ GuardUntouched /\ PageKept

\* The same for any console, those between two steps of one included.
Console_t ==
    [display : Memory(Char), bgmap : [Word -> {0, 1, Other}],
     bg_flag : {"off", "foreground", "background"},
     curx : 0 .. SCREEN_COLS - 1, cursy : 0 .. SCREEN_ROWS - 1,
     cury : Word, xflg : {"normal", "byte1", "byte2"},
     adr0 : 0 .. 255, adrmod : {0, 1}]

Sound ==
    {c \in Console_t : c.bgmap \in Memory(Bits(c.bg_flag)) /\ c.cury = Row(c.cursy)}

LEMMA SoundMeans ==
    IInv <=> con \in Sound
  <1>1. \A i \in Word : i \in Int /\ (i < SCREEN_SIZE <=> i \in 0 .. SCREEN_SIZE - 1)
    BY Values
  <1>2. 0 .. SCREEN_SIZE - 1 \subseteq Word
    BY Values
  <1>3. Bits(con.bg_flag) \subseteq {0, 1}
    BY DEF Bits
  <1>4. ASSUME IInv
        PROVE  con \in Sound
    <2>1. con.display \in Memory(Char)
      <3>1. /\ con.display \in [Word -> Char \cup {Other}]
            /\ \A i \in 0 .. SCREEN_SIZE - 1 : con.display[i] \in Char
            /\ \A i \in Word \ (0 .. SCREEN_SIZE - 1) : con.display[i] = Other
        BY <1>4 DEF IInv, TypeOK, PageKept, GuardUntouched
      <3> QED
        BY <3>1, <1>1 DEF Memory
    <2>2. con.bgmap \in Memory(Bits(con.bg_flag))
      <3> DEFINE V == Bits(con.bg_flag)
      <3>1. /\ con.bgmap \in [Word -> {0, 1, Other}]
            /\ \A i \in 0 .. SCREEN_SIZE - 1 : con.bgmap[i] \in V
            /\ \A i \in Word \ (0 .. SCREEN_SIZE - 1) : con.bgmap[i] = Other
        BY <1>4 DEF IInv, TypeOK, PageKept, GuardUntouched
      <3> HIDE DEF V
      <3>2. con.bgmap \in [Word -> V \cup {Other}]
        BY <3>1, <1>1
      <3>3. \A i \in Word : IF i < SCREEN_SIZE THEN con.bgmap[i] \in V
                             ELSE con.bgmap[i] = Other
        BY <3>1, <1>1
      <3>4. con.bgmap \in Memory(V)
        BY <3>2, <3>3 DEF Memory
      <3> QED
        BY <3>4 DEF V
    <2>3. con.cury = Row(con.cursy)
      BY <1>4 DEF IInv, RowOffset, Row
    <2>4. con \in Console_t
      <3> HIDE DEF Memory
      <3> QED
        BY <1>4, <2>1 DEF IInv, TypeOK, Console_t
    <2> QED
      BY <2>2, <2>3, <2>4 DEF Sound
  <1>5. ASSUME con \in Sound
        PROVE  IInv
    <2>1. con \in Console_t /\ con.display \in Memory(Char)
          /\ con.bgmap \in Memory(Bits(con.bg_flag)) /\ con.cury = Row(con.cursy)
      BY <1>5 DEF Sound, Console_t
    <2>2. con.display \in [Word -> Char \cup {Other}]
      BY <2>1 DEF Memory
    <2>3. TypeOK
      BY <2>1, <2>2 DEF Console_t, TypeOK
    <2>4. RowOffset
      BY <2>1 DEF RowOffset, Row
    <2>5. GuardUntouched
      BY <1>1, <2>1 DEF Memory, GuardUntouched
    <2>6. PageKept
      BY <1>1, <1>2, <2>1 DEF Memory, PageKept
    <2> QED
      BY <2>3, <2>4, <2>5, <2>6 DEF IInv
  <1> QED
    BY <1>4, <1>5

LEMMA SoundFields ==
    ASSUME NEW c \in Sound
    PROVE  /\ c \in Console_t
           /\ c.display \in Memory(Char) /\ c.bgmap \in Memory(Bits(c.bg_flag))
           /\ c.bgmap \in [Word -> {0, 1, Other}]
           /\ c.curx \in 0 .. SCREEN_COLS - 1 /\ c.cursy \in 0 .. SCREEN_ROWS - 1
           /\ c.cury = Row(c.cursy) /\ c.bg_flag \in {"off", "foreground", "background"}
           /\ c.xflg \in {"normal", "byte1", "byte2"}
           /\ c.adr0 \in 0 .. 255 /\ c.adrmod \in {0, 1}
  BY DEF Sound, Console_t

LEMMA Outer ==
    ASSUME NEW V, NEW mem \in Memory(V)
    PROVE  mem \in [Word -> V \cup {Other}]
  BY DEF Memory

LEMMA AnyBits ==
    ASSUME NEW flag, NEW mem \in Memory(Bits(flag))
    PROVE  mem \in [Word -> {0, 1, Other}]
  BY DEF Memory, Bits

LEMMA ErasedKept ==
    ASSUME NEW V, NEW mem \in Memory(V), NEW a \in Int, NEW b \in Int,
           0 <= a, b <= SCREEN_SIZE, NEW byte \in V
    PROVE  Erased(mem, a, b, byte) \in Memory(V)
  <1>1. \A i \in Word : i \in Int /\ (i < b => i < SCREEN_SIZE)
    BY Values
  <1> QED
    BY <1>1 DEF Memory, Erased

LEMMA RaisedKept ==
    ASSUME NEW V, NEW mem \in Memory(V), NEW a \in Nat, NEW byte \in V
    PROVE  Raised(mem, a, byte) \in Memory(V)
  <1>1. ASSUME NEW i \in Word, i < LastRow
        PROVE  i + SCREEN_COLS \in Word /\ i + SCREEN_COLS < SCREEN_SIZE
    BY <1>1, Values
  <1>2. ASSUME NEW i \in Word
        PROVE  Raised(mem, a, byte)[i] \in V \cup {Other}
               /\ IF i < SCREEN_SIZE THEN Raised(mem, a, byte)[i] \in V
                  ELSE Raised(mem, a, byte)[i] = Other
    BY <1>1, Values DEF Memory, Raised
  <1>3. Raised(mem, a, byte) = [i \in Word |-> Raised(mem, a, byte)[i]]
    BY DEF Raised
  <1> QED
    BY <1>2, <1>3 DEF Memory

LEMMA LoweredKept ==
    ASSUME NEW V, NEW mem \in Memory(V), NEW a \in Nat, NEW byte \in V
    PROVE  Lowered(mem, a, byte) \in Memory(V)
  <1>1. ASSUME NEW i \in Word, i >= a + SCREEN_COLS, i < SCREEN_SIZE
        PROVE  i - SCREEN_COLS \in Word /\ i - SCREEN_COLS < SCREEN_SIZE
    BY <1>1, Values
  <1>2. ASSUME NEW i \in Word
        PROVE  Lowered(mem, a, byte)[i] \in V \cup {Other}
               /\ IF i < SCREEN_SIZE THEN Lowered(mem, a, byte)[i] \in V
                  ELSE Lowered(mem, a, byte)[i] = Other
    BY <1>1, Values DEF Memory, Lowered
  <1>3. Lowered(mem, a, byte) = [i \in Word |-> Lowered(mem, a, byte)[i]]
    BY DEF Lowered
  <1> QED
    BY <1>2, <1>3 DEF Memory

\* A bitmap without marks is the same after any move of its rows.
LEMMA Unmarked ==
    ASSUME NEW mem \in Memory({0}), NEW a \in Nat
    PROVE  Raised(mem, a, 0) = mem /\ Lowered(mem, a, 0) = mem
  <1>1. ASSUME NEW n \in Memory({0})
        PROVE  n = mem
    <2>1. \A i \in Word : n[i] = mem[i]
      BY DEF Memory
    <2>2. n \in [Word -> {0} \cup {Other}] /\ mem \in [Word -> {0} \cup {Other}]
      BY DEF Memory
    <2> QED
      BY <2>1, <2>2
  <1>2. Raised(mem, a, 0) \in Memory({0}) /\ Lowered(mem, a, 0) \in Memory({0})
    BY RaisedKept, LoweredKept
  <1> QED
    BY <1>1, <1>2

-----------------------------------------------------------------------------
(***************************************************************************)
(* What each function of the driver leads to: a sound console again, with  *)
(* this text and this bitmap, the cursor here, and all else as it was.     *)
(***************************************************************************)
Leads(c, d, t, b, x, y) ==
    /\ d \in Sound
    /\ d.display = t /\ d.bgmap = b /\ d.curx = x /\ d.cursy = y
    /\ d.bg_flag = c.bg_flag /\ d.xflg = c.xflg
    /\ d.adr0 = c.adr0 /\ d.adrmod = c.adrmod

LEMMA LeadsIf ==
    ASSUME NEW c \in Sound, NEW t \in Memory(Char), NEW b \in Memory(Bits(c.bg_flag)),
           NEW x \in 0 .. SCREEN_COLS - 1, NEW y \in 0 .. SCREEN_ROWS - 1,
           NEW d, d = [c EXCEPT !.display = t, !.bgmap = b, !.curx = x, !.cursy = y,
                                !.cury = Row(y)]
    PROVE  Leads(c, d, t, b, x, y)
  <1>1. b \in [Word -> {0, 1, Other}] /\ Row(y) \in Word
    BY AnyBits, RowOnPage
  <1>2. c \in Console_t
    BY SoundFields
  <1> HIDE DEF Memory, Bits
  <1>3. d \in Console_t
    BY <1>1, <1>2 DEF Console_t
  <1>4. /\ d.display = t /\ d.bgmap = b /\ d.curx = x /\ d.cursy = y /\ d.cury = Row(y)
        /\ d.bg_flag = c.bg_flag /\ d.xflg = c.xflg
        /\ d.adr0 = c.adr0 /\ d.adrmod = c.adrmod
    BY <1>2 DEF Console_t
  <1>5. d \in Sound
    BY <1>3, <1>4 DEF Sound
  <1> QED
    BY <1>4, <1>5 DEF Leads

LEMMA SetCursorIs ==
    ASSUME NEW c \in Sound,
           NEW x \in 0 .. SCREEN_COLS - 1, NEW y \in 0 .. SCREEN_ROWS - 1
    PROVE  Leads(c, set_cursor(c, x, y), c.display, c.bgmap, x, y)
  <1> DEFINE d == set_cursor(c, x, y)
  <1>1. c \in Console_t /\ c.display \in Memory(Char) /\ c.bgmap \in Memory(Bits(c.bg_flag))
    BY SoundFields
  <1>2. d = [c EXCEPT !.display = c.display, !.bgmap = c.bgmap, !.curx = x, !.cursy = y,
                      !.cury = Row(y)]
    BY <1>1 DEF set_cursor, Row, Console_t
  <1> QED
    BY <1>1, <1>2, LeadsIf

\* The bitmap moves with the text, or there is nothing in it to move.
LEMMA WithBgmap ==
    ASSUME NEW c \in Sound, NEW a \in Nat
    PROVE  /\ with_bgmap(c, Raised(c.bgmap, a, 0)) = Raised(c.bgmap, a, 0)
           /\ with_bgmap(c, Lowered(c.bgmap, a, 0)) = Lowered(c.bgmap, a, 0)
           /\ Raised(c.display, a, Blank) \in Memory(Char)
           /\ Lowered(c.display, a, Blank) \in Memory(Char)
           /\ Raised(c.bgmap, a, 0) \in Memory(Bits(c.bg_flag))
           /\ Lowered(c.bgmap, a, 0) \in Memory(Bits(c.bg_flag))
  <1>1. c.display \in Memory(Char) /\ c.bgmap \in Memory(Bits(c.bg_flag))
    BY SoundFields
  <1>2. 0 \in Bits(c.bg_flag) /\ Blank \in Char
    BY ConsoleAssumption DEF Bits
  <1>3. c.bg_flag = "off" => c.bgmap \in Memory({0})
    BY <1>1 DEF Bits
  <1>4. c.bg_flag = "off" => Raised(c.bgmap, a, 0) = c.bgmap /\ Lowered(c.bgmap, a, 0) = c.bgmap
    BY <1>3, Unmarked
  <1> QED
    BY <1>1, <1>2, <1>4, RaisedKept, LoweredKept DEF with_bgmap

LEMMA ScrollUpIs ==
    ASSUME NEW c \in Sound
    PROVE  Leads(c, scroll_up(c), Raised(c.display, 0, Blank), Raised(c.bgmap, 0, 0),
                 c.curx, c.cursy)
  <1> DEFINE d == scroll_up(c)
             t == Raised(c.display, 0, Blank)
             b == Raised(c.bgmap, 0, 0)
  <1>1. /\ c \in Console_t /\ c.cury = Row(c.cursy)
        /\ c.curx \in 0 .. SCREEN_COLS - 1 /\ c.cursy \in 0 .. SCREEN_ROWS - 1
    BY SoundFields
  <1>2. with_bgmap(c, b) = b /\ t \in Memory(Char) /\ b \in Memory(Bits(c.bg_flag))
    BY WithBgmap
  <1>3. rows_up(c.display, Blank) = t /\ rows_up(c.bgmap, 0) = b
    BY RowsUpIs
  <1>4. d = [c EXCEPT !.display = t, !.bgmap = b]
    BY <1>2, <1>3 DEF scroll_up
  <1> HIDE DEF t, b, d
  <1>5. d = [c EXCEPT !.display = t, !.bgmap = b, !.curx = c.curx, !.cursy = c.cursy,
                      !.cury = Row(c.cursy)]
    BY <1>1, <1>4 DEF Console_t
  <1>6. Leads(c, d, t, b, c.curx, c.cursy)
    BY <1>1, <1>2, <1>5, LeadsIf
  <1> QED
    BY <1>6 DEF t, b, d

LEMMA InsertLineIs ==
    ASSUME NEW c \in Sound
    PROVE  Leads(c, console_insert_line(c), Lowered(c.display, Row(c.cursy), Blank),
                 Lowered(c.bgmap, Row(c.cursy), 0), c.curx, c.cursy)
  <1> DEFINE a == Row(c.cursy)
             d == console_insert_line(c)
             t == Lowered(c.display, a, Blank)
             b == Lowered(c.bgmap, a, 0)
  <1>1. /\ c \in Console_t /\ c.cury = Row(c.cursy)
        /\ c.curx \in 0 .. SCREEN_COLS - 1 /\ c.cursy \in 0 .. SCREEN_ROWS - 1
        /\ c.display \in Memory(Char) /\ c.bgmap \in [Word -> {0, 1, Other}]
    BY SoundFields
  <1>2. a \in Nat
    BY <1>1, RowOnPage, Values
  <1>3. with_bgmap(c, b) = b /\ t \in Memory(Char) /\ b \in Memory(Bits(c.bg_flag))
    BY <1>2, WithBgmap
  <1>4. /\ fill(InsertLoop(c.display, a), a, Blank, SCREEN_COLS) = t
        /\ fill(InsertLoop(c.bgmap, a), a, 0, SCREEN_COLS) = b
    <2>1. c.display \in [Word -> Char \cup {Other}]
      BY <1>1, Outer
    <2>2. a = Row(c.cursy)
      OBVIOUS
    <2> QED
      BY <1>1, <2>1, <2>2, InsertedIs
  <1>5. c.cury = a /\ c.cursy * SCREEN_COLS = a
    BY <1>1 DEF Row
  <1> HIDE DEF t, b, a
  <1>6. d = [c EXCEPT !.display = t, !.bgmap = b]
    BY <1>3, <1>4, <1>5 DEF console_insert_line
  <1> HIDE DEF d
  <1>7. d = [c EXCEPT !.display = t, !.bgmap = b, !.curx = c.curx, !.cursy = c.cursy,
                      !.cury = Row(c.cursy)]
    BY <1>1, <1>6 DEF Console_t
  <1>8. Leads(c, d, t, b, c.curx, c.cursy)
    BY <1>1, <1>3, <1>7, LeadsIf
  <1> QED
    BY <1>8 DEF t, b, d, a

LEMMA DeleteLineIs ==
    ASSUME NEW c \in Sound
    PROVE  Leads(c, console_delete_line(c), Raised(c.display, Row(c.cursy), Blank),
                 Raised(c.bgmap, Row(c.cursy), 0), c.curx, c.cursy)
  <1> DEFINE a == Row(c.cursy)
             d == console_delete_line(c)
             t == Raised(c.display, a, Blank)
             b == Raised(c.bgmap, a, 0)
  <1>1. /\ c \in Console_t /\ c.cury = Row(c.cursy)
        /\ c.curx \in 0 .. SCREEN_COLS - 1 /\ c.cursy \in 0 .. SCREEN_ROWS - 1
        /\ c.display \in Memory(Char) /\ c.bgmap \in [Word -> {0, 1, Other}]
    BY SoundFields
  <1>2. a \in Nat
    BY <1>1, RowOnPage, Values
  <1>3. with_bgmap(c, b) = b /\ t \in Memory(Char) /\ b \in Memory(Bits(c.bg_flag))
    BY <1>2, WithBgmap
  <1>4. /\ fill(DeleteLoop(c.display, a), LastRow, Blank, SCREEN_COLS) = t
        /\ fill(DeleteLoop(c.bgmap, a), LastRow, 0, SCREEN_COLS) = b
    <2>1. c.display \in [Word -> Char \cup {Other}]
      BY <1>1, Outer
    <2>2. a = Row(c.cursy)
      OBVIOUS
    <2> QED
      BY <1>1, <2>1, <2>2, DeletedIs
  <1>5. c.cury = a /\ c.cursy * SCREEN_COLS = a
    BY <1>1 DEF Row
  <1> HIDE DEF t, b, a
  <1>6. d = [c EXCEPT !.display = t, !.bgmap = b]
    BY <1>3, <1>4, <1>5 DEF console_delete_line
  <1> HIDE DEF d
  <1>7. d = [c EXCEPT !.display = t, !.bgmap = b, !.curx = c.curx, !.cursy = c.cursy,
                      !.cury = Row(c.cursy)]
    BY <1>1, <1>6 DEF Console_t
  <1>8. Leads(c, d, t, b, c.curx, c.cursy)
    BY <1>1, <1>3, <1>7, LeadsIf
  <1> QED
    BY <1>8 DEF t, b, d, a

LEMMA LeftIs ==
    ASSUME NEW c \in Sound
    PROVE  Leads(c, console_cursor_left(c), c.display, c.bgmap,
                 IF c.curx > 0 THEN c.curx - 1 ELSE SCREEN_COLS - 1,
                 IF c.curx > 0 THEN c.cursy
                 ELSE IF c.cursy > 0 THEN c.cursy - 1 ELSE SCREEN_ROWS - 1)
  <1>1. /\ c \in Console_t /\ c.display \in Memory(Char)
        /\ c.bgmap \in Memory(Bits(c.bg_flag))
        /\ c.curx \in 0 .. SCREEN_COLS - 1 /\ c.cursy \in 0 .. SCREEN_ROWS - 1
    BY SoundFields
  <1>2. CASE c.curx > 0
    <2> DEFINE x == c.curx - 1
    <2>1. x \in 0 .. SCREEN_COLS - 1
      BY <1>1, <1>2, Values
    <2>2. console_cursor_left(c)
            = [c EXCEPT !.display = c.display, !.bgmap = c.bgmap, !.curx = x,
                        !.cursy = c.cursy, !.cury = Row(c.cursy)]
      BY <1>1, <1>2 DEF console_cursor_left, Row, Console_t
    <2> HIDE DEF x
    <2>3. Leads(c, console_cursor_left(c), c.display, c.bgmap, x, c.cursy)
      BY <1>1, <2>1, <2>2, LeadsIf
    <2> QED
      BY <1>2, <2>3 DEF x
  <1>3. CASE ~(c.curx > 0)
    <2> DEFINE y == IF c.cursy > 0 THEN c.cursy - 1 ELSE SCREEN_ROWS - 1
    <2>1. y \in 0 .. SCREEN_ROWS - 1 /\ SCREEN_COLS - 1 \in 0 .. SCREEN_COLS - 1
      BY <1>1, Values
    <2>2. console_cursor_left(c) = set_cursor(c, SCREEN_COLS - 1, y)
      BY <1>3 DEF console_cursor_left
    <2> HIDE DEF y
    <2>3. Leads(c, set_cursor(c, SCREEN_COLS - 1, y), c.display, c.bgmap,
                SCREEN_COLS - 1, y)
      BY <2>1, SetCursorIs
    <2> QED
      BY <1>3, <2>2, <2>3 DEF y
  <1> QED
    BY <1>2, <1>3

LEMMA UpIs ==
    ASSUME NEW c \in Sound
    PROVE  Leads(c, console_cursor_up(c), c.display, c.bgmap, c.curx,
                 IF c.cursy > 0 THEN c.cursy - 1 ELSE SCREEN_ROWS - 1)
  <1> DEFINE y == IF c.cursy > 0 THEN c.cursy - 1 ELSE SCREEN_ROWS - 1
  <1>1. c.curx \in 0 .. SCREEN_COLS - 1 /\ c.cursy \in 0 .. SCREEN_ROWS - 1
    BY SoundFields
  <1>2. y \in 0 .. SCREEN_ROWS - 1
    BY <1>1, Values
  <1> HIDE DEF y
  <1>3. Leads(c, set_cursor(c, c.curx, y), c.display, c.bgmap, c.curx, y)
    BY <1>1, <1>2, SetCursorIs
  <1> QED
    BY <1>3 DEF y, console_cursor_up

LEMMA HomeIs ==
    ASSUME NEW c \in Sound
    PROVE  /\ Leads(c, console_home(c), c.display, c.bgmap, 0, 0)
           /\ Leads(c, console_carriage_return(c), c.display, c.bgmap, 0, c.cursy)
  <1>1. /\ c.cursy \in 0 .. SCREEN_ROWS - 1
        /\ 0 \in 0 .. SCREEN_COLS - 1 /\ 0 \in 0 .. SCREEN_ROWS - 1
    BY SoundFields, Values
  <1> QED
    BY <1>1, SetCursorIs DEF console_home, console_carriage_return

LEMMA LinefeedIs ==
    ASSUME NEW c \in Sound
    PROVE  IF c.cursy < SCREEN_ROWS - 1
           THEN Leads(c, console_linefeed(c), c.display, c.bgmap, c.curx, c.cursy + 1)
           ELSE Leads(c, console_linefeed(c), Raised(c.display, 0, Blank),
                      Raised(c.bgmap, 0, 0), c.curx, c.cursy)
  <1>1. c.curx \in 0 .. SCREEN_COLS - 1 /\ c.cursy \in 0 .. SCREEN_ROWS - 1
    BY SoundFields
  <1>2. c.cursy < SCREEN_ROWS - 1 => c.cursy + 1 \in 0 .. SCREEN_ROWS - 1
    BY <1>1, Values
  <1> QED
    BY <1>1, <1>2, SetCursorIs, ScrollUpIs DEF console_linefeed

LEMMA RightIs ==
    ASSUME NEW c \in Sound
    PROVE  IF c.curx + 1 < SCREEN_COLS
           THEN Leads(c, console_cursor_right(c), c.display, c.bgmap, c.curx + 1, c.cursy)
           ELSE IF c.cursy < SCREEN_ROWS - 1
           THEN Leads(c, console_cursor_right(c), c.display, c.bgmap, 0, c.cursy + 1)
           ELSE Leads(c, console_cursor_right(c), Raised(c.display, 0, Blank),
                      Raised(c.bgmap, 0, 0), 0, c.cursy)
  <1>1. /\ c.curx \in 0 .. SCREEN_COLS - 1 /\ c.cursy \in 0 .. SCREEN_ROWS - 1
        /\ 0 \in 0 .. SCREEN_COLS - 1
    BY SoundFields, Values
  <1>2. CASE c.curx + 1 < SCREEN_COLS
    <2>1. c.curx + 1 \in 0 .. SCREEN_COLS - 1 /\ ~(c.curx + 1 >= SCREEN_COLS)
      BY <1>1, <1>2, Values
    <2>2. console_cursor_right(c) = set_cursor(c, c.curx + 1, c.cursy)
      BY <2>1 DEF console_cursor_right
    <2> QED
      BY <1>1, <1>2, <2>1, <2>2, SetCursorIs
  <1>3. CASE ~(c.curx + 1 < SCREEN_COLS) /\ c.cursy < SCREEN_ROWS - 1
    <2>1. c.cursy + 1 \in 0 .. SCREEN_ROWS - 1 /\ c.curx + 1 >= SCREEN_COLS
      BY <1>1, <1>3, Values
    <2>2. console_cursor_right(c) = set_cursor(c, 0, c.cursy + 1)
      BY <1>3, <2>1 DEF console_cursor_right
    <2> QED
      BY <1>1, <1>3, <2>1, <2>2, SetCursorIs
  <1>4. CASE ~(c.curx + 1 < SCREEN_COLS) /\ ~(c.cursy < SCREEN_ROWS - 1)
    <2> DEFINE e == scroll_up(c)
    <2>1. c.curx + 1 >= SCREEN_COLS
      BY <1>1, <1>4, Values
    <2>2. console_cursor_right(c) = set_cursor(e, 0, c.cursy)
      BY <1>4, <2>1 DEF console_cursor_right
    <2>3. Leads(c, e, Raised(c.display, 0, Blank), Raised(c.bgmap, 0, 0), c.curx, c.cursy)
      BY ScrollUpIs
    <2> HIDE DEF e
    <2>4. e \in Sound
      BY <2>3 DEF Leads
    <2>5. Leads(e, set_cursor(e, 0, c.cursy), e.display, e.bgmap, 0, c.cursy)
      BY <1>1, <2>4, SetCursorIs
    <2>6. Leads(c, set_cursor(e, 0, c.cursy), Raised(c.display, 0, Blank),
                Raised(c.bgmap, 0, 0), 0, c.cursy)
      BY <2>3, <2>5 DEF Leads
    <2> QED
      BY <1>4, <2>2, <2>6
  <1> QED
    BY <1>2, <1>3, <1>4

-----------------------------------------------------------------------------
(***************************************************************************)
(* The cursor moved n places on, and the page scrolled as often as it      *)
(* takes: what n moves to the right come to.                               *)
(***************************************************************************)
Scrolled(mem, k, byte) ==
    [i \in Word |-> IF i >= SCREEN_SIZE THEN mem[i]
                    ELSE IF i + Row(k) < SCREEN_SIZE THEN mem[i + Row(k)] ELSE byte]

LEMMA ScrolledOnce ==
    ASSUME NEW V, NEW mem \in [Word -> V], NEW k \in Nat, NEW byte
    PROVE  /\ Raised(Scrolled(mem, k, byte), 0, byte) = Scrolled(mem, k + 1, byte)
           /\ Scrolled(mem, 0, byte) = mem
  <1>1. Row(k) \in Int /\ Row(k) >= 0 /\ Row(k + 1) = Row(k) + SCREEN_COLS
    <2>1. Row(0) = 0 /\ (k > 0 => Row(0) + SCREEN_COLS <= Row(k))
      BY RowsAscend, Values
    <2>2. k \in Int /\ k >= 0 /\ Row(k) \in Int /\ Row(k + 1) = Row(k) + SCREEN_COLS
      BY NextRow
    <2>3. k = 0 => Row(k) = 0
      BY <2>1
    <2> QED
      BY <2>1, <2>2, <2>3, Values
  <1>2. ASSUME NEW i \in Word
        PROVE  Raised(Scrolled(mem, k, byte), 0, byte)[i] = Scrolled(mem, k + 1, byte)[i]
    <2> DEFINE m == Scrolled(mem, k, byte)
               a == Row(k)
    <2>1. i \in Int /\ 0 <= i
      BY Values
    <2>2. Raised(m, 0, byte)[i] = IF i >= SCREEN_SIZE THEN m[i]
                                  ELSE IF i < LastRow THEN m[i + SCREEN_COLS] ELSE byte
      BY <2>1 DEF Raised
    <2>3. Scrolled(mem, k + 1, byte)[i]
            = IF i >= SCREEN_SIZE THEN mem[i]
              ELSE IF i + (a + SCREEN_COLS) < SCREEN_SIZE THEN mem[i + (a + SCREEN_COLS)]
              ELSE byte
      BY <1>1 DEF Scrolled
    <2>4. CASE i >= SCREEN_SIZE
      BY <2>2, <2>3, <2>4 DEF Scrolled
    <2>5. CASE i < SCREEN_SIZE /\ i < LastRow
      <3>1. i + SCREEN_COLS \in Word /\ i + SCREEN_COLS < SCREEN_SIZE
            /\ i + SCREEN_COLS + a = i + (a + SCREEN_COLS)
        BY <1>1, <2>1, <2>5, Values
      <3>2. m[i + SCREEN_COLS]
              = IF i + SCREEN_COLS >= SCREEN_SIZE THEN mem[i + SCREEN_COLS]
                ELSE IF i + SCREEN_COLS + a < SCREEN_SIZE
                THEN mem[i + SCREEN_COLS + a] ELSE byte
        BY <3>1 DEF Scrolled
      <3>3. m[i + SCREEN_COLS] = IF i + (a + SCREEN_COLS) < SCREEN_SIZE
                                 THEN mem[i + (a + SCREEN_COLS)] ELSE byte
        BY <2>1, <3>1, <3>2, Values
      <3>4. Raised(m, 0, byte)[i] = m[i + SCREEN_COLS]
        BY <2>1, <2>2, <2>5, Values
      <3>5. Scrolled(mem, k + 1, byte)[i]
              = IF i + (a + SCREEN_COLS) < SCREEN_SIZE THEN mem[i + (a + SCREEN_COLS)]
                ELSE byte
        <4>1. ~(i >= SCREEN_SIZE)
          BY <2>1, <2>5, Values
        <4> QED
          BY <2>3, <4>1
      <3> QED
        BY <3>3, <3>4, <3>5
    <2>6. CASE i < SCREEN_SIZE /\ ~(i < LastRow)
      <3>1. ~(i + (a + SCREEN_COLS) < SCREEN_SIZE)
        BY <1>1, <2>1, <2>6, Values
      <3>2. ~(i >= SCREEN_SIZE)
        BY <2>1, <2>6, Values
      <3>3. Raised(m, 0, byte)[i] = byte
        BY <2>2, <2>6, <3>2
      <3>4. Scrolled(mem, k + 1, byte)[i] = byte
        BY <2>3, <3>1, <3>2
      <3> QED
        BY <3>3, <3>4
    <2> QED
      BY <2>1, <2>4, <2>5, <2>6, Values
  <1>3. Raised(Scrolled(mem, k, byte), 0, byte) = Scrolled(mem, k + 1, byte)
    <2>1. ASSUME NEW m
          PROVE  Raised(m, 0, byte) = [i \in Word |-> Raised(m, 0, byte)[i]]
      BY DEF Raised
    <2>2. Scrolled(mem, k + 1, byte) = [i \in Word |-> Scrolled(mem, k + 1, byte)[i]]
      BY DEF Scrolled
    <2> QED
      BY <1>2, <2>1, <2>2
  <1>4. Scrolled(mem, 0, byte) = mem
    <2>1. ASSUME NEW i \in Word
          PROVE  Scrolled(mem, 0, byte)[i] = mem[i]
      <3>1. i \in Int /\ Row(0) = 0 /\ i + 0 = i
        BY Values
      <3>2. Scrolled(mem, 0, byte)[i]
              = IF i >= SCREEN_SIZE THEN mem[i]
                ELSE IF i + 0 < SCREEN_SIZE THEN mem[i + 0] ELSE byte
        BY <3>1 DEF Scrolled
      <3> QED
        BY <3>1, <3>2, Values
    <2>2. Scrolled(mem, 0, byte) = [i \in Word |-> Scrolled(mem, 0, byte)[i]]
      BY DEF Scrolled
    <2> QED
      BY <2>1, <2>2
  <1> QED
    BY <1>3, <1>4

Over(y) == IF y < SCREEN_ROWS THEN 0 ELSE y - (SCREEN_ROWS - 1)

\* Where n places on is, on a page without end.
ColumnAt(c, n) == (c.curx + n) % SCREEN_COLS

LineAt(c, n) == c.cursy + (c.curx + n) \div SCREEN_COLS

Advances(c, d, n) ==
    LET y == LineAt(c, n)
    IN  Leads(c, d, Scrolled(c.display, Over(y), Blank), Scrolled(c.bgmap, Over(y), 0),
              ColumnAt(c, n), y - Over(y))

LEMMA PlaceAt ==
    ASSUME NEW c \in Sound, NEW n \in Nat, NEW q \in Int, NEW r \in 0 .. SCREEN_COLS - 1,
           c.curx + n = q * SCREEN_COLS + r
    PROVE  ColumnAt(c, n) = r /\ LineAt(c, n) = c.cursy + q
  <1> DEFINE a == c.curx + n
  <1>1. c.curx \in Int /\ a \in Int /\ a = q * SCREEN_COLS + r
    BY SoundFields, Values
  <1> HIDE DEF a
  <1>2. a % SCREEN_COLS = r /\ a \div SCREEN_COLS = q
    BY <1>1, Values
  <1> QED
    BY <1>2 DEF a, ColumnAt, LineAt

LEMMA PlacesAt ==
    ASSUME NEW c \in Sound, NEW n \in Nat
    PROVE  /\ ColumnAt(c, n) \in 0 .. SCREEN_COLS - 1 /\ LineAt(c, n) \in Nat
           /\ ColumnAt(c, 0) = c.curx /\ LineAt(c, 0) = c.cursy
           /\ IF ColumnAt(c, n) + 1 < SCREEN_COLS
              THEN ColumnAt(c, n + 1) = ColumnAt(c, n) + 1 /\ LineAt(c, n + 1) = LineAt(c, n)
              ELSE ColumnAt(c, n + 1) = 0 /\ LineAt(c, n + 1) = LineAt(c, n) + 1
  <1> DEFINE a == c.curx + n
  <1>1. c.curx \in 0 .. SCREEN_COLS - 1 /\ c.cursy \in Nat /\ a \in Nat
    BY SoundFields, Values
  <1> HIDE DEF a
  <1>2. PICK q \in Int, r \in 0 .. SCREEN_COLS - 1 : a = q * SCREEN_COLS + r
    <2> DEFINE m == SCREEN_COLS
    <2>1. m \in Int /\ m > 0 /\ a \in Int
      BY <1>1, Values
    <2> HIDE DEF m
    <2>2. \E q \in Int, r \in 0 .. m - 1 : a \div m = q /\ a % m = r /\ a = q * m + r
      BY ONLY <2>1, Split
    <2> QED
      BY <2>2 DEF m
  <1> DEFINE p == q * SCREEN_COLS
  <1>3. p \in Int /\ a = p + r /\ r \in Int /\ 0 <= r /\ r < SCREEN_COLS
    BY <1>2, Values
  <1>4. q >= 0
    <2>1. q < 0 => Row(q) + SCREEN_COLS <= Row(0)
      BY RowsAscend
    <2>2. Row(q) = p /\ Row(0) = 0
      BY Values DEF Row
    <2> HIDE DEF p
    <2> QED
      BY <1>1, <1>3, <2>1, <2>2, Values
  <1>5. ColumnAt(c, n) = r /\ LineAt(c, n) = c.cursy + q
    BY <1>2, PlaceAt DEF a
  <1>6. ColumnAt(c, 0) = c.curx /\ LineAt(c, 0) = c.cursy
    <2>1. 0 * SCREEN_COLS = 0 /\ 0 \in Int /\ 0 \in Nat
      BY Values
    <2>2. c.curx + 0 = 0 * SCREEN_COLS + c.curx
      BY <1>1, <2>1, Values
    <2>3. ColumnAt(c, 0) = c.curx /\ LineAt(c, 0) = c.cursy + 0
      BY <1>1, <2>1, <2>2, PlaceAt
    <2> QED
      BY <1>1, <2>3
  <1>7. CASE r + 1 < SCREEN_COLS
    <2>1. r + 1 \in 0 .. SCREEN_COLS - 1 /\ n + 1 \in Nat
      BY <1>3, <1>7, Values
    <2>2. c.curx + (n + 1) = q * SCREEN_COLS + (r + 1)
      <3> HIDE DEF p
      <3>1. c.curx + (n + 1) = p + (r + 1)
        BY <1>1, <1>3, Values DEF a
      <3> QED
        BY <3>1 DEF p
    <2>3. ColumnAt(c, n + 1) = r + 1 /\ LineAt(c, n + 1) = c.cursy + q
      BY <2>1, <2>2, PlaceAt
    <2> QED
      BY <1>1, <1>4, <1>5, <1>6, <1>7, <2>3
  <1>8. CASE ~(r + 1 < SCREEN_COLS)
    <2>1. q + 1 \in Int /\ 0 \in 0 .. SCREEN_COLS - 1 /\ n + 1 \in Nat
      BY <1>3, Values
    <2>2. (q + 1) * SCREEN_COLS = p + SCREEN_COLS
      BY Values
    <2>3. c.curx + (n + 1) = (q + 1) * SCREEN_COLS + 0
      <3> DEFINE o == (q + 1) * SCREEN_COLS
      <3> HIDE DEF p, o
      <3>1. r + 1 = SCREEN_COLS
        BY <1>3, <1>8, Values
      <3>2. o = p + SCREEN_COLS
        BY <2>2 DEF o
      <3>3. c.curx + (n + 1) = o + 0
        BY <1>1, <1>3, <3>1, <3>2, Values DEF a
      <3> QED
        BY <3>3 DEF o
    <2>4. ColumnAt(c, n + 1) = 0 /\ LineAt(c, n + 1) = c.cursy + (q + 1)
      BY <2>1, <2>3, PlaceAt
    <2>5. c.cursy + (q + 1) = (c.cursy + q) + 1
      BY <1>1
    <2> QED
      BY <1>1, <1>4, <1>5, <1>6, <1>8, <2>4, <2>5
  <1> QED
    BY <1>7, <1>8

\* Nothing moved.
LEMMA AdvanceNone ==
    ASSUME NEW c \in Sound
    PROVE  Advances(c, c, 0)
  <1>1. /\ c.cursy \in 0 .. SCREEN_ROWS - 1
        /\ c.display \in Memory(Char) /\ c.bgmap \in [Word -> {0, 1, Other}]
    BY SoundFields
  <1>2. ColumnAt(c, 0) = c.curx /\ LineAt(c, 0) = c.cursy
    BY PlacesAt
  <1>3. Over(c.cursy) = 0 /\ c.cursy - 0 = c.cursy
    BY <1>1, Values DEF Over
  <1>4. Scrolled(c.display, 0, Blank) = c.display /\ Scrolled(c.bgmap, 0, 0) = c.bgmap
    BY <1>1, Outer, ScrolledOnce
  <1> QED
    BY <1>2, <1>3, <1>4 DEF Advances, Leads

LEMMA AdvanceOne ==
    ASSUME NEW c \in Sound, NEW n \in Nat, NEW d, Advances(c, d, n)
    PROVE  Advances(c, console_cursor_right(d), n + 1)
  <1> DEFINE x == ColumnAt(c, n)
             y == LineAt(c, n)
             k == Over(y)
             e == console_cursor_right(d)
  <1>1. /\ c.display \in [Word -> Char \cup {Other}] /\ c.bgmap \in [Word -> {0, 1, Other}]
    BY SoundFields, Outer
  <1>2. y \in Nat /\ IF x + 1 < SCREEN_COLS
                     THEN ColumnAt(c, n + 1) = x + 1 /\ LineAt(c, n + 1) = y
                     ELSE ColumnAt(c, n + 1) = 0 /\ LineAt(c, n + 1) = y + 1
    BY PlacesAt
  <1>3. /\ k \in Nat /\ y - k \in 0 .. SCREEN_ROWS - 1
        /\ (y < SCREEN_ROWS - 1 => k = 0 /\ Over(y + 1) = 0)
        /\ (y >= SCREEN_ROWS - 1 => k = y - (SCREEN_ROWS - 1) /\ Over(y + 1) = k + 1)
    <2>1. SCREEN_ROWS \in Int /\ SCREEN_ROWS > 1
      BY Values
    <2> HIDE DEF y
    <2>2. CASE y < SCREEN_ROWS - 1
      BY <1>2, <2>1, <2>2 DEF Over
    <2>3. CASE y >= SCREEN_ROWS - 1
      BY <1>2, <2>1, <2>3 DEF Over
    <2> QED
      BY <1>2, <2>1, <2>2, <2>3
  <1>4. Leads(c, d, Scrolled(c.display, k, Blank), Scrolled(c.bgmap, k, 0), x, y - k)
    BY DEF Advances
  <1> HIDE DEF x, y, k, e
  <1>5. d \in Sound /\ d.curx = x /\ d.cursy = y - k
        /\ d.display = Scrolled(c.display, k, Blank) /\ d.bgmap = Scrolled(c.bgmap, k, 0)
    BY <1>4 DEF Leads
  <1>6. CASE x + 1 < SCREEN_COLS
    <2>1. Leads(d, e, d.display, d.bgmap, x + 1, y - k)
      BY <1>5, <1>6, RightIs DEF e
    <2>2. Leads(c, e, Scrolled(c.display, k, Blank), Scrolled(c.bgmap, k, 0), x + 1, y - k)
      BY <1>4, <1>5, <2>1 DEF Leads
    <2> QED
      BY <1>2, <1>6, <2>2 DEF Advances, k, e
  <1>7. CASE ~(x + 1 < SCREEN_COLS) /\ y < SCREEN_ROWS - 1
    <2>1. d.cursy < SCREEN_ROWS - 1 /\ (y - k) + 1 = (y + 1) - k /\ Over(y + 1) = k
      <3>1. y \in Int /\ k \in Int /\ SCREEN_ROWS - 1 \in Int /\ d.cursy = y - k
        BY <1>2, <1>3, <1>5, Values
      <3>2. k = 0 /\ Over(y + 1) = 0 /\ y < SCREEN_ROWS - 1
        BY <1>2, <1>3, <1>7, <3>1
      <3> QED
        BY ONLY <3>1, <3>2
    <2>2. Leads(d, e, d.display, d.bgmap, 0, (y - k) + 1)
      BY <1>5, <1>7, <2>1, RightIs DEF e
    <2>3. Leads(c, e, Scrolled(c.display, k, Blank), Scrolled(c.bgmap, k, 0), 0,
                (y + 1) - k)
      BY <1>4, <1>5, <2>1, <2>2 DEF Leads
    <2> QED
      BY <1>2, <1>7, <2>1, <2>3 DEF Advances, e
  <1>8. CASE ~(x + 1 < SCREEN_COLS) /\ ~(y < SCREEN_ROWS - 1)
    <2>1. ~(d.cursy < SCREEN_ROWS - 1) /\ y - k = (y + 1) - (k + 1) /\ Over(y + 1) = k + 1
      <3>1. y \in Int /\ k \in Int /\ SCREEN_ROWS - 1 \in Int /\ d.cursy = y - k
        BY <1>2, <1>3, <1>5, Values
      <3>2. k = y - (SCREEN_ROWS - 1) /\ Over(y + 1) = k + 1
        BY <1>2, <1>3, <1>8, <3>1
      <3> QED
        BY ONLY <3>1, <3>2
    <2>2. Leads(d, e, Raised(d.display, 0, Blank), Raised(d.bgmap, 0, 0), 0, y - k)
      BY <1>5, <1>8, <2>1, RightIs DEF e
    <2>3. Raised(d.display, 0, Blank) = Scrolled(c.display, k + 1, Blank)
      <3>1. Raised(Scrolled(c.display, k, Blank), 0, Blank) = Scrolled(c.display, k + 1, Blank)
        BY <1>1, <1>3, ScrolledOnce
      <3> QED
        BY <1>5, <3>1
    <2>4. Raised(d.bgmap, 0, 0) = Scrolled(c.bgmap, k + 1, 0)
      <3>1. Raised(Scrolled(c.bgmap, k, 0), 0, 0) = Scrolled(c.bgmap, k + 1, 0)
        BY <1>1, <1>3, ScrolledOnce
      <3> QED
        BY <1>5, <3>1
    <2>5. Leads(c, e, Scrolled(c.display, k + 1, Blank), Scrolled(c.bgmap, k + 1, 0), 0,
                (y + 1) - (k + 1))
      BY <1>4, <2>1, <2>2, <2>3, <2>4 DEF Leads
    <2> QED
      BY <1>2, <1>8, <2>1, <2>5 DEF Advances, e
  <1> QED
    BY <1>6, <1>7, <1>8

LEMMA TabIs ==
    ASSUME NEW c \in Sound
    PROVE  Advances(c, console_cursor_right(c), 1) /\ Advances(c, console_tab(c), 4)
  <1> DEFINE d1 == console_cursor_right(c)
             d2 == console_cursor_right(d1)
             d3 == console_cursor_right(d2)
             d4 == console_cursor_right(d3)
  <1>1. console_tab(c) = d4
    BY DEF console_tab
  <1>2. Advances(c, d1, 0 + 1)
    BY AdvanceNone, AdvanceOne
  <1> HIDE DEF d1
  <1>3. Advances(c, d2, (0 + 1) + 1)
    BY <1>2, AdvanceOne
  <1> HIDE DEF d2
  <1>4. Advances(c, d3, ((0 + 1) + 1) + 1)
    BY <1>3, AdvanceOne
  <1> HIDE DEF d3
  <1>5. Advances(c, d4, (((0 + 1) + 1) + 1) + 1)
    BY <1>4, AdvanceOne
  <1>6. 0 + 1 = 1 /\ (((0 + 1) + 1) + 1) + 1 = 4
    OBVIOUS
  <1> QED
    BY <1>1, <1>2, <1>5, <1>6 DEF d1

-----------------------------------------------------------------------------
(***************************************************************************)
(* Erasing, background mode, characters and addresses.                     *)
(***************************************************************************)
\* Another text and another bitmap, the cursor where it is.
LEMMA StaysIf ==
    ASSUME NEW c \in Sound, NEW t \in Memory(Char), NEW b \in Memory(Bits(c.bg_flag)),
           NEW d, d = [c EXCEPT !.display = t, !.bgmap = b]
    PROVE  Leads(c, d, t, b, c.curx, c.cursy)
  <1>1. /\ c \in Console_t /\ c.cury = Row(c.cursy)
        /\ c.curx \in 0 .. SCREEN_COLS - 1 /\ c.cursy \in 0 .. SCREEN_ROWS - 1
    BY SoundFields
  <1>2. d = [c EXCEPT !.display = t, !.bgmap = b, !.curx = c.curx, !.cursy = c.cursy,
                      !.cury = Row(c.cursy)]
    BY <1>1 DEF Console_t
  <1> QED
    BY <1>1, <1>2, LeadsIf

LEMMA TextIf ==
    ASSUME NEW c \in Sound, NEW t \in Memory(Char), NEW d, d = [c EXCEPT !.display = t]
    PROVE  Leads(c, d, t, c.bgmap, c.curx, c.cursy)
  <1>1. c \in Console_t /\ c.bgmap \in Memory(Bits(c.bg_flag))
    BY SoundFields
  <1>2. d = [c EXCEPT !.display = t, !.bgmap = c.bgmap]
    BY <1>1 DEF Console_t
  <1> QED
    BY <1>1, <1>2, StaysIf

\* The offset of the cursor.
LEMMA CursorAt ==
    ASSUME NEW c \in Sound
    PROVE  /\ c.cury + c.curx \in Word /\ c.cury + c.curx < c.cury + SCREEN_COLS
           /\ c.cury + SCREEN_COLS <= SCREEN_SIZE
           /\ c.cursy * SCREEN_COLS + c.curx = c.cury + c.curx
           /\ c.cury \in Nat /\ c.curx \in Nat
  <1>1. c.cury = Row(c.cursy) /\ c.curx \in 0 .. SCREEN_COLS - 1
        /\ c.cursy \in 0 .. SCREEN_ROWS - 1
    BY SoundFields
  <1>2. c.cury \in Word /\ c.cury + SCREEN_COLS <= SCREEN_SIZE
    BY <1>1, RowOnPage
  <1>3. c.cursy * SCREEN_COLS = c.cury
    BY <1>1 DEF Row
  <1> QED
    BY <1>1, <1>2, <1>3, Values

LEMMA EraseIs ==
    ASSUME NEW c \in Sound
    PROVE  /\ Leads(c, console_erase_to_eol(c),
                    Erased(c.display, c.cury + c.curx, c.cury + SCREEN_COLS, Blank),
                    c.bgmap, c.curx, c.cursy)
           /\ Leads(c, console_erase_to_eos(c),
                    Erased(c.display, c.cury + c.curx, SCREEN_SIZE, Blank),
                    c.bgmap, c.curx, c.cursy)
  <1> DEFINE p == c.cury + c.curx
             e == c.cury + SCREEN_COLS
  <1>1. p \in Nat /\ e \in Nat /\ p < e /\ e <= SCREEN_SIZE /\ SCREEN_SIZE \in Nat
    BY CursorAt, Values
  <1>2. c.display \in Memory(Char) /\ Blank \in Char
    BY SoundFields, ConsoleAssumption
  <1> HIDE DEF p, e
  <1>3. \A n \in {e, SCREEN_SIZE} :
           /\ fill(c.display, p, Blank, n - p) = Erased(c.display, p, n, Blank)
           /\ Erased(c.display, p, n, Blank) \in Memory(Char)
    <2> SUFFICES ASSUME NEW n \in {e, SCREEN_SIZE}
                 PROVE  /\ fill(c.display, p, Blank, n - p) = Erased(c.display, p, n, Blank)
                        /\ Erased(c.display, p, n, Blank) \in Memory(Char)
      OBVIOUS
    <2> DEFINE k == n - p
    <2>1. k \in Nat /\ p + k = n /\ p + k <= Words /\ n \in Int /\ n <= SCREEN_SIZE
      BY <1>1, Values
    <2> HIDE DEF k
    <2>2. fill(c.display, p, Blank, k) = Erased(c.display, p, p + k, Blank)
      BY <1>1, <2>1, FillIs
    <2>3. Erased(c.display, p, n, Blank) \in Memory(Char)
      BY <1>1, <1>2, <2>1, ErasedKept
    <2> QED
      BY <2>1, <2>2, <2>3 DEF k
  <1>4. console_erase_to_eol(c) = [c EXCEPT !.display = Erased(c.display, p, e, Blank)]
    BY <1>3 DEF console_erase_to_eol, p, e
  <1>5. console_erase_to_eos(c) = [c EXCEPT !.display = Erased(c.display, p, SCREEN_SIZE, Blank)]
    BY <1>3 DEF console_erase_to_eos, p
  <1> QED
    BY <1>3, <1>4, <1>5, TextIf DEF p, e

LEMMA ClearScreenIs ==
    ASSUME NEW c \in Sound
    PROVE  Leads(c, console_clear_screen(c), Erased(c.display, 0, SCREEN_SIZE, Blank),
                 Erased(c.bgmap, 0, SCREEN_SIZE, 0), 0, 0)
  <1> DEFINE t == Erased(c.display, 0, SCREEN_SIZE, Blank)
             b == Erased(c.bgmap, 0, SCREEN_SIZE, 0)
             d == [c EXCEPT !.display = t, !.bgmap = b]
  <1>1. /\ 0 \in Nat /\ SCREEN_SIZE \in Nat /\ 0 + SCREEN_SIZE <= Words
        /\ 0 + SCREEN_SIZE = SCREEN_SIZE
        /\ 0 \in 0 .. SCREEN_COLS - 1 /\ 0 \in 0 .. SCREEN_ROWS - 1
    BY Values
  <1>2. fill(c.display, 0, Blank, SCREEN_SIZE) = t /\ fill(c.bgmap, 0, 0, SCREEN_SIZE) = b
    BY <1>1, FillIs
  <1>3. t \in Memory(Char) /\ b \in Memory(Bits(c.bg_flag))
    <2>1. /\ c.display \in Memory(Char) /\ Blank \in Char
          /\ c.bgmap \in Memory(Bits(c.bg_flag)) /\ 0 \in Bits(c.bg_flag)
      BY SoundFields, ConsoleAssumption DEF Bits
    <2>2. 0 \in Int /\ SCREEN_SIZE \in Int /\ 0 <= 0 /\ SCREEN_SIZE <= SCREEN_SIZE
      BY <1>1
    <2> QED
      BY <2>1, <2>2, ErasedKept
  <1>4. console_clear_screen(c) = set_cursor(d, 0, 0)
    BY <1>2 DEF console_clear_screen
  <1> HIDE DEF t, b
  <1>5. Leads(c, d, t, b, c.curx, c.cursy)
    BY <1>3, StaysIf
  <1> HIDE DEF d
  <1>6. d \in Sound
    BY <1>5 DEF Leads
  <1>7. Leads(d, set_cursor(d, 0, 0), d.display, d.bgmap, 0, 0)
    BY <1>1, <1>6, SetCursorIs
  <1>8. Leads(c, set_cursor(d, 0, 0), t, b, 0, 0)
    BY <1>5, <1>7 DEF Leads
  <1> QED
    BY <1>4, <1>8 DEF t, b

Unwritten(c) ==
    [i \in Word |-> IF i < SCREEN_SIZE /\ c.bgmap[i] = 0 THEN Blank ELSE c.display[i]]

LEMMA ClearForegroundIs ==
    ASSUME NEW c \in Sound
    PROVE  Leads(c, console_clear_foreground(c), Unwritten(c), c.bgmap, c.curx, c.cursy)
  <1>1. c.display \in Memory(Char) /\ Blank \in Char
    BY SoundFields, ConsoleAssumption
  <1>2. Unwritten(c) \in Memory(Char)
    BY <1>1 DEF Unwritten, Memory
  <1>3. console_clear_foreground(c) = [c EXCEPT !.display = Unwritten(c)]
    BY DEF console_clear_foreground, Unwritten
  <1> QED
    BY <1>2, <1>3, TextIf

\* The mode, and nothing of what the page shows.
Switched(c, f, b) == [c EXCEPT !.bg_flag = f, !.bgmap = b]

LEMMA SwitchIf ==
    ASSUME NEW c \in Sound, NEW f, f = "foreground" \/ f = "background",
           NEW b \in Memory({0, 1}), NEW d, d = Switched(c, f, b)
    PROVE  /\ d \in Sound /\ d.bgmap = b /\ d.bg_flag = f
           /\ d.display = c.display /\ d.curx = c.curx /\ d.cursy = c.cursy
           /\ d.xflg = c.xflg /\ d.adr0 = c.adr0 /\ d.adrmod = c.adrmod
  <1>1. c \in Console_t /\ c.cury = Row(c.cursy)
    BY SoundFields
  <1>2. Bits(f) = {0, 1}
    BY DEF Bits
  <1>3. b \in [Word -> {0, 1, Other}]
    BY DEF Memory
  <1> HIDE DEF Memory
  <1>4. d \in Console_t
    BY <1>1, <1>3 DEF Console_t, Switched
  <1>5. /\ d.bgmap = b /\ d.bg_flag = f /\ d.display = c.display /\ d.curx = c.curx
        /\ d.cursy = c.cursy /\ d.cury = c.cury
        /\ d.xflg = c.xflg /\ d.adr0 = c.adr0 /\ d.adrmod = c.adrmod
    BY <1>1 DEF Console_t, Switched
  <1> QED
    BY <1>1, <1>2, <1>4, <1>5 DEF Sound

LEMMA BackgroundIs ==
    ASSUME NEW c \in Sound, NEW d, d = console_enter_background(c)
    PROVE  /\ d \in Sound /\ d.bgmap = Erased(c.bgmap, 0, SCREEN_SIZE, 0)
           /\ d.bg_flag = "background"
           /\ d.display = c.display /\ d.curx = c.curx /\ d.cursy = c.cursy
           /\ d.xflg = c.xflg /\ d.adr0 = c.adr0 /\ d.adrmod = c.adrmod
  <1> DEFINE b == Erased(c.bgmap, 0, SCREEN_SIZE, 0)
  <1>1. /\ 0 \in Nat /\ SCREEN_SIZE \in Nat /\ 0 + SCREEN_SIZE <= Words
        /\ 0 + SCREEN_SIZE = SCREEN_SIZE
    BY Values
  <1>2. fill(c.bgmap, 0, 0, SCREEN_SIZE) = b
    BY <1>1, FillIs
  <1>3. b \in Memory({0, 1})
    <2>1. c.bgmap \in Memory(Bits(c.bg_flag))
      BY SoundFields
    <2>2. c.bgmap \in Memory({0, 1})
      BY <2>1 DEF Memory, Bits
    <2>3. 0 \in Int /\ SCREEN_SIZE \in Int /\ 0 <= 0 /\ SCREEN_SIZE <= SCREEN_SIZE
          /\ 0 \in {0, 1}
      BY <1>1
    <2> QED
      BY <2>2, <2>3, ErasedKept
  <1> HIDE DEF b
  <1>4. d = [c EXCEPT !.bg_flag = "background", !.bgmap = b]
    BY <1>2 DEF console_enter_background
  <1> DEFINE f == "background"
  <1>5. (f = "foreground" \/ f = "background") /\ d = Switched(c, f, b)
    BY <1>4 DEF Switched
  <1> HIDE DEF f
  <1>6. /\ d \in Sound /\ d.bgmap = b /\ d.bg_flag = f
        /\ d.display = c.display /\ d.curx = c.curx /\ d.cursy = c.cursy
        /\ d.xflg = c.xflg /\ d.adr0 = c.adr0 /\ d.adrmod = c.adrmod
    BY <1>3, <1>5, SwitchIf
  <1> QED
    BY <1>6 DEF b, f

LEMMA ForegroundIs ==
    ASSUME NEW c \in Sound, NEW d, d = console_enter_foreground(c)
    PROVE  /\ d \in Sound /\ d.bgmap = c.bgmap /\ d.bg_flag = "foreground"
           /\ d.display = c.display /\ d.curx = c.curx /\ d.cursy = c.cursy
           /\ d.xflg = c.xflg /\ d.adr0 = c.adr0 /\ d.adrmod = c.adrmod
  <1>1. c \in Console_t /\ c.bgmap \in Memory(Bits(c.bg_flag))
    BY SoundFields
  <1>2. c.bgmap \in Memory({0, 1})
    BY <1>1 DEF Memory, Bits
  <1>3. d = [c EXCEPT !.bg_flag = "foreground", !.bgmap = c.bgmap]
    BY <1>1 DEF console_enter_foreground, Console_t
  <1> DEFINE f == "foreground"
             b == c.bgmap
  <1>4. /\ f = "foreground" \/ f = "background"
        /\ b \in Memory({0, 1}) /\ d = Switched(c, f, b)
    BY <1>2, <1>3 DEF Switched
  <1> HIDE DEF f, b
  <1>5. /\ d \in Sound /\ d.bgmap = b /\ d.bg_flag = f
        /\ d.display = c.display /\ d.curx = c.curx /\ d.cursy = c.cursy
        /\ d.xflg = c.xflg /\ d.adr0 = c.adr0 /\ d.adrmod = c.adrmod
    BY <1>4, SwitchIf
  <1> QED
    BY <1>5 DEF b, f

\* A character at the cursor, before the cursor moves on.
Struck(c, ch) ==
    LET d == [c EXCEPT !.display[c.cury + c.curx] = ch]
    IN  IF c.bg_flag = "background" THEN set_bgmap_bit(d) ELSE d

LEMMA StruckIs ==
    ASSUME NEW c \in Sound, NEW ch \in Char
    PROVE  /\ Leads(c, Struck(c, ch), [c.display EXCEPT ![c.cury + c.curx] = ch],
                    IF c.bg_flag = "background"
                    THEN [c.bgmap EXCEPT ![c.cury + c.curx] = 1] ELSE c.bgmap,
                    c.curx, c.cursy)
           /\ put_printable(c, ch) = console_cursor_right(Struck(c, ch))
  <1> DEFINE p == c.cury + c.curx
             t == [c.display EXCEPT ![p] = ch]
             b == IF c.bg_flag = "background" THEN [c.bgmap EXCEPT ![p] = 1] ELSE c.bgmap
             d == [c EXCEPT !.display[p] = ch]
  <1>1. p \in Word /\ p < SCREEN_SIZE /\ c.cursy * SCREEN_COLS + c.curx = p
    BY CursorAt, Values
  <1>2. c \in Console_t /\ c.display \in Memory(Char) /\ c.bgmap \in Memory(Bits(c.bg_flag))
    BY SoundFields
  <1> HIDE DEF p
  <1>3. t \in Memory(Char)
    BY <1>1, <1>2 DEF Memory
  <1>4. b \in Memory(Bits(c.bg_flag))
    <2>1. c.bg_flag = "background" => 1 \in Bits(c.bg_flag)
      BY DEF Bits
    <2> DEFINE V == Bits(c.bg_flag)
    <2> HIDE DEF V
    <2> QED
      BY <1>1, <1>2, <2>1 DEF Memory, V
  <1>5. d = [c EXCEPT !.display = t]
    OBVIOUS
  <1>6. d.cursy = c.cursy /\ d.curx = c.curx /\ d.bgmap = c.bgmap /\ d.display = t
    BY <1>2, <1>5 DEF Console_t
  <1>7. Struck(c, ch) = [c EXCEPT !.display = t, !.bgmap = b]
    <2>1. CASE c.bg_flag = "background"
      <3>1. Struck(c, ch) = set_bgmap_bit(d)
        BY <2>1 DEF Struck, p
      <3>2. set_bgmap_bit(d) = [d EXCEPT !.bgmap = b]
        BY <1>1, <1>6, <2>1 DEF set_bgmap_bit
      <3> QED
        BY <1>2, <1>5, <3>1, <3>2 DEF Console_t
    <2>2. CASE c.bg_flag # "background"
      <3>1. Struck(c, ch) = d
        BY <2>2 DEF Struck, p
      <3> QED
        BY <1>2, <1>5, <2>2, <3>1 DEF Console_t
    <2> QED
      BY <2>1, <2>2
  <1>8. Leads(c, Struck(c, ch), t, b, c.curx, c.cursy)
    <2> HIDE DEF t, b
    <2> QED
      BY <1>3, <1>4, <1>7, StaysIf
  <1>9. put_printable(c, ch) = console_cursor_right(Struck(c, ch))
    BY DEF put_printable, Struck
  <1> QED
    BY <1>8, <1>9 DEF p

\* Addresses.
LEMMA BeginIs ==
    ASSUME NEW c \in Sound, NEW d, d = [c EXCEPT !.xflg = "byte1"]
    PROVE  /\ d \in Sound /\ d.xflg = "byte1"
           /\ d.display = c.display /\ d.bgmap = c.bgmap /\ d.bg_flag = c.bg_flag
           /\ d.curx = c.curx /\ d.cursy = c.cursy
           /\ d.adr0 = c.adr0 /\ d.adrmod = c.adrmod
  <1>1. c \in Console_t /\ c.cury = Row(c.cursy) /\ c.bgmap \in Memory(Bits(c.bg_flag))
    BY SoundFields
  <1> HIDE DEF Memory, Bits
  <1>2. d \in Console_t
    BY <1>1 DEF Console_t
  <1>3. /\ d.xflg = "byte1" /\ d.cury = c.cury
        /\ d.display = c.display /\ d.bgmap = c.bgmap /\ d.bg_flag = c.bg_flag
        /\ d.curx = c.curx /\ d.cursy = c.cursy
        /\ d.adr0 = c.adr0 /\ d.adrmod = c.adrmod
    BY <1>1 DEF Console_t
  <1> QED
    BY <1>1, <1>2, <1>3 DEF Sound

Byte == 0 .. 255

LEMMA FirstByteIs ==
    ASSUME NEW c \in Sound, NEW ch \in Byte, c.xflg = "byte1",
           NEW d, d = process_xy(c, ch)
    PROVE  /\ d \in Sound /\ d.xflg = "byte2" /\ d.adr0 = coord(ch)
           /\ d.display = c.display /\ d.bgmap = c.bgmap /\ d.bg_flag = c.bg_flag
           /\ d.curx = c.curx /\ d.cursy = c.cursy /\ d.adrmod = c.adrmod
  <1>1. c \in Console_t /\ c.cury = Row(c.cursy) /\ c.bgmap \in Memory(Bits(c.bg_flag))
    BY SoundFields
  <1> DEFINE n == coord(ch)
  <1>2. n \in 0 .. 255
    BY DEF coord, Byte
  <1>3. d = [c EXCEPT !.adr0 = n, !.xflg = "byte2"]
    BY DEF process_xy
  <1> HIDE DEF Memory, Bits, n
  <1>4. d \in Console_t
    <2> DEFINE e == [c EXCEPT !.xflg = "byte2"]
    <2>1. e \in Console_t
      BY <1>1 DEF Console_t
    <2>2. d = [e EXCEPT !.adr0 = n]
      BY <1>3
    <2> HIDE DEF e
    <2> QED
      BY <1>2, <2>1, <2>2 DEF Console_t
  <1>5. /\ d.xflg = "byte2" /\ d.adr0 = n /\ d.cury = c.cury
        /\ d.display = c.display /\ d.bgmap = c.bgmap /\ d.bg_flag = c.bg_flag
        /\ d.curx = c.curx /\ d.cursy = c.cursy /\ d.adrmod = c.adrmod
    BY <1>1, <1>3 DEF Console_t
  <1> QED
    BY <1>1, <1>4, <1>5 DEF Sound, n

LEMMA SecondByteIs ==
    ASSUME NEW c \in Sound, NEW ch \in Byte, c.xflg = "byte2",
           NEW d, d = process_xy(c, ch)
    PROVE  /\ d \in Sound /\ d.xflg = "normal"
           /\ d.curx = (IF c.adrmod = 0 THEN c.adr0 ELSE coord(ch)) % SCREEN_COLS
           /\ d.cursy = (IF c.adrmod = 0 THEN coord(ch) ELSE c.adr0) % SCREEN_ROWS
           /\ d.display = c.display /\ d.bgmap = c.bgmap /\ d.bg_flag = c.bg_flag
           /\ d.adrmod = c.adrmod
  <1> DEFINE col == IF c.adrmod = 0 THEN c.adr0 ELSE coord(ch)
             row == IF c.adrmod = 0 THEN coord(ch) ELSE c.adr0
             x == col % SCREEN_COLS
             y == row % SCREEN_ROWS
             e == set_cursor(c, x, y)
  <1>1. col \in Int /\ row \in Int
    <2>1. coord(ch) \in 0 .. 255 /\ c.adr0 \in 0 .. 255
      BY SoundFields DEF coord, Byte
    <2> QED
      BY <2>1
  <1>2. x \in 0 .. SCREEN_COLS - 1 /\ y \in 0 .. SCREEN_ROWS - 1
    <2> HIDE DEF col, row
    <2> QED
      BY <1>1, Values
  <1>3. d = [e EXCEPT !.xflg = "normal"]
    BY DEF process_xy
  <1> HIDE DEF x, y, e
  <1>4. Leads(c, e, c.display, c.bgmap, x, y)
    BY <1>2, SetCursorIs DEF e
  <1>5. e \in Sound /\ e \in Console_t /\ e.cury = Row(e.cursy)
        /\ e.bgmap \in Memory(Bits(e.bg_flag))
    BY <1>4, SoundFields DEF Leads
  <1> HIDE DEF Memory, Bits
  <1>6. d \in Console_t
    BY <1>3, <1>5 DEF Console_t
  <1>7. /\ d.xflg = "normal" /\ d.cury = e.cury
        /\ d.display = e.display /\ d.bgmap = e.bgmap /\ d.bg_flag = e.bg_flag
        /\ d.curx = e.curx /\ d.cursy = e.cursy /\ d.adrmod = e.adrmod
    BY <1>3, <1>5 DEF Console_t
  <1>8. d \in Sound
    BY <1>5, <1>6, <1>7 DEF Sound
  <1> QED
    BY <1>4, <1>7, <1>8 DEF Leads, x, y

-----------------------------------------------------------------------------
(***************************************************************************)
(* The invariant.                                                          *)
(***************************************************************************)
LEMMA InitSound ==
    ASSUME Init
    PROVE  con \in Sound
  <1>1. PICK m \in Adrmod : con = [console_init EXCEPT !.adrmod = m]
    BY DEF Init
  <1>2. m \in {0, 1}
    BY <1>1, ConsoleAssumption
  <1>3. memory(Blank) \in Memory(Char) /\ memory(0) \in Memory(Bits("off"))
    BY ConsoleAssumption DEF memory, Memory, Bits
  <1>4. memory(0) \in [Word -> {0, 1, Other}]
    BY DEF memory
  <1>5. con = [display |-> memory(Blank), bgmap |-> memory(0), bg_flag |-> "off",
               curx |-> 0, cursy |-> 0, cury |-> 0,
               xflg |-> "normal", adr0 |-> 0, adrmod |-> m]
    BY <1>1 DEF console_init
  <1>6. /\ 0 \in 0 .. SCREEN_COLS - 1 /\ 0 \in 0 .. SCREEN_ROWS - 1 /\ 0 \in Word
        /\ Row(0) = 0 /\ 0 \in 0 .. 255
    BY Values
  <1> HIDE DEF Memory, Bits, memory
  <1>7. con \in Console_t
    BY <1>2, <1>3, <1>4, <1>5, <1>6 DEF Console_t
  <1> QED
    BY <1>3, <1>5, <1>6, <1>7 DEF Sound

LEMMA StepSound ==
    ASSUME con \in Sound, Next
    PROVE  con' \in Sound
  <1>1. CASE Bell
    BY <1>1 DEF Bell
  <1>2. CASE Control
    <2>1. /\ console_insert_line(con) \in Sound /\ console_delete_line(con) \in Sound
          /\ console_cursor_left(con) \in Sound /\ console_cursor_up(con) \in Sound
          /\ console_home(con) \in Sound /\ console_carriage_return(con) \in Sound
      BY InsertLineIs, DeleteLineIs, LeftIs, UpIs, HomeIs DEF Leads
    <2>2. /\ console_tab(con) \in Sound /\ console_cursor_right(con) \in Sound
      BY TabIs DEF Advances, Leads
    <2>3. console_linefeed(con) \in Sound
      BY LinefeedIs DEF Leads
    <2>4. /\ console_clear_screen(con) \in Sound /\ console_clear_foreground(con) \in Sound
          /\ console_erase_to_eol(con) \in Sound /\ console_erase_to_eos(con) \in Sound
      BY ClearScreenIs, ClearForegroundIs, EraseIs DEF Leads
    <2>5. /\ console_enter_background(con) \in Sound
          /\ console_enter_foreground(con) \in Sound
          /\ [con EXCEPT !.xflg = "byte1"] \in Sound
      BY BackgroundIs, ForegroundIs, BeginIs
    <2> QED
      BY <1>2, <2>1, <2>2, <2>3, <2>4, <2>5 DEF Control, Does
  <1>3. CASE Printable
    <2>1. PICK ch \in Char : con' = put_printable(con, ch)
      BY <1>3 DEF Printable, Does
    <2>2. Struck(con, ch) \in Sound /\ con' = console_cursor_right(Struck(con, ch))
      BY <2>1, StruckIs DEF Leads
    <2>3. Advances(Struck(con, ch), con', 1)
      BY <2>2, TabIs
    <2> QED
      BY <2>3 DEF Advances, Leads
  <1>4. CASE Coordinate
    <2>1. PICK ch \in XyByte : con' = process_xy(con, ch)
      BY <1>4 DEF Coordinate
    <2>2. ch \in Byte /\ con.xflg \in {"byte1", "byte2"}
      BY <1>4, <2>1, ConsoleAssumption, SoundFields DEF Coordinate, Byte
    <2> QED
      BY <2>1, <2>2, FirstByteIs, SecondByteIs
  <1> QED
    BY <1>1, <1>2, <1>3, <1>4 DEF Next

\* The inductive invariant: types, the row offset, the memory around the page
\* and what is on it.
THEOREM Invariance == Spec => []IInv
  <1>1. Init => IInv
    BY InitSound, SoundMeans
  <1>2. IInv /\ [Next]_con => IInv'
    <2> SUFFICES ASSUME IInv, [Next]_con
                 PROVE  IInv'
      OBVIOUS
    <2>1. con \in Sound
      BY SoundMeans
    <2>2. con' \in Sound
      <3>1. CASE Next
        BY <2>1, <3>1, StepSound
      <3>2. CASE UNCHANGED con
        BY <2>1, <3>2
      <3> QED
        BY <3>1, <3>2
    <2>3. (con \in Sound)' => IInv'
      BY SoundMeans, PTL
    <2> QED
      BY <2>2, <2>3
  <1> QED
    BY <1>1, <1>2, PTL DEF Spec

\* The cursor is on the page and everything has its type.
THEOREM TypeCorrect == Spec => []TypeOK
  <1>1. IInv => TypeOK
    BY DEF IInv
  <1> QED
    BY Invariance, <1>1, PTL

\* Text and bitmap mean the same row: cury is the offset of cursy.
THEOREM RowOffsetCorrect == Spec => []RowOffset
  <1>1. IInv => RowOffset
    BY DEF IInv
  <1> QED
    BY Invariance, <1>1, PTL

\* No loop, move or erasure writes outside the page.
THEOREM GuardCorrect == Spec => []GuardUntouched
  <1>1. IInv => GuardUntouched
    BY DEF IInv
  <1> QED
    BY Invariance, <1>1, PTL

-----------------------------------------------------------------------------
(***************************************************************************)
(* The page as a function of places, and what moving its rows does to it.  *)
(***************************************************************************)
TextFrom(mem) == [p \in Page |-> mem[offset(p)]]

MarksFrom(mem) == {p \in Page : mem[offset(p)] = 1}

From(p, k) == <<p[1], p[2] + k>>   \* where what comes to p was

LEMMA PlaceIs ==
    ASSUME NEW p \in Page
    PROVE  /\ p[1] \in 0 .. SCREEN_COLS - 1 /\ p[2] \in 0 .. SCREEN_ROWS - 1
           /\ p = <<p[1], p[2]>>
           /\ offset(p) = Row(p[2]) + p[1]
           /\ offset(p) \in Word /\ offset(p) < SCREEN_SIZE
           /\ Row(p[2]) <= offset(p) /\ offset(p) < Row(p[2]) + SCREEN_COLS
  <1>1. p[1] \in 0 .. SCREEN_COLS - 1 /\ p[2] \in 0 .. SCREEN_ROWS - 1 /\ p = <<p[1], p[2]>>
    BY DEF Page
  <1>2. offset(p) = Row(p[2]) + p[1]
    BY DEF offset, Row
  <1>3. Row(p[2]) \in Word /\ Row(p[2]) + SCREEN_COLS <= SCREEN_SIZE
    BY <1>1, RowOnPage
  <1> HIDE DEF Page, offset
  <1> QED
    BY <1>1, <1>2, <1>3, Values

\* Rows come in order.
LEMMA RowOrder ==
    ASSUME NEW p \in Page, NEW y \in Int
    PROVE  /\ offset(p) < Row(y) <=> p[2] < y
           /\ offset(p) >= Row(y) <=> p[2] >= y
  <1>1. /\ p[2] \in Int /\ offset(p) \in Int /\ Row(p[2]) \in Int /\ Row(y) \in Int
        /\ Row(p[2]) <= offset(p) /\ offset(p) < Row(p[2]) + SCREEN_COLS
    <2>1. /\ p[2] \in 0 .. SCREEN_ROWS - 1 /\ offset(p) \in Word
          /\ Row(p[2]) <= offset(p) /\ offset(p) < Row(p[2]) + SCREEN_COLS
      BY PlaceIs
    <2>2. p[2] \in Int /\ offset(p) \in Int
      BY <2>1, Values
    <2>3. Row(p[2]) \in Int /\ Row(y) \in Int
      BY <2>2, NextRow
    <2> QED
      BY <2>1, <2>2, <2>3
  <1>2. p[2] < y => Row(p[2]) + SCREEN_COLS <= Row(y)
    BY <1>1, RowsAscend
  <1>3. y < p[2] => Row(y) + SCREEN_COLS <= Row(p[2])
    BY <1>1, RowsAscend
  <1>4. y = p[2] => Row(y) = Row(p[2])
    OBVIOUS
  <1> QED
    BY <1>1, <1>2, <1>3, <1>4, Values

LEMMA FromIs ==
    ASSUME NEW p \in Page, NEW k \in Int
    PROVE  /\ From(p, k)[1] = p[1] /\ From(p, k)[2] = p[2] + k
           /\ From(p, k) \in Page <=> p[2] + k \in 0 .. SCREEN_ROWS - 1
           /\ offset(From(p, k)) = offset(p) + Row(k)
           /\ From(p, 0) = p
  <1>1. p[1] \in 0 .. SCREEN_COLS - 1 /\ p[2] \in 0 .. SCREEN_ROWS - 1 /\ p = <<p[1], p[2]>>
    BY PlaceIs
  <1>2. From(p, k)[1] = p[1] /\ From(p, k)[2] = p[2] + k
    BY DEF From
  <1>3. From(p, k) \in Page <=> p[2] + k \in 0 .. SCREEN_ROWS - 1
    BY <1>1 DEF From, Page
  <1>4. offset(From(p, k)) = offset(p) + Row(k)
    <2>1. (p[2] + k) * SCREEN_COLS = p[2] * SCREEN_COLS + k * SCREEN_COLS
          /\ p[2] * SCREEN_COLS \in Int /\ k * SCREEN_COLS \in Int
      BY <1>1, Values
    <2>2. p[1] \in Int
      BY <1>1, Values
    <2> QED
      BY <1>2, <2>1, <2>2 DEF offset, Row
  <1>5. From(p, 0) = p
    <2>1. p[2] + 0 = p[2]
      BY <1>1
    <2> QED
      BY <1>1, <2>1 DEF From
  <1> QED
    BY <1>2, <1>3, <1>4, <1>5

\* The rows from y on moved by k, on the page.
Moved(mem, new, y, k, byte) ==
    \A p \in Page :
        new[offset(p)] = IF p[2] < y THEN mem[offset(p)]
                         ELSE IF From(p, k) \in Page /\ From(p, k)[2] >= y
                         THEN mem[offset(From(p, k))] ELSE byte

LEMMA MovedIs ==
    ASSUME NEW mem, NEW byte, NEW y \in 0 .. SCREEN_ROWS - 1
    PROVE  /\ Moved(mem, Raised(mem, Row(y), byte), y, 1, byte)
           /\ Moved(mem, Lowered(mem, Row(y), byte), y, -1, byte)
  <1> SUFFICES ASSUME NEW p \in Page
               PROVE  /\ Raised(mem, Row(y), byte)[offset(p)]
                           = IF p[2] < y THEN mem[offset(p)]
                             ELSE IF From(p, 1) \in Page /\ From(p, 1)[2] >= y
                             THEN mem[offset(From(p, 1))] ELSE byte
                      /\ Lowered(mem, Row(y), byte)[offset(p)]
                           = IF p[2] < y THEN mem[offset(p)]
                             ELSE IF From(p, -1) \in Page /\ From(p, -1)[2] >= y
                             THEN mem[offset(From(p, -1))] ELSE byte
    BY DEF Moved
  <1> DEFINE i == offset(p)
             r == p[2]
  <1>1. i \in Word /\ i < SCREEN_SIZE /\ i \in Int /\ r \in 0 .. SCREEN_ROWS - 1
        /\ y \in Int /\ r \in Int
    BY PlaceIs, Values
  <1>2. i < Row(y) <=> r < y
    BY <1>1, RowOrder
  <1>3. Row(1) = SCREEN_COLS /\ Row(-1) = -SCREEN_COLS
    BY Values DEF Row
  <1>4. /\ From(p, 1)[2] = r + 1 /\ (From(p, 1) \in Page <=> r + 1 \in 0 .. SCREEN_ROWS - 1)
        /\ offset(From(p, 1)) = i + SCREEN_COLS
    BY <1>3, FromIs
  <1>5. /\ From(p, -1)[2] = r + (-1)
        /\ (From(p, -1) \in Page <=> r + (-1) \in 0 .. SCREEN_ROWS - 1)
        /\ offset(From(p, -1)) = i + (-SCREEN_COLS)
    BY <1>3, FromIs
  <1>6. /\ Raised(mem, Row(y), byte)[i]
             = IF r < y THEN mem[i] ELSE IF i < LastRow THEN mem[i + SCREEN_COLS] ELSE byte
        /\ Lowered(mem, Row(y), byte)[i]
             = IF r < y THEN mem[i]
               ELSE IF i >= Row(y) + SCREEN_COLS THEN mem[i - SCREEN_COLS] ELSE byte
    <2>1. ~(i >= SCREEN_SIZE)
      BY <1>1, Values
    <2> HIDE DEF i, r
    <2> QED
      BY <1>1, <1>2, <2>1 DEF Raised, Lowered
  <1>7. i < LastRow <=> r < SCREEN_ROWS - 1
    <2>1. SCREEN_ROWS - 1 \in Int /\ LastRow = Row(SCREEN_ROWS - 1)
      BY Values
    <2> QED
      BY <2>1, RowOrder
  <1>8. i >= Row(y) + SCREEN_COLS <=> r >= y + 1
    <2>1. y + 1 \in Int /\ Row(y + 1) = Row(y) + SCREEN_COLS
      BY <1>1, NextRow
    <2> QED
      BY <2>1, RowOrder
  <1> DEFINE up == From(p, 1)
             dn == From(p, -1)
  <1> HIDE DEF i, r, up, dn
  <1>9. /\ ~(r < y) => (up \in Page /\ up[2] >= y <=> i < LastRow)
        /\ ~(r < y) => (dn \in Page /\ dn[2] >= y <=> i >= Row(y) + SCREEN_COLS)
    BY <1>1, <1>4, <1>5, <1>7, <1>8, Values DEF up, dn
  <1>10. i - SCREEN_COLS = i + (-SCREEN_COLS)
    BY <1>1, Values
  <1>11. /\ Raised(mem, Row(y), byte)[i] = IF r < y THEN mem[i]
                                           ELSE IF up \in Page /\ up[2] >= y
                                           THEN mem[offset(up)] ELSE byte
         /\ Lowered(mem, Row(y), byte)[i] = IF r < y THEN mem[i]
                                            ELSE IF dn \in Page /\ dn[2] >= y
                                            THEN mem[offset(dn)] ELSE byte
    BY <1>4, <1>5, <1>6, <1>9, <1>10 DEF up, dn
  <1> QED
    BY <1>11 DEF i, r, up, dn

LEMMA ScrolledMoves ==
    ASSUME NEW mem, NEW byte, NEW k \in Nat
    PROVE  Moved(mem, Scrolled(mem, k, byte), 0, k, byte)
  <1> SUFFICES ASSUME NEW p \in Page
               PROVE  Scrolled(mem, k, byte)[offset(p)]
                        = IF p[2] < 0 THEN mem[offset(p)]
                          ELSE IF From(p, k) \in Page /\ From(p, k)[2] >= 0
                          THEN mem[offset(From(p, k))] ELSE byte
    BY DEF Moved
  <1> DEFINE i == offset(p)
             r == p[2]
             w == From(p, k)
  <1>1. i \in Word /\ i < SCREEN_SIZE /\ i \in Int /\ r \in 0 .. SCREEN_ROWS - 1
    BY PlaceIs, Values
  <1>2. /\ w[2] = r + k /\ (w \in Page <=> r + k \in 0 .. SCREEN_ROWS - 1)
        /\ offset(w) = i + Row(k)
    BY FromIs
  <1>3. i + Row(k) < SCREEN_SIZE <=> r + k < SCREEN_ROWS
    <2> DEFINE y == SCREEN_ROWS - k
    <2>1. y \in Int /\ y + k = SCREEN_ROWS
      BY Values
    <2>2. Row(y) + Row(k) = SCREEN_SIZE /\ Row(y) \in Int /\ Row(k) \in Int
      <3>1. (y + k) * SCREEN_COLS = y * SCREEN_COLS + k * SCREEN_COLS
            /\ y * SCREEN_COLS \in Int /\ k * SCREEN_COLS \in Int
        BY <2>1, Values
      <3>2. (y + k) * SCREEN_COLS = SCREEN_SIZE
        BY <2>1, Values DEF Row
      <3> HIDE DEF y
      <3> QED
        BY <3>1, <3>2 DEF Row
    <2>3. i < Row(y) <=> r < y
      BY <2>1, RowOrder
    <2>4. r < y <=> r + k < SCREEN_ROWS
      BY <1>1, <2>1, Values
    <2> HIDE DEF i, r, y
    <2> QED
      BY <1>1, <2>2, <2>3, <2>4, Values
  <1>4. Scrolled(mem, k, byte)[i] = IF i + Row(k) < SCREEN_SIZE THEN mem[i + Row(k)] ELSE byte
    <2>1. ~(i >= SCREEN_SIZE)
      BY <1>1, Values
    <2> HIDE DEF i
    <2> QED
      BY <1>1, <2>1 DEF Scrolled
  <1> HIDE DEF i, r, w
  <1>5. ~(r < 0) /\ (w \in Page /\ w[2] >= 0 <=> r + k < SCREEN_ROWS)
    BY <1>1, <1>2, Values
  <1>6. Scrolled(mem, k, byte)[i] = IF r < 0 THEN mem[i]
                                    ELSE IF w \in Page /\ w[2] >= 0
                                    THEN mem[offset(w)] ELSE byte
    BY <1>2, <1>3, <1>4, <1>5
  <1> QED
    BY <1>6 DEF i, r, w

\* In the words of Screen.
LEMMA MovedText ==
    ASSUME NEW mem, NEW new, NEW y, NEW k \in Int, NEW byte, Moved(mem, new, y, k, byte)
    PROVE  \A p \in Page :
               TextFrom(new)[p] = IF p[2] < y THEN TextFrom(mem)[p]
                                  ELSE IF From(p, k) \in Page /\ From(p, k)[2] >= y
                                  THEN TextFrom(mem)[From(p, k)] ELSE byte
  BY DEF Moved, TextFrom

LEMMA MovedMarks ==
    ASSUME NEW mem, NEW new, NEW y, NEW k \in Int, Moved(mem, new, y, k, 0)
    PROVE  MarksFrom(new) =
               {p \in Page : IF p[2] < y THEN p \in MarksFrom(mem)
                             ELSE (From(p, k) \in Page /\ From(p, k)[2] >= y)
                                  /\ From(p, k) \in MarksFrom(mem)}
  BY DEF Moved, MarksFrom

-----------------------------------------------------------------------------
(***************************************************************************)
(* Each step of the console is a step of Screen.                           *)
(***************************************************************************)
Idling == con.xflg = "normal" /\ con'.xflg = "normal"

LEMMA SameIdle ==
    ASSUME Idling
    PROVE  S!Idle
  BY DEF Idling, S!Idle, S!None

\* The rows from y on moved by k, seen from a text and a bitmap.
LEMMA MovesLines ==
    ASSUME NEW t, NEW b, NEW y, NEW k \in Int,
           Moved(t, con'.display, y, k, Blank), Moved(b, con'.bgmap, y, k, 0)
    PROVE  S!MoveLines(TextFrom(t), MarksFrom(b), y, k)
  <1>1. Page = S!Place
    BY DEF Page, S!Place
  <1>2. TextFrom(con'.display) =
            [p \in Page |-> IF p[2] < y THEN TextFrom(t)[p]
                            ELSE IF From(p, k) \in Page /\ From(p, k)[2] >= y
                            THEN TextFrom(t)[From(p, k)] ELSE Blank]
    <2>1. \A p \in Page :
             TextFrom(con'.display)[p]
                = IF p[2] < y THEN TextFrom(t)[p]
                  ELSE IF From(p, k) \in Page /\ From(p, k)[2] >= y
                  THEN TextFrom(t)[From(p, k)] ELSE Blank
      BY MovedText
    <2>2. TextFrom(con'.display) = [p \in Page |-> TextFrom(con'.display)[p]]
      BY DEF TextFrom
    <2> QED
      BY <2>1, <2>2
  <1>3. MarksFrom(con'.bgmap) =
            {p \in Page : IF p[2] < y THEN p \in MarksFrom(b)
                          ELSE (From(p, k) \in Page /\ From(p, k)[2] >= y)
                               /\ From(p, k) \in MarksFrom(b)}
    BY MovedMarks
  <1>4. TextFrom(con'.display) = [p \in Page |-> con'.display[offset(p)]]
    BY DEF TextFrom
  <1>5. MarksFrom(con'.bgmap) = {p \in Page : con'.bgmap[offset(p)] = 1}
    BY DEF MarksFrom
  <1> DEFINE tf == TextFrom(t)
             mf == MarksFrom(b)
  <1> HIDE DEF tf, mf
  <1>6. /\ [p \in Page |-> con'.display[offset(p)]] =
              [p \in Page |-> IF p[2] < y THEN tf[p]
                              ELSE IF From(p, k) \in Page /\ From(p, k)[2] >= y
                              THEN tf[From(p, k)] ELSE Blank]
        /\ {p \in Page : con'.bgmap[offset(p)] = 1} =
              {p \in Page : IF p[2] < y THEN p \in mf
                            ELSE (From(p, k) \in Page /\ From(p, k)[2] >= y)
                                 /\ From(p, k) \in mf}
    BY <1>2, <1>3, <1>4, <1>5 DEF tf, mf
  <1>7. S!MoveLines(tf, mf, y, k)
    BY <1>1, <1>6 DEF S!MoveLines, From
  <1> QED
    BY <1>7 DEF tf, mf

\* Nothing moved.
LEMMA SamePage ==
    ASSUME con'.display = con.display
    PROVE  [p \in Page |-> con'.display[offset(p)]] = [p \in Page |-> con.display[offset(p)]]
  OBVIOUS

LEMMA ForwardStep ==
    ASSUME NEW d \in Sound, NEW n \in Nat, Advances(d, con', n),
           d.curx = con.curx, d.cursy = con.cursy
    PROVE  S!Forward(TextFrom(d.display), MarksFrom(d.bgmap), n)
  <1> DEFINE y == LineAt(d, n)
             x == ColumnAt(d, n)
             k == Over(y)
  <1>1. y \in Nat /\ k \in Nat
    <2>1. y \in Nat
      BY PlacesAt
    <2> HIDE DEF y
    <2> QED
      BY <2>1, Values DEF Over
  <1>2. /\ con'.display = Scrolled(d.display, k, Blank)
        /\ con'.bgmap = Scrolled(d.bgmap, k, 0)
        /\ con'.curx = x /\ con'.cursy = y - k
    BY DEF Advances, Leads
  <1>3. S!MoveLines(TextFrom(d.display), MarksFrom(d.bgmap), 0, k)
    <2>1. k \in Int
      BY <1>1
    <2> HIDE DEF k
    <2>2. Moved(d.display, con'.display, 0, k, Blank) /\ Moved(d.bgmap, con'.bgmap, 0, k, 0)
      BY <1>1, <1>2, ScrolledMoves
    <2> QED
      BY <2>1, <2>2, MovesLines
  <1>4. /\ x = (con.curx + n) % SCREEN_COLS
        /\ y = con.cursy + (con.curx + n) \div SCREEN_COLS
    BY DEF ColumnAt, LineAt
  <1>5. k = IF y < SCREEN_ROWS THEN 0 ELSE y - (SCREEN_ROWS - 1)
    BY DEF Over
  <1> HIDE DEF x, y, k
  <1>6. S!GoTo(TextFrom(d.display), MarksFrom(d.bgmap), x, y)
    BY <1>2, <1>3, <1>5 DEF S!GoTo
  <1>7. <<con.curx, con.cursy>>[1] = con.curx /\ <<con.curx, con.cursy>>[2] = con.cursy
    OBVIOUS
  <1> QED
    BY <1>4, <1>6, <1>7 DEF S!Forward

LEMMA ShowStep ==
    ASSUME con \in Sound, Idling, NEW ch \in Char, con' = put_printable(con, ch)
    PROVE  S!Show(ch) /\ con'.adrmod = con.adrmod
  <1> DEFINE d == Struck(con, ch)
             p == con.cury + con.curx
             at == <<con.curx, con.cursy>>
  <1>1. /\ d \in Sound /\ d.display = [con.display EXCEPT ![p] = ch]
        /\ d.bgmap = (IF con.bg_flag = "background"
                      THEN [con.bgmap EXCEPT ![p] = 1] ELSE con.bgmap)
        /\ d.curx = con.curx /\ d.cursy = con.cursy /\ d.bg_flag = con.bg_flag
        /\ d.adrmod = con.adrmod
        /\ con' = console_cursor_right(d)
    BY StruckIs DEF Leads
  <1> HIDE DEF d
  <1>2. Advances(d, con', 1) /\ con'.bg_flag = d.bg_flag /\ con'.adrmod = d.adrmod
    <2>1. Advances(d, con', 1)
      BY <1>1, TabIs
    <2> QED
      BY <2>1 DEF Advances, Leads
  <1>3. S!Forward(TextFrom(d.display), MarksFrom(d.bgmap), 1)
    BY <1>1, <1>2, ForwardStep
  <1>4. at \in Page /\ offset(at) = p /\ p \in Word
    <2>1. con.curx \in 0 .. SCREEN_COLS - 1 /\ con.cursy \in 0 .. SCREEN_ROWS - 1
      BY SoundFields
    <2>2. offset(at) = con.cursy * SCREEN_COLS + con.curx
      BY DEF offset
    <2> QED
      BY <2>1, <2>2, CursorAt DEF Page
  <1>5. \A q \in Page : offset(q) = p <=> q = at
    <2> SUFFICES ASSUME NEW q \in Page, offset(q) = p
                 PROVE  q = at
      BY <1>4
    <2>1. /\ q[1] \in 0 .. SCREEN_COLS - 1 /\ q[2] \in 0 .. SCREEN_ROWS - 1
          /\ q = <<q[1], q[2]>> /\ offset(q) = Row(q[2]) + q[1]
      BY PlaceIs
    <2>2. /\ con.curx \in 0 .. SCREEN_COLS - 1 /\ con.cursy \in 0 .. SCREEN_ROWS - 1
          /\ p = Row(con.cursy) + con.curx
      BY SoundFields
    <2>3. q[2] = con.cursy
      <3>1. offset(at) >= Row(con.cursy) /\ at[2] = con.cursy
        BY <1>4, <2>2, RowOrder, Values
      <3>2. q[2] >= con.cursy
        BY <1>4, <2>2, <3>1, RowOrder, Values
      <3>3. offset(q) >= Row(q[2])
        BY <2>1, RowOrder, Values
      <3>4. con.cursy >= q[2]
        <4>1. offset(at) >= Row(q[2]) /\ q[2] \in Int
          BY <1>4, <2>1, <3>3, Values
        <4> QED
          BY <1>4, <3>1, <4>1, RowOrder
      <3> QED
        BY <2>1, <2>2, <3>2, <3>4, Values
    <2>4. q[1] = con.curx
      <3> DEFINE r == Row(con.cursy)
      <3>1. r \in Int
        <4>1. r \in Word
          BY <2>2, RowOnPage
        <4> QED
          BY <4>1, Values
      <3>2. p = r + q[1] /\ p = r + con.curx
        BY <2>1, <2>2, <2>3
      <3>3. q[1] \in Int /\ con.curx \in Int
        BY <2>1, <2>2, Values
      <3> DEFINE a == q[1]
                 b == con.curx
      <3>4. a \in Int /\ b \in Int /\ r + a = r + b
        BY <3>2, <3>3
      <3> HIDE DEF p, r, a, b
      <3>5. a = b
        BY <3>1, <3>4
      <3> QED
        BY <3>5 DEF a, b
    <2> QED
      BY <2>1, <2>3, <2>4
  <1> HIDE DEF p, at
  <1>6. TextFrom(d.display) = [TextFrom(con.display) EXCEPT ![at] = ch]
    <2>1. con.display \in [Word -> Char \cup {Other}]
      BY SoundFields, Outer
    <2>2. \A q \in Page : offset(q) \in Word
      BY PlaceIs
    <2> QED
      BY <1>1, <1>4, <1>5, <2>1, <2>2 DEF TextFrom
  <1>7. MarksFrom(d.bgmap) = IF con.bg_flag = "background"
                             THEN MarksFrom(con.bgmap) \cup {at} ELSE MarksFrom(con.bgmap)
    <2>1. con.bgmap \in [Word -> {0, 1, Other}]
      BY SoundFields
    <2>2. \A q \in Page : offset(q) \in Word
      BY PlaceIs
    <2> QED
      BY <1>1, <1>4, <1>5, <2>1, <2>2 DEF MarksFrom
  <1>8. S!Idle
    BY SameIdle
  <1>9. S!Forward([TextFrom(con.display) EXCEPT ![at] = ch],
                  IF con.bg_flag = "background" THEN MarksFrom(con.bgmap) \cup {at}
                  ELSE MarksFrom(con.bgmap), 1)
    BY <1>3, <1>6, <1>7
  <1>10. con'.bg_flag = con.bg_flag
    BY <1>1, <1>2
  <1> QED
    BY <1>1, <1>2, <1>8, <1>9, <1>10 DEF S!Show, TextFrom, MarksFrom, at

\* The cursor moves, and nothing else does.
LEMMA MoveStep ==
    ASSUME Idling, NEW x, NEW y, Leads(con, con', con.display, con.bgmap, x, y)
    PROVE  S!Move(<<x, y>>)
  <1>1. /\ con'.display = con.display /\ con'.bgmap = con.bgmap
        /\ con'.curx = x /\ con'.cursy = y /\ con'.bg_flag = con.bg_flag
    BY DEF Leads
  <1>2. S!Idle
    BY SameIdle
  <1> QED
    BY <1>1, <1>2 DEF S!Move

LEMMA LeftStep ==
    ASSUME con \in Sound, Idling, con' = console_cursor_left(con)
    PROVE  S!Left
  <1> DEFINE x == con.curx
             y == con.cursy
             m == SCREEN_COLS * SCREEN_ROWS
             n == (y * SCREEN_COLS + x - 1) % m
             nx == IF x > 0 THEN x - 1 ELSE SCREEN_COLS - 1
             ny == IF x > 0 THEN y ELSE IF y > 0 THEN y - 1 ELSE SCREEN_ROWS - 1
             o == y * SCREEN_COLS
             new == ny * SCREEN_COLS
  <1>1. x \in 0 .. SCREEN_COLS - 1 /\ y \in 0 .. SCREEN_ROWS - 1
    BY SoundFields
  <1>2. Leads(con, con', con.display, con.bgmap, nx, ny)
    BY LeftIs
  <1>3. nx \in 0 .. SCREEN_COLS - 1 /\ ny \in 0 .. SCREEN_ROWS - 1 /\ ny \in Int
    <2> HIDE DEF x, y
    <2> QED
      BY <1>1, Values
  <1>4. /\ o = Row(y) /\ new = Row(ny) /\ m = SCREEN_SIZE
        /\ o \in Int /\ new \in Int /\ 0 <= new /\ new + SCREEN_COLS <= m /\ m \in Int /\ m > 0
        /\ 0 <= o /\ o + SCREEN_COLS <= m
    <2>1. o = Row(y) /\ new = Row(ny) /\ m = SCREEN_SIZE
      BY DEF Row, SCREEN_SIZE
    <2>2. /\ Row(y) \in Word /\ Row(y) + SCREEN_COLS <= SCREEN_SIZE
          /\ Row(ny) \in Word /\ Row(ny) + SCREEN_COLS <= SCREEN_SIZE
      BY <1>1, <1>3, RowOnPage
    <2> HIDE DEF o, new, m, ny, y
    <2> QED
      BY <2>1, <2>2, Values
  <1>5. o = IF x > 0 THEN new ELSE IF y > 0 THEN new + SCREEN_COLS ELSE 0
    <2>1. y > 0 => Row(y) = Row(y - 1) + SCREEN_COLS
      <3>1. y \in Int
        BY <1>1, Values
      <3> HIDE DEF y
      <3>2. Row(y - 1) = Row(y) - SCREEN_COLS /\ Row(y) \in Int
        BY <3>1, NextRow
      <3> QED
        BY <3>2, Values
    <2>2. y = 0 => o = 0
      BY <1>1, <1>4, RowOnPage
    <2>3. CASE x > 0
      BY <2>3
    <2>4. CASE ~(x > 0) /\ y > 0
      <3>1. ny = y - 1
        BY <2>4
      <3> HIDE DEF o, new, ny, y, x
      <3> QED
        BY <1>4, <2>1, <2>4, <3>1
    <2>5. CASE ~(x > 0) /\ ~(y > 0)
      BY <1>1, <2>2, <2>5
    <2> QED
      BY <2>3, <2>4, <2>5
  <1>6. y = 0 /\ ~(x > 0) => new = m - SCREEN_COLS
    <2>1. y = 0 /\ ~(x > 0) => ny = SCREEN_ROWS - 1
      OBVIOUS
    <2>2. ny = SCREEN_ROWS - 1 => new = LastRow
      BY DEF LastRow
    <2> HIDE DEF m, new, ny
    <2> QED
      BY <1>4, <2>1, <2>2, Values
  <1> DEFINE a == o + x - 1
  <1> HIDE DEF o, m, new
  <1>7. a % m = new + nx /\ new + nx \in Int
    <2> DEFINE z == new + nx
    <2>1. z \in Int /\ 0 <= z /\ z < m
      <3> HIDE DEF nx
      <3> QED
        BY <1>3, <1>4, Values
    <2>2. a \in Int /\ (a = z \/ a = z - m)
      <3> HIDE DEF x, y
      <3>1. CASE x > 0
        <4>1. x \in Int /\ nx = x - 1 /\ o = new
          BY <1>1, <1>5, <3>1, Values
        <4> HIDE DEF nx
        <4> QED
          BY <1>4, <4>1
      <3>2. CASE ~(x > 0) /\ y > 0
        <4>1. x = 0 /\ nx = SCREEN_COLS - 1 /\ SCREEN_COLS \in Int
          BY <1>1, <3>2, Values
        <4>2. o = new + SCREEN_COLS
          BY <1>5, <3>2
        <4> HIDE DEF nx
        <4> QED
          BY <1>4, <4>1, <4>2
      <3>3. CASE ~(x > 0) /\ ~(y > 0)
        <4>1. x = 0 /\ nx = SCREEN_COLS - 1 /\ SCREEN_COLS \in Int /\ y = 0
          BY <1>1, <3>3, Values
        <4>2. o = 0 /\ new = m - SCREEN_COLS
          BY <1>5, <1>6, <3>3, <4>1
        <4> HIDE DEF nx
        <4> QED
          BY <1>4, <4>1, <4>2
      <3> QED
        BY <3>1, <3>2, <3>3
    <2> HIDE DEF a, z
    <2>3. a % m = z
      BY <1>4, <2>1, <2>2
    <2> QED
      BY <2>1, <2>3 DEF z
  <1>8. n = new + nx
    BY <1>7 DEF o
  <1>9. n % SCREEN_COLS = nx /\ n \div SCREEN_COLS = ny
    <2> DEFINE b == n
    <2>1. b \in Int /\ b = ny * SCREEN_COLS + nx
      BY <1>7, <1>8 DEF new
    <2> HIDE DEF b, nx, ny
    <2>2. b % SCREEN_COLS = nx /\ b \div SCREEN_COLS = ny
      BY <1>3, <2>1, Values
    <2> QED
      BY <2>2 DEF b
  <1>10. S!Move(<<nx, ny>>)
    <2> HIDE DEF nx, ny
    <2> QED
      BY <1>2, MoveStep
  <1>11. S!Left <=> S!Move(<<n % SCREEN_COLS, n \div SCREEN_COLS>>)
    BY DEF S!Left, m
  <1> HIDE DEF n, nx, ny
  <1> QED
    BY <1>9, <1>10, <1>11

LEMMA UpStep ==
    ASSUME con \in Sound, Idling, con' = console_cursor_up(con)
    PROVE  S!Up
  <1> DEFINE x == con.curx
             y == con.cursy
             ny == IF y > 0 THEN y - 1 ELSE SCREEN_ROWS - 1
             a == y - 1
  <1>1. y \in 0 .. SCREEN_ROWS - 1
    BY SoundFields
  <1>2. Leads(con, con', con.display, con.bgmap, x, ny)
    BY UpIs
  <1>3. S!Move(<<x, ny>>)
    <2> HIDE DEF x, ny
    <2> QED
      BY <1>2, MoveStep
  <1>4. a % SCREEN_ROWS = ny
    <2> DEFINE m == SCREEN_ROWS
    <2>1. m \in Int /\ m > 1 /\ ny \in Int /\ 0 <= ny /\ ny < m /\ a \in Int
          /\ (a = ny \/ a = ny - m)
      BY <1>1, Values
    <2> HIDE DEF m, a, ny
    <2>2. a % m = ny
      BY <2>1
    <2> QED
      BY <2>2 DEF m
  <1> HIDE DEF ny
  <1>5. (con.cursy - 1) % SCREEN_ROWS = ny
    BY <1>4
  <1> QED
    BY <1>3, <1>5 DEF S!Up

LEMMA HomeSteps ==
    ASSUME con \in Sound, Idling
    PROVE  /\ con' = console_home(con) => S!Home
           /\ con' = console_carriage_return(con) => S!CarriageReturn
  <1>1. con' = console_home(con) => S!Move(<<0, 0>>)
    BY HomeIs, MoveStep
  <1>2. con' = console_carriage_return(con) => S!Move(<<0, con.cursy>>)
    BY HomeIs, MoveStep
  <1> QED
    BY <1>1, <1>2 DEF S!Home, S!CarriageReturn

LEMMA RightSteps ==
    ASSUME con \in Sound, Idling
    PROVE  /\ con' = console_cursor_right(con) => S!Right
           /\ con' = console_tab(con) => S!Tab
  <1>1. ASSUME NEW n \in Nat, Advances(con, con', n)
        PROVE  /\ S!Forward(TextFrom(con.display), MarksFrom(con.bgmap), n)
               /\ con'.bg_flag = con.bg_flag
    <2>1. con'.bg_flag = con.bg_flag
      BY <1>1 DEF Advances, Leads
    <2> QED
      BY <1>1, <2>1, ForwardStep
  <1>2. con' = console_cursor_right(con) =>
           /\ S!Forward(TextFrom(con.display), MarksFrom(con.bgmap), 1)
           /\ con'.bg_flag = con.bg_flag
    BY <1>1, TabIs
  <1>3. con' = console_tab(con) =>
           /\ S!Forward(TextFrom(con.display), MarksFrom(con.bgmap), 4)
           /\ con'.bg_flag = con.bg_flag
    BY <1>1, TabIs
  <1>4. S!Idle
    BY SameIdle
  <1>5. /\ TextFrom(con.display) = [p \in Page |-> con.display[offset(p)]]
        /\ MarksFrom(con.bgmap) = {p \in Page : con.bgmap[offset(p)] = 1}
    BY DEF TextFrom, MarksFrom
  <1> QED
    BY <1>2, <1>3, <1>4, <1>5 DEF S!Right, S!Tab

\* The first round of scrolling.
LEMMA ScrolledFirst ==
    ASSUME NEW V, NEW mem \in [Word -> V], NEW byte
    PROVE  /\ Scrolled(mem, 0, byte) = mem
           /\ Raised(mem, 0, byte) = Scrolled(mem, 1, byte)
  <1> DEFINE k == 0
  <1>1. k \in Nat /\ k + 1 = 1
    OBVIOUS
  <1>2. Scrolled(mem, 0, byte) = mem
    BY ScrolledOnce
  <1> HIDE DEF k
  <1>3. Raised(Scrolled(mem, k, byte), 0, byte) = Scrolled(mem, k + 1, byte)
    BY <1>1, ScrolledOnce
  <1> QED
    BY <1>1, <1>2, <1>3 DEF k

LEMMA LinefeedStep ==
    ASSUME con \in Sound, Idling, con' = console_linefeed(con)
    PROVE  S!LineFeed
  <1> DEFINE y == con.cursy + 1
             k == Over(y)
  <1>1. con.cursy \in 0 .. SCREEN_ROWS - 1 /\ con.display \in [Word -> Char \cup {Other}]
        /\ con.bgmap \in [Word -> {0, 1, Other}]
    BY SoundFields, Outer
  <1>2. /\ k \in {0, 1}
        /\ con.cursy < SCREEN_ROWS - 1 => k = 0 /\ con.cursy + 1 = y - k
        /\ ~(con.cursy < SCREEN_ROWS - 1) => k = 1 /\ con.cursy = y - k
    BY <1>1, Values DEF Over
  <1>3. /\ Scrolled(con.display, 0, Blank) = con.display
        /\ Scrolled(con.bgmap, 0, 0) = con.bgmap
        /\ Raised(con.display, 0, Blank) = Scrolled(con.display, 1, Blank)
        /\ Raised(con.bgmap, 0, 0) = Scrolled(con.bgmap, 1, 0)
    BY <1>1, ScrolledFirst
  <1>4. Leads(con, con', Scrolled(con.display, k, Blank), Scrolled(con.bgmap, k, 0),
              con.curx, y - k)
    <2> HIDE DEF k
    <2> QED
      BY <1>2, <1>3, LinefeedIs
  <1>5. /\ con'.display = Scrolled(con.display, k, Blank)
        /\ con'.bgmap = Scrolled(con.bgmap, k, 0)
        /\ con'.curx = con.curx /\ con'.cursy = y - k /\ con'.bg_flag = con.bg_flag
    BY <1>4 DEF Leads
  <1>6. S!MoveLines(TextFrom(con.display), MarksFrom(con.bgmap), 0, k)
    <2>1. k \in Nat /\ k \in Int
      BY <1>2
    <2> HIDE DEF k
    <2>2. Moved(con.display, con'.display, 0, k, Blank) /\ Moved(con.bgmap, con'.bgmap, 0, k, 0)
      BY <1>5, <2>1, ScrolledMoves
    <2> QED
      BY <2>1, <2>2, MovesLines
  <1>7. k = IF y < SCREEN_ROWS THEN 0 ELSE y - (SCREEN_ROWS - 1)
    BY DEF Over
  <1> HIDE DEF k, y
  <1>8. S!GoTo(TextFrom(con.display), MarksFrom(con.bgmap), con.curx, y)
    BY <1>5, <1>6, <1>7 DEF S!GoTo
  <1>9. S!Idle
    BY SameIdle
  <1>10. /\ TextFrom(con.display) = [p \in Page |-> con.display[offset(p)]]
         /\ MarksFrom(con.bgmap) = {p \in Page : con.bgmap[offset(p)] = 1}
         /\ <<con.curx, con.cursy>>[1] = con.curx /\ <<con.curx, con.cursy>>[2] = con.cursy
    BY DEF TextFrom, MarksFrom
  <1> QED
    BY <1>5, <1>8, <1>9, <1>10 DEF S!LineFeed, y

LEMMA LineSteps ==
    ASSUME con \in Sound, Idling
    PROVE  /\ con' = console_insert_line(con) => S!InsertLine
           /\ con' = console_delete_line(con) => S!DeleteLine
  <1> DEFINE y == con.cursy
  <1>1. y \in 0 .. SCREEN_ROWS - 1
    BY SoundFields
  <1>2. S!Idle
    BY SameIdle
  <1>3. /\ TextFrom(con.display) = [p \in Page |-> con.display[offset(p)]]
        /\ MarksFrom(con.bgmap) = {p \in Page : con.bgmap[offset(p)] = 1}
        /\ <<con.curx, con.cursy>>[2] = y
    BY DEF TextFrom, MarksFrom
  <1> HIDE DEF y
  <1>4. ASSUME con' = console_insert_line(con)
        PROVE  S!InsertLine
    <2>1. /\ con'.display = Lowered(con.display, Row(y), Blank)
          /\ con'.bgmap = Lowered(con.bgmap, Row(y), 0)
          /\ con'.curx = con.curx /\ con'.cursy = con.cursy /\ con'.bg_flag = con.bg_flag
      BY <1>4, InsertLineIs DEF Leads, y
    <2>2. Moved(con.display, con'.display, y, -1, Blank) /\ Moved(con.bgmap, con'.bgmap, y, -1, 0)
      BY <1>1, <2>1, MovedIs
    <2>3. -1 \in Int
      OBVIOUS
    <2>4. S!MoveLines(TextFrom(con.display), MarksFrom(con.bgmap), y, -1)
      BY <2>2, <2>3, MovesLines
    <2> QED
      BY <1>2, <1>3, <2>1, <2>4 DEF S!InsertLine
  <1>5. ASSUME con' = console_delete_line(con)
        PROVE  S!DeleteLine
    <2>1. /\ con'.display = Raised(con.display, Row(y), Blank)
          /\ con'.bgmap = Raised(con.bgmap, Row(y), 0)
          /\ con'.curx = con.curx /\ con'.cursy = con.cursy /\ con'.bg_flag = con.bg_flag
      BY <1>5, DeleteLineIs DEF Leads, y
    <2>2. Moved(con.display, con'.display, y, 1, Blank) /\ Moved(con.bgmap, con'.bgmap, y, 1, 0)
      BY <1>1, <2>1, MovedIs
    <2>3. 1 \in Int
      OBVIOUS
    <2>4. S!MoveLines(TextFrom(con.display), MarksFrom(con.bgmap), y, 1)
      BY <2>2, <2>3, MovesLines
    <2> QED
      BY <1>2, <1>3, <2>1, <2>4 DEF S!DeleteLine
  <1> QED
    BY <1>4, <1>5

\* Places are blanked, and nothing else happens.
LEMMA EraseStep ==
    ASSUME Idling, NEW t, Leads(con, con', t, con.bgmap, con.curx, con.cursy),
           NEW places \in SUBSET Page,
           \A p \in Page : t[offset(p)] = IF p \in places THEN Blank
                                          ELSE con.display[offset(p)]
    PROVE  S!Idle /\ S!Erase(places)
  <1>1. /\ con'.display = t /\ con'.bgmap = con.bgmap
        /\ con'.curx = con.curx /\ con'.cursy = con.cursy /\ con'.bg_flag = con.bg_flag
    BY DEF Leads
  <1>2. S!Idle
    BY SameIdle
  <1>3. Page = S!Place
    BY DEF Page, S!Place
  <1>4. [p \in Page |-> con'.display[offset(p)]]
          = [p \in Page |-> IF p \in places THEN Blank
                            ELSE [q \in Page |-> con.display[offset(q)]][p]]
    BY <1>1
  <1>5. S!Erase(places)
    BY <1>1, <1>3, <1>4 DEF S!Erase
  <1> QED
    BY <1>2, <1>5

LEMMA EraseSteps ==
    ASSUME con \in Sound, Idling
    PROVE  /\ con' = console_erase_to_eol(con) => S!EraseToEol
           /\ con' = console_erase_to_eos(con) => S!EraseToEos
  <1> DEFINE x == con.curx
             y == con.cursy
             a == con.cury + x
             line == {p \in Page : p[2] = y /\ p[1] >= x}
             rest == {p \in Page : \/ p[2] > y
                                   \/ p[2] = y /\ p[1] >= x}
  <1>1. /\ x \in 0 .. SCREEN_COLS - 1 /\ y \in 0 .. SCREEN_ROWS - 1
        /\ con.cury = Row(y) /\ x \in Int /\ y \in Int
    BY SoundFields, Values
  <1>2. ASSUME NEW p \in Page
        PROVE  /\ a <= offset(p) /\ offset(p) < con.cury + SCREEN_COLS <=> p \in line
               /\ a <= offset(p) /\ offset(p) < SCREEN_SIZE <=> p \in rest
    <2> DEFINE i == offset(p)
               r == p[2]
               k == p[1]
               o == Row(y)
    <2>1. /\ k \in 0 .. SCREEN_COLS - 1 /\ r \in 0 .. SCREEN_ROWS - 1
          /\ i = Row(r) + k /\ i \in Word /\ i < SCREEN_SIZE
      BY PlaceIs
    <2>2. k \in Int /\ r \in Int /\ i \in Int /\ o \in Int /\ Row(y + 1) = o + SCREEN_COLS
          /\ y + 1 \in Int
      <3>1. k \in Int /\ r \in Int /\ i \in Int /\ y + 1 \in Int
        BY <1>1, <2>1, Values
      <3> HIDE DEF y
      <3>2. o \in Int /\ Row(y + 1) = o + SCREEN_COLS
        BY <1>1, NextRow
      <3> QED
        BY <3>1, <3>2
    <2>3. /\ i < o <=> r < y
          /\ i < o + SCREEN_COLS <=> r < y + 1
      <3>1. i < Row(y) <=> r < y
        BY <1>1, RowOrder
      <3>2. i < Row(y + 1) <=> r < y + 1
        BY <2>2, RowOrder
      <3> QED
        BY <2>2, <3>1, <3>2
    <2>4. r = y => i = o + k
      BY <2>1
    <2>5. a = o + x /\ con.cury = o
      BY <1>1
    <2>6. (p \in line <=> r = y /\ k >= x) /\ (p \in rest <=> r > y \/ (r = y /\ k >= x))
      OBVIOUS
    <2> HIDE DEF x, y, a, line, rest, i, r, k, o
    <2>7. r = y => (a <= i <=> k >= x)
      BY <1>1, <2>2, <2>4, <2>5
    <2>8. r < y => ~(a <= i)
      BY <1>1, <2>2, <2>3, <2>5, Values
    <2>9. r > y => a <= i /\ ~(i < o + SCREEN_COLS)
      <3>1. r > y => ~(i < o + SCREEN_COLS)
        BY <1>1, <2>2, <2>3
      <3> QED
        BY <1>1, <2>2, <2>5, <3>1, Values
    <2>10. r = y => i < o + SCREEN_COLS
      BY <1>1, <2>2, <2>3
    <2>11. r < y \/ r = y \/ r > y
      BY <1>1, <2>2
    <2>12. r = y => ~(r > y) /\ ~(r < y)
      BY <1>1, <2>2
    <2>13. r < y => ~(r > y) /\ ~(r = y)
      BY <1>1, <2>2
    <2>14. /\ a <= i /\ i < con.cury + SCREEN_COLS <=> p \in line
           /\ a <= i /\ i < SCREEN_SIZE <=> p \in rest
      BY <2>1, <2>5, <2>6, <2>7, <2>8, <2>9, <2>10, <2>11, <2>12, <2>13 DEF i
    <2> QED
      BY <2>14 DEF i
  <1>3. \A p \in Page : offset(p) \in Word
    BY PlaceIs
  <1>4. ASSUME con' = console_erase_to_eol(con)
        PROVE  S!EraseToEol
    <2> DEFINE t == Erased(con.display, a, con.cury + SCREEN_COLS, Blank)
    <2>1. Leads(con, con', t, con.bgmap, con.curx, con.cursy)
      BY <1>4, EraseIs
    <2>2. \A p \in Page : t[offset(p)] = IF p \in line THEN Blank ELSE con.display[offset(p)]
      <3> HIDE DEF line, a
      <3> QED
        BY <1>2, <1>3 DEF Erased
    <2>3. line \in SUBSET Page
      OBVIOUS
    <2> HIDE DEF t, line
    <2>4. S!Idle /\ S!Erase(line)
      BY <2>1, <2>2, <2>3, EraseStep
    <2> QED
      BY <2>4 DEF line, S!EraseToEol, Page, S!Place
  <1>5. ASSUME con' = console_erase_to_eos(con)
        PROVE  S!EraseToEos
    <2> DEFINE t == Erased(con.display, a, SCREEN_SIZE, Blank)
    <2>1. Leads(con, con', t, con.bgmap, con.curx, con.cursy)
      BY <1>5, EraseIs
    <2>2. \A p \in Page : t[offset(p)] = IF p \in rest THEN Blank ELSE con.display[offset(p)]
      <3> HIDE DEF rest, a
      <3> QED
        BY <1>2, <1>3 DEF Erased
    <2>3. rest \in SUBSET Page
      OBVIOUS
    <2> HIDE DEF t, rest
    <2>4. S!Idle /\ S!Erase(rest)
      BY <2>1, <2>2, <2>3, EraseStep
    <2> QED
      BY <2>4 DEF rest, S!EraseToEos, Page, S!Place
  <1> QED
    BY <1>4, <1>5

LEMMA ClearForegroundStep ==
    ASSUME con \in Sound, Idling, con' = console_clear_foreground(con)
    PROVE  S!ClearForeground
  <1> DEFINE marked == {p \in Page : con.bgmap[offset(p)] = 1}
             places == Page \ marked
  <1>1. Leads(con, con', Unwritten(con), con.bgmap, con.curx, con.cursy)
    BY ClearForegroundIs
  <1>2. \A p \in Page : offset(p) \in Word /\ offset(p) < SCREEN_SIZE
    BY PlaceIs
  <1>3. \A p \in Page : con.bgmap[offset(p)] \in {0, 1}
    <2>1. con.bgmap \in Memory(Bits(con.bg_flag))
      BY SoundFields
    <2> QED
      BY <1>2, <2>1 DEF Memory, Bits
  <1>4. \A p \in Page : Unwritten(con)[offset(p)] = IF p \in places THEN Blank
                                                    ELSE con.display[offset(p)]
    BY <1>2, <1>3 DEF Unwritten
  <1>5. places \in SUBSET Page
    OBVIOUS
  <1> HIDE DEF places
  <1>6. S!Idle /\ S!Erase(places)
    BY <1>1, <1>4, <1>5, EraseStep
  <1> QED
    BY <1>6 DEF places, S!ClearForeground, Page, S!Place

\* A page of one byte.
LEMMA WholePage ==
    ASSUME NEW mem, NEW byte
    PROVE  \A p \in Page : Erased(mem, 0, SCREEN_SIZE, byte)[offset(p)] = byte
  <1>1. \A p \in Page : offset(p) \in Word /\ 0 <= offset(p) /\ offset(p) < SCREEN_SIZE
    BY PlaceIs, Values
  <1> QED
    BY <1>1 DEF Erased

LEMMA ClearScreenStep ==
    ASSUME con \in Sound, Idling, con' = console_clear_screen(con)
    PROVE  S!ClearScreen
  <1>1. /\ con'.display = Erased(con.display, 0, SCREEN_SIZE, Blank)
        /\ con'.bgmap = Erased(con.bgmap, 0, SCREEN_SIZE, 0)
        /\ con'.curx = 0 /\ con'.cursy = 0 /\ con'.bg_flag = con.bg_flag
    BY ClearScreenIs DEF Leads
  <1>2. Page = S!Place
    BY DEF Page, S!Place
  <1>3. [p \in Page |-> con'.display[offset(p)]] = [p \in Page |-> Blank]
    BY <1>1, WholePage
  <1>4. {p \in Page : con'.bgmap[offset(p)] = 1} = {}
    <2>1. \A p \in Page : con'.bgmap[offset(p)] = 0
      BY <1>1, WholePage
    <2> QED
      BY <2>1
  <1>5. S!Idle
    BY SameIdle
  <1> QED
    BY <1>1, <1>2, <1>3, <1>4, <1>5 DEF S!ClearScreen

LEMMA ModeSteps ==
    ASSUME con \in Sound, Idling
    PROVE  /\ con' = console_enter_background(con) => S!Background
           /\ con' = console_enter_foreground(con) => S!Foreground
  <1>1. S!Idle
    BY SameIdle
  <1>2. ASSUME con' = console_enter_background(con)
        PROVE  S!Background
    <2>1. /\ con'.bgmap = Erased(con.bgmap, 0, SCREEN_SIZE, 0) /\ con'.bg_flag = "background"
          /\ con'.display = con.display /\ con'.curx = con.curx /\ con'.cursy = con.cursy
      BY <1>2, BackgroundIs
    <2>2. {p \in Page : con'.bgmap[offset(p)] = 1} = {}
      <3>1. \A p \in Page : con'.bgmap[offset(p)] = 0
        BY <2>1, WholePage
      <3> QED
        BY <3>1
    <2> QED
      BY <1>1, <2>1, <2>2 DEF S!Background
  <1>3. ASSUME con' = console_enter_foreground(con)
        PROVE  S!Foreground
    <2>1. /\ con'.bgmap = con.bgmap /\ con'.bg_flag = "foreground"
          /\ con'.display = con.display /\ con'.curx = con.curx /\ con'.cursy = con.cursy
      BY <1>3, ForegroundIs
    <2> QED
      BY <1>1, <2>1 DEF S!Foreground
  <1> QED
    BY <1>2, <1>3

LEMMA BeginStep ==
    ASSUME con \in Sound, con.xflg = "normal", con' = [con EXCEPT !.xflg = "byte1"]
    PROVE  S!Begin
  <1>1. /\ con'.xflg = "byte1" /\ con'.display = con.display /\ con'.bgmap = con.bgmap
        /\ con'.bg_flag = con.bg_flag /\ con'.curx = con.curx /\ con'.cursy = con.cursy
    BY BeginIs
  <1> QED
    BY <1>1 DEF S!Begin, S!None

LEMMA CoordinateStep ==
    ASSUME con \in Sound, NEW ch \in XyByte, con.xflg # "normal", con' = process_xy(con, ch)
    PROVE  S!Coordinate
  <1> DEFINE n == coord(ch)
  <1>0. ch \in Byte
    BY ConsoleAssumption DEF Byte
  <1>1. n \in {coord(c) : c \in XyByte} /\ con.adrmod \in {0, 1}
        /\ con.adr0 \in 0 .. 255
    BY SoundFields
  <1> HIDE DEF n
  <1>2. CASE con.xflg = "byte1"
    <2>1. /\ con'.xflg = "byte2" /\ con'.adr0 = coord(ch)
          /\ con'.display = con.display /\ con'.bgmap = con.bgmap /\ con'.bg_flag = con.bg_flag
          /\ con'.curx = con.curx /\ con'.cursy = con.cursy
      BY ONLY con \in Sound, con' = process_xy(con, ch), <1>0, <1>2, FirstByteIs
    <2>2. con'.adr0 = n
      BY <2>1 DEF n
    <2> QED
      BY <1>1, <1>2, <2>1, <2>2 DEF S!Coordinate, S!None
  <1>3. CASE con.xflg = "byte2"
    <2>0. /\ con'.xflg = "normal"
          /\ con'.curx = (IF con.adrmod = 0 THEN con.adr0 ELSE coord(ch)) % SCREEN_COLS
          /\ con'.cursy = (IF con.adrmod = 0 THEN coord(ch) ELSE con.adr0) % SCREEN_ROWS
          /\ con'.display = con.display /\ con'.bgmap = con.bgmap /\ con'.bg_flag = con.bg_flag
      BY ONLY con \in Sound, con' = process_xy(con, ch), <1>0, <1>3, SecondByteIs
    <2>1. /\ con'.xflg = "normal"
          /\ con'.curx = (IF con.adrmod = 0 THEN con.adr0 ELSE n) % SCREEN_COLS
          /\ con'.cursy = (IF con.adrmod = 0 THEN n ELSE con.adr0) % SCREEN_ROWS
          /\ con'.display = con.display /\ con'.bgmap = con.bgmap /\ con'.bg_flag = con.bg_flag
      BY <2>0 DEF n
    <2>2. <<con.adr0>> # << >> /\ <<con.adr0>> # <<-1>> /\ <<con.adr0>>[1] = con.adr0
      BY <1>1
    <2>3. <<con'.curx, con'.cursy>> =
            IF con.adrmod = 1 THEN <<n % SCREEN_COLS, con.adr0 % SCREEN_ROWS>>
            ELSE <<con.adr0 % SCREEN_COLS, n % SCREEN_ROWS>>
      <3>1. CASE con.adrmod = 0
        BY <2>1, <3>1
      <3>2. CASE con.adrmod = 1
        BY <2>1, <3>2
      <3> QED
        BY <1>1, <3>1, <3>2
    <2> QED
      BY <1>1, <1>3, <2>1, <2>2, <2>3 DEF S!Coordinate, S!None
  <1> QED
    BY <1>2, <1>3, SoundFields

-----------------------------------------------------------------------------
(***************************************************************************)
(* The refinement.                                                         *)
(***************************************************************************)
\* What no control character but the first of an address changes.
LEMMA Keeps ==
    ASSUME con \in Sound, con.xflg = "normal",
           \/ con' = console_insert_line(con) \/ con' = console_delete_line(con)
           \/ con' = console_cursor_left(con) \/ con' = console_cursor_up(con)
           \/ con' = console_home(con) \/ con' = console_carriage_return(con)
           \/ con' = console_tab(con) \/ con' = console_cursor_right(con)
           \/ con' = console_linefeed(con)
           \/ con' = console_clear_screen(con) \/ con' = console_clear_foreground(con)
           \/ con' = console_erase_to_eol(con) \/ con' = console_erase_to_eos(con)
           \/ con' = console_enter_background(con) \/ con' = console_enter_foreground(con)
    PROVE  Idling /\ con'.adrmod = con.adrmod
  <1> DEFINE Same == con'.xflg = con.xflg /\ con'.adrmod = con.adrmod
  <1>1. \/ con' = console_insert_line(con) \/ con' = console_delete_line(con)
        \/ con' = console_cursor_left(con) \/ con' = console_cursor_up(con)
        \/ con' = console_home(con) \/ con' = console_carriage_return(con)
        => Same
    BY InsertLineIs, DeleteLineIs, LeftIs, UpIs, HomeIs DEF Leads
  <1>2. con' = console_tab(con) \/ con' = console_cursor_right(con) => Same
    BY TabIs DEF Advances, Leads
  <1>3. con' = console_linefeed(con) => Same
    BY LinefeedIs DEF Leads
  <1>4. /\ con' = console_clear_screen(con) => Same
        /\ con' = console_clear_foreground(con) => Same
        /\ con' = console_erase_to_eol(con) => Same
        /\ con' = console_erase_to_eos(con) => Same
    <2>1. con' = console_clear_screen(con) => Same
      BY ClearScreenIs DEF Leads
    <2>2. con' = console_clear_foreground(con) => Same
      BY ClearForegroundIs DEF Leads
    <2>3. con' = console_erase_to_eol(con) => Same
      BY EraseIs DEF Leads
    <2>4. con' = console_erase_to_eos(con) => Same
      BY EraseIs DEF Leads
    <2> QED
      BY <2>1, <2>2, <2>3, <2>4
  <1>5. con' = console_enter_background(con) \/ con' = console_enter_foreground(con) => Same
    BY BackgroundIs, ForegroundIs
  <1> HIDE DEF Same
  <1>6. Same
    BY <1>1, <1>2, <1>3, <1>4, <1>5
  <1> QED
    BY <1>6 DEF Same, Idling

LEMMA MovingSteps ==
    ASSUME con \in Sound, con.xflg = "normal",
           \/ con' = console_cursor_left(con) \/ con' = console_cursor_up(con)
           \/ con' = console_home(con) \/ con' = console_carriage_return(con)
           \/ con' = console_tab(con) \/ con' = console_cursor_right(con)
           \/ con' = console_linefeed(con)
           \/ con' = console_insert_line(con) \/ con' = console_delete_line(con)
    PROVE  S!Next /\ con'.adrmod = con.adrmod
  <1>1. Idling /\ con'.adrmod = con.adrmod
    BY Keeps
  <1>2. \/ S!Left \/ S!Up \/ S!Home \/ S!CarriageReturn \/ S!Tab \/ S!Right
        \/ S!LineFeed \/ S!InsertLine \/ S!DeleteLine
    BY <1>1, LeftStep, UpStep, HomeSteps, RightSteps, LinefeedStep, LineSteps
  <1> QED
    BY <1>1, <1>2 DEF S!Next

LEMMA ErasingSteps ==
    ASSUME con \in Sound, con.xflg = "normal",
           \/ con' = console_clear_screen(con) \/ con' = console_clear_foreground(con)
           \/ con' = console_erase_to_eol(con) \/ con' = console_erase_to_eos(con)
           \/ con' = console_enter_background(con) \/ con' = console_enter_foreground(con)
    PROVE  S!Next /\ con'.adrmod = con.adrmod
  <1>1. Idling /\ con'.adrmod = con.adrmod
    BY Keeps
  <1>2. \/ S!ClearScreen \/ S!ClearForeground \/ S!EraseToEol \/ S!EraseToEos
        \/ S!Background \/ S!Foreground
    BY <1>1, ClearScreenStep, ClearForegroundStep, EraseSteps, ModeSteps
  <1> QED
    BY <1>1, <1>2 DEF S!Next

LEMMA ControlStep ==
    ASSUME con \in Sound, Control
    PROVE  \/ S!Next /\ con'.adrmod = con.adrmod
           \/ UNCHANGED con
  <1>1. CASE con.xflg = "normal" /\ con' = [con EXCEPT !.xflg = "byte1"]
    <2>1. S!Begin
      BY <1>1, BeginStep
    <2>2. con'.adrmod = con.adrmod
      BY <1>1, BeginIs
    <2> QED
      BY <2>1, <2>2 DEF S!Next
  <1>2. CASE UNCHANGED con
    BY <1>2
  <1> QED
    BY <1>1, <1>2, MovingSteps, ErasingSteps DEF Control, Does

LEMMA PrintableStep ==
    ASSUME con \in Sound, Printable
    PROVE  S!Next /\ con'.adrmod = con.adrmod
  <1>1. PICK ch \in Char : con' = put_printable(con, ch) /\ con.xflg = "normal"
    BY DEF Printable, Does
  <1>2. Idling
    <2> DEFINE d == Struck(con, ch)
    <2>1. d \in Sound /\ con' = console_cursor_right(d) /\ d.xflg = con.xflg
      BY <1>1, StruckIs DEF Leads
    <2> HIDE DEF d
    <2>2. Advances(d, con', 1)
      BY <2>1, TabIs
    <2>3. con'.xflg = d.xflg
      BY <2>2 DEF Advances, Leads
    <2> QED
      BY <1>1, <2>1, <2>3 DEF Idling
  <1>3. S!Show(ch) /\ con'.adrmod = con.adrmod
    BY <1>1, <1>2, ShowStep
  <1> QED
    BY <1>3 DEF S!Next

LEMMA AddressStep ==
    ASSUME con \in Sound, Coordinate
    PROVE  S!Next /\ con'.adrmod = con.adrmod
  <1>1. PICK ch \in XyByte : con' = process_xy(con, ch) /\ con.xflg # "normal"
    BY DEF Coordinate
  <1>2. ch \in Byte /\ con.xflg \in {"byte1", "byte2"}
    BY <1>1, ConsoleAssumption, SoundFields DEF Byte
  <1>3. con'.adrmod = con.adrmod
    <2>1. CASE con.xflg = "byte1"
      BY ONLY con \in Sound, <1>1, <1>2, <2>1, FirstByteIs
    <2>2. CASE con.xflg = "byte2"
      BY ONLY con \in Sound, <1>1, <1>2, <2>2, SecondByteIs
    <2> QED
      BY <1>2, <2>1, <2>2
  <1>4. S!Coordinate
    BY <1>1, CoordinateStep
  <1> QED
    BY <1>3, <1>4 DEF S!Next

LEMMA ScreenStep ==
    ASSUME con \in Sound, [Next]_con
    PROVE  [S!Next /\ UNCHANGED (con.adrmod = 1)]_(S!vars)
  <1>1. CASE UNCHANGED con
    BY <1>1 DEF S!vars
  <1>2. CASE S!Next /\ con'.adrmod = con.adrmod
    BY <1>2
  <1> QED
    BY <1>1, <1>2, ControlStep, PrintableStep, AddressStep DEF Next, Bell

LEMMA ScreenInit ==
    ASSUME Init
    PROVE  S!Init
  <1>1. PICK m \in Adrmod : con = [console_init EXCEPT !.adrmod = m]
    BY DEF Init
  <1>2. con = [display |-> memory(Blank), bgmap |-> memory(0), bg_flag |-> "off",
               curx |-> 0, cursy |-> 0, cury |-> 0,
               xflg |-> "normal", adr0 |-> 0, adrmod |-> m]
    BY <1>1 DEF console_init
  <1>3. \A p \in Page : offset(p) \in Word /\ offset(p) < SCREEN_SIZE
    BY PlaceIs
  <1>4. [p \in Page |-> con.display[offset(p)]] = [p \in Page |-> Blank]
    BY <1>2, <1>3 DEF memory
  <1>5. {p \in Page : con.bgmap[offset(p)] = 1} = {}
    <2>1. \A p \in Page : con.bgmap[offset(p)] = 0
      BY <1>2, <1>3 DEF memory
    <2> QED
      BY <2>1
  <1>6. Page = S!Place
    BY DEF Page, S!Place
  <1>7. /\ con.curx = 0 /\ con.cursy = 0 /\ con.bg_flag = "off" /\ con.xflg = "normal"
        /\ (con.adrmod = 1) \in BOOLEAN
    BY <1>2
  <1> QED
    BY <1>4, <1>5, <1>6, <1>7 DEF S!Init, S!None

\* Every character does to the page what its line of the dispatch table
\* promises, for a page of any size.
THEOREM Refinement == Spec => ImplementsScreen
  <1>1. Init => S!Init
    BY ScreenInit
  <1>2. IInv /\ [Next]_con => [S!Next /\ UNCHANGED (con.adrmod = 1)]_(S!vars)
    BY SoundMeans, ScreenStep
  <1> QED
    BY <1>1, <1>2, Invariance, PTL DEF Spec, ImplementsScreen, S!Spec
=============================================================================
